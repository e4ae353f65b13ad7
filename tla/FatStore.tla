------------------------------ MODULE FatStore ------------------------------
(***************************************************************************)
(* Module Fat implements FileStore (FatRefinement), for every volume and   *)
(* every set of paths on which nothing runs out.                           *)
(*                                                                         *)
(* The invariant is StoreInv.  It joins what FatFiles says of the disk to  *)
(* what keeps a file where its path leads: directories filled from the     *)
(* front (Packed), so that no lookup ends at another slot later; a way of  *)
(* directories along every path, which no step leaves (AllThere); where    *)
(* the walk in progress is on it (Tracked), and what the handle of fatOpen *)
(* stands for (HandleInv).                                                 *)
(***************************************************************************)
EXTENDS FatFiles

USE DEF Addr, Slots, DirSlots, Window, Clusters, FatValue

(***************************************************************************)
(* Loops                                                                   *)
(***************************************************************************)

Less == OpToRel(<, Nat)

LEMMA LessIs == \A m, n \in Nat : <<m, n>> \in Less <=> m < n
BY DEF Less, OpToRel

LEMMA LessWellFounded == IsWellFoundedOn(Less, Nat)
BY NatLessThanWellFounded DEF Less

\* Induction, over the numbers of which something holds.
LEMMA SetInduction ==
  ASSUME NEW T, 0 \in T, \A n \in Nat : n \in T => n + 1 \in T
  PROVE  Nat \subseteq T
<1> SUFFICES ASSUME Nat \ T # {} PROVE FALSE  OBVIOUS
<1>1. PICK x \in Nat \ T : \A y \in Nat \ T : ~ (<<y, x>> \in Less)
  <2>1. Nat \ T \subseteq Nat  OBVIOUS
  <2> QED  BY <2>1, LessWellFounded, WFMin
<1>2. x # 0 /\ x - 1 \in Nat /\ x - 1 < x  BY <1>1
<1>3. x - 1 \in T  BY <1>1, <1>2, LessIs
<1> QED  BY <1>1, <1>2, <1>3

\* What a loop of n rounds has computed after each of them.
Runs(n, V, base, step) ==
  {f \in [0..n -> V] : f[0] = base /\ \A k \in 1..n : f[k] = step[k][f[k - 1]]}

\* A loop of n rounds has a result after each, if every round is defined.
LEMMA LoopExists ==
  ASSUME NEW n \in Nat, NEW V, NEW base \in V, NEW step \in [1..n -> [V -> V]]
  PROVE  Runs(n, V, base, step) # {}
<1> DEFINE Rounds(m, f) == \A k \in 0..m : f[k] = IF k = 0 THEN base ELSE step[k][f[k - 1]]
           T == {m \in Nat : m <= n => \E f \in [0..m -> V] : Rounds(m, f)}
<1>1. 0 \in T
  <2> DEFINE f == [k \in 0..0 |-> base]
  <2>1. f \in [0..0 -> V] /\ Rounds(0, f)  OBVIOUS
  <2> QED  BY <2>1
<1>2. ASSUME NEW m \in Nat, m \in T PROVE m + 1 \in T
  <2> SUFFICES ASSUME m + 1 <= n
               PROVE  \E f \in [0..(m + 1) -> V] : Rounds(m + 1, f)
    BY <1>2
  <2>1. PICK f \in [0..m -> V] : Rounds(m, f)  BY <1>2
  <2> DEFINE next == step[m + 1][f[m]]
             g == [k \in 0..(m + 1) |-> IF k = m + 1 THEN next ELSE f[k]]
  <2>2. m + 1 \in 1..n /\ f[m] \in V  BY <2>1
  <2>3. next \in V  BY <2>2
  <2> HIDE DEF next
  <2>4. g \in [0..(m + 1) -> V]  BY <2>1, <2>3
  <2>5. ASSUME NEW k \in 0..(m + 1)
        PROVE  g[k] = IF k = 0 THEN base ELSE step[k][g[k - 1]]
    <3>1. CASE k = m + 1
      <4>1. k # 0 /\ k - 1 = m /\ m \in 0..(m + 1) /\ m # m + 1  BY <3>1
      <4>2. g[m] = f[m]  BY <4>1
      <4> QED  BY <3>1, <4>1, <4>2 DEF next
    <3>2. CASE k # m + 1
      <4>1. k \in 0..m  BY <3>2
      <4>2. k # 0 => k - 1 \in 0..m /\ k - 1 # m + 1  BY <4>1
      <4>3. g[k] = f[k] /\ (k # 0 => g[k - 1] = f[k - 1])  BY <3>2, <4>1, <4>2
      <4> QED  BY <2>1, <4>1, <4>3
    <3> QED  BY <3>1, <3>2
  <2> QED  BY <2>4, <2>5
<1> HIDE DEF T
<1>3. n \in T  BY <1>1, <1>2, SetInduction
<1>4. PICK f \in [0..n -> V] : Rounds(n, f)  BY <1>3 DEF T
<1> QED  BY <1>4 DEF Runs

\* What holds before a loop and after each round holds at its end.
LEMMA LoopKeeps ==
  ASSUME NEW n \in Nat, NEW T, 0 \in T, \A k \in 1..n : k - 1 \in T => k \in T
  PROVE  0..n \subseteq T
<1> DEFINE S == {k \in Nat : k <= n => k \in T}
<1>1. 0 \in S  OBVIOUS
<1>2. ASSUME NEW k \in Nat, k \in S PROVE k + 1 \in S
  <2>1. k + 1 <= n => k + 1 \in 1..n /\ (k + 1) - 1 = k  OBVIOUS
  <2> QED  BY <1>2, <2>1
<1> HIDE DEF S
<1>3. Nat \subseteq S  BY <1>1, <1>2, SetInduction
<1> QED  BY <1>3 DEF S

(***************************************************************************)
(* Directories filled from the front                                       *)
(***************************************************************************)

\* What fatWrite leaves where a directory is searched: the units of the cluster it
\* writes are no entries, and of the others only a size changes.
LEMMA WrittenSlots ==
  ASSUME TypeInv, OwnershipInv, OpenInv, TidyInv, HeldInv, WriteSingle,
         NEW c \in Clusters \ {1}, NEW s \in DirSlots, Copied(c, s),
         NEW a, a = DirBase(c) + s
  PROVE  IF c = cluster THEN ~Used(disk'[a]) ELSE Resized(disk[a], disk'[a])
<1>1. PICK s0 \in Firsts(disk, fp) :
           LET b0 == DirBase(fp.parent) + s0
           IN  /\ b0 \in Kept /\ disk[b0] = fp.rde
               /\ disk'[b0] = [fp.rde EXCEPT !.size = text.len]
               /\ \A k \in Kept \ {b0} :
                    IF k - ClusterBase(cluster) \in DirSlots
                    THEN disk'[k] = Zero \/ disk'[k].kind = "text"
                    ELSE disk'[k] = disk[k]
  BY FileWritten
<1> DEFINE b0 == DirBase(fp.parent) + s0
<1>2. /\ fp \in File /\ IsFile(fp.rde) /\ cluster \in Clusters /\ cluster >= 2
      /\ Bare(disk, cluster) /\ fp.parent \in Clusters
  BY WriteHandle
<1>3. a \in Kept /\ s0 \in DirSlots  BY ShownKept, Sizes, SizeAssumption DEF Firsts
<1>4. b0 - ClusterBase(cluster) \notin DirSlots  BY ParentApart, <1>3
<1>5. fp.rde.name # <<>>
  BY <1>2 DEF OpenInv, FirstInv, FileHandle, OwnEntry, WriteSingle, IsFile
<1>6. CASE c = cluster
  <2>1. a - ClusterBase(cluster) = s /\ a = ClusterBase(cluster) + s
    BY <1>6, <1>2, BaseOfCluster, ClusterOnDisk
  <2>2. a # b0  BY <2>1, <1>4
  <2> QED  BY <1>1, <1>3, <1>6, <2>1, <2>2 DEF Used, Zero
<1>7. CASE c # cluster
  <2>1. a - ClusterBase(cluster) \notin DirSlots
    <3>1. CASE c = 0
      BY <3>1, <1>2, BaseOfCluster, ClusterOnDisk, Sizes, SizeAssumption DEF DirBase
    <3>2. CASE c # 0  BY <3>2, <1>2, <1>7, ClustersApart
    <3> QED  BY <3>1, <3>2
  <2>2. CASE a = b0  BY <2>2, <1>1, <1>2, <1>5, <1>7 DEF Resized, IsFile
  <2>3. CASE a # b0  BY <2>3, <2>1, <1>1, <1>3, <1>7 DEF Resized
  <2> QED  BY <2>2, <2>3
<1> QED  BY <1>6, <1>7

LEMMA SlotAddress ==
  ASSUME NEW c \in Clusters, NEW s \in DirSlots
  PROVE  /\ c = 0 => DirBase(c) + s = s - RootSize /\ DirBase(c) + s <= 0
         /\ c >= 2 => DirBase(c) + s = ClusterBase(c) + s /\ DirBase(c) + s >= 1
         /\ DirBase(c) + s \in Addr
BY BaseOfCluster, ClusterOnDisk, Sizes, SizeAssumption DEF DirBase

LEMMA SameSlot ==
  ASSUME NEW c \in Clusters \ {1}, NEW k \in Clusters \ {1}, NEW s \in DirSlots, NEW y \in DirSlots,
         DirBase(c) + s = DirBase(k) + y
  PROVE  c = k /\ s = y
<1>1. CASE c = 0 \/ k = 0
  <2>1. c = 0 /\ k = 0  BY <1>1, SlotAddress, Sizes
  <2> QED  BY <2>1, SlotAddress, Sizes
<1>2. CASE c >= 2 /\ k >= 2
  <2>1. (DirBase(c) + s) - ClusterBase(k) = y  BY <1>2, SlotAddress, ClusterOnDisk
  <2>2. c = k  BY <2>1, <1>2, ClustersApart
  <2> QED  BY <2>2, ClusterOnDisk
<1> QED  BY <1>1, <1>2, Sizes

\* An entry put in the first slot that is free leaves none free before it.
LEMMA PutPacked ==
  ASSUME Packed(disk), NEW a0, NEW u, u.kind = "entry", u.name # <<>>, disk'[a0] = u,
         \A a \in Addr \ {a0} : disk'[a] = disk[a],
         \A c \in Clusters \ {1}, s \in DirSlots :
           DirBase(c) + s = a0 =>
             \A y \in DirSlots : y < s => ~FreeSlot(disk[DirBase(c) + y])
  PROVE  Packed(disk')
<1> SUFFICES ASSUME NEW c \in Clusters \ {1}, NEW x \in DirSlots, NEW s \in DirSlots,
                    x < s, c = 0 => s <= RootRead, FreeSlot(disk'[DirBase(c) + x])
             PROVE  ~Used(disk'[DirBase(c) + s])
  BY DEF Packed
<1>1. DirBase(c) + x \in Addr /\ DirBase(c) + s \in Addr /\ DirBase(c) + x # a0
  BY SlotAddress DEF FreeSlot
<1>2. FreeSlot(disk[DirBase(c) + x])  BY <1>1
<1>3. DirBase(c) + s # a0  BY <1>2
<1> QED  BY <1>1, <1>2, <1>3 DEF Packed

LEMMA WrittenPacked ==
  ASSUME TypeInv, OwnershipInv, OpenInv, TidyInv, HeldInv, WriteSingle, Packed(disk)
  PROVE  Packed(disk')
<1> SUFFICES ASSUME NEW c \in Clusters \ {1}, NEW x \in DirSlots, NEW s \in DirSlots,
                    x < s, c = 0 => s <= RootRead, FreeSlot(disk'[DirBase(c) + x])
             PROVE  ~Used(disk'[DirBase(c) + s])
  BY DEF Packed
<1>1. Copied(c, x) /\ Copied(c, s)  BY Sizes DEF Copied
<1>2. CASE c = cluster  BY <1>2, <1>1, WrittenSlots
<1>3. CASE c # cluster
  <2>1. /\ Resized(disk[DirBase(c) + x], disk'[DirBase(c) + x])
        /\ Resized(disk[DirBase(c) + s], disk'[DirBase(c) + s])
    BY <1>3, <1>1, WrittenSlots
  <2>2. disk[DirBase(c) + x] \in Unit /\ disk[DirBase(c) + s] \in Unit
    BY SlotAddress DEF TypeInv, TypeOK
  <2>3. Used(disk'[DirBase(c) + s]) <=> Used(disk[DirBase(c) + s])
    BY <2>1, <2>2, ResizedKind
  <2>4. Used(disk[DirBase(c) + x]) <=> Used(disk'[DirBase(c) + x])
    BY <2>1, <2>2, ResizedKind
  <2>5. FreeSlot(disk[DirBase(c) + x])  BY <2>1, <2>4 DEF Resized, Used, FreeSlot
  <2> QED  BY <2>3, <2>5, <1>1 DEF Packed
<1> QED  BY <1>2, <1>3

\* The slot of the root directory that fatCreate fills.
LEMMA RootPut ==
  ASSUME TypeInv, OwnershipInv, NEW p \in Path, p.names[1] # <<>>, NEW isDir \in BOOLEAN,
         fatCreateRoot(p, isDir)
  PROVE  \/ UNCHANGED <<disk, fat>> /\ (pc' = "fault" \/ ret' = 1)
         \/ \E s \in Slots :
              /\ PutEntry(s - RootSize, StoredName(p), isDir)
              /\ \A y \in Slots : y < s => ~FreeSlot(disk[y - RootSize])
                                      /\ ~RootMatch(disk[y - RootSize], p.names[1])
<1>1. ASSUME NEW s \in PlaceInRoot(LoadRoot(disk), p.names[1])
      PROVE  /\ s \in Slots
             /\ \A y \in Slots : y < s => ~FreeSlot(disk[y - RootSize])
                                     /\ ~RootMatch(disk[y - RootSize], p.names[1])
  <2>1. /\ s \in Slots
        /\ \A y \in Slots :
             (FreeSlot(LoadRoot(disk)[y]) \/ RootMatch(LoadRoot(disk)[y], p.names[1])) => s <= y
    BY DEF PlaceInRoot, Scan
  <2>2. ASSUME NEW y \in Slots, y < s
        PROVE  ~FreeSlot(disk[y - RootSize]) /\ ~RootMatch(disk[y - RootSize], p.names[1])
    <3>1. ~ (s <= y)  BY <2>1, <2>2, Sizes
    <3>2. LoadRoot(disk)[y] = disk[y - RootSize]  BY DEF LoadRoot
    <3> QED  BY <2>1, <3>1, <3>2
  <2> QED  BY <2>1, <2>2
<1> QED  BY <1>1, CreateRootDisk

\* And that of a directory.
LEMMA DirPut ==
  ASSUME TypeInv, OwnershipInv, dir >= 2, fatCreateStep
  PROVE  \/ UNCHANGED <<disk, fat>> /\ (pc' = "walk" \/ ret' # 0)
         \/ /\ depth = subDirectIndex(path)
            /\ \E s \in DirSlots :
                 /\ PutEntry(DirBase(dir) + s, StoredName(path), isDirectory)
                 /\ \A y \in DirSlots : y < s =>
                      /\ ~FreeSlot(disk[DirBase(dir) + y])
                      /\ ~DirMatch(disk[DirBase(dir) + y], path.names[depth])
<1> DEFINE entries == readFromCluster(disk, dir, dataEntries)
           n == path.names[depth]
<1>1. dir # 0 /\ \A y \in DirSlots : entries[y] = disk[DirBase(dir) + y]
  BY DEF readFromCluster
<1> HIDE DEF entries, n
<1>2. ASSUME NEW s \in PlaceInDir(entries, n),
             PutEntry(DirBase(dir) + s, StoredName(path), isDirectory)
      PROVE  \E x \in DirSlots :
               /\ PutEntry(DirBase(dir) + x, StoredName(path), isDirectory)
               /\ \A y \in DirSlots : y < x =>
                    ~FreeSlot(disk[DirBase(dir) + y]) /\ ~DirMatch(disk[DirBase(dir) + y], n)
  <2>1. /\ s \in DirSlots
        /\ \A x \in DirSlots : (FreeSlot(entries[x]) \/ DirMatch(entries[x], n)) => s <= x
    BY DEF PlaceInDir, Scan
  <2>2. ASSUME NEW y \in DirSlots, y < s
        PROVE  ~FreeSlot(disk[DirBase(dir) + y]) /\ ~DirMatch(disk[DirBase(dir) + y], n)
    <3>1. ~ (s <= y)  BY <2>1, <2>2, Sizes
    <3> QED  BY <1>1, <2>1, <3>1
  <2> QED  BY <1>2, <2>1, <2>2
<1> QED  BY <1>2, CreateStepDisk DEF entries, n

LEMMA PackedStep ==
  ASSUME Named', TypeInv, FilesInv, Orderly, Packed(disk), [AnyNext]_vars
  PROVE  Packed(disk')
<1> USE DEF FilesInv
<1>1. CASE UNCHANGED <<disk, fat>>  BY <1>1
<1>2. ASSUME NEW p \in Path, NEW isDir \in BOOLEAN, fatCreateRoot(p, isDir)
      PROVE  Packed(disk')
  <2>1. Len(p.names) = 1 /\ p.names[1] # <<>> /\ path' = p /\ op' = "fatCreate"
    BY <1>2 DEF fatCreateRoot, Begin, Named
  <2>2. StoredName(p) # <<>>
    <3> HIDE DEF StoredName
    <3>1. Named' => (op' = "fatCreate" => StoredName(path') # <<>>)  BY DEF Named, StoredName
    <3> QED  BY <2>1, <3>1
  <2>3. ASSUME NEW s \in Slots, PutEntry(s - RootSize, StoredName(p), isDir),
               \A y \in Slots : y < s => ~FreeSlot(disk[y - RootSize])
        PROVE  Packed(disk')
    <3>1. PICK k : disk'[s - RootSize] = NewEntry(StoredName(p), isDir, k)
      BY <2>3 DEF PutEntry
    <3>2. \A a \in Addr \ {s - RootSize} : disk'[a] = disk[a]  BY <2>3 DEF PutEntry
    <3>3. ASSUME NEW c \in Clusters \ {1}, NEW x \in DirSlots, DirBase(c) + x = s - RootSize,
                 NEW y \in DirSlots, y < x
          PROVE  ~FreeSlot(disk[DirBase(c) + y])
      <4>1. c = 0 /\ x = s  BY <3>3, SlotAddress, Sizes
      <4>2. y \in Slots /\ y < s /\ DirBase(c) + y = y - RootSize
        BY <3>3, <4>1, SlotAddress, Sizes, SizeAssumption
      <4> QED  BY <2>3, <4>2
    <3> HIDE DEF NewEntry
    <3>4. NewEntry(StoredName(p), isDir, k).kind = "entry"
          /\ NewEntry(StoredName(p), isDir, k).name = StoredName(p)
      BY DEF NewEntry
    <3> QED  BY <2>2, <3>1, <3>2, <3>3, <3>4, PutPacked
  <2> QED  BY <1>1, <1>2, <2>1, <2>3, RootPut
<1>3. CASE fatCreateStep
  <2> DEFINE n == StoredName(path)
  <2>1. dir >= 2 /\ dir \in Clusters \ {1}
    BY <1>3, Sizes DEF fatCreateStep, Orderly, TypeInv, TypeOK
  <2>2. n # <<>>
    <3>1. op' = "fatCreate" /\ path' = path  BY <1>3 DEF fatCreateStep, args
    <3> QED  BY <3>1 DEF Named, StoredName, NewName
  <2> HIDE DEF n
  <2>3. ASSUME n # <<>>, NEW s \in DirSlots, PutEntry(DirBase(dir) + s, n, isDirectory),
               \A y \in DirSlots : y < s => ~FreeSlot(disk[DirBase(dir) + y])
        PROVE  Packed(disk')
    <3>1. PICK k : disk'[DirBase(dir) + s] = NewEntry(n, isDirectory, k)
      BY <2>3 DEF PutEntry
    <3>2. \A a \in Addr \ {DirBase(dir) + s} : disk'[a] = disk[a]  BY <2>3 DEF PutEntry
    <3>3. ASSUME NEW c \in Clusters \ {1}, NEW x \in DirSlots, DirBase(c) + x = DirBase(dir) + s,
                 NEW y \in DirSlots, y < x
          PROVE  ~FreeSlot(disk[DirBase(c) + y])
      BY <2>1, <2>3, <3>3, SameSlot
    <3>4. NewEntry(n, isDirectory, k).kind = "entry" /\ NewEntry(n, isDirectory, k).name = n
      BY DEF NewEntry
    <3> QED  BY <2>3, <3>1, <3>2, <3>3, <3>4, PutPacked
  <2> QED  BY <1>1, <1>3, <2>1, <2>2, <2>3, DirPut DEF n
<1>4. CASE WriteSingle  BY <1>4, WrittenPacked
<1>5. SingleWrites  BY OrderlySingle
<1> QED  BY <1>1, <1>2, <1>3, <1>4, <1>5, StoresNothing

(***************************************************************************)
(* The walks of fatOpen and fatCreate                                      *)
(***************************************************************************)

Entries(d, c) == [s \in DirSlots |-> d[DirBase(c) + s]]

\* What a step of the file system does, as far as the walks and the entries they end
\* at go: it begins a walk, goes one directory down, opens, creates or does neither.
Begun ==
  /\ UNCHANGED <<disk, fat>> /\ pc = "idle" /\ pc' = "walk" /\ depth' = 2
  /\ path' \in Path /\ Len(path'.names) > 1
  /\ \E s \in FoundInRoot(LoadRoot(disk), path'.names[1]) :
       dir' = LoadRoot(disk)[s].cluster
Descended ==
  /\ UNCHANGED <<disk, fat>> /\ UNCHANGED args /\ pc = "walk" /\ pc' = "walk"
  /\ depth' = depth + 1 /\ depth < subDirectIndex(path)
  /\ \E s \in FoundInDir(Entries(disk, dir), path.names[depth]) :
       dir' = Entries(disk, dir)[s].cluster
OpenedTop ==
  /\ UNCHANGED <<disk, fat>> /\ pc = "idle" /\ Returned("fatOpen", 0)'
  /\ path' \in Path /\ Len(path'.names) = 1
  /\ \E s \in FoundInRoot(LoadRoot(disk), path'.names[1]) : fp' = Handle(0, LoadRoot(disk)[s])
OpenedBelow ==
  /\ UNCHANGED <<disk, fat>> /\ UNCHANGED args /\ pc = "walk" /\ Returned("fatOpen", 0)'
  /\ depth = subDirectIndex(path)
  /\ \E s \in FoundInDir(Entries(disk, dir), path.names[depth]) :
       fp' = Handle(dir, Entries(disk, dir)[s])
CreatedTop ==
  /\ pc = "idle" /\ Returned("fatCreate", 0)' /\ path' \in Path /\ Len(path'.names) = 1
  /\ isDirectory' \in BOOLEAN
  /\ \E s \in Slots :
       /\ PutEntry(s - RootSize, StoredName(path'), isDirectory')
       /\ \A y \in Slots : y < s => ~FreeSlot(disk[y - RootSize])
                               /\ ~RootMatch(disk[y - RootSize], path'.names[1])
CreatedBelow ==
  /\ UNCHANGED args /\ pc = "walk" /\ Returned("fatCreate", 0)'
  /\ depth = subDirectIndex(path)
  /\ \E s \in DirSlots :
       /\ PutEntry(DirBase(dir) + s, StoredName(path), isDirectory)
       /\ \A y \in DirSlots : y < s =>
            /\ ~FreeSlot(disk[DirBase(dir) + y])
            /\ ~DirMatch(disk[DirBase(dir) + y], path.names[depth])
Neither ==
  /\ pc' # "walk" /\ ~Returned("fatOpen", 0)' /\ ~Returned("fatCreate", 0)'
  /\ pc = "walk" => UNCHANGED <<disk, fat>> /\ op' = op

LEMMA ReadEntries ==
  ASSUME NEW d, NEW c, c # 0, NEW old
  PROVE  readFromCluster(d, c, old) = Entries(d, c)
BY DEF readFromCluster, Entries

LEMMA IndexRange ==
  ASSUME NEW p \in Path
  PROVE  /\ subDirectIndex(p) \in 0..Len(p.names)
         /\ p.names # <<>> /\ p.names[1] # <<>> => subDirectIndex(p) >= 1
         /\ Len(p.names) = 1 /\ p.names[1] # <<>> => subDirectIndex(p) = 1
<1> DEFINE n == Len(p.names)
           prefix == {j \in DOMAIN p.names : \A x \in 1..j : p.names[x] # <<>>}
<1>1. p.names \in Seq(Name)  BY DEF Path
<1>2. n \in Nat /\ DOMAIN p.names = 1..n  BY <1>1
<1>3. IsFiniteSet(1..n) /\ Cardinality(1..n) = n  BY <1>2, FS_Interval, SMT
<1>4. prefix \subseteq 1..n  BY <1>2
<1>5. Cardinality(prefix) <= n /\ IsFiniteSet(prefix)  BY <1>3, <1>4, FS_Subset
<1>6. Cardinality(prefix) \in Nat  BY <1>3, <1>4, FS_Subset, FS_CardinalityType
<1>7. subDirectIndex(p) = Cardinality(prefix)  BY DEF subDirectIndex
<1>8. ASSUME p.names # <<>>, p.names[1] # <<>>
      PROVE  Cardinality(prefix) >= 1
  <2>1. 1 \in prefix
    <3>1. 1 \in DOMAIN p.names  BY <1>1, <1>2, <1>8
    <3>2. \A x \in 1..1 : x = 1  OBVIOUS
    <3> QED  BY <1>8, <3>1, <3>2
  <2>2. Cardinality(prefix) # 0  BY <1>5, <2>1, FS_EmptySet
  <2> QED  BY <1>6, <2>2
<1>9. n = 1 => p.names # <<>>
  <2>1. Len(<<>>) = 0  OBVIOUS
  <2> QED  BY <2>1
<1> DEFINE m == Cardinality(prefix)
<1>10. m \in Nat /\ m <= n /\ n \in Nat  BY <1>2, <1>5, <1>6
<1>11. p.names # <<>> /\ p.names[1] # <<>> => m >= 1  BY <1>8
<1> HIDE DEF m, n
<1>12. subDirectIndex(p) = m  BY <1>7 DEF m
<1>13. n = Len(p.names)  BY DEF n
<1>14. m \in 0..n  BY <1>10
<1>15. Len(p.names) = 1 /\ p.names[1] # <<>> => m = 1
  <2>1. Len(p.names) = 1 => m \in 0..1  BY <1>13, <1>14
  <2>2. Len(p.names) = 1 /\ p.names[1] # <<>> => m >= 1  BY <1>9, <1>11, <1>13
  <2> QED  BY <1>10, <2>1, <2>2
<1> QED  BY <1>11, <1>12, <1>13, <1>14, <1>15

LEMMA BeginKinds ==
  ASSUME NEW p \in Path, StartWalk(p), NEW o, NEW isDir, NEW t, Begin(o, p, isDir, t)
  PROVE  Begun \/ Neither
<1>1. pc = "idle" /\ path' = p  BY DEF Begin
<1>2. CASE Fail(1)  BY <1>1, <1>2 DEF Fail, Return, Neither, Returned, Idle
<1>3. ASSUME NEW s \in FoundInRoot(LoadRoot(disk), p.names[1]),
             pc' = "walk", dir' = LoadRoot(disk)[s].cluster, depth' = 2, UNCHANGED storage
      PROVE  Begun
  BY <1>1, <1>3 DEF StartWalk, Begun, storage
<1> QED  BY <1>2, <1>3 DEF StartWalk

LEMMA OpenKinds ==
  ASSUME TypeInv, OwnershipInv, Orderly, fatOpenStep
  PROVE  Descended \/ OpenedBelow \/ Neither
<1> DEFINE entries == readFromCluster(disk, dir, dataEntries)
           found == FoundInDir(entries, path.names[depth])
<1>1. dir >= 2 /\ pc = "walk" /\ op = "fatOpen" /\ UNCHANGED args /\ op' = op
  BY DEF fatOpenStep, Orderly, args
<1>2. entries = Entries(disk, dir)
  <2>1. dir # 0  BY <1>1
  <2> QED  BY <2>1, ReadEntries
<1>3. StorageSound  BY DEF OwnershipInv
<1>4. CASE Fail(2)  BY <1>1, <1>4 DEF Fail, Return, Neither, Returned, Idle, storage
<1>5. ASSUME NEW s \in found, depth = subDirectIndex(path), fp' = Handle(dir, entries[s]),
             UNCHANGED caches, writeFatTable, writeRootDirectory(disk), Return(0)
      PROVE  OpenedBelow
  <2>1. UNCHANGED <<disk, fat>>  BY <1>3, <1>5, WriteBackSame DEF caches, StorageSound
  <2>2. Returned("fatOpen", 0)'  BY <1>1, <1>5 DEF Return, Returned, Idle
  <2>3. s \in FoundInDir(Entries(disk, dir), path.names[depth])
        /\ fp' = Handle(dir, Entries(disk, dir)[s])
    BY <1>2, <1>5
  <2> QED  BY <1>1, <1>5, <2>1, <2>2, <2>3 DEF OpenedBelow
<1>6. ASSUME NEW s \in found, depth < subDirectIndex(path), Descend(entries[s].cluster)
      PROVE  Descended
  <2>1. s \in FoundInDir(Entries(disk, dir), path.names[depth])
        /\ dir' = Entries(disk, dir)[s].cluster
    BY <1>2, <1>6 DEF Descend
  <2> QED  BY <1>1, <1>6, <2>1 DEF Descend, Descended, storage
<1> HIDE DEF entries
<1> QED  BY <1>4, <1>5, <1>6 DEF fatOpenStep, entries

LEMMA CreateKinds ==
  ASSUME TypeInv, OwnershipInv, Orderly, fatCreateStep
  PROVE  Descended \/ CreatedBelow \/ Neither
<1> DEFINE entries == readFromCluster(disk, dir, dataEntries)
           n == path.names[depth]
           atEnd == depth = subDirectIndex(path)
<1>1. dir >= 2 /\ pc = "walk" /\ op = "fatCreate" /\ UNCHANGED args /\ op' = op
  BY DEF fatCreateStep, Orderly, args
<1>2. entries = Entries(disk, dir)
  <2>1. dir # 0  BY <1>1
  <2> QED  BY <2>1, ReadEntries
<1>3. CASE pc' = "walk"
  <2>1. PICK s \in FoundInDir(entries, n) :
          depth < subDirectIndex(path) /\ Descend(entries[s].cluster)
    <3>1. depth <= subDirectIndex(path) /\ ~atEnd => depth < subDirectIndex(path)
      BY IndexRange DEF TypeInv, TypeOK
    <3> QED  BY <1>3, <3>1 DEF fatCreateStep, Fail, Return
  <2>2. s \in FoundInDir(Entries(disk, dir), n) /\ dir' = Entries(disk, dir)[s].cluster
    BY <1>2, <2>1 DEF Descend
  <2> QED  BY <1>1, <2>1, <2>2 DEF Descend, Descended, storage
<1>4. CASE pc' # "walk" /\ ret' # 0
  <2>1. UNCHANGED <<disk, fat>>  BY <1>4 DEF fatCreateStep, Fail, Return, Descend, storage
  <2> QED  BY <1>1, <1>4, <2>1 DEF Neither, Returned
<1>5. CASE pc' # "walk" /\ ret' = 0
  <2>1. Returned("fatCreate", 0)'
    BY <1>1, <1>5 DEF fatCreateStep, Fail, Return, Descend, Returned, Idle
  <2> QED  BY <1>1, <1>5, <2>1, DirPut DEF CreatedBelow
<1> QED  BY <1>3, <1>4, <1>5

LEMMA StepKinds ==
  ASSUME Named', TypeInv, OwnershipInv, OpenInv, Orderly, [AnyNext]_vars
  PROVE  \/ UNCHANGED vars
         \/ Begun \/ Descended \/ OpenedTop \/ OpenedBelow
         \/ CreatedTop \/ CreatedBelow \/ Neither
<1>1. ASSUME NEW p \in Path, fatOpenRoot(p)
      PROVE  OpenedTop \/ Neither
  <2>1. pc = "idle" /\ op' = "fatOpen" /\ path' = p /\ Len(p.names) = 1
        /\ rootDir' = LoadRoot(disk) /\ fatTable' = fat
    BY <1>1 DEF fatOpenRoot, Begin, initFatStructs
  <2>2. CASE Fail(1)  BY <2>1, <2>2 DEF Fail, Return, Neither, Returned, Idle
  <2>3. ASSUME NEW s \in FoundInRoot(LoadRoot(disk), p.names[1]),
               fp' = Handle(0, LoadRoot(disk)[s]), writeFatTable, writeRootDirectory(disk),
               Return(0)
        PROVE  OpenedTop
    <3>1. UNCHANGED <<disk, fat>>  BY <2>1, <2>3, WriteBackSame
    <3>2. Returned("fatOpen", 0)'  BY <2>1, <2>3 DEF Return, Returned, Idle
    <3> QED  BY <2>1, <2>3, <3>1, <3>2 DEF OpenedTop
  <2> QED  BY <1>1, <2>2, <2>3 DEF fatOpenRoot
<1>2. ASSUME NEW p \in Path, NEW isDir \in BOOLEAN, fatCreateRoot(p, isDir)
      PROVE  CreatedTop \/ Neither
  <2>1. /\ pc = "idle" /\ op' = "fatCreate" /\ path' = p /\ isDirectory' = isDir
        /\ Len(p.names) = 1 /\ p.names[1] # <<>> /\ (pc' = "fault" \/ pc' = "idle")
    BY <1>2 DEF fatCreateRoot, Begin, Named, Fault, Return
  <2>2. CASE pc' = "fault" \/ ret' # 0  BY <2>1, <2>2 DEF Neither, Returned, Idle
  <2>3. CASE pc' # "fault" /\ ret' = 0
    <3>1. Returned("fatCreate", 0)'  BY <2>1, <2>3 DEF Returned, Idle
    <3>2. \E s \in Slots :
            /\ PutEntry(s - RootSize, StoredName(p), isDir)
            /\ \A y \in Slots : y < s => ~FreeSlot(disk[y - RootSize])
                                    /\ ~RootMatch(disk[y - RootSize], p.names[1])
      BY <1>2, <2>1, <2>3, RootPut
    <3> QED  BY <2>1, <3>1, <3>2 DEF CreatedTop
  <2> QED  BY <2>2, <2>3
<1>3. ASSUME NEW p \in Path, fatOpenPath(p)
      PROVE  Begun \/ Neither
  BY <1>3, BeginKinds DEF fatOpenPath
<1>4. ASSUME NEW p \in Path, NEW isDir \in BOOLEAN, fatCreatePath(p, isDir)
      PROVE  Begun \/ Neither
  BY <1>4, BeginKinds DEF fatCreatePath
<1>5. ASSUME NEW t \in TextArg, fatWrite(t)
      PROVE  Neither
  BY <1>5 DEF fatWrite, Begin, Neither, Returned, Idle
<1>6. CASE FreeCluster \/ WriteSingle \/ WriteLinked \/ WriteLast \/ WriteWild
  <2>1. WriteSingle /\ op = "fatWrite" /\ pc = "free"
    BY <1>6, OrderlySingle, NoOtherWrite DEF WriteSingle, OpenInv
  <2>2. op' = op /\ pc' = "idle"  BY <2>1 DEF WriteSingle, Finish, args, Return
  <2> QED  BY <2>1, <2>2 DEF Neither, Returned
<1>7. CASE fatRead \/ ReadSingle \/ ReadLinked
  <2>1. pc' = "read" \/ (pc' = "idle" /\ ret' = 1)
    BY <1>7 DEF fatRead, ReadSingle, ReadLinked, Return
  <2>2. pc # "walk"  BY <1>7 DEF fatRead, Begin, ReadSingle, ReadLinked
  <2> QED  BY <2>1, <2>2 DEF Neither, Returned, Idle
<1>8. CASE fatOpenStep  BY <1>8, OpenKinds
<1>9. CASE fatCreateStep  BY <1>9, CreateKinds
<1>12. CASE Stray \/ \E o, p, isDir : ScanAstray(o, p, isDir)
  <2>1. pc' = "fault" /\ UNCHANGED <<disk, fat>>  BY <1>12, AstrayKeeps
  <2>2. Stray => op' = op  BY StrayStops DEF args
  <2>3. (\E o, p, isDir : ScanAstray(o, p, isDir)) => pc = "idle"  BY ScanStops DEF Begin
  <2> QED  BY <1>12, <2>1, <2>2, <2>3 DEF Neither, Returned, Idle
<1>10. CASE AnyCall  BY <1>1, <1>2, <1>3, <1>4, <1>5, <1>7, <1>10, <1>12 DEF AnyCall
<1>11. CASE Step  BY <1>6, <1>7, <1>8, <1>9, <1>11, <1>12 DEF Step, Stray
<1> QED  BY <1>10, <1>11 DEF AnyNext

(***************************************************************************)
(* Directories that stay                                                   *)
(***************************************************************************)

\* Cluster c is allocated and no file's that may be written: fatWrite keeps off it.
Safe(d, t, c) == c >= 2 /\ t[c] # 0 /\ \A a \in Kept : IsFile(d[a]) => d[a].cluster # c

StaysIn(c) ==
  \A s \in DirSlots :
    LET a == DirBase(c) + s
    IN  Copied(c, s) /\ ~FreeSlot(disk[a]) => Resized(disk[a], disk'[a])
Grown ==
  /\ StaysIn(0)
  /\ \A c \in Clusters : Safe(disk, fat, c) => StaysIn(c) /\ Safe(disk', fat', c)

LEMMA SafeStays ==
  ASSUME Steady, NEW c \in Clusters, Safe(disk, fat, c)
  PROVE  Safe(disk', fat', c)
BY DEF Steady, Safe

LEMMA PutGrown ==
  ASSUME NEW a0, NEW n, NEW isDir, PutEntry(a0, n, isDir), NEW c \in Clusters
  PROVE  StaysIn(c)
BY SlotAddress DEF StaysIn, PutEntry, Resized

LEMMA GrownStep ==
  ASSUME Named', TypeInv, FilesInv, Orderly, WellBehaved', [AnyNext]_vars
  PROVE  Grown
<1> USE DEF FilesInv
<1>1. Steady  BY OrderlySingle, SteadyStep
<1>2. 0 \in Clusters  BY Sizes, SizeAssumption
<1>3. ASSUME NEW c \in Clusters, c = 0 \/ Safe(disk, fat, c)
      PROVE  StaysIn(c)
  <2>1. CASE UNCHANGED <<disk, fat>>  BY <2>1 DEF StaysIn, Resized
  <2>2. ASSUME NEW p \in Path, NEW isDir \in BOOLEAN, fatCreateRoot(p, isDir)
        PROVE  StaysIn(c)
    <3>1. p.names[1] # <<>>  BY <2>2 DEF fatCreateRoot, Begin, Named
    <3> QED  BY <2>1, <2>2, <3>1, RootPut, PutGrown
  <2>3. CASE fatCreateStep
    <3>1. dir >= 2  BY <2>3 DEF fatCreateStep, Orderly
    <3> QED  BY <2>1, <2>3, <3>1, DirPut, PutGrown
  <2>4. CASE WriteSingle
    <3>1. /\ cluster = fp.rde.cluster /\ cluster >= 2 /\ Held(disk, fp) /\ IsFile(fp.rde)
          /\ fp.parent \in Clusters
      BY <2>4, WriteHandle
    <3>2. ~Safe(disk, fat, cluster)
      <4>1. PICK s \in Firsts(disk, fp) : disk[DirBase(fp.parent) + s] = fp.rde
        BY <3>1 DEF Held
      <4>2. DirBase(fp.parent) + s \in Kept  BY <3>1, ShownKept DEF Firsts, Held
      <4> QED  BY <3>1, <4>1, <4>2 DEF Safe
    <3>3. c # cluster /\ c # 1  BY <1>3, <3>1, <3>2 DEF Safe
    <3> QED  BY <2>4, <3>3, WrittenSlots DEF StaysIn
  <2> QED  BY <2>1, <2>2, <2>3, <2>4, OrderlySingle, StoresNothing
<1> QED  BY <1>1, <1>2, <1>3, SafeStays DEF Grown

LEMMA SameMatch ==
  ASSUME NEW u \in Unit, NEW v, Resized(u, v), NEW n
  PROVE  /\ DirMatch(v, n) <=> DirMatch(u, n)
         /\ RootMatch(v, n) <=> RootMatch(u, n)
         /\ u.kind = "entry" => v.cluster = u.cluster /\ v.name = u.name /\ v.attr = u.attr
BY ResizedKind DEF DirMatch, RootMatch, Used, Resized

\* No slot before a used one is free.
LEMMA NoneFree ==
  ASSUME Packed(disk), NEW c \in Clusters \ {1}, NEW s \in DirSlots, Copied(c, s),
         Used(disk[DirBase(c) + s]), NEW x \in DirSlots, x < s
  PROVE  ~FreeSlot(disk[DirBase(c) + x]) /\ Copied(c, x)
BY Sizes DEF Packed, Copied

\* An entry with a cluster is found again.
LEMMA FoundInDirStays ==
  ASSUME TypeInv, Packed(disk), NEW c \in Clusters, c >= 2, StaysIn(c), NEW n,
         NEW s \in FoundInDir(Entries(disk, c), n), Used(Entries(disk, c)[s])
  PROVE  /\ s \in FoundInDir(Entries(disk', c), n)
         /\ Resized(Entries(disk, c)[s], Entries(disk', c)[s])
         /\ s \in DirSlots
<1>1. /\ s \in DirSlots /\ DirMatch(disk[DirBase(c) + s], n)
      /\ \A x \in DirSlots : DirMatch(disk[DirBase(c) + x], n) => s <= x
  BY DEF FoundInDir, Scan, Entries
<1>2. \A x \in DirSlots : DirBase(c) + x \in Addr /\ disk[DirBase(c) + x] \in Unit /\ Copied(c, x)
  BY SlotAddress DEF TypeInv, TypeOK, Copied
<1>3. Used(disk[DirBase(c) + s])  BY <1>1 DEF Entries
<1>4. ASSUME NEW x \in DirSlots, x <= s
      PROVE  Resized(disk[DirBase(c) + x], disk'[DirBase(c) + x])
  <2>1. ~FreeSlot(disk[DirBase(c) + x])
    <3>1. CASE x = s  BY <1>3, <3>1 DEF Used, FreeSlot
    <3>2. CASE x # s
      <4>1. x < s /\ c \in Clusters \ {1}  BY <1>1, <1>4, <3>2, Sizes
      <4> QED  BY <1>1, <1>2, <1>3, <4>1, NoneFree
    <3> QED  BY <3>1, <3>2
  <2> QED  BY <1>2, <2>1 DEF StaysIn
<1>5. DirMatch(disk'[DirBase(c) + s], n)
  <2>1. s <= s  BY <1>1, Sizes
  <2> QED  BY <1>1, <1>2, <1>4, <2>1, SameMatch
<1>6. ASSUME NEW x \in DirSlots, DirMatch(disk'[DirBase(c) + x], n)
      PROVE  s <= x
  <2>1. CASE x <= s  BY <1>1, <1>2, <1>4, <1>6, <2>1, SameMatch
  <2>2. CASE ~ (x <= s)  BY <1>1, <2>2, Sizes
  <2> QED  BY <2>1, <2>2
<1>7. s <= s  BY <1>1, Sizes
<1> QED  BY <1>1, <1>3, <1>4, <1>5, <1>6, <1>7 DEF FoundInDir, Scan, Entries

LEMMA FoundInRootStays ==
  ASSUME TypeInv, BlankInv, RootShort, Packed(disk), StaysIn(0), NEW n,
         NEW s \in FoundInRoot(LoadRoot(disk), n)
  PROVE  /\ s \in FoundInRoot(LoadRoot(disk'), n)
         /\ Resized(LoadRoot(disk)[s], LoadRoot(disk')[s])
         /\ Used(LoadRoot(disk)[s]) /\ s \in 1..RootRead
<1>0. /\ 0 \in Clusters \ {1}
      /\ \A x \in DirSlots : DirBase(0) + x = x - RootSize /\ x \in Slots
  BY SlotAddress, Sizes, SizeAssumption DEF DirBase
<1>1. /\ s \in Slots /\ RootMatch(disk[s - RootSize], n)
      /\ \A x \in Slots : RootMatch(disk[x - RootSize], n) => s <= x
  BY DEF FoundInRoot, Scan, LoadRoot
<1>2. s \in 1..RootRead /\ s \in DirSlots /\ Copied(0, s)
  BY <1>1, FoundShort, Sizes, SizeAssumption DEF Copied
<1>3. \A x \in Slots : x - RootSize \in Addr /\ disk[x - RootSize] \in Unit
  BY Sizes DEF TypeInv, TypeOK
<1>4. Used(disk[s - RootSize])  BY <1>1 DEF RootMatch, Used
<1>5. ASSUME NEW x \in Slots, x <= s
      PROVE  Resized(disk[x - RootSize], disk'[x - RootSize])
  <2>1. x \in DirSlots /\ Copied(0, x)  BY <1>2, <1>5, Sizes, SizeAssumption DEF Copied
  <2>2. ~FreeSlot(disk[x - RootSize])
    <3>1. CASE x = s  BY <1>4, <3>1 DEF Used, FreeSlot
    <3>2. CASE x # s
      <4>1. x < s  BY <1>1, <1>5, <3>2, Sizes
      <4> QED  BY <1>0, <1>2, <1>4, <2>1, <4>1, NoneFree
    <3> QED  BY <3>1, <3>2
  <2> QED  BY <1>0, <2>1, <2>2 DEF StaysIn
<1>6. s <= s  BY <1>1, Sizes
<1>7. RootMatch(disk'[s - RootSize], n)  BY <1>1, <1>3, <1>5, <1>6, SameMatch
<1>8. ASSUME NEW x \in Slots, RootMatch(disk'[x - RootSize], n)
      PROVE  s <= x
  <2>1. CASE x <= s  BY <1>1, <1>3, <1>5, <1>8, <2>1, SameMatch
  <2>2. CASE ~ (x <= s)  BY <1>1, <2>2, Sizes
  <2> QED  BY <2>1, <2>2
<1> QED  BY <1>1, <1>2, <1>4, <1>5, <1>6, <1>7, <1>8 DEF FoundInRoot, Scan, LoadRoot

(***************************************************************************)
(* Where paths lead                                                        *)
(***************************************************************************)

\* The clusters w[2], ..., w[k] that a walk along p comes through.
Trail(d, t, p, k, w) ==
  /\ w \in [2..k -> Clusters]
  /\ \E s \in FoundInRoot(LoadRoot(d), p.names[1]) : w[2] = LoadRoot(d)[s].cluster
  /\ \A j \in 2..(k - 1) :
       /\ Safe(d, t, w[j])
       /\ \E s \in FoundInDir(Entries(d, w[j]), p.names[j]) : w[j + 1] = Entries(d, w[j])[s].cluster

Walking(d, t, p, k, c) == \E w : Trail(d, t, p, k, w) /\ w[k] = c

LEMMA TrailStarts ==
  ASSUME NEW d \in Disk, NEW t, NEW p, NEW s \in FoundInRoot(LoadRoot(d), p.names[1]),
         NEW c, c = LoadRoot(d)[s].cluster
  PROVE  Walking(d, t, p, 2, c)
<1>1. c \in Clusters  BY FoundEntry, LoadRootUnits DEF Entry
<1> DEFINE w == [j \in 2..2 |-> c]
<1>2. w \in [2..2 -> Clusters] /\ w[2] = c  BY <1>1
<1>3. 2..(2 - 1) = {}  OBVIOUS
<1> HIDE DEF w
<1> QED  BY <1>2, <1>3 DEF Trail, Walking

LEMMA TrailGoes ==
  ASSUME NEW d, NEW t, NEW p, NEW k \in Nat, k >= 2, NEW w, Trail(d, t, p, k, w),
         Safe(d, t, w[k]), NEW s \in FoundInDir(Entries(d, w[k]), p.names[k]),
         NEW c \in Clusters, c = Entries(d, w[k])[s].cluster
  PROVE  Walking(d, t, p, k + 1, c)
<1> DEFINE v == [j \in 2..(k + 1) |-> IF j <= k THEN w[j] ELSE c]
<1>1. w \in [2..k -> Clusters]  BY DEF Trail
<1>2. v \in [2..(k + 1) -> Clusters] /\ v[k + 1] = c /\ \A j \in 2..k : v[j] = w[j]  BY <1>1
<1> HIDE DEF v
<1>3. v[2] = w[2]  BY <1>2
<1>4. ASSUME NEW j \in 2..((k + 1) - 1)
      PROVE  /\ Safe(d, t, v[j])
             /\ \E x \in FoundInDir(Entries(d, v[j]), p.names[j]) :
                  v[j + 1] = Entries(d, v[j])[x].cluster
  <2>1. CASE j = k
    <3>1. v[j] = w[k] /\ v[j + 1] = c  BY <1>2, <2>1
    <3> QED  BY <2>1, <3>1
  <2>2. CASE j # k
    <3>1. j \in 2..(k - 1) /\ v[j] = w[j] /\ v[j + 1] = w[j + 1]  BY <1>2, <1>4, <2>2
    <3> QED  BY <3>1 DEF Trail
  <2> QED  BY <2>1, <2>2
<1>5. Trail(d, t, p, k + 1, v)  BY <1>2, <1>3, <1>4 DEF Trail
<1> QED  BY <1>2, <1>5 DEF Walking

\* An entry with a cluster has a name.
LEMMA FoundUsed ==
  ASSUME TypeInv, BlankInv, NEW c \in Clusters, NEW n,
         NEW s \in FoundInDir(Entries(disk, c), n), Entries(disk, c)[s].cluster # 0
  PROVE  Used(Entries(disk, c)[s])
<1>1. s \in DirSlots /\ DirMatch(disk[DirBase(c) + s], n) /\ disk[DirBase(c) + s].cluster # 0
  BY DEF FoundInDir, Scan, Entries
<1>2. DirBase(c) + s \in Addr  BY <1>1, SlotAddress
<1> QED  BY <1>1, <1>2 DEF BlankInv, Vacant, Used, DirMatch, FreeSlot, Entries

LEMMA TrailStays ==
  ASSUME TypeInv, BlankInv, RootShort, Packed(disk), Grown, NEW p, NEW k \in Nat, k >= 2,
         NEW w, Trail(disk, fat, p, k, w), Safe(disk, fat, w[k])
  PROVE  Trail(disk', fat', p, k, w) /\ Safe(disk', fat', w[k])
<1>1. w \in [2..k -> Clusters] /\ w[k] \in Clusters  BY DEF Trail
<1>2. StaysIn(0) /\ \A c \in Clusters : Safe(disk, fat, c) => StaysIn(c) /\ Safe(disk', fat', c)
  BY DEF Grown
<1>3. \A j \in 2..k : Safe(disk, fat, w[j])
  <2>1. ASSUME NEW j \in 2..k
        PROVE  j = k \/ j \in 2..(k - 1)
    OBVIOUS
  <2> QED  BY <2>1 DEF Trail
<1>4. \E s \in FoundInRoot(LoadRoot(disk'), p.names[1]) : w[2] = LoadRoot(disk')[s].cluster
  <2>1. PICK s \in FoundInRoot(LoadRoot(disk), p.names[1]) : w[2] = LoadRoot(disk)[s].cluster
    BY DEF Trail
  <2>2. /\ s \in FoundInRoot(LoadRoot(disk'), p.names[1])
        /\ Resized(LoadRoot(disk)[s], LoadRoot(disk')[s])
        /\ Used(LoadRoot(disk)[s]) /\ s \in 1..RootRead
    <3>1. StaysIn(0)  BY <1>2
    <3>2. ASSUME NEW n, s \in FoundInRoot(LoadRoot(disk), n)
          PROVE  /\ s \in FoundInRoot(LoadRoot(disk'), n)
                 /\ Resized(LoadRoot(disk)[s], LoadRoot(disk')[s])
                 /\ Used(LoadRoot(disk)[s]) /\ s \in 1..RootRead
      BY <3>1, <3>2, FoundInRootStays
    <3> QED  BY <2>1, <3>2
  <2>3. LoadRoot(disk)[s] \in Unit
    <3>1. s \in Slots  BY <2>2, Sizes, SizeAssumption
    <3>2. disk \in Disk  BY DEF TypeInv, TypeOK, Disk
    <3> QED  BY <3>1, <3>2, LoadRootUnits
  <2>4. LoadRoot(disk')[s].cluster = LoadRoot(disk)[s].cluster
    BY <2>2, <2>3, SameMatch DEF Used
  <2> QED  BY <2>1, <2>2, <2>4
<1>5. ASSUME NEW j \in 2..(k - 1)
      PROVE  /\ Safe(disk', fat', w[j])
             /\ \E s \in FoundInDir(Entries(disk', w[j]), p.names[j]) :
                  w[j + 1] = Entries(disk', w[j])[s].cluster
  <2>1. j \in 2..k /\ j + 1 \in 2..k  OBVIOUS
  <2>2. w[j] \in Clusters /\ Safe(disk, fat, w[j]) /\ w[j] >= 2 /\ w[j + 1] # 0
    <3>1. w[j] \in Clusters /\ Safe(disk, fat, w[j]) /\ Safe(disk, fat, w[j + 1])
      BY <1>1, <1>3, <2>1
    <3> QED  BY <3>1 DEF Safe
  <2>3. PICK s \in FoundInDir(Entries(disk, w[j]), p.names[j]) :
          w[j + 1] = Entries(disk, w[j])[s].cluster
    BY DEF Trail
  <2>4. StaysIn(w[j]) /\ Safe(disk', fat', w[j])  BY <1>2, <2>2
  <2>5. /\ s \in FoundInDir(Entries(disk', w[j]), p.names[j])
        /\ Resized(Entries(disk, w[j])[s], Entries(disk', w[j])[s])
        /\ Used(Entries(disk, w[j])[s]) /\ s \in DirSlots
    <3>1. Used(Entries(disk, w[j])[s])  BY <2>2, <2>3, FoundUsed
    <3> QED  BY <2>2, <2>3, <2>4, <3>1, FoundInDirStays
  <2>6. Entries(disk, w[j])[s] \in Unit
    BY <2>2, <2>5, SlotAddress DEF Entries, TypeInv, TypeOK
  <2>7. Entries(disk', w[j])[s].cluster = Entries(disk, w[j])[s].cluster
    BY <2>5, <2>6, SameMatch DEF Used
  <2> QED  BY <2>3, <2>4, <2>5, <2>7
<1> QED  BY <1>1, <1>2, <1>4, <1>5 DEF Trail

(***************************************************************************)
(* What walks end at                                                       *)
(***************************************************************************)

WalkInv ==
  pc = "walk" => depth >= 2 /\ Len(path.names) > 1 /\ Walking(disk, fat, path, depth, dir)

LEMMA WalkIsSafe ==
  ASSUME TypeInv, FilesInv, Orderly, pc = "walk"
  PROVE  Safe(disk, fat, dir)
<1>1. dir >= 2 /\ WellBehaved  BY DEF Orderly
<1>2. fat[dir] # 0 /\ \A u : FileApart(u, disk) /\ IsFile(u) => u.cluster # dir
  BY <1>1, WalkedCluster DEF FilesInv
<1>3. \A a \in Addr : FileApart(disk[a], disk)  BY DEF FilesInv, TidyInv, TidyVolume
<1> QED  BY <1>1, <1>2, <1>3 DEF Safe, Kept

LEMMA EntryCluster ==
  ASSUME NEW d \in Disk, NEW c \in Clusters, NEW n, NEW s \in FoundInDir(Entries(d, c), n)
  PROVE  s \in DirSlots /\ Entries(d, c)[s].cluster \in Clusters
<1>1. Entries(d, c) \in [DirSlots -> Unit]  BY SlotAddress DEF Entries, Disk
<1> QED  BY <1>1, FoundEntry DEF Entry

LEMMA WalkStep ==
  ASSUME Named', TypeInv, TypeInv', FilesInv, Orderly, WalkInv, [AnyNext]_vars
  PROVE  WalkInv'
<1>0. disk \in Disk /\ dir' \in Clusters  BY DEF TypeInv, TypeOK, Disk
<1>1. CASE UNCHANGED vars  BY <1>1 DEF vars, WalkInv
<1>2. CASE Begun
  <2>1. PICK s \in FoundInRoot(LoadRoot(disk), path'.names[1]) : dir' = LoadRoot(disk)[s].cluster
    BY <1>2 DEF Begun
  <2>2. ASSUME NEW p, p = path', NEW c, c = dir'
        PROVE  Walking(disk, fat, p, 2, c)
    <3>1. s \in FoundInRoot(LoadRoot(disk), p.names[1]) /\ c = LoadRoot(disk)[s].cluster
      BY <2>1, <2>2
    <3> QED  BY <1>0, <3>1, TrailStarts
  <2>3. Walking(disk', fat', path', depth', dir')  BY <1>2, <2>2 DEF Begun
  <2> QED  BY <1>2, <2>3 DEF Begun, WalkInv
<1>3. CASE Descended
  <2>1. /\ pc = "walk" /\ depth' = depth + 1 /\ depth \in Nat /\ depth >= 2
        /\ path' = path /\ disk' = disk /\ fat' = fat /\ Len(path.names) > 1
        /\ Walking(disk, fat, path, depth, dir)
    BY <1>3 DEF Descended, WalkInv, args, TypeInv, TypeOK
  <2>2. Safe(disk, fat, dir)  BY <2>1, WalkIsSafe
  <2>3. PICK w : Trail(disk, fat, path, depth, w) /\ w[depth] = dir  BY <2>1 DEF Walking
  <2>4. PICK s \in FoundInDir(Entries(disk, dir), path.names[depth]) :
          dir' = Entries(disk, dir)[s].cluster
    BY <1>3 DEF Descended
  <2>5. ASSUME NEW c \in Clusters, c = Entries(disk, dir)[s].cluster
        PROVE  Walking(disk, fat, path, depth + 1, c)
    <3>1. Safe(disk, fat, w[depth])  BY <2>2, <2>3
    <3>2. s \in FoundInDir(Entries(disk, w[depth]), path.names[depth])  BY <2>3, <2>4
    <3>3. c = Entries(disk, w[depth])[s].cluster  BY <2>3, <2>5
    <3> QED  BY <2>1, <2>3, <3>1, <3>2, <3>3, TrailGoes
  <2>6. Walking(disk', fat', path', depth', dir')  BY <1>0, <2>1, <2>4, <2>5
  <2> QED  BY <2>1, <2>6 DEF WalkInv
<1>4. CASE pc' # "walk"  BY <1>4 DEF WalkInv
<1> QED
  BY <1>1, <1>2, <1>3, <1>4, StepKinds
  DEF FilesInv, OpenedTop, OpenedBelow, CreatedTop, CreatedBelow, Neither, Returned, Idle

\* The entry u is the one that p leads to.
OpenedAt(d, t, p, u) ==
  \/ /\ Len(p.names) = 1
     /\ \E s \in FoundInRoot(LoadRoot(d), p.names[1]) : u = LoadRoot(d)[s]
  \/ /\ Len(p.names) > 1 /\ subDirectIndex(p) >= 2
     /\ \E c \in Clusters :
          /\ Walking(d, t, p, subDirectIndex(p), c) /\ Safe(d, t, c)
          /\ \E s \in FoundInDir(Entries(d, c), p.names[subDirectIndex(p)]) :
               u = Entries(d, c)[s]
OpenedInv == Returned("fatOpen", 0) => OpenedAt(disk, fat, path, fp.rde)

LEMMA OpenedStep ==
  ASSUME Named', TypeInv, FilesInv, Orderly, WalkInv, OpenedInv, [AnyNext]_vars
  PROVE  OpenedInv'
<1>1. CASE UNCHANGED vars  BY <1>1 DEF vars, OpenedInv, Returned, Idle
<1>2. CASE OpenedTop
  <2>1. PICK s \in FoundInRoot(LoadRoot(disk), path'.names[1]) : fp' = Handle(0, LoadRoot(disk)[s])
    BY <1>2 DEF OpenedTop
  <2>2. fp'.rde = LoadRoot(disk)[s]  BY <2>1 DEF Handle
  <2>3. OpenedAt(disk, fat, path', fp'.rde)  BY <1>2, <2>1, <2>2 DEF OpenedTop, OpenedAt
  <2> QED  BY <1>2, <2>3 DEF OpenedTop, OpenedInv
<1>3. CASE OpenedBelow
  <2>1. /\ pc = "walk" /\ depth = subDirectIndex(path) /\ depth >= 2 /\ dir \in Clusters
        /\ path' = path /\ disk' = disk /\ fat' = fat /\ Len(path.names) > 1
        /\ Walking(disk, fat, path, depth, dir)
    BY <1>3 DEF OpenedBelow, WalkInv, args, TypeInv, TypeOK
  <2>2. Safe(disk, fat, dir)  BY <2>1, WalkIsSafe
  <2>3. PICK s \in FoundInDir(Entries(disk, dir), path.names[depth]) :
          fp' = Handle(dir, Entries(disk, dir)[s])
    BY <1>3 DEF OpenedBelow
  <2>4. fp'.rde = Entries(disk, dir)[s]  BY <2>3 DEF Handle
  <2>5. OpenedAt(disk, fat, path, fp'.rde)  BY <2>1, <2>2, <2>3, <2>4 DEF OpenedAt
  <2> QED  BY <2>1, <2>5 DEF OpenedInv
<1>4. CASE ~Returned("fatOpen", 0)'  BY <1>4 DEF OpenedInv
<1> QED
  BY <1>1, <1>2, <1>3, <1>4, StepKinds
  DEF FilesInv, Begun, Descended, CreatedTop, CreatedBelow, Neither, Returned, Idle

\* The entry u was just made: it is named n, and its cluster is cleared and its own.
NewUnit(d, t, u, n, isDir) ==
  /\ u.cluster \in Clusters /\ u.cluster >= 2 /\ u = NewEntry(n, isDir, u.cluster)
  /\ t[u.cluster] = EOC /\ \A s \in DirSlots : d[ClusterBase(u.cluster) + s] = Zero
  /\ \E a \in Addr : d[a] = u

LEMMA PutNew ==
  ASSUME TypeInv, TypeInv', FilesInv, WellBehaved', Clean(disk, fat),
         NEW a0, NEW n \in Name, n \notin DotNames, NEW isDir, PutEntry(a0, n, isDir),
         \A c \in Clusters \ {0, 1}, s \in DirSlots : a0 = ClusterBase(c) + s => fat[c] # 0
  PROVE  NewUnit(disk', fat', disk'[a0], n, isDir)
<1>1. OwnCluster(a0, n, isDir)  BY PutCluster DEF FilesInv, OpenInv, FirstInv
<1>2. PICK c : /\ disk'[a0] = NewEntry(n, isDir, c) /\ c # 0
               /\ fat[c] = 0 /\ fat'[c] = EOC
  BY <1>1 DEF OwnCluster
<1>3. a0 \in Addr /\ disk'[a0] \in Unit  BY DEF PutEntry, TypeInv, TypeOK
<1>4. disk'[a0].cluster = c /\ disk'[a0].kind = "entry"  BY <1>2 DEF NewEntry
<1>5. c \in Clusters  BY <1>3, <1>4, EntryUnit DEF Entry
<1>6. fat[1] # 0  BY EocIsNotFree DEF FilesInv, TidyInv, TidyVolume
<1>7. c >= 2  BY <1>2, <1>5, <1>6, Sizes
<1>8. ASSUME NEW s \in DirSlots
      PROVE  disk'[ClusterBase(c) + s] = Zero
  <2>1. ClusterBase(c) + s # a0  BY <1>2, <1>5, <1>7
  <2>2. ClusterBase(c) + s \in Addr  BY <1>5, <1>7, DataUnits
  <2>3. disk[ClusterBase(c) + s] = Zero  BY <1>2, <1>5, <1>7 DEF Clean
  <2> QED  BY <2>1, <2>2, <2>3 DEF PutEntry
<1> QED  BY <1>2, <1>3, <1>4, <1>5, <1>7, <1>8 DEF NewUnit

\* Where p leads to after it was made, there is the new entry, or nothing if it went to
\* the root directory with a slash before its name.
Made(d, t, p, isDir) ==
  \/ /\ Len(p.names) = 1
     /\ StoredName(p) = p.names[1] => FoundInRoot(LoadRoot(d), p.names[1]) # {}
     /\ \A s \in FoundInRoot(LoadRoot(d), p.names[1]) :
          NewUnit(d, t, LoadRoot(d)[s], StoredName(p), isDir)
  \/ /\ Len(p.names) > 1 /\ subDirectIndex(p) >= 2
     /\ \E w : /\ Trail(d, t, p, subDirectIndex(p), w)
               /\ Safe(d, t, w[subDirectIndex(p)])
               /\ \E s \in FoundInDir(Entries(d, w[subDirectIndex(p)]),
                                     p.names[subDirectIndex(p)]) :
                    NewUnit(d, t, Entries(d, w[subDirectIndex(p)])[s],
                            p.names[subDirectIndex(p)], isDir)
MadeInv == Returned("fatCreate", 0) => Made(disk, fat, path, isDirectory)

LEMMA SlashFirst ==
  ASSUME NEW n \in Seq(Char)
  PROVE  (<<"/">> \o n)[1] = "/"
<1>1. <<"/">> \in Seq(Char)  BY InputAssumption
<1>2. Len(<<"/">>) = 1 /\ Len(n) \in Nat  OBVIOUS
<1>3. 1 \in 1..(Len(<<"/">>) + Len(n)) /\ 1 <= Len(<<"/">>)  BY <1>2
<1> QED  BY <1>1, <1>3

LEMMA MadeTop ==
  ASSUME TypeInv, TypeInv', FilesInv, Packed(disk), Clean(disk, fat), WellBehaved', RootShort',
         NEW p \in Path, p.names[1] # <<>>, Len(p.names) = 1, p.names[1] \notin DotNames,
         StoredName(p) # <<>>, StoredName(p) = NewName(p),
         NEW isDir \in BOOLEAN, NEW s \in Slots, NEW a0, a0 = s - RootSize,
         PutEntry(a0, StoredName(p), isDir),
         \A y \in Slots : y < s => ~RootMatch(disk[y - RootSize], p.names[1])
  PROVE  Made(disk', fat', p, isDir)
<1> DEFINE n == p.names[1]
           m == StoredName(p)
<1>1. m \in Name /\ m # <<>> /\ m \notin DotNames
  <2>1. p.names \in Seq(Name) /\ p.names # <<>>  BY EmptySeq DEF Path
  <2>2. ~ (Len(p.names) > 1)  OBVIOUS
  <2>3. m \in Name  BY <2>1, <2>2, StoredNameType
  <2>4. m = IF p.abs THEN <<"/">> \o n ELSE n  BY <2>2 DEF NewName
  <2>5. p.abs => m[1] = "/"
    <3>1. p.names[1] \in Seq(Char)  BY <2>1 DEF Name
    <3> QED  BY <2>4, <3>1, SlashFirst
  <2>6. ~p.abs => m \notin DotNames  BY <2>4
  <2> HIDE DEF m
  <2>7. p.abs => m \notin DotNames  BY <2>5 DEF DotNames
  <2>8. m # <<>>  BY DEF m
  <2> QED  BY <2>3, <2>6, <2>7, <2>8
<1> HIDE DEF m, n
<1>2. a0 \in Addr /\ FreeSlot(disk[a0]) /\ \A a \in Addr \ {a0} : disk'[a] = disk[a]
  BY DEF PutEntry
<1>3. NewUnit(disk', fat', disk'[a0], m, isDir)
  <2>1. ASSUME NEW c \in Clusters \ {0, 1}, NEW x \in DirSlots, a0 = ClusterBase(c) + x
        PROVE  fat[c] # 0
    BY <2>1, DataUnits, Sizes
  <2>2. PutEntry(a0, m, isDir)  BY DEF m
  <2> QED  BY <1>1, <2>1, <2>2, PutNew
<1>4. ASSUME NEW x \in FoundInRoot(LoadRoot(disk'), n), x # s
      PROVE  FALSE
  <2>1. /\ x \in Slots /\ RootMatch(disk'[x - RootSize], n)
        /\ \A y \in Slots : RootMatch(disk'[y - RootSize], n) => x <= y
    BY DEF FoundInRoot, Scan, LoadRoot
  <2>2. x - RootSize \in Addr /\ x - RootSize # a0  BY <1>4, <2>1, Sizes
  <2>3. RootMatch(disk[x - RootSize], n)  BY <1>2, <2>1, <2>2
  <2>4. s < x
    <3>1. ~ (x < s)  BY <2>1, <2>3 DEF n
    <3> QED  BY <1>4, <2>1, <3>1, Sizes
  <2>5. x <= RootRead
    <3> SUFFICES ASSUME x > RootRead
                 PROVE  FALSE
      BY <2>1, Sizes
    <3>1. Used(disk'[x - RootSize])  BY <2>1 DEF RootMatch, Used
    <3>2. PICK y \in 1..RootRead : /\ disk'[y - RootSize].kind = "entry"
                                   /\ disk'[y - RootSize].name = disk'[x - RootSize].name
      BY <2>1, <3>1 DEF RootShort
    <3>3. y \in Slots /\ ~ (x <= y)  BY <2>1, <3>2, Sizes, SizeAssumption
    <3>4. RootMatch(disk'[y - RootSize], n)  BY <2>1, <3>2 DEF RootMatch
    <3> QED  BY <2>1, <3>3, <3>4
  <2>6. s \in DirSlots /\ x \in DirSlots /\ 0 \in Clusters \ {1}
    BY <2>1, <2>4, <2>5, Sizes, SizeAssumption
  <2>7. DirBase(0) + s = a0 /\ DirBase(0) + x = x - RootSize  BY <2>6, SlotAddress
  <2>8. Used(disk[x - RootSize])  BY <2>3 DEF RootMatch, Used
  <2> QED  BY <1>2, <2>4, <2>5, <2>6, <2>7, <2>8 DEF Packed
<1>5. LoadRoot(disk')[s] = disk'[a0]  BY DEF LoadRoot
<1>6. \A x \in FoundInRoot(LoadRoot(disk'), n) : NewUnit(disk', fat', LoadRoot(disk')[x], m, isDir)
  BY <1>3, <1>4, <1>5
<1>7. ASSUME m = n
      PROVE  FoundInRoot(LoadRoot(disk'), n) # {}
  <2>1. PICK k : disk'[a0] = NewEntry(m, isDir, k)  BY DEF PutEntry, m
  <2>2. RootMatch(disk'[a0], n)  BY <1>1, <1>7, <2>1 DEF NewEntry, RootMatch, SameName
  <2> DEFINE S == {x \in Slots : RootMatch(LoadRoot(disk')[x], n)}
  <2>3. s \in S  BY <1>5, <2>2
  <2>4. S \subseteq Slots  OBVIOUS
  <2> HIDE DEF S
  <2>5. Scan(S) # {}  BY <2>3, <2>4, ScanFinds
  <2> QED  BY <2>5 DEF FoundInRoot, S
<1> QED  BY <1>6, <1>7 DEF Made, m, n

LEMMA MadeBelow ==
  ASSUME TypeInv, TypeInv', FilesInv, Packed(disk), Clean(disk, fat), Orderly, WellBehaved',
         WalkInv, Grown, pc = "walk", depth = subDirectIndex(path),
         NEW n \in Name, n = path.names[depth], n \notin DotNames, n # <<>>,
         NEW isDir \in BOOLEAN, NEW s \in DirSlots, NEW a0, a0 = DirBase(dir) + s,
         PutEntry(a0, n, isDir),
         \A y \in DirSlots : y < s => ~DirMatch(disk[DirBase(dir) + y], n)
  PROVE  Made(disk', fat', path, isDir)
<1>1. /\ depth \in Nat /\ depth >= 2 /\ Len(path.names) > 1 /\ dir \in Clusters \ {0, 1}
  <2>1. depth >= 2 /\ Len(path.names) > 1 /\ dir >= 2  BY DEF WalkInv, Orderly
  <2>2. depth \in Nat /\ dir \in Clusters  BY DEF TypeInv, TypeOK
  <2>3. dir # 0 /\ dir # 1  BY <2>1, <2>2, Sizes
  <2> QED  BY <2>1, <2>2, <2>3
<1>2. PICK w : Trail(disk, fat, path, depth, w) /\ w[depth] = dir  BY DEF WalkInv, Walking
<1>3. Safe(disk, fat, dir)  BY WalkIsSafe
<1>4. BlankInv /\ RootShort  BY DEF FilesInv, OpenInv, FirstInv, Orderly
<1>5. Trail(disk', fat', path, depth, w) /\ Safe(disk', fat', w[depth])
  <2>1. Safe(disk, fat, w[depth])  BY <1>2, <1>3
  <2> QED  BY <1>1, <1>2, <1>4, <2>1, TrailStays
<1>6. a0 \in Addr /\ \A a \in Addr \ {a0} : disk'[a] = disk[a]  BY DEF PutEntry
<1>7. NewUnit(disk', fat', disk'[a0], n, isDir)
  <2>1. ASSUME NEW c \in Clusters \ {0, 1}, NEW x \in DirSlots, a0 = ClusterBase(c) + x
        PROVE  fat[c] # 0
    <3>1. DirBase(c) + x = DirBase(dir) + s  BY <2>1 DEF DirBase
    <3>2. c = dir  BY <1>1, <3>1, SameSlot
    <3> QED  BY <1>3, <3>2 DEF Safe
  <2> QED  BY <2>1, PutNew
<1>8. DirMatch(disk'[a0], n)
  <2>1. PICK k : disk'[a0] = NewEntry(n, isDir, k)  BY DEF PutEntry
  <2> QED  BY <2>1 DEF NewEntry, DirMatch, SameName
<1>9. s \in FoundInDir(Entries(disk', dir), n)
  <2>1. ASSUME NEW x \in DirSlots, DirMatch(disk'[DirBase(dir) + x], n)
        PROVE  s <= x
    <3>1. DirBase(dir) + x \in Addr  BY <1>1, SlotAddress
    <3>2. CASE x = s  BY <3>2, Sizes
    <3>3. CASE x # s
      <4>1. DirBase(dir) + x # a0  BY <1>1, <3>3, SameSlot
      <4> QED  BY <1>6, <2>1, <3>1, <4>1
    <3> QED  BY <3>2, <3>3
  <2> QED  BY <1>8, <2>1 DEF FoundInDir, Scan, Entries
<1>10. Entries(disk', dir)[s] = disk'[a0]  BY DEF Entries
<1>11. \E x \in FoundInDir(Entries(disk', dir), n) :
         NewUnit(disk', fat', Entries(disk', dir)[x], n, isDir)
  BY <1>7, <1>9, <1>10
<1> QED  BY <1>1, <1>2, <1>5, <1>11 DEF Made

LEMMA StepsGoOn ==
  ASSUME Step
  PROVE  UNCHANGED args /\ pc \notin {"idle", "fault"}
<1>1. CASE Stray
  <2>1. pc \in {"walk", "free", "place", "read"}
    BY <1>1 DEF Stray, WalkAstray, LengthAstray, ClusterAstray
  <2> QED  BY <1>1, <2>1, StrayStops
<1> QED
  BY <1>1 DEF Step, Stray, fatOpenStep, fatCreateStep, FreeCluster, WriteSingle, WriteLinked,
    WriteLast, WriteWild, ReadSingle, ReadLinked, Finish, args

(***************************************************************************)
(* Where a lookup ends                                                     *)
(***************************************************************************)

\* RootShort, of any disk.
ShortRoot(d) ==
  \A s \in Slots : s > RootRead /\ Used(d[s - RootSize]) =>
    \E x \in 1..RootRead :
      LET u == d[x - RootSize]
      IN  u.kind = "entry" /\ u.name = d[s - RootSize].name

LEMMA RootBase ==
  \A s \in DirSlots : DirBase(0) + s = s - RootSize /\ s \in Slots
BY SlotAddress, Sizes, SizeAssumption

\* No lookup ends in the part of the root directory that is not read as a cluster.
LEMMA FoundCopied ==
  ASSUME NEW d, NEW c \in Clusters, c = 0 => ShortRoot(d), NEW n, NEW s \in FoundOn(d, c, n)
  PROVE  /\ s \in DirSlots /\ Copied(c, s) /\ RootMatch(d[DirBase(c) + s], n)
         /\ Used(d[DirBase(c) + s])
<1>1. /\ s \in DirSlots /\ RootMatch(d[DirBase(c) + s], n)
      /\ \A x \in DirSlots : RootMatch(d[DirBase(c) + x], n) => s <= x
  BY DEF FoundOn, Scan
<1>2. Used(d[DirBase(c) + s])  BY <1>1 DEF RootMatch, Used
<1>3. Copied(c, s)
  <2> SUFFICES ASSUME c = 0, s > RootRead PROVE FALSE
    BY <1>1, Sizes DEF Copied
  <2>1. PICK x \in 1..RootRead :
           d[x - RootSize].kind = "entry" /\ d[x - RootSize].name = d[s - RootSize].name
    BY <1>1, <1>2, RootBase DEF ShortRoot
  <2>2. x \in DirSlots  BY SizeAssumption, Sizes
  <2>3. RootMatch(d[DirBase(c) + x], n)  BY <1>1, <2>1, <2>2, RootBase DEF RootMatch
  <2> QED  BY <1>1, <2>2, <2>3, Sizes
<1> QED  BY <1>1, <1>2, <1>3

LEMMA FoundOnce ==
  ASSUME NEW d, NEW c, NEW n, NEW s \in FoundOn(d, c, n), NEW x \in FoundOn(d, c, n)
  PROVE  s = x
BY Sizes DEF FoundOn, Scan

\* A lookup ends at the same slot of two disks whose copied slots match alike.
LEMMA FoundAlso ==
  ASSUME NEW d, NEW e, NEW c \in Clusters, c = 0 => ShortRoot(d), NEW n, NEW m,
         \A s \in DirSlots : Copied(c, s) =>
           (RootMatch(d[DirBase(c) + s], n) <=> RootMatch(e[DirBase(c) + s], m))
  PROVE  FoundOn(d, c, n) \subseteq FoundOn(e, c, m)
<1> SUFFICES ASSUME NEW s \in FoundOn(d, c, n)
             PROVE  s \in FoundOn(e, c, m)
  OBVIOUS
<1>1. s \in DirSlots /\ Copied(c, s) /\ RootMatch(d[DirBase(c) + s], n)  BY FoundCopied
<1>2. \A x \in DirSlots : RootMatch(d[DirBase(c) + x], n) => s <= x  BY DEF FoundOn, Scan
<1>3. ASSUME NEW x \in DirSlots, RootMatch(e[DirBase(c) + x], m)
      PROVE  s <= x
  <2>1. CASE Copied(c, x)  BY <1>2, <1>3, <2>1
  <2>2. CASE ~Copied(c, x)  BY <1>1, <2>2, Sizes DEF Copied
  <2> QED  BY <2>1, <2>2
<1> QED  BY <1>1, <1>3 DEF FoundOn, Scan

LEMMA FoundSame ==
  ASSUME NEW d, NEW e, NEW c \in Clusters, c = 0 => ShortRoot(d) /\ ShortRoot(e), NEW n, NEW m,
         \A s \in DirSlots : Copied(c, s) =>
           (RootMatch(d[DirBase(c) + s], n) <=> RootMatch(e[DirBase(c) + s], m))
  PROVE  FoundOn(d, c, n) = FoundOn(e, c, m)
<1>1. FoundOn(d, c, n) \subseteq FoundOn(e, c, m)  BY FoundAlso
<1>2. FoundOn(e, c, m) \subseteq FoundOn(d, c, n)  BY FoundAlso
<1> QED  BY <1>1, <1>2

\* The first character of the name looked for makes no difference.
LEMMA FoundByRest ==
  ASSUME NEW d, NEW c, NEW n, NEW m, Rest(n) = Rest(m)
  PROVE  SlotsOn(d, c, n) = SlotsOn(d, c, m)
BY DEF SlotsOn, FoundOn, RootMatch, SameName

\* What the scans of fatOpen and fatCreate find is what the lookup does.
LEMMA RootScan ==
  ASSUME NEW d, ShortRoot(d), NEW n
  PROVE  FoundInRoot(LoadRoot(d), n) = FoundOn(d, 0, n)
<1>0. 0 \in Clusters  BY Sizes, SizeAssumption
<1>1. ASSUME NEW s \in FoundInRoot(LoadRoot(d), n)
      PROVE  s \in FoundOn(d, 0, n)
  <2>1. /\ s \in Slots /\ RootMatch(d[s - RootSize], n)
        /\ \A x \in Slots : RootMatch(d[x - RootSize], n) => s <= x
    BY DEF FoundInRoot, Scan, LoadRoot
  <2>2. s <= RootRead
    <3> SUFFICES ASSUME s > RootRead PROVE FALSE  BY <2>1, Sizes
    <3>1. PICK x \in 1..RootRead :
             d[x - RootSize].kind = "entry" /\ d[x - RootSize].name = d[s - RootSize].name
      BY <2>1 DEF ShortRoot, RootMatch, Used
    <3>2. x \in Slots /\ RootMatch(d[x - RootSize], n)
      BY <2>1, <3>1, SizeAssumption, Sizes DEF RootMatch
    <3> QED  BY <2>1, <3>2, Sizes
  <2>3. s \in DirSlots  BY <2>1, <2>2, SizeAssumption, Sizes
  <2> QED  BY <2>1, <2>3, RootBase DEF FoundOn, Scan
<1>2. ASSUME NEW s \in FoundOn(d, 0, n)
      PROVE  s \in FoundInRoot(LoadRoot(d), n)
  <2>1. s \in DirSlots /\ s <= RootRead /\ RootMatch(d[DirBase(0) + s], n)
    BY <1>0, FoundCopied DEF Copied
  <2>2. \A x \in DirSlots : RootMatch(d[DirBase(0) + x], n) => s <= x  BY DEF FoundOn, Scan
  <2>3. s \in Slots /\ RootMatch(LoadRoot(d)[s], n)  BY <2>1, RootBase DEF LoadRoot
  <2>4. ASSUME NEW x \in Slots, RootMatch(LoadRoot(d)[x], n)
        PROVE  s <= x
    <3>1. CASE x \in DirSlots  BY <2>2, <2>4, <3>1, RootBase DEF LoadRoot
    <3>2. CASE x \notin DirSlots  BY <2>1, <3>2, SizeAssumption, Sizes
    <3> QED  BY <3>1, <3>2
  <2> QED  BY <2>3, <2>4 DEF FoundInRoot, Scan
<1> QED  BY <1>1, <1>2

\* Of a name of two characters or more an empty slot is no match.
LEMMA LongMatch ==
  ASSUME NEW n \in Name, Len(n) > 1, NEW u
  PROVE  /\ DirMatch(u, n) <=> RootMatch(u, n)
         /\ DirMatch(u, n) => Used(u)
<1>1. n \in Seq(Char) /\ Len(<<>>) = 0  BY DEF Name
<1>2. n # <<>>  BY <1>1
<1>3. Tail(n) # <<>>
  <2> DEFINE t == Tail(n)
             l == Len(n)
  <2>1. Len(t) = l - 1 /\ l \in Nat /\ l > 1  BY <1>1, <1>2
  <2> HIDE DEF l, t
  <2>2. Len(t) # 0  BY <2>1
  <2>3. t # <<>>  BY <1>1, <2>2
  <2> QED  BY <2>3 DEF t
<1>4. Rest(n) # <<>>  BY <1>2, <1>3 DEF Rest
<1> QED  BY <1>2, <1>4 DEF DirMatch, RootMatch, SameName, Rest, Used

LEMMA DirScan ==
  ASSUME NEW d, NEW c, NEW n \in Name, Len(n) > 1
  PROVE  FoundInDir(Entries(d, c), n) = FoundOn(d, c, n)
<1>1. \A s \in DirSlots : DirMatch(Entries(d, c)[s], n) <=> RootMatch(d[DirBase(c) + s], n)
  BY LongMatch DEF Entries
<1> QED  BY <1>1 DEF FoundInDir, FoundOn

LEMMA EntryOnIs ==
  ASSUME NEW d \in Disk, NEW p \in Path, p.names # <<>>
  PROVE  \E f : /\ f[1] = SlotsOn(d, 0, p.names[1])
                /\ \A k \in 2..Len(p.names) :
                     f[k] = UNION {SlotsOn(d, d[a].cluster, p.names[k]) : a \in f[k - 1]}
                /\ EntryOn(d, p) = f[Len(p.names)]
<1> DEFINE m == Len(p.names)
           Next1(k, v) == UNION {SlotsOn(d, d[a].cluster, p.names[k]) : a \in v}
           Body(g) ==
             [k \in 1..m |-> IF k = 1 THEN SlotsOn(d, 0, p.names[1]) ELSE Next1(k, g[k - 1])]
           At == CHOOSE g : g = Body(g)
<1>1. EntryOn(d, p) = At[m]  BY Zenon DEF EntryOn, SlotsOn
<1> DEFINE V == SUBSET {a \in Addr : d[a].kind = "entry"}
           base == SlotsOn(d, 0, p.names[1])
           step == [k \in 1..(m - 1) |-> [v \in V |-> Next1(k + 1, v)]]
<1>2. m \in Nat \ {0} /\ m - 1 \in Nat  BY DEF Path
<1>3. ASSUME NEW c \in Clusters, NEW n
      PROVE  SlotsOn(d, c, n) \in V
  BY SlotAddress DEF SlotsOn, FoundOn, Scan, RootMatch
<1>4. ASSUME NEW v \in V, NEW k
      PROVE  Next1(k, v) \in V
  <2>1. \A a \in v : d[a].cluster \in Clusters  BY EntryUnit DEF Disk, Entry
  <2> QED  BY <1>3, <2>1
<1>5. base \in V  BY <1>3, Sizes, SizeAssumption
<1> HIDE DEF V, base
<1>6. step \in [1..(m - 1) -> [V -> V]]  BY <1>4
<1>7. PICK h \in [0..(m - 1) -> V] :
        h[0] = base /\ \A k \in 1..(m - 1) : h[k] = step[k][h[k - 1]]
  <2> HIDE DEF step, m
  <2>1. Runs(m - 1, V, base, step) # {}  BY <1>2, <1>5, <1>6, LoopExists
  <2> QED  BY <2>1 DEF Runs
<1> DEFINE f == [k \in 1..m |-> h[k - 1]]
<1>8. \A k \in 1..m : f[k] = IF k = 1 THEN base ELSE Next1(k, f[k - 1])
  <2> SUFFICES ASSUME NEW k \in 1..m
               PROVE  f[k] = IF k = 1 THEN base ELSE Next1(k, f[k - 1])
    OBVIOUS
  <2>1. CASE k = 1  BY <1>2, <1>7, <2>1
  <2>2. CASE k # 1
    <3>1. k - 1 \in 1..(m - 1) /\ k - 1 \in 1..m /\ (k - 1) - 1 \in 0..(m - 1) /\ (k - 1) + 1 = k
      BY <1>2, <2>2
    <3> DEFINE v == h[(k - 1) - 1]
    <3>2. v \in V /\ f[k - 1] = v /\ f[k] = h[k - 1]  BY <1>7, <3>1
    <3>3. h[k - 1] = step[k - 1][v]  BY <1>7, <3>1
    <3> HIDE DEF v, f, Next1
    <3>4. step[k - 1][v] = Next1((k - 1) + 1, v)  BY <3>1, <3>2
    <3> QED  BY <2>2, <3>1, <3>2, <3>3, <3>4
  <2> QED  BY <2>1, <2>2
<1>9. f = Body(f)
  <2>1. f = [k \in 1..m |-> f[k]]  OBVIOUS
  <2> HIDE DEF f, Next1, m
  <2>2. Body(f) = [k \in 1..m |-> f[k]]  BY <1>8 DEF base
  <2> QED  BY <2>1, <2>2, Zenon
<1>10. At = Body(At)
  <2> HIDE DEF f, Body
  <2> QED  BY <1>9
<1> HIDE DEF At
<1>11. \A k \in 1..m : At[k] = IF k = 1 THEN base ELSE Next1(k, At[k - 1])
  <2>1. \A k \in 1..m : At[k] = Body(At)[k]  BY <1>10
  <2> QED  BY <2>1 DEF base
<1>12. At[1] = base /\ \A k \in 2..m : At[k] = Next1(k, At[k - 1])
  <2>1. 1 \in 1..m /\ \A k \in 2..m : k \in 1..m /\ k # 1  BY <1>2
  <2> QED  BY <1>11, <2>1
<1> QED  BY <1>1, <1>12 DEF base

LEMMA PathNames ==
  ASSUME NEW p \in Paths
  PROVE  /\ p \in Path /\ p.names \in Seq(Name) /\ p.names # <<>>
         /\ Len(p.names) \in Nat /\ Len(p.names) >= 1 /\ DOMAIN p.names = 1..Len(p.names)
         /\ \A k \in 1..Len(p.names) : p.names[k] \in Name
         /\ LastName(p) \in Name
<1>1. p \in Path /\ p.names # <<>>  BY InputAssumption
<1>2. /\ p.names \in Seq(Name) /\ Len(p.names) \in Nat /\ Len(p.names) >= 1
      /\ DOMAIN p.names = 1..Len(p.names)
  BY <1>1 DEF Path
<1>3. \A k \in 1..Len(p.names) : p.names[k] \in Name  BY <1>2
<1>4. LastName(p) \in Name  BY <1>2, <1>3 DEF LastName
<1> QED  BY <1>1, <1>2, <1>3, <1>4

LEMMA PlainIsNamed ==
  ASSUME PlainPaths
  PROVE  /\ NamedPaths
         /\ \A p \in Paths : /\ Plain(p) /\ subDirectIndex(p) = Len(p.names)
                            /\ LastName(p) # <<>> /\ StoredName(p) = LastName(p)
<1>1. ASSUME NEW p \in Paths
      PROVE  /\ p.names[1] # <<>> /\ Plain(p) /\ subDirectIndex(p) = Len(p.names)
             /\ LastName(p) # <<>> /\ StoredName(p) = LastName(p)
  <2>1. 1 \in DOMAIN p.names /\ Len(p.names) \in DOMAIN p.names /\ p \in Path
        /\ p.names # <<>>
    BY PathNames
  <2>2. Plain(p) /\ p.names[1] # <<>> /\ LastName(p) # <<>>
    BY <2>1 DEF PlainPaths, Plain, LastName
  <2> QED  BY <2>1, <2>2, WholePath, PlainStored
<1> QED  BY <1>1 DEF NamedPaths

\* A way leads to the directory that the last component is looked up in.
LEMMA EntryOnWay ==
  ASSUME NEW d \in Disk, NEW p \in Paths, NEW w, Way(d, p, w)
  PROVE  EntryOn(d, p) = SlotsOn(d, w[Len(p.names)], LastName(p))
<1> DEFINE m == Len(p.names)
<1>1. p \in Path /\ p.names # <<>> /\ m \in Nat /\ m >= 1  BY PathNames
<1>2. PICK f : /\ f[1] = SlotsOn(d, 0, p.names[1])
               /\ \A k \in 2..m :
                    f[k] = UNION {SlotsOn(d, d[a].cluster, p.names[k]) : a \in f[k - 1]}
               /\ EntryOn(d, p) = f[m]
  BY <1>1, EntryOnIs
<1>3. /\ w[1] = 0
      /\ \A j \in 1..(m - 1) :
           \E a \in SlotsOn(d, w[j], p.names[j]) : d[a].cluster = w[j + 1]
  BY DEF Way
<1> DEFINE T == {k \in 0..(m - 1) : f[k + 1] = SlotsOn(d, w[k + 1], p.names[k + 1])}
<1> HIDE DEF m
<1>4. 0 \in T  BY <1>1, <1>2, <1>3
<1>5. ASSUME NEW k \in 1..(m - 1), k - 1 \in T
      PROVE  k \in T
  <2>1. k + 1 \in 2..m /\ (k + 1) - 1 = k /\ (k - 1) + 1 = k  BY <1>1
  <2>2. f[k] = SlotsOn(d, w[k], p.names[k])  BY <1>5, <2>1
  <2>3. PICK a \in SlotsOn(d, w[k], p.names[k]) : d[a].cluster = w[k + 1]  BY <1>3
  <2>4. \A b \in SlotsOn(d, w[k], p.names[k]) : b = a  BY <2>3, FoundOnce DEF SlotsOn
  <2>5. f[k] = {a}  BY <2>2, <2>3, <2>4
  <2>6. f[k + 1] = UNION {SlotsOn(d, d[b].cluster, p.names[k + 1]) : b \in f[k]}
    BY <1>2, <2>1
  <2>7. f[k + 1] = SlotsOn(d, w[k + 1], p.names[k + 1])  BY <2>3, <2>5, <2>6
  <2> QED  BY <1>1, <2>7
<1> HIDE DEF T
<1>6. m - 1 \in T
  <2>1. m - 1 \in Nat  BY <1>1
  <2>2. 0..(m - 1) \subseteq T  BY <1>4, <1>5, <2>1, LoopKeeps
  <2> QED  BY <2>1, <2>2
<1>7. (m - 1) + 1 = m  BY <1>1
<1>8. f[m] = SlotsOn(d, w[m], p.names[m])  BY <1>6, <1>7 DEF T
<1> QED  BY <1>2, <1>8 DEF m, LastName

(***************************************************************************)
(* Files by their keys                                                     *)
(***************************************************************************)

LEMMA SameKey ==
  ASSUME NEW p \in Paths, NEW q \in Paths
  PROVE  Key(p) = Key(q) <=>
           /\ Len(p.names) = Len(q.names)
           /\ \A k \in 1..Len(p.names) : Rest(p.names[k]) = Rest(q.names[k])
<1>1. /\ DOMAIN p.names = 1..Len(p.names) /\ DOMAIN q.names = 1..Len(q.names)
      /\ Len(p.names) \in Nat /\ Len(q.names) \in Nat
      /\ Len(p.names) >= 1 /\ Len(q.names) >= 1
  BY PathNames
<1>2. DOMAIN Key(p) = 1..Len(p.names) /\ DOMAIN Key(q) = 1..Len(q.names)
  BY <1>1 DEF Key
<1>3. ASSUME Key(p) = Key(q)
      PROVE  Len(p.names) = Len(q.names)
  <2>1. Len(p.names) \in 1..Len(q.names) /\ Len(q.names) \in 1..Len(p.names)
    BY <1>1, <1>2, <1>3
  <2> QED  BY <1>1, <2>1
<1>4. ASSUME Key(p) = Key(q), NEW k \in 1..Len(p.names)
      PROVE  Rest(p.names[k]) = Rest(q.names[k])
  <2>1. Key(p)[k] = Rest(p.names[k]) /\ Key(q)[k] = Rest(q.names[k])
    BY <1>1, <1>3, <1>4 DEF Key
  <2> QED  BY <1>4, <2>1
<1>5. ASSUME Len(p.names) = Len(q.names),
             \A k \in 1..Len(p.names) : Rest(p.names[k]) = Rest(q.names[k])
      PROVE  Key(p) = Key(q)
  BY <1>1, <1>5 DEF Key
<1> QED  BY <1>3, <1>4, <1>5

LEMMA WayByKey ==
  ASSUME NEW d, NEW p \in Paths, NEW q \in Paths, Key(p) = Key(q), NEW w, Way(d, p, w)
  PROVE  Way(d, q, w)
<1>1. /\ Len(p.names) = Len(q.names) /\ Len(p.names) \in Nat
      /\ \A k \in 1..Len(p.names) : Rest(p.names[k]) = Rest(q.names[k])
  BY SameKey, PathNames
<1>2. \A j \in 1..(Len(p.names) - 1) :
        SlotsOn(d, w[j], p.names[j]) = SlotsOn(d, w[j], q.names[j])
  BY <1>1, FoundByRest
<1> QED  BY <1>1, <1>2 DEF Way

\* c is the directory of the last component of p.
Lies(d, p, c) == \E w : Way(d, p, w) /\ c = w[Len(p.names)]

LEMMA FileOnLies ==
  ASSUME NEW d \in Disk, NEW p \in Paths, NEW c, Lies(d, p, c)
  PROVE  /\ Key(p) \in Keys
         /\ FileOn(d, Key(p)) = FileIn(d, SlotsOn(d, c, LastName(p)))
<1>1. Key(p) \in Keys  BY DEF Keys
<1> DEFINE q == PathTo[Key(p)]
<1>2. q \in Paths /\ Key(q) = Key(p)  BY <1>1 DEF PathTo
<1>3. PICK w : Way(d, p, w) /\ c = w[Len(p.names)]  BY DEF Lies
<1>4. Way(d, q, w)  BY <1>2, <1>3, WayByKey
<1>5. EntryOn(d, q) = SlotsOn(d, w[Len(q.names)], LastName(q))  BY <1>2, <1>4, EntryOnWay
<1>6. /\ Len(q.names) = Len(p.names) /\ Len(p.names) \in 1..Len(p.names)
      /\ \A k \in 1..Len(p.names) : Rest(p.names[k]) = Rest(q.names[k])
  BY <1>2, SameKey, PathNames
<1>7. Rest(LastName(q)) = Rest(LastName(p))  BY <1>6 DEF LastName
<1>8. EntryOn(d, q) = SlotsOn(d, c, LastName(p))  BY <1>3, <1>5, <1>6, <1>7, FoundByRest
<1> QED  BY <1>1, <1>8 DEF FileOn

\* The address a lookup ends at holds an entry that is kept.
LEMMA SlotKept ==
  ASSUME NEW d \in Disk, NEW c \in Clusters \ {1}, c = 0 => ShortRoot(d), NEW n,
         NEW a \in SlotsOn(d, c, n)
  PROVE  /\ a \in Kept /\ a \in Addr /\ d[a] \in Entry /\ d[a].kind = "entry" /\ Used(d[a])
         /\ SameName(d[a].name, n)
         /\ SlotsOn(d, c, n) = {a}
         /\ \E s \in DirSlots : a = DirBase(c) + s /\ Copied(c, s) /\ s \in FoundOn(d, c, n)
<1>1. PICK s \in FoundOn(d, c, n) : a = DirBase(c) + s  BY DEF SlotsOn
<1>2. s \in DirSlots /\ Copied(c, s) /\ RootMatch(d[a], n) /\ Used(d[a])
  BY <1>1, FoundCopied
<1>3. c = 0 \/ c >= 2  BY Sizes
<1>4. a \in Kept /\ a \in Addr  BY <1>1, <1>2, <1>3, ShownKept, SlotAddress
<1>5. d[a] \in Entry /\ d[a].kind = "entry" /\ SameName(d[a].name, n)
  BY <1>2, <1>4, EntryUnit DEF Disk, RootMatch
<1>6. SlotsOn(d, c, n) = {a}  BY <1>1, FoundOnce DEF SlotsOn
<1> QED  BY <1>1, <1>2, <1>4, <1>5, <1>6

\* The directories of a way: the root and those that entries on the way name.
LEMMA WayDirs ==
  ASSUME NEW d \in Disk, ShortRoot(d), NEW p \in Paths, NEW w, Way(d, p, w)
  PROVE  /\ \A j \in 1..Len(p.names) : w[j] \in Clusters \ {1} /\ (w[j] = 0 <=> j = 1)
         /\ \A j \in 1..(Len(p.names) - 1) : \E a \in SlotsOn(d, w[j], p.names[j]) :
              /\ IsDir(d[a]) /\ d[a].cluster = w[j + 1] /\ w[j + 1] >= 2
              /\ a \in Kept /\ Owns(d[a])
<1> DEFINE m == Len(p.names)
<1>1. m \in Nat /\ m >= 1  BY PathNames
<1>2. /\ w \in [1..m -> Clusters] /\ w[1] = 0
      /\ \A j \in 1..(m - 1) :
           /\ w[j + 1] >= 2
           /\ \E a \in SlotsOn(d, w[j], p.names[j]) : IsDir(d[a]) /\ d[a].cluster = w[j + 1]
  BY DEF Way
<1> HIDE DEF m
<1>3. ASSUME NEW j \in 1..m
      PROVE  w[j] \in Clusters \ {1} /\ (w[j] = 0 <=> j = 1)
  <2>1. CASE j = 1  BY <1>1, <1>2, <2>1, Sizes
  <2>2. CASE j # 1
    <3>1. j - 1 \in 1..(m - 1) /\ (j - 1) + 1 = j  BY <1>1, <2>2
    <3>2. w[(j - 1) + 1] >= 2  BY <1>2, <3>1
    <3>3. w[j] \in Clusters /\ w[j] >= 2  BY <1>2, <3>1, <3>2
    <3> QED  BY <2>2, <3>3, Sizes
  <2> QED  BY <2>1, <2>2
<1>4. ASSUME NEW j \in 1..(m - 1)
      PROVE  \E a \in SlotsOn(d, w[j], p.names[j]) :
               /\ IsDir(d[a]) /\ d[a].cluster = w[j + 1] /\ w[j + 1] >= 2
               /\ a \in Kept /\ Owns(d[a])
  <2>1. PICK a \in SlotsOn(d, w[j], p.names[j]) : IsDir(d[a]) /\ d[a].cluster = w[j + 1]
    BY <1>2
  <2>2. w[j + 1] >= 2  BY <1>2
  <2>3. j \in 1..m  BY <1>1
  <2>4. w[j] \in Clusters \ {1}  BY <1>3, <2>3
  <2>5. a \in Kept  BY <2>1, <2>4, SlotKept
  <2>6. w[j + 1] # 0  BY <2>2
  <2>7. Owns(d[a])  BY <2>1, <2>6 DEF IsDir, Owns
  <2> QED  BY <2>1, <2>2, <2>5, <2>7
<1> QED  BY <1>3, <1>4 DEF m

\* Two ways to one directory are the same but for the first characters.
LEMMA SameDirectory ==
  ASSUME NEW d \in Disk, ShortRoot(d), Distinct(d),
         NEW p \in Paths, NEW q \in Paths, NEW w, NEW v, Way(d, p, w), Way(d, q, v),
         w[Len(p.names)] = v[Len(q.names)]
  PROVE  /\ Len(p.names) = Len(q.names)
         /\ \A j \in 1..(Len(p.names) - 1) : Rest(p.names[j]) = Rest(q.names[j])
<1> DEFINE m == Len(p.names)
           l == Len(q.names)
           Alike(k) == \A j \in 1..k : Rest(p.names[j]) = Rest(q.names[j])
           T == {k \in 0..(m - 1) : \A x \in 1..l : w[k + 1] = v[x] => x = k + 1 /\ Alike(k)}
<1>1. m \in Nat /\ m >= 1 /\ l \in Nat /\ l >= 1  BY PathNames
<1>2. /\ \A j \in 1..m : w[j] \in Clusters \ {1} /\ (w[j] = 0 <=> j = 1)
      /\ \A j \in 1..(m - 1) : \E a \in SlotsOn(d, w[j], p.names[j]) :
           /\ IsDir(d[a]) /\ d[a].cluster = w[j + 1] /\ w[j + 1] >= 2
           /\ a \in Kept /\ Owns(d[a])
  BY WayDirs
<1>3. /\ \A j \in 1..l : v[j] \in Clusters \ {1} /\ (v[j] = 0 <=> j = 1)
      /\ \A j \in 1..(l - 1) : \E a \in SlotsOn(d, v[j], q.names[j]) :
           /\ IsDir(d[a]) /\ d[a].cluster = v[j + 1] /\ v[j + 1] >= 2
           /\ a \in Kept /\ Owns(d[a])
  BY WayDirs
<1> HIDE DEF m, l
<1>4. 0 \in T
  <2>1. w[1] = 0  BY <1>1, <1>2
  <2>2. \A x \in 1..l : v[x] = 0 => x = 1  BY <1>3
  <2> QED  BY <1>1, <2>1, <2>2
<1>5. ASSUME NEW k \in 1..(m - 1), k - 1 \in T
      PROVE  k \in T
  <2> SUFFICES ASSUME NEW x \in 1..l, w[k + 1] = v[x]
               PROVE  x = k + 1 /\ Alike(k)
    BY <1>1
  <2>1. k \in 1..m /\ k + 1 \in 1..m /\ k + 1 # 1 /\ (k - 1) + 1 = k  BY <1>1
  <2>2. w[k + 1] # 0  BY <1>2, <2>1
  <2>3. x # 1  BY <1>3, <2>2
  <2>4. x - 1 \in 1..(l - 1) /\ x - 1 \in 1..l /\ (x - 1) + 1 = x  BY <1>1, <2>3
  <2>5. PICK a \in SlotsOn(d, w[k], p.names[k]) :
          d[a].cluster = w[k + 1] /\ a \in Kept /\ Owns(d[a])
    BY <1>2
  <2>6. PICK b \in SlotsOn(d, v[x - 1], q.names[x - 1]) :
          d[b].cluster = v[(x - 1) + 1] /\ b \in Kept /\ Owns(d[b])
    BY <1>3, <2>4
  <2>7. a = b  BY <2>4, <2>5, <2>6 DEF Distinct
  <2>8. w[k] \in Clusters \ {1} /\ v[x - 1] \in Clusters \ {1}  BY <1>2, <1>3, <2>1, <2>4
  <2>9. /\ SameName(d[a].name, p.names[k])
        /\ \E s \in DirSlots : a = DirBase(w[k]) + s
    BY <2>5, <2>8, SlotKept
  <2>10. /\ SameName(d[a].name, q.names[x - 1])
         /\ \E s \in DirSlots : a = DirBase(v[x - 1]) + s
    BY <2>6, <2>7, <2>8, SlotKept
  <2>11. w[k] = v[x - 1]
    <3>1. PICK s \in DirSlots : a = DirBase(w[k]) + s  BY <2>9
    <3>2. PICK y \in DirSlots : a = DirBase(v[x - 1]) + y  BY <2>10
    <3> QED  BY <2>8, <3>1, <3>2, SameSlot
  <2>12. x - 1 = k /\ Alike(k - 1)  BY <1>5, <2>1, <2>4, <2>11
  <2>13. Rest(p.names[k]) = Rest(q.names[k])  BY <2>9, <2>10, <2>12 DEF SameName
  <2>14. Alike(k)
    <3> SUFFICES ASSUME NEW j \in 1..k
                 PROVE  Rest(p.names[j]) = Rest(q.names[j])
      OBVIOUS
    <3>1. CASE j = k  BY <2>13, <3>1
    <3>2. CASE j # k
      <4>1. j \in 1..(k - 1)  BY <3>2
      <4> QED  BY <2>12, <4>1
    <3> QED  BY <3>1, <3>2
  <2>15. x = k + 1  BY <2>4, <2>12
  <2> QED  BY <2>14, <2>15
<1> HIDE DEF T, Alike
<1>6. m - 1 \in T
  <2>1. m - 1 \in Nat  BY <1>1
  <2>2. 0..(m - 1) \subseteq T  BY <1>4, <1>5, <2>1, LoopKeeps
  <2> QED  BY <2>1, <2>2
<1>7. l \in 1..l /\ (m - 1) + 1 = m  BY <1>1
<1>8. w[m] = v[l]  BY DEF m, l
<1>9. l = m /\ Alike(m - 1)
  <2>1. \A x \in 1..l : w[(m - 1) + 1] = v[x] => x = (m - 1) + 1 /\ Alike(m - 1)
    BY <1>6 DEF T
  <2> QED  BY <1>7, <1>8, <2>1
<1> QED  BY <1>9 DEF m, l, Alike

\* Files of one name in one directory are the same file.
LEMMA LiesApart ==
  ASSUME NEW d \in Disk, ShortRoot(d), Distinct(d), NEW p \in Paths, NEW q \in Paths, NEW c,
         Lies(d, p, c), Lies(d, q, c), SameName(LastName(p), LastName(q))
  PROVE  Key(p) = Key(q)
<1>1. PICK w : Way(d, p, w) /\ c = w[Len(p.names)]  BY DEF Lies
<1>2. PICK v : Way(d, q, v) /\ c = v[Len(q.names)]  BY DEF Lies
<1>3. /\ Len(p.names) = Len(q.names)
      /\ \A j \in 1..(Len(p.names) - 1) : Rest(p.names[j]) = Rest(q.names[j])
  <2>1. w[Len(p.names)] = v[Len(q.names)]  BY <1>1, <1>2
  <2>2. Way(d, p, w) /\ Way(d, q, v)  BY <1>1, <1>2
  <2> QED  BY <2>1, <2>2, SameDirectory
<1>4. Len(p.names) \in Nat  BY PathNames
<1>5. \A j \in 1..Len(p.names) : Rest(p.names[j]) = Rest(q.names[j])
  <2>1. Rest(p.names[Len(p.names)]) = Rest(q.names[Len(p.names)])
    BY <1>3 DEF SameName, LastName
  <2> QED  BY <1>3, <1>4, <2>1
<1> QED  BY <1>3, <1>5, SameKey

(***************************************************************************)
(* Ways stay                                                               *)
(***************************************************************************)

LEMMA DirSafe ==
  ASSUME TypeInv, FilesInv, NEW a \in Kept, IsDir(disk[a]), NEW c \in Clusters, c >= 2,
         disk[a].cluster = c
  PROVE  Safe(disk, fat, c)
<1>1. a \in Addr  BY DEF Kept
<1>2. Backed(disk[a], fat)  BY <1>1 DEF FilesInv, OwnershipInv, StorageSound, Sound
<1>3. fat[c] # 0  BY <1>2 DEF Backed, IsDir
<1>4. \A b \in Kept : IsFile(disk[b]) => disk[b].cluster # c
  BY <1>1 DEF FilesInv, TidyInv, TidyVolume, FileApart, Kept
<1> QED  BY <1>3, <1>4 DEF Safe

\* What a lookup finds of a directory on the way it finds after the step.
LEMMA DirFoundStays ==
  ASSUME TypeInv, FilesInv, RootShort, RootShort', Packed(disk), Grown,
         NEW c \in Clusters \ {1}, c = 0 \/ Safe(disk, fat, c), NEW n \in Name, Len(n) > 1,
         NEW a \in SlotsOn(disk, c, n)
  PROVE  a \in SlotsOn(disk', c, n) /\ Resized(disk[a], disk'[a])
<1>1. PICK s \in FoundOn(disk, c, n) : a = DirBase(c) + s  BY DEF SlotsOn
<1>2. disk \in Disk  BY TypeParts DEF StorageTypes
<1>3. ShortRoot(disk) /\ ShortRoot(disk')  BY DEF RootShort, ShortRoot
<1>4. s \in DirSlots /\ Used(disk[a])  BY <1>1, <1>3, FoundCopied
<1>5. BlankInv  BY DEF FilesInv, OpenInv, FirstInv
<1>6. CASE c = 0
  <2>1. s \in FoundInRoot(LoadRoot(disk), n)  BY <1>1, <1>3, <1>6, RootScan
  <2>2. StaysIn(0)  BY DEF Grown
  <2>3. /\ s \in FoundInRoot(LoadRoot(disk'), n)
        /\ Resized(LoadRoot(disk)[s], LoadRoot(disk')[s])
    BY <1>5, <2>1, <2>2, FoundInRootStays
  <2>4. s \in FoundOn(disk', 0, n)  BY <1>3, <2>3, RootScan
  <2>5. s \in Slots /\ a = s - RootSize  BY <1>1, <1>4, <1>6, RootBase
  <2>6. Resized(disk[a], disk'[a])  BY <2>3, <2>5 DEF LoadRoot
  <2> QED  BY <1>1, <1>6, <2>4, <2>6 DEF SlotsOn
<1>7. CASE c # 0
  <2>1. s \in FoundInDir(Entries(disk, c), n)  BY <1>1, DirScan
  <2>2. StaysIn(c) /\ c >= 2  BY <1>7 DEF Grown, Safe
  <2>3. Used(Entries(disk, c)[s])  BY <1>1, <1>4 DEF Entries
  <2>4. /\ s \in FoundInDir(Entries(disk', c), n)
        /\ Resized(Entries(disk, c)[s], Entries(disk', c)[s])
    BY <2>1, <2>2, <2>3, FoundInDirStays
  <2>5. s \in FoundOn(disk', c, n)  BY <2>4, DirScan
  <2>6. Resized(disk[a], disk'[a])  BY <1>1, <1>4, <2>4 DEF Entries
  <2> QED  BY <1>1, <2>5, <2>6 DEF SlotsOn
<1> QED  BY <1>6, <1>7

LEMMA WayStays ==
  ASSUME LongComponents, TypeInv, FilesInv, RootShort, RootShort', Packed(disk), Grown,
         NEW p \in Paths, NEW w, Way(disk, p, w)
  PROVE  Way(disk', p, w)
<1> DEFINE m == Len(p.names)
<1>1. m \in Nat /\ m >= 1 /\ \A j \in 1..m : p.names[j] \in Name /\ Len(p.names[j]) > 1
  BY PathNames DEF LongComponents
<1>2. disk \in Disk /\ ShortRoot(disk)
  BY TypeParts DEF StorageTypes, RootShort, ShortRoot
<1>3. /\ \A j \in 1..m : w[j] \in Clusters \ {1} /\ (w[j] = 0 <=> j = 1)
      /\ \A j \in 1..(m - 1) : \E a \in SlotsOn(disk, w[j], p.names[j]) :
           /\ IsDir(disk[a]) /\ disk[a].cluster = w[j + 1] /\ w[j + 1] >= 2
           /\ a \in Kept /\ Owns(disk[a])
  BY <1>2, WayDirs
<1>4. w \in [1..m -> Clusters] /\ w[1] = 0  BY DEF Way
<1> HIDE DEF m
<1>5. ASSUME NEW j \in 1..m
      PROVE  w[j] = 0 \/ Safe(disk, fat, w[j])
  <2> SUFFICES ASSUME j # 1 PROVE Safe(disk, fat, w[j])
    BY <1>3
  <2>1. j - 1 \in 1..(m - 1) /\ (j - 1) + 1 = j  BY <1>1
  <2>2. PICK a \in SlotsOn(disk, w[j - 1], p.names[j - 1]) :
          /\ IsDir(disk[a]) /\ disk[a].cluster = w[(j - 1) + 1] /\ w[(j - 1) + 1] >= 2
          /\ a \in Kept /\ Owns(disk[a])
    BY <1>3, <2>1
  <2>3. w[j] \in Clusters  BY <1>3
  <2> QED  BY <2>1, <2>2, <2>3, DirSafe
<1>6. ASSUME NEW j \in 1..(m - 1)
      PROVE  /\ w[j + 1] >= 2
             /\ \E a \in SlotsOn(disk', w[j], p.names[j]) :
                  IsDir(disk'[a]) /\ disk'[a].cluster = w[j + 1]
  <2>1. j \in 1..m  BY <1>1
  <2>2. PICK a \in SlotsOn(disk, w[j], p.names[j]) :
          /\ IsDir(disk[a]) /\ disk[a].cluster = w[j + 1] /\ w[j + 1] >= 2
          /\ a \in Kept /\ Owns(disk[a])
    BY <1>3
  <2>3. w[j] \in Clusters \ {1} /\ p.names[j] \in Name /\ Len(p.names[j]) > 1
    BY <1>1, <1>3, <2>1
  <2>4. w[j] = 0 \/ Safe(disk, fat, w[j])  BY <1>5, <2>1
  <2>5. a \in SlotsOn(disk', w[j], p.names[j]) /\ Resized(disk[a], disk'[a])
    BY <2>2, <2>3, <2>4, DirFoundStays
  <2>6. disk[a] \in Unit  BY <1>2, <2>2 DEF Disk, Kept
  <2>7. IsDir(disk'[a]) /\ disk'[a].cluster = disk[a].cluster
    BY <2>2, <2>5, <2>6, ResizedKind DEF IsDir
  <2> QED  BY <2>2, <2>5, <2>7
<1> QED  BY <1>4, <1>6 DEF Way, m

LEMMA LiesStays ==
  ASSUME LongComponents, TypeInv, FilesInv, RootShort, RootShort', Packed(disk), Grown,
         NEW p \in Paths, NEW c, Lies(disk, p, c)
  PROVE  Lies(disk', p, c)
BY WayStays DEF Lies

LEMMA LiesDir ==
  ASSUME TypeInv, FilesInv, RootShort, NEW p \in Paths, NEW c, Lies(disk, p, c)
  PROVE  /\ c \in Clusters \ {1} /\ (c = 0 <=> Len(p.names) = 1)
         /\ c = 0 \/ Safe(disk, fat, c)
<1> DEFINE m == Len(p.names)
<1>1. m \in Nat /\ m >= 1  BY PathNames
<1>2. disk \in Disk /\ ShortRoot(disk)
  BY TypeParts DEF StorageTypes, RootShort, ShortRoot
<1>3. PICK w : Way(disk, p, w) /\ c = w[m]  BY DEF Lies
<1>4. /\ \A j \in 1..m : w[j] \in Clusters \ {1} /\ (w[j] = 0 <=> j = 1)
      /\ \A j \in 1..(m - 1) : \E a \in SlotsOn(disk, w[j], p.names[j]) :
           /\ IsDir(disk[a]) /\ disk[a].cluster = w[j + 1] /\ w[j + 1] >= 2
           /\ a \in Kept /\ Owns(disk[a])
  BY <1>2, <1>3, WayDirs
<1> HIDE DEF m
<1>5. c \in Clusters \ {1} /\ (c = 0 <=> m = 1)  BY <1>1, <1>3, <1>4
<1>6. ASSUME m # 1
      PROVE  Safe(disk, fat, c)
  <2>1. m - 1 \in 1..(m - 1) /\ (m - 1) + 1 = m  BY <1>1, <1>6
  <2>2. PICK a \in SlotsOn(disk, w[m - 1], p.names[m - 1]) :
          /\ IsDir(disk[a]) /\ disk[a].cluster = w[(m - 1) + 1] /\ w[(m - 1) + 1] >= 2
          /\ a \in Kept /\ Owns(disk[a])
    BY <1>4, <2>1
  <2>3. disk[a].cluster = c /\ c >= 2  BY <1>3, <2>1, <2>2
  <2> QED  BY <1>5, <2>2, <2>3, DirSafe
<1> QED  BY <1>5, <1>6 DEF m

(***************************************************************************)
(* What a step does to the files                                           *)
(***************************************************************************)

\* The first unit of what an entry with a length holds is a text.
LEMMA TextThere ==
  ASSUME TypeInv, FilesInv, SealedInv, Flat(disk), NEW a \in Kept, disk[a].kind = "entry"
  PROVE  LET e == disk[a]
         IN  /\ e \in Entry
             /\ e.size # 0 =>
                  /\ e.cluster \in Clusters /\ e.cluster >= 2 /\ Owns(e)
                  /\ ClusterBase(e.cluster) + 1 \in Kept
                  /\ disk[ClusterBase(e.cluster) + 1].kind = "text"
<1> DEFINE e == disk[a]
<1>1. disk \in Disk /\ a \in Addr  BY TypeParts DEF StorageTypes, Kept
<1>2. e \in Entry  BY <1>1, EntryUnit DEF Disk
<1>3. e.cluster \in Clusters /\ e.size \in Nat /\ e.attr \in {"none", "file", "dir"}
  BY <1>2 DEF Entry
<1> SUFFICES ASSUME e.size # 0
             PROVE  /\ e.cluster >= 2 /\ Owns(e)
                    /\ ClusterBase(e.cluster) + 1 \in Kept
                    /\ disk[ClusterBase(e.cluster) + 1].kind = "text"
  BY <1>2, <1>3
<1>4. e.size > 0 /\ e.attr # "dir"  BY <1>3 DEF Flat
<1>5. e.cluster >= 2 /\ disk[ClusterBase(e.cluster) + 1].kind = "text"
  <2>1. CASE e.attr = "file"
    <3>1. IsFile(e)  BY <2>1 DEF IsFile
    <3>2. e.cluster >= 2  BY <1>1, <3>1 DEF FilesInv, TidyInv, TidyVolume, FileApart
    <3>3. Whole(disk, e)  BY <1>4, <3>1 DEF FilesInv, DiskWhole, WholeFiles
    <3>4. PICK t \in TextArg : /\ t.len = e.size
                               /\ \A k \in 1..t.len : disk[ClusterBase(e.cluster) + k] = Piece(t, k)
      BY <3>3 DEF Whole
    <3>5. 1 \in 1..t.len  BY <1>3, <1>4, <3>4
    <3>6. disk[ClusterBase(e.cluster) + 1] = Piece(t, 1)  BY <3>4, <3>5
    <3> QED  BY <3>2, <3>6 DEF Piece, Junk
  <2>2. CASE e.attr = "none"
    <3>1. Sealed(e, disk, fat)  BY DEF SealedInv
    <3>2. PICK n \in 1..FatSize : \E q \in [1..n -> Clusters] : \E x :
            Spread(e, disk, fat, n, q, x) /\ Apart(disk, n, q)
      BY <1>4, <2>2, <3>1, SealedIs
    <3>3. PICK q \in [1..n -> Clusters] : \E x :
            Spread(e, disk, fat, n, q, x) /\ Apart(disk, n, q)
      BY <3>2
    <3>4. PICK x : Spread(e, disk, fat, n, q, x)  BY <3>3
    <3>5. 1 \in 1..n /\ 1 \in DirSlots  BY Sizes, SizeAssumption
    <3>6. e.cluster >= 2  BY <3>4, <3>5 DEF Spread
    <3>7. disk[ClusterBase(e.cluster) + 1] = Piece(x, 1)
      <4>1. \A s \in DirSlots : LET m == (1 - 1) * DirSize + s
              IN  m <= x.len => disk[ClusterBase(q[1]) + s] = Piece(x, m)
        BY <3>4, <3>5 DEF Spread
      <4>2. q[1] = e.cluster /\ x.len = e.size  BY <3>4 DEF Spread
      <4>3. (1 - 1) * DirSize + 1 = 1  BY Sizes
      <4> QED  BY <1>3, <1>4, <3>5, <4>1, <4>2, <4>3
    <3> QED  BY <3>6, <3>7 DEF Piece, Junk
  <2> QED  BY <1>3, <1>4, <2>1, <2>2
<1>6. ClusterBase(e.cluster) + 1 \in Kept
  BY <1>3, <1>5, DataUnits, Sizes, SizeAssumption
<1>7. Owns(e)  BY <1>3, <1>4, <1>5 DEF Owns
<1> QED  BY <1>5, <1>6, <1>7

\* A file stays what it is when its entry does, with the unit that begins its text.
LEMMA FileStays ==
  ASSUME LongComponents, TypeInv, TypeInv', FilesInv, RootShort, RootShort', Packed(disk), Grown,
         NEW q \in Paths, NEW c, Lies(disk, q, c),
         \A s \in DirSlots : Copied(c, s) =>
           (RootMatch(disk[DirBase(c) + s], LastName(q))
              <=> RootMatch(disk'[DirBase(c) + s], LastName(q))),
         \A a \in SlotsOn(disk, c, LastName(q)) :
           disk'[a] = disk[a] /\ TextOn(disk', disk[a]) = TextOn(disk, disk[a])
  PROVE  FileOn(disk', Key(q)) = FileOn(disk, Key(q))
<1> DEFINE n == LastName(q)
<1>1. disk \in Disk /\ disk' \in Disk  BY TypeParts, TypePartsNext DEF StorageTypes
<1>2. ShortRoot(disk) /\ ShortRoot(disk')  BY DEF RootShort, ShortRoot
<1>3. Lies(disk', q, c) /\ c \in Clusters  BY LiesStays, LiesDir
<1>4. /\ FileOn(disk, Key(q)) = FileIn(disk, SlotsOn(disk, c, n))
      /\ FileOn(disk', Key(q)) = FileIn(disk', SlotsOn(disk', c, n))
  BY <1>1, <1>3, FileOnLies
<1>5. SlotsOn(disk', c, n) = SlotsOn(disk, c, n)
  <2>1. FoundOn(disk, c, n) = FoundOn(disk', c, n)  BY <1>2, <1>3, FoundSame
  <2> QED  BY <2>1 DEF SlotsOn
<1> DEFINE found == SlotsOn(disk, c, n)
           a == CHOOSE x \in found : TRUE
<1>6. CASE found = {}  BY <1>4, <1>5, <1>6 DEF FileIn
<1>7. CASE found # {}
  <2>1. a \in found  BY <1>7
  <2>2. disk'[a] = disk[a] /\ TextOn(disk', disk[a]) = TextOn(disk, disk[a])  BY <2>1
  <2> HIDE DEF found
  <2>3. FileIn(disk', found) = FileIn(disk, found)  BY <1>7, <2>2 DEF FileIn
  <2> QED  BY <1>4, <1>5, <2>3 DEF found
<1> QED  BY <1>6, <1>7

\* What a new entry in directory c leaves of the others.
LEMMA OthersBesideNew ==
  ASSUME LongComponents, TypeInv, TypeInv', FilesInv, RootShort, RootShort', Packed(disk), Grown,
         SealedInv, Flat(disk),
         NEW p \in Paths, NEW c, Lies(disk, p, c), NEW s0 \in DirSlots, NEW a0,
         a0 = DirBase(c) + s0, NEW n, SameName(n, LastName(p)), NEW isDir,
         PutEntry(a0, n, isDir),
         NEW q \in Paths, Key(q) # Key(p), NEW k, Lies(disk, q, k)
  PROVE  FileOn(disk', Key(q)) = FileOn(disk, Key(q))
<1>1. disk \in Disk /\ ShortRoot(disk) /\ Distinct(disk)
  BY TypeParts
  DEF StorageTypes, RootShort, ShortRoot, FilesInv, OwnershipInv, StorageSound, Sound
<1>2. c \in Clusters \ {1} /\ k \in Clusters \ {1}  BY LiesDir
<1>3. /\ FreeSlot(disk[a0]) /\ a0 \in Addr
      /\ \A a \in Addr \ {a0} : disk'[a] = disk[a]
      /\ \E x : disk'[a0] = NewEntry(n, isDir, x)
  BY DEF PutEntry
<1>4. ASSUME NEW s \in DirSlots, Copied(k, s)
      PROVE  RootMatch(disk[DirBase(k) + s], LastName(q))
               <=> RootMatch(disk'[DirBase(k) + s], LastName(q))
  <2>1. DirBase(k) + s \in Addr  BY <1>2, SlotAddress
  <2>2. CASE DirBase(k) + s # a0  BY <1>3, <2>1, <2>2
  <2>3. CASE DirBase(k) + s = a0
    <3>1. k = c  BY <1>2, <2>3, SameSlot
    <3>2. ~RootMatch(disk[a0], LastName(q))  BY <1>3 DEF FreeSlot, RootMatch
    <3>3. ASSUME RootMatch(disk'[a0], LastName(q))
          PROVE  FALSE
      <4>1. SameName(n, LastName(q))  BY <1>3, <3>3 DEF RootMatch, NewEntry
      <4>2. SameName(LastName(p), LastName(q))  BY <4>1 DEF SameName
      <4> QED  BY <1>1, <3>1, <4>2, LiesApart
    <3> QED  BY <2>3, <3>2, <3>3
  <2> QED  BY <2>2, <2>3
<1>5. ASSUME NEW a \in SlotsOn(disk, k, LastName(q))
      PROVE  disk'[a] = disk[a] /\ TextOn(disk', disk[a]) = TextOn(disk, disk[a])
  <2>1. a \in Kept /\ a \in Addr /\ disk[a].kind = "entry" /\ Used(disk[a])
    BY <1>1, <1>2, SlotKept
  <2>2. a # a0  BY <1>3, <2>1 DEF Used, FreeSlot
  <2>3. disk'[a] = disk[a]  BY <1>3, <2>1, <2>2
  <2>4. disk[a].size # 0 =>
          /\ ClusterBase(disk[a].cluster) + 1 \in Kept
          /\ disk[ClusterBase(disk[a].cluster) + 1].kind = "text"
    BY <2>1, TextThere
  <2>5. disk[a].size # 0 =>
          disk'[ClusterBase(disk[a].cluster) + 1] = disk[ClusterBase(disk[a].cluster) + 1]
    BY <1>3, <2>4 DEF FreeSlot, Kept
  <2> QED  BY <2>3, <2>5 DEF TextOn
<1> QED  BY <1>4, <1>5, FileStays

\* Nothing is found at the free slot that the scan stopped at; afterwards the new entry is.
LEMMA NewFile ==
  ASSUME LongComponents, TypeInv, TypeInv', FilesInv, RootShort, RootShort', Packed(disk), Grown,
         NEW p \in Paths, NEW c, Lies(disk, p, c), NEW s0 \in DirSlots, Copied(c, s0), NEW a0,
         a0 = DirBase(c) + s0, NEW n, n # <<>>, SameName(n, LastName(p)), NEW isDir,
         PutEntry(a0, n, isDir),
         \A y \in DirSlots : y < s0 => ~RootMatch(disk[DirBase(c) + y], LastName(p))
  PROVE  /\ FileOn(disk, Key(p)) = Absent
         /\ FileOn(disk', Key(p)) = [kind |-> IF isDir THEN "dir" ELSE "file", text |-> NoText]
<1> DEFINE m == LastName(p)
<1>1. disk \in Disk /\ disk' \in Disk /\ ShortRoot(disk) /\ ShortRoot(disk')
  BY TypeParts, TypePartsNext DEF StorageTypes, RootShort, ShortRoot
<1>2. c \in Clusters \ {1} /\ Lies(disk', p, c)  BY LiesDir, LiesStays
<1>3. /\ FreeSlot(disk[a0]) /\ a0 \in Addr
      /\ \A a \in Addr \ {a0} : disk'[a] = disk[a]
  BY DEF PutEntry
<1>4. PICK x : disk'[a0] = NewEntry(n, isDir, x)  BY DEF PutEntry
<1>5. FoundOn(disk, c, m) = {}
  <2> SUFFICES ASSUME NEW s \in FoundOn(disk, c, m) PROVE FALSE
    OBVIOUS
  <2>1. /\ s \in DirSlots /\ Copied(c, s) /\ RootMatch(disk[DirBase(c) + s], m)
        /\ Used(disk[DirBase(c) + s])
    BY <1>1, <1>2, FoundCopied
  <2>2. s # s0  BY <1>3, <2>1 DEF Used, FreeSlot
  <2>3. s > s0  BY <2>1, <2>2, Sizes
  <2>4. ~Used(disk[DirBase(c) + s])  BY <1>2, <1>3, <2>1, <2>3 DEF Packed, Copied
  <2> QED  BY <2>1, <2>4
<1>6. s0 \in FoundOn(disk', c, m)
  <2>1. RootMatch(disk'[DirBase(c) + s0], m)  BY <1>4 DEF RootMatch, NewEntry
  <2>2. ASSUME NEW y \in DirSlots, RootMatch(disk'[DirBase(c) + y], m)
        PROVE  s0 <= y
    <3> SUFFICES ASSUME y < s0 PROVE FALSE  BY Sizes
    <3>1. DirBase(c) + y # a0  BY <1>2, SameSlot
    <3>2. DirBase(c) + y \in Addr  BY <1>2, SlotAddress
    <3> QED  BY <1>3, <2>2, <3>1, <3>2
  <2> QED  BY <2>1, <2>2 DEF FoundOn, Scan
<1>7. SlotsOn(disk, c, m) = {} /\ a0 \in SlotsOn(disk', c, m)  BY <1>5, <1>6 DEF SlotsOn
<1>8. SlotsOn(disk', c, m) = {a0}  BY <1>6, FoundOnce DEF SlotsOn
<1>9. FileOn(disk, Key(p)) = Absent  BY <1>1, <1>7, FileOnLies DEF FileIn
<1>10. FileOn(disk', Key(p)) = FileIn(disk', {a0})  BY <1>1, <1>2, <1>8, FileOnLies
<1>11. FileIn(disk', {a0}) = [kind |-> disk'[a0].attr, text |-> TextOn(disk', disk'[a0])]
  <2>1. (CHOOSE y \in {a0} : TRUE) = a0  OBVIOUS
  <2> QED  BY <2>1 DEF FileIn
<1>12. TextOn(disk', disk'[a0]) = NoText  BY <1>4 DEF NewEntry, TextOn
<1>13. disk'[a0].attr = IF isDir THEN "dir" ELSE "file"  BY <1>4 DEF NewEntry
<1> QED  BY <1>9, <1>10, <1>11, <1>12, <1>13

\* fatCreate's entry in the root directory.
LEMMA TopFile ==
  ASSUME PlainPaths, TypeInv, RootShort', NEW p \in Paths, Len(p.names) = 1,
         NEW isDir \in BOOLEAN, NEW s \in Slots,
         PutEntry(s - RootSize, StoredName(p), isDir),
         \A y \in Slots : y < s => /\ ~FreeSlot(disk[y - RootSize])
                                   /\ ~RootMatch(disk[y - RootSize], p.names[1])
  PROVE  /\ s \in DirSlots /\ Copied(0, s) /\ s - RootSize = DirBase(0) + s
         /\ p.names[1] # <<>> /\ LastName(p) = p.names[1] /\ StoredName(p) = p.names[1]
         /\ \A y \in DirSlots : y < s => ~RootMatch(disk[DirBase(0) + y], p.names[1])
<1> DEFINE n == p.names[1]
<1>1. StoredName(p) = n /\ n # <<>> /\ LastName(p) = n
  <2>1. 1 \in DOMAIN p.names /\ LastName(p) = n  BY PathNames DEF LastName
  <2> QED  BY <2>1, PlainIsNamed
<1>2. n \in Name  BY PathNames
<1>3. s \in PlaceInRoot(LoadRoot(disk), n)
  <2>1. FreeSlot(LoadRoot(disk)[s])  BY DEF PutEntry, LoadRoot
  <2>2. \A y \in Slots :
          FreeSlot(LoadRoot(disk)[y]) \/ RootMatch(LoadRoot(disk)[y], n) => s <= y
    BY Sizes DEF LoadRoot
  <2> QED  BY <2>1, <2>2 DEF PlaceInRoot, Scan
<1>4. PutEntry(s - RootSize, n, isDir)  BY <1>1
<1> HIDE DEF n
<1>5. s <= RootRead /\ s \in DirSlots  BY <1>1, <1>2, <1>3, <1>4, PutShort
<1>6. s - RootSize = DirBase(0) + s  BY <1>5, RootBase
<1>7. \A y \in DirSlots : y < s => ~RootMatch(disk[DirBase(0) + y], n)  BY RootBase DEF n
<1> QED  BY <1>1, <1>5, <1>6, <1>7 DEF Copied, n

\* What fatWrite leaves of the files it was not given.
LEMMA OthersBesideWritten ==
  ASSUME LongComponents, TypeInv, TypeInv', FilesInv, RootShort, RootShort', Packed(disk), Grown,
         SealedInv, Flat(disk), WriteSingle,
         NEW p \in Paths, Lies(disk, p, fp.parent), SameName(fp.rde.name, LastName(p)),
         NEW q \in Paths, Key(q) # Key(p), NEW k, Lies(disk, q, k)
  PROVE  FileOn(disk', Key(q)) = FileOn(disk, Key(q))
<1> DEFINE n == LastName(q)
<1>1. disk \in Disk /\ ShortRoot(disk) /\ Distinct(disk)
  BY TypeParts
  DEF StorageTypes, RootShort, ShortRoot, FilesInv, OwnershipInv, StorageSound, Sound
<1>2. /\ fp.parent \in Clusters \ {1} /\ k \in Clusters \ {1}
      /\ k = 0 \/ Safe(disk, fat, k)
  BY LiesDir
<1>3. /\ OwnershipInv /\ OpenInv /\ TidyInv /\ HeldInv  BY DEF FilesInv
<1>4. /\ IsFile(fp.rde) /\ cluster = fp.rde.cluster /\ cluster \in Clusters /\ cluster >= 2
  BY <1>3, WriteHandle
<1>5. PICK s0 \in Firsts(disk, fp) :
        LET b == DirBase(fp.parent) + s0
        IN  /\ b \in Kept /\ disk[b] = fp.rde
            /\ \A a \in Kept \ {b} :
                 IF a - ClusterBase(cluster) \in DirSlots
                 THEN disk'[a] = Zero \/ disk'[a].kind = "text"
                 ELSE disk'[a] = disk[a]
  BY <1>3, FileWritten
<1> DEFINE b0 == DirBase(fp.parent) + s0
<1>6. /\ s0 \in DirSlots /\ b0 \in Kept /\ disk[b0] = fp.rde
      /\ \A a \in Kept \ {b0} : a - ClusterBase(cluster) \notin DirSlots => disk'[a] = disk[a]
  BY <1>5 DEF Firsts
<1> HIDE DEF b0
<1>7. Owns(fp.rde)  BY <1>4 DEF IsFile, Owns
<1>8. k # cluster  BY <1>2, <1>4, <1>6 DEF Safe
<1>9. ASSUME NEW s \in DirSlots, Copied(k, s)
      PROVE  RootMatch(disk[DirBase(k) + s], n) <=> RootMatch(disk'[DirBase(k) + s], n)
  <2>1. Resized(disk[DirBase(k) + s], disk'[DirBase(k) + s])
    BY <1>2, <1>3, <1>8, <1>9, WrittenSlots
  <2>2. disk[DirBase(k) + s] \in Unit  BY <1>1, <1>2, SlotAddress DEF Disk
  <2> QED  BY <2>1, <2>2, SameMatch
<1>10. ASSUME NEW a \in SlotsOn(disk, k, n)
       PROVE  disk'[a] = disk[a] /\ TextOn(disk', disk[a]) = TextOn(disk, disk[a])
  <2>1. /\ a \in Kept /\ disk[a].kind = "entry" /\ SameName(disk[a].name, n)
        /\ \E s \in DirSlots : a = DirBase(k) + s
    BY <1>1, <1>2, SlotKept
  <2>2. PICK s \in DirSlots : a = DirBase(k) + s  BY <2>1
  <2>3. a # b0
    <3> SUFFICES ASSUME a = b0 PROVE FALSE
      OBVIOUS
    <3>1. k = fp.parent  BY <1>2, <1>6, <2>2, SameSlot DEF b0
    <3>2. SameName(LastName(p), n)  BY <1>6, <2>1 DEF SameName
    <3> QED  BY <1>1, <3>1, <3>2, LiesApart
  <2>4. a - ClusterBase(cluster) \notin DirSlots
    <3>1. CASE k # 0  BY <1>2, <1>4, <1>8, <2>2, <3>1, ClustersApart
    <3>2. CASE k = 0
      <4>1. a <= 0 /\ a \in Int  BY <1>2, <2>2, <3>2, SlotAddress, Sizes
      <4>2. ClusterBase(cluster) >= 0 /\ ClusterBase(cluster) \in Int
        BY <1>4, BaseOfCluster, ClusterOnDisk
      <4> QED  BY <4>1, <4>2
    <3> QED  BY <3>1, <3>2
  <2>5. disk'[a] = disk[a]  BY <1>6, <2>1, <2>3, <2>4
  <2> DEFINE x == disk[a].cluster
             y == ClusterBase(x) + 1
  <2>6. ASSUME disk[a].size # 0
        PROVE  disk'[y] = disk[y]
    <3>1. x \in Clusters /\ x >= 2 /\ Owns(disk[a]) /\ y \in Kept /\ disk[y].kind = "text"
      BY <2>1, <2>6, TextThere
    <3>2. y # b0  BY <1>4, <1>6, <3>1 DEF IsFile
    <3>3. x # cluster  BY <1>1, <1>4, <1>6, <1>7, <2>1, <2>3, <3>1 DEF Distinct
    <3>4. 1 \in DirSlots /\ y = DirBase(x) + 1  BY <3>1, Sizes, SizeAssumption DEF DirBase
    <3> HIDE DEF y, x
    <3>5. y - ClusterBase(cluster) \notin DirSlots  BY <1>4, <3>1, <3>3, <3>4, ClustersApart
    <3> QED  BY <1>6, <3>1, <3>2, <3>5
  <2> QED  BY <2>5, <2>6 DEF TextOn
<1> QED  BY <1>9, <1>10, FileStays DEF n

\* The file it was given has the text.
LEMMA WrittenFile ==
  ASSUME LongComponents, TypeInv, TypeInv', FilesInv, RootShort, RootShort', Packed(disk), Grown,
         WriteSingle, text \in Texts,
         NEW p \in Paths, Lies(disk, p, fp.parent), SameName(fp.rde.name, LastName(p))
  PROVE  /\ FileOn(disk, Key(p)).kind = "file"
         /\ FileOn(disk', Key(p)) = [kind |-> "file", text |-> text]
<1> DEFINE n == LastName(p)
           c == fp.parent
<1>1. disk \in Disk /\ disk' \in Disk /\ ShortRoot(disk) /\ ShortRoot(disk')
  BY TypeParts, TypePartsNext DEF StorageTypes, RootShort, ShortRoot
<1>2. c \in Clusters \ {1} /\ Lies(disk', p, c)  BY LiesDir, LiesStays
<1>3. OwnershipInv /\ OpenInv /\ TidyInv /\ HeldInv  BY DEF FilesInv
<1>4. IsFile(fp.rde) /\ cluster = fp.rde.cluster /\ cluster \in Clusters  BY <1>3, WriteHandle
<1>5. PICK s0 \in Firsts(disk, fp) :
        LET b == DirBase(fp.parent) + s0
        IN  /\ b \in Kept /\ disk[b] = fp.rde
            /\ disk'[b] = [fp.rde EXCEPT !.size = text.len]
            /\ \A k \in 1..text.len : disk'[ClusterBase(cluster) + k] = Piece(text, k)
  BY <1>3, FileWritten
<1> DEFINE b0 == DirBase(c) + s0
<1>6. /\ s0 \in DirSlots /\ RootMatch(disk[b0], fp.rde.name)
      /\ \A x \in DirSlots : x < s0 => ~RootMatch(disk[DirBase(c) + x], fp.rde.name)
  BY <1>5 DEF Firsts
<1>7. s0 \in FoundOn(disk, c, n)
  <2>1. \A u : RootMatch(u, n) <=> RootMatch(u, fp.rde.name)  BY DEF RootMatch, SameName
  <2> QED  BY <1>6, <2>1, Sizes DEF FoundOn, Scan
<1>8. FoundOn(disk, c, n) = FoundOn(disk', c, n)
  <2>1. ASSUME NEW s \in DirSlots, Copied(c, s)
        PROVE  RootMatch(disk[DirBase(c) + s], n) <=> RootMatch(disk'[DirBase(c) + s], n)
    <3>1. c # cluster
      <4>1. \E x \in DirSlots : (DirBase(c) + x) - ClusterBase(cluster) \notin DirSlots
        BY <1>3, <1>6, ParentApart
      <4>2. c = cluster => DirBase(c) = ClusterBase(cluster) /\ ClusterBase(cluster) \in Int
        BY <1>3, <1>4, WriteHandle, BaseOfCluster, ClusterOnDisk
      <4> HIDE DEF c
      <4> QED  BY <4>1, <4>2, Sizes
    <3>2. Resized(disk[DirBase(c) + s], disk'[DirBase(c) + s])
      BY <1>2, <1>3, <2>1, <3>1, WrittenSlots
    <3>3. disk[DirBase(c) + s] \in Unit  BY <1>1, <1>2, SlotAddress DEF Disk
    <3> QED  BY <3>2, <3>3, SameMatch
  <2> QED  BY <1>1, <1>2, <2>1, FoundSame
<1>9. SlotsOn(disk, c, n) = {b0} /\ SlotsOn(disk', c, n) = {b0}
  BY <1>7, <1>8, FoundOnce DEF SlotsOn
<1>10. (CHOOSE a \in {b0} : TRUE) = b0  OBVIOUS
<1>11. FileOn(disk, Key(p)).kind = "file"
  <2>1. FileOn(disk, Key(p)) = FileIn(disk, {b0})  BY <1>1, <1>9, FileOnLies
  <2> QED  BY <1>4, <1>5, <1>10, <2>1 DEF FileIn, IsFile
<1>12. FileOn(disk', Key(p)) = [kind |-> "file", text |-> text]
  <2>1. FileOn(disk', Key(p)) = FileIn(disk', {b0})  BY <1>1, <1>2, <1>9, FileOnLies
  <2>2. fp.rde \in Entry  BY TypeParts DEF WorkTypes, File
  <2>3. /\ disk'[b0].attr = "file" /\ disk'[b0].size = text.len
        /\ disk'[b0].cluster = cluster
    BY <1>4, <1>5, <2>2 DEF IsFile, Entry
  <2>4. 1 \in 1..text.len /\ text.len # 0  BY InputAssumption
  <2>5. disk'[ClusterBase(cluster) + 1] = Piece(text, 1)  BY <1>5, <2>4
  <2>6. Piece(text, 1).text = text  BY <2>4 DEF Piece
  <2>7. TextOn(disk', disk'[b0]) = text  BY <2>3, <2>4, <2>5, <2>6 DEF TextOn
  <2> HIDE DEF b0
  <2> QED  BY <1>10, <2>1, <2>3, <2>7 DEF FileIn
<1> QED  BY <1>11, <1>12

(***************************************************************************)
(* Steps of FileStore                                                      *)
(***************************************************************************)

Unmoved == \A k \in Keys : FileOn(disk', k) = FileOn(disk, k)
Answering(call, k, ok, t) == Answer' = [call |-> call, key |-> k, ok |-> ok, text |-> t]

LEMMA SameFiles ==
  ASSUME UNCHANGED disk
  PROVE  Unmoved
BY DEF Unmoved

LEMMA Forgotten ==
  ASSUME Unmoved, pc' # "idle" \/ op' = "none"
  PROVE  Store!Next
<1>1. Answer' = [call |-> "none"]  BY DEF Answer, Idle
<1> QED  BY <1>1 DEF Unmoved, Store!Next, Store!Forget, Store!NoReply

LEMMA Answered ==
  ASSUME pc' = "idle", op' # "none", op' # "fatRead", out' = <<>>
  PROVE  /\ ret' = 0 => Answering(op', Key(path'), TRUE, NoText)
         /\ ret' # 0 => Answering(op', Key(path'), FALSE, NoText)
BY DEF Answer, Answering, Idle

LEMMA StoreOpens ==
  ASSUME NEW k \in Keys, Unmoved,
         \/ Answering("fatOpen", k, TRUE, NoText) /\ FileOn(disk, k) # Absent
         \/ Answering("fatOpen", k, FALSE, NoText) /\ FileOn(disk, k) = Absent
  PROVE  Store!Next
<1>1. Store!Answers(k)  BY DEF Answering, Store!Answers, Store!NoReply
<1>2. Store!Open(k)
  BY DEF Answering, Unmoved, Store!Open, Store!Reply, Store!Absent, Absent
<1> QED  BY <1>1, <1>2 DEF Store!Next

LEMMA StoreCreates ==
  ASSUME NEW k \in Keys, NEW kind \in {"file", "dir"},
         Answering("fatCreate", k, TRUE, NoText), FileOn(disk, k) = Absent,
         FileOn(disk', k) = [kind |-> kind, text |-> NoText],
         \A j \in Keys \ {k} : FileOn(disk', j) = FileOn(disk, j)
  PROVE  Store!Next
<1>1. Store!Answers(k)  BY DEF Answering, Store!Answers, Store!NoReply
<1>2. Store!Create(k, kind)
  BY DEF Answering, Store!Create, Store!Reply, Store!Absent, Absent
<1> QED  BY <1>1, <1>2 DEF Store!Next

LEMMA StoreCreatesNone ==
  ASSUME NEW k \in Keys, Answering("fatCreate", k, FALSE, NoText), FileOn(disk, k) # Absent,
         Unmoved
  PROVE  Store!Next
<1>1. Store!Answers(k)  BY DEF Answering, Store!Answers, Store!NoReply
<1>2. Store!Create(k, "file")
  BY DEF Answering, Unmoved, Store!Create, Store!Reply, Store!Absent, Absent
<1> QED  BY <1>1, <1>2 DEF Store!Next

LEMMA StoreWrites ==
  ASSUME NEW k \in Keys, NEW t \in Texts, Answering("fatWrite", k, TRUE, NoText),
         FileOn(disk, k).kind = "file",
         FileOn(disk', k) = [FileOn(disk, k) EXCEPT !.text = t],
         \A j \in Keys \ {k} : FileOn(disk', j) = FileOn(disk, j)
  PROVE  Store!Next
<1>1. Store!Answers(k)  BY DEF Answering, Store!Answers, Store!NoReply
<1>2. Store!Write(k, t)  BY DEF Answering, Store!Write, Store!Reply
<1>3. t \in Contents  BY DEF Contents
<1> QED  BY <1>1, <1>2, <1>3 DEF Store!Next

LEMMA StoreReads ==
  ASSUME NEW k \in Keys, Unmoved, Answering("fatRead", k, TRUE, FileOn(disk, k).text),
         FileOn(disk, k).kind \in {"none", "file"}
  PROVE  Store!Next
<1>1. Store!Answers(k)  BY DEF Answering, Store!Answers, Store!NoReply
<1>2. Store!Read(k)  BY DEF Answering, Unmoved, Store!Read, Store!Reply
<1> QED  BY <1>1, <1>2 DEF Store!Next

\* A file is absent if its lookup ends nowhere.
LEMMA Present ==
  ASSUME TypeInv, FilesInv, RootShort, NEW p \in Paths, NEW c, Lies(disk, p, c)
  PROVE  /\ FoundOn(disk, c, LastName(p)) = {} => FileOn(disk, Key(p)) = Absent
         /\ \A s \in FoundOn(disk, c, LastName(p)) :
              LET e == disk[DirBase(c) + s]
              IN  FileOn(disk, Key(p)) = [kind |-> e.attr, text |-> TextOn(disk, e)]
         /\ FoundOn(disk, c, LastName(p)) # {} => FileOn(disk, Key(p)) # Absent
<1> DEFINE n == LastName(p)
<1>1. disk \in Disk /\ ShortRoot(disk)  BY TypeParts DEF StorageTypes, RootShort, ShortRoot
<1>2. c \in Clusters \ {1}  BY LiesDir
<1>3. FileOn(disk, Key(p)) = FileIn(disk, SlotsOn(disk, c, n))  BY <1>1, FileOnLies
<1>4. FoundOn(disk, c, n) = {} => FileOn(disk, Key(p)) = Absent
  BY <1>3 DEF SlotsOn, FileIn
<1>5. ASSUME NEW s \in FoundOn(disk, c, n)
      PROVE  LET e == disk[DirBase(c) + s]
             IN  /\ FileOn(disk, Key(p)) = [kind |-> e.attr, text |-> TextOn(disk, e)]
                 /\ e.attr # "absent"
  <2> DEFINE a == DirBase(c) + s
  <2>1. a \in SlotsOn(disk, c, n)  BY DEF SlotsOn
  <2> HIDE DEF a
  <2>2. SlotsOn(disk, c, n) = {a} /\ disk[a] \in Entry  BY <1>1, <1>2, <2>1, SlotKept
  <2>3. (CHOOSE x \in {a} : TRUE) = a  OBVIOUS
  <2>4. FileIn(disk, {a}) = [kind |-> disk[a].attr, text |-> TextOn(disk, disk[a])]
    BY <2>3 DEF FileIn
  <2>5. disk[a].attr # "absent"  BY <2>2 DEF Entry
  <2> QED  BY <1>3, <2>2, <2>4, <2>5 DEF a
<1>6. FoundOn(disk, c, n) # {} => FileOn(disk, Key(p)) # Absent
  <2> SUFFICES ASSUME NEW s \in FoundOn(disk, c, n)
               PROVE  FileOn(disk, Key(p)) # Absent
    OBVIOUS
  <2> DEFINE e == disk[DirBase(c) + s]
  <2>1. FileOn(disk, Key(p)) = [kind |-> e.attr, text |-> TextOn(disk, e)] /\ e.attr # "absent"
    BY <1>5
  <2> QED  BY <2>1 DEF Absent
<1> QED  BY <1>4, <1>5, <1>6

(***************************************************************************)
(* What a call is at                                                       *)
(***************************************************************************)

\* A walk is on the way of the path it is given; the other calls are what they were
\* begun as.
Tracked ==
  /\ op # "none" => path \in Paths
  /\ pc = "walk" =>
       /\ op \in {"fatOpen", "fatCreate"} /\ out = <<>>
       /\ \E w : Way(disk, path, w) /\ depth \in 2..Len(path.names) /\ dir = w[depth]
  /\ pc = "free" => op = "fatWrite" /\ text \in Texts /\ out = <<>>
  /\ pc = "read" => op = "fatRead" /\ fp.rde.attr # "dir" /\ (fp.rde.size = 0 => out = <<>>)

\* The handle is of the entry that a lookup of the path ends at.
OpenedOn(d, p, f) ==
  /\ Lies(d, p, f.parent)
  /\ \E s \in FoundOn(d, f.parent, LastName(p)) : f.rde = d[DirBase(f.parent) + s]
HandleInv == Returned("fatOpen", 0) \/ pc \in {"free", "read"} => OpenedOn(disk, path, fp)

AllThere(d) == \A p \in Paths : WayThere(d, p)
StoreInv ==
  /\ FilesInv /\ Packed(disk) /\ SealedInv /\ ReadInv
  /\ Flat(disk) /\ AllThere(disk) /\ Tracked /\ HandleInv

\* How a call begins.
LEMMA CallsBegin ==
  ASSUME Call, Tracked
  PROVE  /\ pc = "idle" /\ out' = <<>> /\ op' # "none"
         /\ op # "none" => path \in Paths
         /\ path' \in Paths
         /\ pc' = "walk" => op' \in {"fatOpen", "fatCreate"}
         /\ pc' = "free" => op' = "fatWrite" /\ text' \in Texts
         /\ pc' = "read" => op' = "fatRead" /\ fp.rde.attr # "dir"
         /\ pc' \in {"free", "read"} =>
              Returned("fatOpen", 0) /\ fp' = fp /\ path' = path /\ UNCHANGED disk
<1>1. op # "none" => path \in Paths  BY DEF Tracked
<1>2. ASSUME NEW p \in Paths, fatOpenRoot(p)
      PROVE  pc' = "idle" /\ pc = "idle" /\ out' = <<>> /\ op' = "fatOpen" /\ path' = p
  BY <1>2 DEF fatOpenRoot, Begin, Fail, Return
<1>3. ASSUME NEW p \in Paths, fatOpenPath(p)
      PROVE  /\ pc' \in {"idle", "walk"} /\ pc = "idle" /\ out' = <<>>
             /\ op' = "fatOpen" /\ path' = p
  BY <1>3 DEF fatOpenPath, Begin, StartWalk, Fail, Return
<1>4. ASSUME NEW p \in Paths, NEW isDir \in BOOLEAN, fatCreateRoot(p, isDir)
      PROVE  /\ pc' \in {"idle", "fault"} /\ pc = "idle" /\ out' = <<>>
             /\ op' = "fatCreate" /\ path' = p
  BY <1>4 DEF fatCreateRoot, Begin, Fault, Return
<1>5. ASSUME NEW p \in Paths, NEW isDir \in BOOLEAN, fatCreatePath(p, isDir)
      PROVE  /\ pc' \in {"idle", "walk"} /\ pc = "idle" /\ out' = <<>>
             /\ op' = "fatCreate" /\ path' = p
  BY <1>5 DEF fatCreatePath, Begin, StartWalk, Fail, Return
<1>6. ASSUME NEW t \in Texts, fatWrite(t)
      PROVE  /\ pc' = "free" /\ pc = "idle" /\ out' = <<>> /\ op' = "fatWrite" /\ text' = t
             /\ Returned("fatOpen", 0) /\ fp' = fp /\ path' = path /\ UNCHANGED disk
  BY <1>6 DEF fatWrite, Begin, Returned, Idle, storage
<1>7. ASSUME fatRead
      PROVE  /\ pc' = "read" /\ pc = "idle" /\ out' = <<>> /\ op' = "fatRead"
             /\ fp.rde.attr # "dir"
             /\ Returned("fatOpen", 0) /\ fp' = fp /\ path' = path /\ UNCHANGED disk
  BY <1>7 DEF fatRead, Begin, Returned, Idle, storage
<1>8. Returned("fatOpen", 0) => path \in Paths  BY <1>1 DEF Returned
<1>9. ASSUME NEW p \in Paths, NEW o \in {"fatOpen", "fatCreate"}, NEW isDir,
             ScanAstray(o, p, isDir)
      PROVE  pc' = "fault" /\ pc = "idle" /\ out' = <<>> /\ op' = o /\ path' = p
  BY <1>9, ScanStops DEF Begin, Fault
<1> QED  BY <1>1, <1>2, <1>3, <1>4, <1>5, <1>6, <1>7, <1>8, <1>9 DEF Call

LEMMA ArgsStep ==
  ASSUME Tracked, [Next]_vars
  PROVE  op' # "none" => path' \in Paths
<1>1. CASE Call  BY <1>1, CallsBegin
<1>2. CASE Step \/ UNCHANGED vars
  <2>1. UNCHANGED args  BY <1>2, StepsGoOn DEF vars, args
  <2> QED  BY <2>1 DEF args, Tracked
<1> QED  BY <1>1, <1>2 DEF Next

\* What the steps below need of the states before and after.
Around ==
  /\ PlainPaths /\ LongComponents
  /\ TypeInv /\ TypeInv' /\ StoreInv
  /\ NothingRunsOut /\ NothingRunsOut'
  /\ [Next]_vars /\ [AnyNext]_vars

LEMMA Surroundings ==
  ASSUME Around
  PROVE  /\ Named' /\ FilesInv /\ OwnershipInv /\ OpenInv /\ BlankInv /\ TidyInv /\ HeldInv
         /\ SealedInv /\ Flat(disk) /\ Packed(disk) /\ Tracked /\ HandleInv
         /\ Orderly /\ Orderly' /\ WellBehaved' /\ RootShort /\ RootShort'
         /\ disk \in Disk /\ disk' \in Disk /\ ShortRoot(disk) /\ ShortRoot(disk')
         /\ Grown
         /\ \A p \in Paths : \E c : Lies(disk, p, c)
<1> USE DEF Around
<1>1. /\ FilesInv /\ OwnershipInv /\ OpenInv /\ BlankInv /\ TidyInv /\ HeldInv
      /\ SealedInv /\ Flat(disk) /\ Packed(disk) /\ Tracked /\ HandleInv
  BY DEF StoreInv, FilesInv, OpenInv, FirstInv
<1>2. Orderly /\ Orderly' /\ WellBehaved' /\ RootShort /\ RootShort'
  BY DEF NothingRunsOut, Orderly
<1>3. Named'
  <2>1. op' # "none" => path' \in Paths  BY <1>1, ArgsStep
  <2> QED  BY <2>1, PlainIsNamed DEF Named, NamedPaths
<1>4. disk \in Disk /\ disk' \in Disk  BY TypeParts, TypePartsNext DEF StorageTypes
<1>5. ShortRoot(disk) /\ ShortRoot(disk')  BY <1>2 DEF RootShort, ShortRoot
<1>6. Grown  BY <1>1, <1>2, <1>3, GrownStep
<1>7. \A p \in Paths : \E c : Lies(disk, p, c)  BY DEF StoreInv, AllThere, WayThere, Lies
<1> QED  BY <1>1, <1>2, <1>3, <1>4, <1>5, <1>6, <1>7

\* The lookup of fatOpen and fatCreate goes the way of the path.
LEMMA Begins ==
  ASSUME Around, Begun, path' \in Paths
  PROVE  \E w : /\ Way(disk', path', w) /\ depth' \in 2..Len(path'.names)
                /\ dir' = w[depth']
<1> DEFINE m == Len(path'.names)
           n == path'.names[1]
<1>0. disk \in Disk /\ ShortRoot(disk)  BY Surroundings
<1>1. disk' = disk /\ depth' = 2 /\ m > 1  BY DEF Begun
<1>2. m \in Nat  BY PathNames
<1>3. PICK w : Way(disk, path', w)
  BY DEF Around, StoreInv, AllThere, WayThere
<1>4. /\ w[1] = 0 /\ 1 \in 1..(m - 1)
      /\ \E a \in SlotsOn(disk, w[1], n) : IsDir(disk[a]) /\ disk[a].cluster = w[1 + 1]
  BY <1>1, <1>2, <1>3 DEF Way
<1>5. PICK a \in SlotsOn(disk, 0, n) : disk[a].cluster = w[2]  BY <1>4
<1>6. PICK s \in FoundInRoot(LoadRoot(disk), n) : dir' = LoadRoot(disk)[s].cluster
  BY DEF Begun
<1> HIDE DEF n
<1>7. s \in FoundOn(disk, 0, n)  BY <1>0, <1>6, RootScan
<1>8. s \in DirSlots  BY <1>7 DEF FoundOn, Scan
<1>9. a = DirBase(0) + s  BY <1>5, <1>7, FoundOnce DEF SlotsOn
<1>10. dir' = w[2]  BY <1>5, <1>6, <1>8, <1>9, RootBase DEF LoadRoot
<1> QED  BY <1>1, <1>2, <1>3, <1>10

LEMMA Descends ==
  ASSUME Around, Descended
  PROVE  \E w : /\ Way(disk', path', w) /\ depth' \in 2..Len(path'.names)
                /\ dir' = w[depth']
<1> DEFINE m == Len(path.names)
           n == path.names[depth]
<1>0. disk \in Disk /\ ShortRoot(disk) /\ Tracked  BY Surroundings
<1>1. /\ disk' = disk /\ path' = path /\ depth' = depth + 1 /\ pc = "walk"
      /\ depth < subDirectIndex(path)
  BY DEF Descended, args
<1>2. PICK w : Way(disk, path, w) /\ depth \in 2..m /\ dir = w[depth]
  BY <1>0, <1>1 DEF Tracked
<1>3. path \in Paths  BY <1>0, <1>1 DEF Tracked
<1>4. m \in Nat /\ subDirectIndex(path) = m  BY <1>3, PathNames, PlainIsNamed DEF Around
<1>5. n \in Name /\ Len(n) > 1
  BY <1>2, <1>3, PathNames DEF LongComponents, Around
<1>6. depth \in 1..(m - 1)  BY <1>1, <1>2, <1>4
<1>7. PICK a \in SlotsOn(disk, dir, n) : disk[a].cluster = w[depth + 1]
  BY <1>2, <1>6 DEF Way
<1>8. PICK s \in FoundInDir(Entries(disk, dir), n) : dir' = Entries(disk, dir)[s].cluster
  BY DEF Descended
<1> HIDE DEF n
<1>9. s \in FoundOn(disk, dir, n)  BY <1>5, <1>8, DirScan
<1>10. s \in DirSlots  BY <1>9 DEF FoundOn, Scan
<1>11. a = DirBase(dir) + s  BY <1>7, <1>9, FoundOnce DEF SlotsOn
<1>12. dir' = w[depth + 1]  BY <1>7, <1>8, <1>10, <1>11 DEF Entries
<1> QED  BY <1>1, <1>2, <1>6, <1>12

LEMMA TrackedStep ==
  ASSUME Around
  PROVE  Tracked'
<1>0. /\ Tracked /\ OwnershipInv /\ OpenInv /\ Orderly /\ Named' /\ TypeInv
      /\ [Next]_vars /\ [AnyNext]_vars
  BY Surroundings DEF Around
<1>1. op' # "none" => path' \in Paths  BY <1>0, ArgsStep
<1>2. CASE UNCHANGED vars  BY <1>0, <1>2 DEF vars, Tracked
<1>3. ASSUME pc' = "walk", op' # "none", ~UNCHANGED vars
      PROVE  \E w : /\ Way(disk', path', w) /\ depth' \in 2..Len(path'.names)
                    /\ dir' = w[depth']
  <2>1. Begun \/ Descended
    BY <1>0, <1>3, StepKinds DEF Neither, OpenedTop, OpenedBelow, CreatedTop, CreatedBelow,
                                 Returned, Idle
  <2> QED  BY <1>1, <1>3, <2>1, Begins, Descends
<1>4. CASE Call /\ ~UNCHANGED vars
  <2>1. /\ out' = <<>> /\ op' # "none"
        /\ pc' = "walk" => op' \in {"fatOpen", "fatCreate"}
        /\ pc' = "free" => op' = "fatWrite" /\ text' \in Texts
        /\ pc' = "read" => op' = "fatRead" /\ fp.rde.attr # "dir" /\ fp' = fp
    BY <1>0, <1>4, CallsBegin
  <2> QED  BY <1>1, <1>3, <1>4, <2>1 DEF Tracked
<1>5. CASE Step /\ ~UNCHANGED vars
  <2>1. ASSUME fatOpenStep \/ fatCreateStep
        PROVE  Tracked'
    <3>1. pc = "walk" /\ pc' \in {"walk", "idle"} /\ out' = out /\ op' = op
      BY <2>1 DEF fatOpenStep, fatCreateStep, Fail, Descend, Return, args
    <3> QED  BY <1>0, <1>1, <1>3, <1>5, <3>1 DEF Tracked
  <2>2. ASSUME WriteSingle
        PROVE  Tracked'
    <3>1. pc' = "idle"  BY <2>2 DEF WriteSingle, Finish, Return
    <3> QED  BY <1>1, <3>1 DEF Tracked
  <2>3. ASSUME ReadSingle \/ ReadLinked
        PROVE  Tracked'
    <3>1. /\ pc = "read" /\ fp' = fp /\ UNCHANGED args
          /\ pc' = "idle" \/ (ReadLinked /\ pc' = "read" /\ ~(Wanted < DirSize))
      BY <2>3 DEF ReadSingle, ReadLinked, Return
    <3>2. op = "fatRead" /\ fp.rde.attr # "dir" /\ (fp.rde.size = 0 => out = <<>>)
      BY <1>0, <3>1 DEF Tracked
    <3>3. CASE pc' = "idle"  BY <1>1, <3>3 DEF Tracked
    <3>4. CASE pc' = "read" /\ ~(Wanted < DirSize)
      <4>1. fp.rde.size # 0
        <5> SUFFICES ASSUME fp.rde.size = 0 PROVE FALSE
          OBVIOUS
        <5>1. out = <<>>  BY <3>2
        <5>2. Len(out) = 0  BY <5>1
        <5>3. Wanted = 0  BY <5>2 DEF Wanted
        <5> QED  BY <3>4, <5>3, Sizes, SizeAssumption
      <4> QED  BY <1>1, <3>1, <3>2, <3>4, <4>1 DEF Tracked, args
    <3> QED  BY <3>1, <3>3, <3>4
  <2>4. ASSUME Stray
        PROVE  Tracked'
    <3>1. pc' = "fault"  BY <2>4, AstrayKeeps
    <3> QED  BY <1>1, <3>1 DEF Tracked
  <2> QED  BY <1>0, <1>5, <2>1, <2>2, <2>3, <2>4, OrderlySingle, NoOtherWrite DEF Step, Stray
<1> QED  BY <1>0, <1>2, <1>4, <1>5 DEF Next

LEMMA LiesInRoot ==
  ASSUME TypeInv, FilesInv, RootShort, AllThere(disk), NEW p \in Paths, Len(p.names) = 1
  PROVE  Lies(disk, p, 0)
<1>1. PICK w : Way(disk, p, w)  BY DEF AllThere, WayThere
<1>2. w[Len(p.names)] = 0  BY <1>1 DEF Way
<1> QED  BY <1>1, <1>2 DEF Lies

\* The scan in the root directory, of a path of one component.
LEMMA TopScan ==
  ASSUME TypeInv, RootShort, NEW p \in Paths, Len(p.names) = 1
  PROVE  /\ LastName(p) = p.names[1]
         /\ FoundInRoot(LoadRoot(disk), p.names[1]) = FoundOn(disk, 0, LastName(p))
         /\ \A s \in FoundOn(disk, 0, LastName(p)) :
              s \in Slots /\ LoadRoot(disk)[s] = disk[DirBase(0) + s]
<1>1. ShortRoot(disk)  BY DEF RootShort, ShortRoot
<1>2. LastName(p) = p.names[1]  BY DEF LastName
<1>3. FoundInRoot(LoadRoot(disk), p.names[1]) = FoundOn(disk, 0, LastName(p))
  BY <1>1, <1>2, RootScan
<1>4. ASSUME NEW s \in FoundOn(disk, 0, LastName(p))
      PROVE  s \in Slots /\ LoadRoot(disk)[s] = disk[DirBase(0) + s]
  <2>1. s \in DirSlots  BY <1>4 DEF FoundOn, Scan
  <2> QED  BY <2>1, RootBase DEF LoadRoot
<1> QED  BY <1>2, <1>3, <1>4

\* The scan in the last directory of a longer one.
LEMMA LastScan ==
  ASSUME Around, pc = "walk", depth = Len(path.names)
  PROVE  /\ Lies(disk, path, dir) /\ path \in Paths /\ dir >= 2
         /\ path.names[depth] = LastName(path)
         /\ LastName(path) \in Name /\ Len(LastName(path)) > 1
         /\ FoundInDir(Entries(disk, dir), path.names[depth]) = FoundOn(disk, dir, LastName(path))
         /\ \A s \in DirSlots : Entries(disk, dir)[s] = disk[DirBase(dir) + s]
<1>1. Tracked /\ Orderly  BY Surroundings
<1>2. path \in Paths /\ \E w : Way(disk, path, w) /\ dir = w[depth]  BY <1>1 DEF Tracked
<1>3. Lies(disk, path, dir)  BY <1>2 DEF Lies
<1>4. path.names[depth] = LastName(path)  BY DEF LastName
<1>5. LastName(path) \in Name /\ Len(LastName(path)) > 1
  BY <1>2, PathNames DEF LastName, LongComponents, Around
<1>6. FoundInDir(Entries(disk, dir), LastName(path)) = FoundOn(disk, dir, LastName(path))
  BY <1>5, DirScan
<1>7. dir >= 2  BY <1>1 DEF Orderly
<1> QED  BY <1>2, <1>3, <1>4, <1>5, <1>6, <1>7 DEF Entries

LEMMA HandleKept ==
  ASSUME Around, UNCHANGED <<disk, path, fp>>, Returned("fatOpen", 0) \/ pc \in {"free", "read"}
  PROVE  HandleInv'
<1>1. OpenedOn(disk, path, fp)  BY Surroundings DEF HandleInv
<1> QED  BY <1>1 DEF HandleInv

LEMMA HandleNext ==
  ASSUME Around
  PROVE  HandleInv'
<1>0. /\ Tracked /\ OwnershipInv /\ OpenInv /\ Orderly /\ Named' /\ TypeInv /\ TypeInv'
      /\ [Next]_vars /\ [AnyNext]_vars /\ FilesInv /\ RootShort /\ AllThere(disk)
  BY Surroundings DEF Around, StoreInv
<1>1. op' # "none" => path' \in Paths  BY <1>0, ArgsStep
<1>2. CASE UNCHANGED vars
  <2>1. HandleInv  BY DEF Around, StoreInv
  <2> QED  BY <1>2, <2>1 DEF vars, HandleInv, Returned, Idle
<1>3. CASE OpenedTop
  <2>1. path' \in Paths /\ Len(path'.names) = 1 /\ disk' = disk
    BY <1>1, <1>3 DEF OpenedTop, Returned
  <2>2. PICK s \in FoundInRoot(LoadRoot(disk), path'.names[1]) :
          fp' = Handle(0, LoadRoot(disk)[s])
    BY <1>3 DEF OpenedTop
  <2>3. s \in FoundOn(disk, 0, LastName(path')) /\ LoadRoot(disk)[s] = disk[DirBase(0) + s]
    BY <1>0, <2>1, <2>2, TopScan
  <2>4. fp'.parent = 0 /\ fp'.rde = disk[DirBase(0) + s]  BY <2>2, <2>3 DEF Handle
  <2>5. Lies(disk, path', 0)  BY <1>0, <2>1, LiesInRoot
  <2> QED  BY <2>1, <2>3, <2>4, <2>5 DEF HandleInv, OpenedOn
<1>4. CASE OpenedBelow
  <2>1. /\ path' = path /\ disk' = disk /\ pc = "walk" /\ depth = subDirectIndex(path)
    BY <1>4 DEF OpenedBelow, args
  <2>2. path \in Paths  BY <1>0, <2>1 DEF Tracked
  <2>3. depth = Len(path.names)  BY <2>1, <2>2, PlainIsNamed DEF Around
  <2>4. PICK s \in FoundInDir(Entries(disk, dir), path.names[depth]) :
          fp' = Handle(dir, Entries(disk, dir)[s])
    BY <1>4 DEF OpenedBelow
  <2>5. /\ s \in FoundOn(disk, dir, LastName(path)) /\ Lies(disk, path, dir)
        /\ \A x \in DirSlots : Entries(disk, dir)[x] = disk[DirBase(dir) + x]
    BY <2>1, <2>3, <2>4, LastScan
  <2>6. s \in DirSlots  BY <2>5 DEF FoundOn, Scan
  <2>7. fp'.parent = dir /\ fp'.rde = disk[DirBase(dir) + s]  BY <2>4, <2>5, <2>6 DEF Handle
  <2> QED  BY <2>1, <2>5, <2>7 DEF HandleInv, OpenedOn
<1>5. CASE Call /\ pc' \in {"free", "read"}
  <2>1. Returned("fatOpen", 0) /\ fp' = fp /\ path' = path /\ UNCHANGED disk
    BY <1>0, <1>5, CallsBegin
  <2> QED  BY <2>1, HandleKept
<1>6. CASE Step /\ pc' \in {"free", "read"}
  <2>1. ReadLinked
    <3>1. fatOpenStep \/ fatCreateStep => pc' \in {"walk", "idle"}
      BY DEF fatOpenStep, fatCreateStep, Fail, Descend, Return
    <3>2. WriteSingle \/ ReadSingle => pc' = "idle"
      BY DEF WriteSingle, ReadSingle, Finish, Return
    <3>3. Stray => pc' = "fault"  BY AstrayKeeps
    <3> QED  BY <1>0, <1>6, <3>1, <3>2, <3>3, OrderlySingle, NoOtherWrite DEF Step, Stray
  <2>2. pc = "read" /\ UNCHANGED <<disk, path, fp>>
    BY <2>1 DEF ReadLinked, storage, args
  <2> QED  BY <2>2, HandleKept
<1>7. CASE ~Returned("fatOpen", 0)' /\ pc' \notin {"free", "read"}
  BY <1>7 DEF HandleInv
<1>8. \/ UNCHANGED vars \/ OpenedTop \/ OpenedBelow \/ ~Returned("fatOpen", 0)'
  BY <1>0, StepKinds
  DEF Begun, Descended, CreatedTop, CreatedBelow, Neither, Returned, Idle
<1> QED  BY <1>0, <1>2, <1>3, <1>4, <1>5, <1>6, <1>7, <1>8 DEF Next, Returned, Idle

\* Directories have no length: none is written to.
LEMMA FlatNext ==
  ASSUME Around
  PROVE  Flat(disk')
<1>0. /\ OwnershipInv /\ OpenInv /\ TidyInv /\ HeldInv /\ Orderly /\ Named' /\ TypeInv
      /\ [AnyNext]_vars /\ Flat(disk)
  BY Surroundings DEF Around
<1>1. ASSUME NEW a0, NEW n, NEW isDir, PutEntry(a0, n, isDir)
      PROVE  Flat(disk')
  <2>1. /\ \A a \in Addr \ {a0} : disk'[a] = disk[a]
        /\ \E c : disk'[a0] = NewEntry(n, isDir, c)
    BY <1>1 DEF PutEntry
  <2>2. disk'[a0].size = 0  BY <2>1 DEF NewEntry
  <2> QED  BY <1>0, <2>1, <2>2 DEF Flat, Kept
<1>2. CASE UNCHANGED <<disk, fat>>  BY <1>0, <1>2
<1>3. ASSUME NEW p \in Path, NEW isDir \in BOOLEAN, fatCreateRoot(p, isDir)
      PROVE  Flat(disk')
  <2>1. p.names[1] # <<>>  BY <1>0, <1>3 DEF fatCreateRoot, Begin, Named
  <2> QED  BY <1>0, <1>1, <1>2, <1>3, <2>1, RootPut
<1>4. CASE fatCreateStep
  <2>1. dir >= 2  BY <1>0, <1>4 DEF fatCreateStep, Orderly
  <2> QED  BY <1>0, <1>1, <1>2, <1>4, <2>1, DirPut
<1>5. CASE WriteSingle
  <2>1. PICK b0 \in Addr :
          /\ disk[b0] = fp.rde /\ disk'[b0] = [fp.rde EXCEPT !.size = text.len]
          /\ \A a \in Kept \ {b0} : disk'[a] = Zero \/ disk'[a].kind = "text" \/ disk'[a] = disk[a]
    <3>1. PICK s0 \in Firsts(disk, fp) :
            LET b == DirBase(fp.parent) + s0
            IN  /\ b \in Kept /\ disk[b] = fp.rde
                /\ disk'[b] = [fp.rde EXCEPT !.size = text.len]
                /\ \A a \in Kept \ {b} :
                     IF a - ClusterBase(cluster) \in DirSlots
                     THEN disk'[a] = Zero \/ disk'[a].kind = "text"
                     ELSE disk'[a] = disk[a]
      BY <1>0, <1>5, FileWritten
    <3> QED  BY <3>1 DEF Kept
  <2>2. fp.rde \in Entry /\ fp.rde.attr = "file"
    BY <1>0, <1>5, WriteHandle DEF IsFile, File, Entry
  <2>3. disk'[b0].attr = "file"  BY <2>1, <2>2 DEF Entry
  <2>4. Zero.attr = "none"  BY DEF Zero
  <2> QED  BY <1>0, <2>1, <2>3, <2>4 DEF Flat
<1> QED  BY <1>0, <1>2, <1>3, <1>4, <1>5, OrderlySingle, StoresNothing

LEMMA StoreStep ==
  ASSUME Around
  PROVE  StoreInv'
<1>1. /\ Named' /\ FilesInv /\ SealedInv /\ Packed(disk) /\ Orderly /\ Orderly'
      /\ RootShort /\ RootShort' /\ Grown
  BY Surroundings
<1>2. /\ TypeInv /\ TypeInv' /\ ReadInv /\ AllThere(disk) /\ LongComponents /\ [AnyNext]_vars
  BY DEF Around, StoreInv
<1>0. SingleWrites  BY <1>1, OrderlySingle
<1>3. FilesInv'  BY <1>0, <1>1, <1>2, FilesStep
<1>4. Packed(disk')  BY <1>1, <1>2, PackedStep
<1>5. SealedInv'  BY <1>0, <1>1, <1>2, SealedStep
<1>6. ReadInv'  BY <1>0, <1>1, <1>2, ReadStep
<1>7. AllThere(disk')
  <2> SUFFICES ASSUME NEW p \in Paths PROVE WayThere(disk', p)
    BY DEF AllThere
  <2>1. PICK w \in [1..Len(p.names) -> Clusters] : Way(disk, p, w)
    BY <1>2 DEF AllThere, WayThere
  <2>2. Way(disk', p, w)  BY <1>1, <1>2, <2>1, WayStays
  <2> QED  BY <2>2 DEF WayThere
<1>8. Flat(disk') /\ Tracked' /\ HandleInv'  BY FlatNext, TrackedStep, HandleNext
<1> QED  BY <1>3, <1>4, <1>5, <1>6, <1>7, <1>8 DEF StoreInv

(***************************************************************************)
(* Every step is one of FileStore                                          *)
(***************************************************************************)

\* fatOpen has ended its search in directory c.
LEMMA OpenEnds ==
  ASSUME Around, pc' = "idle", op' = "fatOpen", out' = <<>>, UNCHANGED disk,
         path' \in Paths, NEW c, Lies(disk, path', c),
         ret' = 0 <=> FoundOn(disk, c, LastName(path')) # {}
  PROVE  Store!Next
<1> DEFINE k == Key(path')
<1>1. k \in Keys  BY DEF Keys
<1>2. TypeInv /\ FilesInv /\ RootShort  BY Surroundings DEF Around
<1>3. /\ FoundOn(disk, c, LastName(path')) = {} => FileOn(disk, k) = Absent
      /\ FoundOn(disk, c, LastName(path')) # {} => FileOn(disk, k) # Absent
  BY <1>2, Present
<1>4. /\ ret' = 0 => Answering("fatOpen", k, TRUE, NoText)
      /\ ret' # 0 => Answering("fatOpen", k, FALSE, NoText)
  BY Answered
<1> HIDE DEF k
<1>5. Unmoved  BY SameFiles
<1> QED  BY <1>1, <1>3, <1>4, <1>5, StoreOpens

LEMMA OpenTopStores ==
  ASSUME Around, NEW p \in Paths, fatOpenRoot(p)
  PROVE  Store!Next
<1>0. TypeInv /\ FilesInv /\ RootShort /\ AllThere(disk) /\ OwnershipInv /\ disk \in Disk
  BY Surroundings DEF Around, StoreInv
<1>1. Len(p.names) = 1 /\ path' = p /\ op' = "fatOpen" /\ out' = <<>>
  BY DEF fatOpenRoot, Begin
<1>2. Lies(disk, p, 0)  BY <1>0, <1>1, LiesInRoot
<1>3. FoundInRoot(LoadRoot(disk), p.names[1]) = FoundOn(disk, 0, LastName(p))
  BY <1>0, <1>1, TopScan
<1>4. CASE FoundOn(disk, 0, LastName(p)) = {} /\ Fail(1)
  <2>1. pc' = "idle" /\ ret' = 1 /\ UNCHANGED disk  BY <1>4 DEF Fail, Return, storage
  <2> QED  BY <1>1, <1>2, <1>4, <2>1, OpenEnds
<1>5. CASE /\ FoundOn(disk, 0, LastName(p)) # {} /\ writeRootDirectory(disk) /\ Return(0)
  <2>1. pc' = "idle" /\ ret' = 0  BY <1>5 DEF Return
  <2>2. rootDir' = LoadRoot(disk)  BY DEF fatOpenRoot, initFatStructs
  <2>3. disk' = disk  BY <1>0, <1>5, <2>2, PutBackRoot DEF writeRootDirectory
  <2> QED  BY <1>1, <1>2, <1>5, <2>1, <2>3, OpenEnds
<1> QED  BY <1>3, <1>4, <1>5 DEF fatOpenRoot

\* The first component of a longer path is found.
LEMMA WalksStart ==
  ASSUME Around, NEW p \in Paths, StartWalk(p)
  PROVE  pc' = "walk" /\ UNCHANGED disk
<1>0. ShortRoot(disk) /\ AllThere(disk)  BY Surroundings DEF Around, StoreInv
<1>1. FoundInRoot(LoadRoot(disk), p.names[1]) # {}
  <2>1. PICK w : Way(disk, p, w)  BY <1>0 DEF AllThere, WayThere
  <2>2. 1 \in 1..(Len(p.names) - 1)  BY PathNames DEF StartWalk
  <2>3. w[1] = 0 /\ \E a : a \in SlotsOn(disk, w[1], p.names[1])  BY <2>1, <2>2 DEF Way
  <2>4. FoundOn(disk, 0, p.names[1]) # {}  BY <2>3 DEF SlotsOn
  <2> QED  BY <1>0, <2>4, RootScan
<1> QED  BY <1>1 DEF StartWalk, storage

LEMMA WalkStartStores ==
  ASSUME Around, NEW p \in Paths, NEW isDir \in BOOLEAN, fatOpenPath(p) \/ fatCreatePath(p, isDir)
  PROVE  Store!Next
<1>1. StartWalk(p)  BY DEF fatOpenPath, fatCreatePath
<1>2. pc' = "walk" /\ UNCHANGED disk  BY <1>1, WalksStart
<1> QED  BY <1>2, SameFiles, Forgotten

\* A directory on the way is found to lead on.
LEMMA WalksGoOn ==
  ASSUME Around, pc = "walk"
  PROVE  /\ path \in Paths /\ subDirectIndex(path) = Len(path.names)
         /\ depth \in 2..Len(path.names) /\ op \in {"fatOpen", "fatCreate"} /\ out = <<>>
         /\ readFromCluster(disk, dir, dataEntries) = Entries(disk, dir)
         /\ depth # Len(path.names) => FoundInDir(Entries(disk, dir), path.names[depth]) # {}
<1>0. Tracked /\ Orderly  BY Surroundings
<1>1. path \in Paths /\ op \in {"fatOpen", "fatCreate"} /\ out = <<>>  BY <1>0 DEF Tracked
<1>2. PICK w : Way(disk, path, w) /\ depth \in 2..Len(path.names) /\ dir = w[depth]
  BY <1>0 DEF Tracked
<1>3. subDirectIndex(path) = Len(path.names) /\ Len(path.names) \in Nat
  BY <1>1, PathNames, PlainIsNamed DEF Around
<1>4. dir # 0  BY <1>0 DEF Orderly
<1>5. readFromCluster(disk, dir, dataEntries) = Entries(disk, dir)  BY <1>4, ReadEntries
<1>6. ASSUME depth # Len(path.names)
      PROVE  FoundInDir(Entries(disk, dir), path.names[depth]) # {}
  <2>1. depth \in 1..(Len(path.names) - 1) /\ depth \in 1..Len(path.names)
    BY <1>2, <1>3, <1>6
  <2>2. path.names[depth] \in Name /\ Len(path.names[depth]) > 1
    BY <1>1, <2>1, PathNames DEF LongComponents, Around
  <2>3. \E a : a \in SlotsOn(disk, dir, path.names[depth])  BY <1>2, <2>1 DEF Way
  <2>4. FoundOn(disk, dir, path.names[depth]) # {}  BY <2>3 DEF SlotsOn
  <2> QED  BY <2>2, <2>4, DirScan
<1> QED  BY <1>1, <1>2, <1>3, <1>5, <1>6

LEMMA OpenWalkStores ==
  ASSUME Around, fatOpenStep
  PROVE  Store!Next
<1>0. pc = "walk" /\ op = "fatOpen" /\ UNCHANGED args /\ out' = out  BY DEF fatOpenStep
<1>1. /\ path \in Paths /\ subDirectIndex(path) = Len(path.names)
      /\ depth \in 2..Len(path.names) /\ out = <<>>
      /\ readFromCluster(disk, dir, dataEntries) = Entries(disk, dir)
      /\ depth # Len(path.names) => FoundInDir(Entries(disk, dir), path.names[depth]) # {}
  BY <1>0, WalksGoOn
<1>2. Len(path.names) \in Nat  BY <1>1, PathNames
<1>3. op' = "fatOpen" /\ path' = path /\ out' = <<>>  BY <1>0, <1>1 DEF args
<1> DEFINE found == FoundInDir(Entries(disk, dir), path.names[depth])
<1>4. CASE found = {} /\ Fail(2)
  <2>1. depth = Len(path.names)  BY <1>1, <1>4
  <2>2. pc' = "idle" /\ ret' = 2 /\ UNCHANGED disk  BY <1>4 DEF Fail, Return, storage
  <2>3. Lies(disk, path, dir) /\ FoundOn(disk, dir, LastName(path)) = {}
    BY <1>0, <1>4, <2>1, LastScan
  <2> QED  BY <1>1, <1>3, <2>2, <2>3, OpenEnds
<1>5. CASE /\ found # {} /\ depth = subDirectIndex(path)
           /\ writeRootDirectory(disk) /\ UNCHANGED caches /\ Return(0)
  <2>1. pc' = "idle" /\ ret' = 0 /\ rootDir' = rootDir  BY <1>5 DEF Return, caches
  <2>2. disk \in Disk /\ rootDir = LoadRoot(disk)
    BY Surroundings DEF OwnershipInv, StorageSound
  <2>3. disk' = disk  BY <1>5, <2>1, <2>2, PutBackRoot DEF writeRootDirectory
  <2>4. Lies(disk, path, dir) /\ FoundOn(disk, dir, LastName(path)) # {}
    BY <1>0, <1>1, <1>5, LastScan
  <2> QED  BY <1>1, <1>3, <2>1, <2>3, <2>4, OpenEnds
<1>6. CASE \E c : Descend(c)
  <2>1. pc' = "walk" /\ UNCHANGED disk  BY <1>6 DEF Descend, storage
  <2> QED  BY <2>1, SameFiles, Forgotten
<1> HIDE DEF found
<1>7. ~(depth > subDirectIndex(path))  BY <1>1, <1>2
<1> QED  BY <1>1, <1>4, <1>5, <1>6, <1>7 DEF fatOpenStep, found

\* fatCreate has put an entry into slot s0 of directory c.
LEMMA EntryEnds ==
  ASSUME Around, pc' = "idle", op' = "fatCreate", out' = <<>>, ret' = 0,
         path' \in Paths, NEW c, Lies(disk, path', c), NEW s0 \in DirSlots, Copied(c, s0),
         NEW n, n # <<>>, SameName(n, LastName(path')), NEW isDir \in BOOLEAN,
         PutEntry(DirBase(c) + s0, n, isDir),
         \A y \in DirSlots : y < s0 => ~RootMatch(disk[DirBase(c) + y], LastName(path'))
  PROVE  Store!Next
<1> DEFINE k == Key(path')
           kind == IF isDir THEN "dir" ELSE "file"
<1>1. k \in Keys /\ kind \in {"file", "dir"}  BY DEF Keys
<1>2. /\ LongComponents /\ TypeInv /\ TypeInv' /\ FilesInv /\ RootShort /\ RootShort'
      /\ Packed(disk) /\ Grown /\ SealedInv /\ Flat(disk)
      /\ \A p \in Paths : \E x : Lies(disk, p, x)
  BY Surroundings DEF Around
<1>3. PICK p : p = path'  OBVIOUS
<1>4. PICK a0 : a0 = DirBase(c) + s0  OBVIOUS
<1>5. p \in Paths /\ Lies(disk, p, c) /\ SameName(n, LastName(p)) /\ PutEntry(a0, n, isDir)
  BY <1>3, <1>4
<1>6. \A y \in DirSlots : y < s0 => ~RootMatch(disk[DirBase(c) + y], LastName(p))  BY <1>3
<1>7. FileOn(disk, Key(p)) = Absent /\ FileOn(disk', Key(p)) = [kind |-> kind, text |-> NoText]
  BY <1>2, <1>4, <1>5, <1>6, NewFile
<1>8. ASSUME NEW j \in Keys \ {k}
      PROVE  FileOn(disk', j) = FileOn(disk, j)
  <2>1. PICK q \in Paths : j = Key(q)  BY DEF Keys
  <2>2. PICK x : Lies(disk, q, x)  BY <1>2
  <2>3. Key(q) # Key(p)  BY <1>3, <1>8, <2>1
  <2>4. FileOn(disk', Key(q)) = FileOn(disk, Key(q))
    BY <1>2, <1>4, <1>5, <2>2, <2>3, OthersBesideNew
  <2> QED  BY <2>1, <2>4
<1>9. Answering("fatCreate", k, TRUE, NoText)  BY Answered
<1>10. k = Key(p)  BY <1>3
<1> HIDE DEF k, kind
<1> QED  BY <1>1, <1>7, <1>8, <1>9, <1>10, StoreCreates

\* fatCreate has found the name in directory c.
LEMMA NameEnds ==
  ASSUME Around, pc' = "idle", op' = "fatCreate", out' = <<>>, ret' # 0, UNCHANGED disk,
         path' \in Paths, NEW c, Lies(disk, path', c),
         FoundOn(disk, c, LastName(path')) # {}
  PROVE  Store!Next
<1> DEFINE k == Key(path')
<1>1. k \in Keys  BY DEF Keys
<1>2. TypeInv /\ FilesInv /\ RootShort  BY Surroundings DEF Around
<1>3. FileOn(disk, k) # Absent  BY <1>2, Present
<1>4. Answering("fatCreate", k, FALSE, NoText)  BY Answered
<1> HIDE DEF k
<1>5. Unmoved  BY SameFiles
<1> QED  BY <1>1, <1>3, <1>4, <1>5, StoreCreatesNone

LEMMA CreateTopStores ==
  ASSUME Around, NEW p \in Paths, NEW isDir \in BOOLEAN, fatCreateRoot(p, isDir)
  PROVE  Store!Next
<1> DEFINE n == p.names[1]
           root == LoadRoot(disk)
           stop == PlaceInRoot(root, n)
<1>0. /\ TypeInv /\ FilesInv /\ RootShort /\ AllThere(disk) /\ OwnershipInv
      /\ RootShort' /\ PlainPaths
  BY Surroundings DEF Around, StoreInv
<1>1. Len(p.names) = 1 /\ path' = p /\ op' = "fatCreate" /\ out' = <<>>
  BY DEF fatCreateRoot, Begin
<1>2. Lies(disk, p, 0)  BY <1>0, <1>1, LiesInRoot
<1>3. CASE Fault /\ UNCHANGED storage
  <2>1. pc' = "fault" /\ UNCHANGED disk  BY <1>3 DEF Fault, storage
  <2> QED  BY <2>1, SameFiles, Forgotten
<1>4. ASSUME NEW s \in stop, ~FreeSlot(root[s]), Return(1), UNCHANGED storage
      PROVE  Store!Next
  <2>1. pc' = "idle" /\ ret' = 1 /\ UNCHANGED disk  BY <1>4 DEF Return, storage
  <2>2. s \in Slots /\ RootMatch(root[s], n)  BY <1>4 DEF PlaceInRoot, Scan
  <2>3. FoundInRoot(root, n) # {}
    <3> DEFINE S == {x \in Slots : RootMatch(root[x], n)}
    <3>1. S # {} /\ S \subseteq Slots  BY <2>2
    <3> HIDE DEF S
    <3>2. Scan(S) # {}  BY <3>1, ScanFinds
    <3> QED  BY <3>2 DEF FoundInRoot, S
  <2>4. FoundOn(disk, 0, LastName(p)) # {}  BY <1>0, <1>1, <2>3, TopScan
  <2> QED  BY <1>1, <1>2, <2>1, <2>4, NameEnds
<1>5. CASE Return(0)
  <2>1. pc' = "idle" /\ ret' = 0  BY <1>5 DEF Return
  <2>2. p \in Path /\ p.names[1] # <<>>  BY <1>0, PathNames, PlainIsNamed DEF NamedPaths
  <2>3. PICK s \in Slots :
          /\ PutEntry(s - RootSize, StoredName(p), isDir)
          /\ \A y \in Slots : y < s => /\ ~FreeSlot(disk[y - RootSize])
                                       /\ ~RootMatch(disk[y - RootSize], p.names[1])
    BY <1>0, <2>1, <2>2, RootPut
  <2>4. /\ s \in DirSlots /\ Copied(0, s) /\ s - RootSize = DirBase(0) + s
        /\ p.names[1] # <<>> /\ LastName(p) = p.names[1] /\ StoredName(p) = p.names[1]
        /\ \A y \in DirSlots : y < s => ~RootMatch(disk[DirBase(0) + y], p.names[1])
    BY <1>0, <1>1, <2>3, TopFile
  <2>5. PutEntry(DirBase(0) + s, LastName(p), isDir) /\ SameName(LastName(p), LastName(p))
    BY <2>3, <2>4 DEF SameName
  <2> QED  BY <1>1, <1>2, <2>1, <2>4, <2>5, EntryEnds
<1> HIDE DEF n, root, stop
<1> QED  BY <1>3, <1>4, <1>5 DEF fatCreateRoot, n, root, stop

LEMMA CreateWalkStores ==
  ASSUME Around, fatCreateStep
  PROVE  Store!Next
<1>0. pc = "walk" /\ op = "fatCreate" /\ UNCHANGED args /\ out' = out  BY DEF fatCreateStep
<1>1. /\ path \in Paths /\ subDirectIndex(path) = Len(path.names)
      /\ depth \in 2..Len(path.names) /\ out = <<>>
      /\ readFromCluster(disk, dir, dataEntries) = Entries(disk, dir)
      /\ depth # Len(path.names) => FoundInDir(Entries(disk, dir), path.names[depth]) # {}
  BY <1>0, WalksGoOn
<1>2. Len(path.names) \in Nat  BY <1>1, PathNames
<1>3. op' = "fatCreate" /\ path' = path /\ out' = <<>>  BY <1>0, <1>1 DEF args
<1> DEFINE entries == Entries(disk, dir)
           name == path.names[depth]
           atEnd == depth = subDirectIndex(path)
           stop == IF atEnd THEN PlaceInDir(entries, name) ELSE FoundInDir(entries, name)
<1>4. CASE Fail(2) /\ stop = {}
  <2>1. pc' = "idle" /\ ret' = 2  BY <1>4 DEF Fail, Return
  <2>2. ~Returned("fatCreate", 2)'  BY DEF Around, NothingRunsOut
  <2> QED  BY <1>3, <2>1, <2>2 DEF Returned, Idle
<1>5. ASSUME NEW s \in stop, atEnd, ~FreeSlot(entries[s]), Fail(3)
      PROVE  Store!Next
  <2>1. pc' = "idle" /\ ret' = 3 /\ UNCHANGED disk  BY <1>5 DEF Fail, Return, storage
  <2>2. s \in DirSlots /\ DirMatch(entries[s], name)  BY <1>5 DEF PlaceInDir, Scan
  <2>3. FoundInDir(entries, name) # {}
    <3> DEFINE S == {x \in DirSlots : DirMatch(entries[x], name)}
    <3>1. S # {} /\ S \subseteq Slots  BY <2>2, RootBase
    <3> HIDE DEF S
    <3>2. Scan(S) # {}  BY <3>1, ScanFinds
    <3> QED  BY <3>2 DEF FoundInDir, S
  <2>4. Lies(disk, path, dir) /\ FoundOn(disk, dir, LastName(path)) # {}
    BY <1>0, <1>1, <1>5, <2>3, LastScan
  <2> QED  BY <1>1, <1>3, <2>1, <2>4, NameEnds
<1>6. CASE \E c : Descend(c)
  <2>1. pc' = "walk" /\ UNCHANGED disk  BY <1>6 DEF Descend, storage
  <2> QED  BY <2>1, SameFiles, Forgotten
<1>7. CASE atEnd /\ Return(0)
  <2>1. pc' = "idle" /\ ret' = 0  BY <1>7 DEF Return
  <2>2. depth = Len(path.names)  BY <1>1, <1>7
  <2>3. /\ Lies(disk, path, dir) /\ dir >= 2 /\ name = LastName(path)
        /\ LastName(path) \in Name /\ Len(LastName(path)) > 1
    BY <1>0, <2>2, LastScan
  <2>4. TypeInv /\ OwnershipInv  BY Surroundings DEF Around
  <2>5. PICK s \in DirSlots :
          /\ PutEntry(DirBase(dir) + s, StoredName(path), isDirectory)
          /\ \A y \in DirSlots : y < s => /\ ~FreeSlot(disk[DirBase(dir) + y])
                                          /\ ~DirMatch(disk[DirBase(dir) + y], name)
    BY <2>1, <2>3, <2>4, DirPut
  <2>6. \A y \in DirSlots : y < s => ~RootMatch(disk[DirBase(dir) + y], LastName(path))
    BY <2>3, <2>5 DEF RootMatch, DirMatch
  <2>7. isDirectory \in BOOLEAN /\ LastName(path) # <<>> /\ Copied(dir, s)
    BY <2>3, <2>4 DEF TypeInv, TypeOK, Copied
  <2>8. PutEntry(DirBase(dir) + s, LastName(path), isDirectory)
        /\ SameName(LastName(path), LastName(path))
    <3>1. StoredName(path) = LastName(path)  BY <1>1, PlainIsNamed DEF Around
    <3> QED  BY <2>3, <2>5, <3>1 DEF SameName
  <2> QED  BY <1>1, <1>3, <2>1, <2>3, <2>6, <2>7, <2>8, EntryEnds
<1> HIDE DEF entries, name, atEnd, stop
<1>8. ~(depth > subDirectIndex(path))  BY <1>1, <1>2
<1> QED  BY <1>1, <1>4, <1>5, <1>6, <1>7, <1>8
         DEF fatCreateStep, entries, name, atEnd, stop

\* fatWrite has stored the text.
LEMMA WriteStores ==
  ASSUME Around, WriteSingle
  PROVE  Store!Next
<1>0. /\ Tracked /\ FilesInv /\ RootShort /\ RootShort' /\ Packed(disk) /\ Grown
      /\ SealedInv /\ Flat(disk) /\ TypeInv /\ TypeInv' /\ LongComponents
      /\ \A p \in Paths : \E c : Lies(disk, p, c)
  BY Surroundings DEF Around
<1>1. /\ pc = "free" /\ pc' = "idle" /\ ret' = 0 /\ UNCHANGED args /\ out' = out
  BY DEF WriteSingle, Finish, Return
<1>2. op = "fatWrite" /\ text \in Texts /\ out = <<>> /\ path \in Paths
  BY <1>0, <1>1 DEF Tracked
<1>3. OpenedOn(disk, path, fp)  BY <1>1, Surroundings DEF HandleInv
<1>4. Lies(disk, path, fp.parent) /\ SameName(fp.rde.name, LastName(path))
  <2>1. PICK s \in FoundOn(disk, fp.parent, LastName(path)) : fp.rde = disk[DirBase(fp.parent) + s]
    BY <1>3 DEF OpenedOn
  <2>2. RootMatch(fp.rde, LastName(path))  BY <2>1 DEF FoundOn, Scan
  <2> QED  BY <1>3, <2>2 DEF OpenedOn, RootMatch
<1> DEFINE k == Key(path)
<1>5. k \in Keys  BY <1>2 DEF Keys
<1>6. FileOn(disk, k).kind = "file" /\ FileOn(disk', k) = [kind |-> "file", text |-> text]
  BY <1>0, <1>2, <1>4, WrittenFile
<1>7. FileOn(disk', k) = [FileOn(disk, k) EXCEPT !.text = text]
  <2>1. \E t : FileOn(disk, k) = [kind |-> FileOn(disk, k).kind, text |-> t]
    BY DEF FileOn, FileIn, Absent
  <2> HIDE DEF k
  <2>2. PICK t : FileOn(disk, k) = [kind |-> "file", text |-> t]  BY <1>6, <2>1
  <2> QED  BY <1>6, <2>2
<1>8. ASSUME NEW j \in Keys \ {k}
      PROVE  FileOn(disk', j) = FileOn(disk, j)
  <2>1. PICK q \in Paths : j = Key(q)  BY DEF Keys
  <2>2. PICK x : Lies(disk, q, x)  BY <1>0, <2>1
  <2>3. Key(q) # Key(path)  BY <1>8, <2>1
  <2>4. FileOn(disk', Key(q)) = FileOn(disk, Key(q))
    BY <1>0, <1>2, <1>4, <2>2, <2>3, OthersBesideWritten
  <2> QED  BY <2>1, <2>4
<1>9. Answering("fatWrite", k, TRUE, NoText)
  <2>1. op' = "fatWrite" /\ path' = path /\ out' = <<>>  BY <1>1, <1>2 DEF args
  <2> QED  BY <1>1, <2>1, Answered
<1> HIDE DEF k
<1> QED  BY <1>2, <1>5, <1>6, <1>7, <1>8, <1>9, StoreWrites

\* What fatRead has copied when it returns is the text of the entry.
LEMMA ReadText ==
  ASSUME Around, ReadSingle \/ ReadLinked, pc' = "idle"
  PROVE  (IF out' = <<>> THEN NoText ELSE out'[1].text) = TextOn(disk, fp.rde)
<1>0. /\ Tracked /\ OwnershipInv /\ TypeInv /\ ReadInv
  BY Surroundings DEF Around, StoreInv
<1>1. pc = "read"  BY DEF ReadSingle, ReadLinked
<1>2. fp.rde.size \in Nat  BY <1>0, TypeParts DEF WorkTypes, File, Entry
<1>3. CASE fp.rde.size = 0
  <2>1. out = <<>>  BY <1>0, <1>1, <1>3 DEF Tracked
  <2>2. Wanted = 0
    <3>1. Len(out) = 0  BY <2>1
    <3> QED  BY <1>3, <3>1 DEF Wanted
  <2>3. Wanted < DirSize  BY <2>2, Sizes, SizeAssumption
  <2>4. ReadSingle => out' = <<>>  BY <1>3 DEF ReadSingle
  <2>5. ReadLinked => out' = <<>>
    <3> SUFFICES ASSUME ReadLinked PROVE out' = <<>>
      OBVIOUS
    <3>1. out' = out \o [k \in 1..0 |-> ReadData[k]]  BY <2>2, <2>3 DEF ReadLinked
    <3>2. [k \in 1..0 |-> ReadData[k]] = <<>>  OBVIOUS
    <3> QED  BY <2>1, <3>1, <3>2
  <2> QED  BY <1>3, <2>4, <2>5 DEF TextOn
<1>4. CASE fp.rde.size > 0
  <2>1. PICK n \in 1..FatSize : \E q \in [1..n -> Clusters] : \E x : ReadUpTo(n, q, x)
    BY <1>0, <1>1, <1>4 DEF ReadInv
  <2>2. PICK q \in [1..n -> Clusters] : \E x : ReadUpTo(n, q, x)  BY <2>1
  <2>3. PICK x : ReadUpTo(n, q, x)  BY <2>2
  <2>4. out' = [k \in 1..x.len |-> Piece(x, k)]  BY <1>0, <1>4, <2>3, ReadRound
  <2>5. x.len \in Nat /\ x.len = fp.rde.size /\ Spread(fp.rde, disk, fat, n, q, x)
    BY <2>3 DEF ReadUpTo, Spread
  <2>6. Len(out') = x.len /\ 1 \in 1..x.len  BY <1>4, <2>4, <2>5
  <2>7. out' # <<>>
    <3>1. Len(<<>>) = 0  OBVIOUS
    <3> QED  BY <1>4, <2>5, <2>6, <3>1
  <2>8. out'[1].text = x  BY <2>4, <2>6 DEF Piece
  <2>9. disk[ClusterBase(fp.rde.cluster) + 1].text = x  BY <1>4, <2>5, SpreadStart
  <2> QED  BY <1>4, <2>7, <2>8, <2>9 DEF TextOn
<1> QED  BY <1>2, <1>3, <1>4

\* fatRead goes on, or has read the file.
LEMMA ReadStores ==
  ASSUME Around, ReadSingle \/ ReadLinked
  PROVE  Store!Next
<1>0. Tracked /\ TypeInv /\ FilesInv /\ RootShort  BY Surroundings DEF Around
<1>1. /\ pc = "read" /\ UNCHANGED disk /\ UNCHANGED args
      /\ pc' = "read" \/ (pc' = "idle" /\ ret' = 1)
  BY DEF ReadSingle, ReadLinked, Return, storage
<1>2. Unmoved  BY <1>1, SameFiles
<1>3. CASE pc' = "read"  BY <1>2, <1>3, Forgotten
<1>4. CASE pc' = "idle" /\ ret' = 1
  <2>1. op = "fatRead" /\ path \in Paths /\ fp.rde.attr # "dir"  BY <1>0, <1>1 DEF Tracked
  <2>2. OpenedOn(disk, path, fp)  BY <1>1, Surroundings DEF HandleInv
  <2>3. PICK s \in FoundOn(disk, fp.parent, LastName(path)) :
          fp.rde = disk[DirBase(fp.parent) + s]
    BY <2>2 DEF OpenedOn
  <2> DEFINE k == Key(path)
  <2>4. FileOn(disk, k) = [kind |-> fp.rde.attr, text |-> TextOn(disk, fp.rde)]
    <3>1. Lies(disk, path, fp.parent)  BY <2>2 DEF OpenedOn
    <3> QED  BY <1>0, <2>1, <2>3, <3>1, Present
  <2>5. k \in Keys  BY <2>1 DEF Keys
  <2>6. fp.rde.attr \in {"none", "file"}
    BY <1>0, <2>1, TypeParts DEF WorkTypes, File, Entry
  <2>7. Answering("fatRead", k, TRUE, TextOn(disk, fp.rde))
    <3>1. op' = "fatRead" /\ path' = path  BY <1>1, <2>1 DEF args
    <3>2. (IF out' = <<>> THEN NoText ELSE out'[1].text) = TextOn(disk, fp.rde)
      BY <1>4, ReadText
    <3>3. Answer' = [call |-> op', key |-> Key(path'), ok |-> ret' = 1,
                     text |-> IF out' = <<>> THEN NoText ELSE out'[1].text]
      BY <1>4, <3>1 DEF Answer, Idle
    <3> QED  BY <1>4, <3>1, <3>2, <3>3 DEF Answering
  <2> HIDE DEF k
  <2>8. FileOn(disk, k).text = TextOn(disk, fp.rde) /\ FileOn(disk, k).kind = fp.rde.attr
    BY <2>4
  <2>9. Answering("fatRead", k, TRUE, FileOn(disk, k).text)  BY <2>7, <2>8
  <2>10. FileOn(disk, k).kind \in {"none", "file"}  BY <2>6, <2>8
  <2> QED  BY <1>2, <2>5, <2>9, <2>10, StoreReads
<1> QED  BY <1>1, <1>3, <1>4

LEMMA StoreNext ==
  ASSUME Around
  PROVE  [Store!Next]_<<[k \in Keys |-> FileOn(disk, k)], Answer>>
<1>0. TypeInv /\ OwnershipInv /\ SingleWrites /\ [Next]_vars
  BY Surroundings, OrderlySingle DEF Around
<1>1. CASE UNCHANGED vars
  BY <1>1 DEF vars, Answer, Idle
<1>2. ASSUME NEW t \in Texts, fatWrite(t) PROVE Store!Next
  <2>1. pc' = "free" /\ UNCHANGED disk  BY <1>2 DEF fatWrite, storage
  <2> QED  BY <2>1, SameFiles, Forgotten
<1>3. CASE fatRead
  <2>1. pc' = "read" /\ UNCHANGED disk  BY <1>3 DEF fatRead, storage
  <2> QED  BY <2>1, SameFiles, Forgotten
<1>4. CASE Call
  <2>1. ASSUME NEW p \in Paths, fatOpenRoot(p) \/ fatOpenPath(p) PROVE Store!Next
    BY <2>1, OpenTopStores, WalkStartStores
  <2>2. ASSUME NEW p \in Paths, NEW isDir \in BOOLEAN,
               fatCreateRoot(p, isDir) \/ fatCreatePath(p, isDir)
        PROVE  Store!Next
    BY <2>2, CreateTopStores, WalkStartStores
  <2>3. ASSUME NEW o, NEW p, NEW isDir, ScanAstray(o, p, isDir) PROVE Store!Next
    <3>1. pc' = "fault" /\ UNCHANGED disk  BY <2>3, AstrayKeeps
    <3> QED  BY <3>1, SameFiles, Forgotten
  <2> QED  BY <1>2, <1>3, <1>4, <2>1, <2>2, <2>3 DEF Call
<1>5. CASE Step
  <2>1. ASSUME Stray PROVE Store!Next
    <3>1. pc' = "fault" /\ UNCHANGED disk  BY <2>1, AstrayKeeps
    <3> QED  BY <3>1, SameFiles, Forgotten
  <2> QED
    BY <1>0, <1>5, <2>1, OpenWalkStores, CreateWalkStores, WriteStores, ReadStores, NoOtherWrite
    DEF Step, Stray
<1> QED  BY <1>0, <1>1, <1>4, <1>5 DEF Next

LEMMA StoreStart ==
  ASSUME SoundImages, BlankImages, TidyImages, WholeImages, SealedImages, PackedImages,
         LeadingImages, Init
  PROVE  StoreInv
<1>1. FilesInv  BY FilesInit
<1>2. PICK m \in Images : disk = m.disk /\ fat = m.fat  BY DEF Init
<1>3. Packed(disk) /\ Flat(disk) /\ AllThere(disk)
  BY <1>2 DEF PackedImages, LeadingImages, AllThere
<1>4. SealedInv
  <2>1. \A a \in Kept : Sealed(disk[a], disk, fat)  BY <1>2 DEF SealedImages
  <2>2. Sealed(fp.rde, disk, fat)  BY DEF Init, Sealed, NoFile, Zero
  <2> QED  BY <2>1, <2>2 DEF SealedInv
<1>5. ReadInv /\ Tracked /\ HandleInv  BY DEF Init, ReadInv, Tracked, HandleInv, Returned
<1> QED  BY <1>1, <1>3, <1>4, <1>5 DEF StoreInv

LEMMA FilesAtStart ==
  ASSUME Init, TypeInv, StoreInv, NothingRunsOut
  PROVE  Store!Init
<1>0. /\ FilesInv /\ SealedInv /\ Flat(disk) /\ RootShort /\ AllThere(disk)
      /\ disk \in Disk /\ ShortRoot(disk)
  BY TypeParts DEF StoreInv, NothingRunsOut, Orderly, StorageTypes, RootShort, ShortRoot
<1>1. PICK m \in Images : disk = m.disk  BY DEF Init
<1> DEFINE Any == {Absent} \cup [kind: {"none", "file", "dir"}, text: Contents \cup {NoText}]
<1>2. ASSUME NEW k \in Keys
      PROVE  FileOn(disk, k) \in Any
  <2>1. PICK p \in Paths : k = Key(p)  BY DEF Keys
  <2>2. PICK c : Lies(disk, p, c)  BY <1>0 DEF AllThere, WayThere, Lies
  <2>3. c \in Clusters \ {1}  BY <1>0, <2>2, LiesDir
  <2>4. CASE FoundOn(disk, c, LastName(p)) = {}
    <3>1. FileOn(disk, k) = Absent  BY <1>0, <2>1, <2>2, <2>4, Present
    <3> QED  BY <3>1
  <2>5. ASSUME NEW s \in FoundOn(disk, c, LastName(p))
        PROVE  FileOn(disk, k) \in Any
    <3> DEFINE a == DirBase(c) + s
               e == disk[a]
    <3>1. FileOn(disk, k) = [kind |-> e.attr, text |-> TextOn(disk, e)]
      BY <1>0, <2>1, <2>2, Present
    <3>2. a \in SlotsOn(disk, c, LastName(p))  BY DEF SlotsOn
    <3> HIDE DEF a
    <3>3. a \in Kept /\ e \in Entry /\ e.kind = "entry"  BY <1>0, <2>3, <3>2, SlotKept
    <3>4. ASSUME e.size # 0
          PROVE  TextOn(disk, e) \in Contents
      <4> DEFINE b == ClusterBase(e.cluster) + 1
      <4>1. b \in Kept /\ disk[b].kind = "text"  BY <1>0, <3>3, <3>4, TextThere
      <4> HIDE DEF b, e
      <4>2. b \in Addr  BY <4>1 DEF Kept
      <4>3. disk[b].text \in Contents  BY <1>1, <4>1, <4>2 DEF Contents
      <4> QED  BY <3>4, <4>3 DEF TextOn, b
    <3>5. TextOn(disk, e) \in Contents \cup {NoText}
      <4>1. e.size = 0 => TextOn(disk, e) = NoText  BY DEF TextOn
      <4> HIDE DEF e
      <4> QED  BY <3>4, <4>1
    <3>6. e.attr \in {"none", "file", "dir"}  BY <3>3 DEF Entry
    <3> HIDE DEF e
    <3> QED  BY <3>1, <3>5, <3>6
  <2> QED  BY <2>4, <2>5
<1>3. Answer = [call |-> "none"]  BY DEF Init, Answer
<1> QED  BY <1>2, <1>3 DEF Store!Init, Store!Absent, Store!Kinds, Store!NoReply, Absent

\* As long as neither a directory nor the FAT runs out, src/fat.c is a store of files:
\* each call finds, makes, reads or writes the one file its path names, no other changes,
\* and it answers as the store does (fat.c:158-830).
THEOREM FatIsAFileStore ==
  ASSUME ShortTexts, PlainPaths, LongComponents, SoundImages, BlankImages, TidyImages,
         WholeImages, SealedImages, PackedImages, LeadingImages
  PROVE  Spec /\ []NothingRunsOut => ImplementsFileStore
<1> DEFINE files == [k \in Keys |-> FileOn(disk, k)]
<1>1. Init => StoreInv  BY StoreStart
<1>2. Init /\ TypeInv /\ StoreInv /\ NothingRunsOut => Store!Init  BY FilesAtStart
<1>3. /\ TypeInv /\ TypeInv' /\ StoreInv /\ NothingRunsOut /\ NothingRunsOut' /\ [Next]_vars
      => StoreInv' /\ [Store!Next]_<<files, Answer>>
  <2> SUFFICES ASSUME TypeInv, TypeInv', StoreInv, NothingRunsOut, NothingRunsOut', [Next]_vars
               PROVE  StoreInv' /\ [Store!Next]_<<files, Answer>>
    OBVIOUS
  <2>1. Around  BY CallsAreAny DEF Around
  <2> QED  BY <2>1, StoreStep, StoreNext
<1> QED
  BY <1>1, <1>2, <1>3, TypesHold, PTL DEF files, Spec, ImplementsFileStore, Store!Spec
=============================================================================
