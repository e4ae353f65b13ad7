------------------------------ MODULE FatFiles ------------------------------
(***************************************************************************)
(* What the callers of src/fat.c rely on, for every volume, every set of   *)
(* paths and every sequence of calls with texts of less than a cluster:    *)
(* a write keeps to its file and, as long as the volume is used in order   *)
(* (Orderly), entries stay, files hold what was written, what was created  *)
(* is found, reads return it and no cluster is lost.                       *)
(***************************************************************************)
EXTENDS FatRefinement, FatProofs

USE DEF Addr, Slots, DirSlots, Window, Clusters, FatValue

(***************************************************************************)
(* A write keeps to its file                                               *)
(***************************************************************************)

\* What fatCreate was given last begins with a name, and has one for the new entry.
Named == op = "fatCreate" => path.names[1] # <<>> /\ StoredName(path) # <<>>

\* A call that goes astray changes nothing else that matters here.
LEMMA AstrayKeeps ==
  ASSUME Stray \/ \E o, p, isDir : ScanAstray(o, p, isDir)
  PROVE  /\ pc' = "fault" /\ (fp' = fp \/ fp' = NoFile)
         /\ UNCHANGED <<disk, fat, dataEntries, ret, depth, cluster, i>>
BY StrayStops, ScanStops DEF Fault, storage

LEMMA StepKeepsCall ==
  ASSUME Step \/ UNCHANGED vars
  PROVE  UNCHANGED <<op, path>>
<1>1. Stray => UNCHANGED <<op, path>>  BY StrayStops DEF args
<1> QED
  BY <1>1
  DEF Step, Stray, fatOpenStep, fatCreateStep, FreeCluster, WriteSingle, WriteLinked, WriteLast,
      WriteWild, ReadSingle, ReadLinked, Finish, args, vars

LEMMA NamedStep ==
  ASSUME NamedPaths, Named, [Next]_vars
  PROVE  Named'
<1>1. ASSUME NEW p \in Paths, path' = p PROVE Named'
  BY <1>1 DEF Named, NamedPaths, StoredName, NewName
<1>6. ASSUME NEW p \in Paths, NEW isDir \in BOOLEAN, NEW o,
             \/ fatOpenRoot(p) \/ fatOpenPath(p) \/ fatCreateRoot(p, isDir)
             \/ fatCreatePath(p, isDir) \/ ScanAstray(o, p, isDir)
      PROVE  path' = p
  BY <1>6 DEF fatOpenRoot, fatOpenPath, fatCreateRoot, fatCreatePath, ScanAstray, Begin
<1>2. CASE UNCHANGED <<op, path>>  BY <1>2 DEF Named
<1>3. ASSUME NEW t \in Texts, fatWrite(t) \/ fatRead PROVE op' # "fatCreate"
  BY <1>3 DEF fatWrite, fatRead, Begin
<1>4. Step \/ UNCHANGED vars => UNCHANGED <<op, path>>  BY StepKeepsCall
<1>5. fatRead => op' # "fatCreate"  BY DEF fatRead, Begin
<1> QED  BY <1>1, <1>2, <1>3, <1>4, <1>5, <1>6 DEF Next, Call, Named

LEMMA NamesHold ==
  ASSUME NamedPaths
  PROVE  Spec => []Named
<1>1. Init => Named  BY DEF Init, Named
<1>2. Named /\ [Next]_vars => Named'  BY NamedStep
<1> QED  BY <1>1, <1>2, PTL DEF Spec

\* A component counted by subDirectIndex has a name.
LEMMA ComponentNamed ==
  ASSUME NEW p \in Path, NEW k \in Nat \ {0}, k <= subDirectIndex(p)
  PROVE  p.names[k] # <<>>
<1> DEFINE n == Len(p.names)
           prefix == {j \in DOMAIN p.names : \A x \in 1..j : p.names[x] # <<>>}
<1>1. p.names \in Seq(Name)  BY DEF Path
<1>2. n \in Nat /\ DOMAIN p.names = 1..n  BY <1>1
<1> SUFFICES ASSUME p.names[k] = <<>> PROVE FALSE  OBVIOUS
<1>3. \A j \in prefix : j \in 1..(k - 1)
  <2> SUFFICES ASSUME NEW j \in 1..n, \A x \in 1..j : p.names[x] # <<>> PROVE j \in 1..(k - 1)
    BY <1>2
  <2>1. ~ (k \in 1..j)  OBVIOUS
  <2> QED  BY <1>2, <2>1
<1> DEFINE m == k - 1
<1>4. m \in Nat  OBVIOUS
<1> HIDE DEF m
<1>5. IsFiniteSet(1..m) /\ Cardinality(1..m) = m
  BY <1>4, FS_Interval, SMT
<1>6. prefix \subseteq 1..m  BY <1>3 DEF m
<1>7. Cardinality(prefix) <= m  BY <1>5, <1>6, FS_Subset
<1>8. Cardinality(prefix) \in Nat  BY <1>5, <1>6, FS_Subset, FS_CardinalityType
<1>9. subDirectIndex(p) = Cardinality(prefix)  BY DEF subDirectIndex
<1> HIDE DEF prefix
<1> QED  BY <1>4, <1>7, <1>8, <1>9 DEF m

\* No unit is in two clusters.
LEMMA ClustersApart ==
  ASSUME NEW p \in Clusters, p # 0, NEW c \in Clusters, NEW x \in DirSlots,
         (DirBase(p) + x) - ClusterBase(c) \in DirSlots
  PROVE  p = c
<1>1. /\ DirSize \in Nat /\ DirSize > 0 /\ p \in Nat /\ c \in Nat
      /\ x \in Nat /\ 1 <= x /\ x <= DirSize
  BY SizeAssumption
<1> DEFINE P == (p - 2) * DirSize
           C == (c - 2) * DirSize
<1>2. P \in Int /\ C \in Int  BY <1>1
<1>3. DirBase(p) = P /\ ClusterBase(c) = C  BY DEF DirBase, ClusterBase
<1>4. p < c => P + DirSize <= C
  <2> SUFFICES ASSUME p < c PROVE P + DirSize <= C  OBVIOUS
  <2>1. (p - 1) * DirSize <= C  BY <1>1, Monotone
  <2>2. (p - 1) * DirSize = P + DirSize  BY <1>1
  <2> QED  BY <2>1, <2>2
<1>5. c < p => C + DirSize <= P
  <2> SUFFICES ASSUME c < p PROVE C + DirSize <= P  OBVIOUS
  <2>1. (c - 1) * DirSize <= P  BY <1>1, Monotone
  <2>2. (c - 1) * DirSize = C + DirSize  BY <1>1
  <2> QED  BY <2>1, <2>2
<1> HIDE DEF P, C
<1> QED  BY <1>1, <1>2, <1>3, <1>4, <1>5

\* The clusters are apart from the part of the root directory read as a cluster.
LEMMA RootApart ==
  ASSUME LongRoot, NEW c \in Clusters, NEW x \in DirSlots
  PROVE  (DirBase(0) + x) - ClusterBase(c) \notin DirSlots
<1>1. /\ DirSize \in Nat /\ RootSize \in Nat /\ 3 * DirSize <= RootSize
      /\ c \in Nat /\ x \in Nat /\ x <= DirSize
  BY SizeAssumption DEF LongRoot
<1>2. (-2) * DirSize <= (c - 2) * DirSize  BY <1>1, SizeAssumption, Monotone
<1>3. DirBase(0) = -RootSize  BY DEF DirBase
<1>4. ClusterBase(c) \in Int /\ (-2) * DirSize <= ClusterBase(c)
  BY <1>1, <1>2 DEF ClusterBase
<1> QED  BY <1>1, <1>3, <1>4

LEMMA ShortLength ==
  ASSUME NEW t \in TextArg, clustersNeeded(t) = 1
  PROVE  t.len <= DirSize
<1>1. t.len \in Nat /\ DirSize \in Nat /\ DirSize > 0  BY SizeAssumption DEF TextArg
<1>2. t.len \div DirSize = 0  BY <1>1 DEF clustersNeeded
<1> QED  BY <1>1, <1>2

\* The same unit, but for the size in a named entry.
Resized(u, v) ==
  \/ v = u
  \/ u.kind = "entry" /\ u.name # <<>> /\ \E n : v = [u EXCEPT !.size = n]

\* What writeFileLength writes back it has read, or found in its buffer.
LEMMA LengthSources ==
  ASSUME NEW d, NEW f \in File, NEW n, NEW g, NEW a \in Addr
  PROVE  LET e == writeFileLength(d, f, n, g)
         IN  \/ Resized(d[a], e[a])
             \/ f.parent = 0 /\ \E s \in Window : Resized(g[s], e[a])
<1> DEFINE c == f.parent
           b == DirBase(c)
           r == readFromCluster(d, c, g)
           w == WithLength(r, f.rde, n)
           e == writeFileLength(d, f, n, g)
           s == a - b
<1>1. c \in Clusters /\ b \in Int  BY ClusterOnDisk DEF File
<1>2. e[a] = IF s \in DirSlots THEN w[s] ELSE d[a]
  <2>1. DOMAIN w = DirSlots  BY DEF WithLength
  <2>2. e = Overwrite(d, b, w)  BY DEF writeFileLength, writeDataEntries
  <2> HIDE DEF e, b, w
  <2> QED  BY <2>1, <2>2 DEF Overwrite
<1>3. s \in DirSlots => Resized(r[s], w[s])
  <2> SUFFICES ASSUME s \in DirSlots PROVE Resized(r[s], w[s])  OBVIOUS
  <2> DEFINE found == Scan({x \in DirSlots : RootMatch(r[x], f.rde.name)})
  <2>1. s \in found => r[s].kind = "entry" /\ r[s].name # <<>>
    BY DEF Scan, RootMatch
  <2>2. w[s] = IF s \in found THEN [r[s] EXCEPT !.size = n] ELSE r[s]
    BY DEF WithLength
  <2> HIDE DEF r, w, s, found
  <2> QED  BY <2>1, <2>2 DEF Resized
<1>4. s \in DirSlots => r[s] = d[a] \/ (c = 0 /\ s \in Window /\ r[s] = g[s])
  <2> SUFFICES ASSUME s \in DirSlots PROVE r[s] = d[a] \/ (c = 0 /\ s \in Window /\ r[s] = g[s])
    OBVIOUS
  <2>1. r[s] = IF c = 0 /\ s > RootRead THEN g[s] ELSE d[b + s]  BY DEF readFromCluster
  <2>2. b + s = a
    <3>1. a \in Int  BY Sizes
    <3> HIDE DEF b
    <3> QED  BY <1>1, <3>1
  <2>3. s > RootRead => s \in Window  BY Sizes
  <2> HIDE DEF b, s, r
  <2> QED  BY <2>1, <2>2, <2>3
<1>5. Resized(d[a], d[a])  BY DEF Resized
<1> HIDE DEF c, b, r, w, e, s
<1>6. \/ Resized(d[a], e[a])
      \/ c = 0 /\ \E x \in Window : Resized(g[x], e[a])
  BY <1>2, <1>3, <1>4, <1>5
<1> QED  BY <1>6 DEF e, c

\* Where the units of the disk come from, whatever the step.
Derived(v) ==
  \/ v = Zero
  \/ v.kind = "text"
  \/ \E b \in Addr : Resized(disk[b], v)

LEMMA SingleSources ==
  ASSUME TypeInv, OwnershipInv, WriteSingle, NEW a \in Addr
  PROVE  Derived(disk'[a])
<1> DEFINE d == ClearAndWrite(disk, cluster, text, 0)
<1>1. fp \in File /\ rootDir = LoadRoot(disk)
  BY TypeParts DEF WorkTypes, OwnershipInv, StorageSound
<1>2. PICK g \in Residue : disk' = writeFileLength(d, fp, text.len, g)
  BY SingleDisk
<1>3. d[a] = disk[a] \/ d[a] = Zero \/ d[a].kind = "text"
  BY WrittenAnything
<1> HIDE DEF d
<1>4. \/ Resized(d[a], disk'[a])
      \/ fp.parent = 0 /\ \E s \in Window : Resized(g[s], disk'[a])
  BY <1>1, <1>2, LengthSources
<1>5. CASE Resized(d[a], disk'[a])
  <2>1. CASE d[a] = disk[a]  BY <1>5, <2>1 DEF Derived
  <2>2. CASE d[a] = Zero  BY <1>5, <2>2 DEF Resized, Derived, Zero
  <2>3. CASE d[a].kind = "text"  BY <1>5, <2>3 DEF Resized, Derived
  <2> QED  BY <1>3, <2>1, <2>2, <2>3
<1>6. ASSUME NEW s \in Window, fp.parent = 0, Resized(g[s], disk'[a]) PROVE Derived(disk'[a])
  <2>1. g[s] = Zero \/ g[s] = Junk \/ \E x \in Slots : g[s] = rootDir[x]
    BY <1>6 DEF Residue
  <2>2. CASE g[s] = Zero  BY <1>6, <2>2 DEF Resized, Derived, Zero
  <2>3. CASE g[s] = Junk  BY <1>6, <2>3 DEF Resized, Derived, Junk
  <2>4. ASSUME NEW x \in Slots, g[s] = rootDir[x] PROVE Derived(disk'[a])
    <3>1. x - RootSize \in Addr /\ rootDir[x] = disk[x - RootSize]
      BY <1>1, Sizes DEF LoadRoot
    <3> QED  BY <1>6, <2>4, <3>1 DEF Derived
  <2> QED  BY <2>1, <2>2, <2>3, <2>4
<1> QED  BY <1>4, <1>5, <1>6

(***************************************************************************)
(* The entry of the file that is written                                   *)
(***************************************************************************)

BlankInv ==
  /\ \A a \in Addr : Vacant(disk[a])
  /\ \A s \in Window : Vacant(dataEntries[s])

\* Which of the entries that writeFileLength reads from the disk is the first one
\* with the name in the handle f.
Copied(c, s) == c = 0 => s <= RootRead
Firsts(d, f) ==
  {s \in DirSlots :
     /\ Copied(f.parent, s) /\ RootMatch(d[DirBase(f.parent) + s], f.rde.name)
     /\ \A x \in DirSlots : x < s => ~RootMatch(d[DirBase(f.parent) + x], f.rde.name)}

\* It is the one fatOpen made the handle from.
OwnEntry(d, f) ==
  /\ f.rde.name # <<>>
  /\ \A s \in Firsts(d, f) : d[DirBase(f.parent) + s].name = f.rde.name

FileHandle ==
  /\ fp.rde.attr = "file"
  /\ \/ pc = "free"
     \/ pc = "idle" /\ op = "fatOpen" /\ ret = 0
FirstInv == BlankInv /\ (FileHandle => OwnEntry(disk, fp))

LEMMA OpenedIsFirst ==
  ASSUME NEW d \in Disk, NEW c \in Clusters, NEW old, NEW n,
         NEW s0 \in FoundInDir(readFromCluster(d, c, old), n),
         NEW u, u = readFromCluster(d, c, old)[s0], Vacant(u), u.attr = "file"
  PROVE  OwnEntry(d, Handle(c, u))
<1> DEFINE r == readFromCluster(d, c, old)
           b == DirBase(c)
           f == Handle(c, u)
<1>1. /\ s0 \in DirSlots /\ DirMatch(u, n)
      /\ \A x \in DirSlots : DirMatch(r[x], n) => s0 <= x
  BY DEF FoundInDir, Scan
<1>2. u.kind = "entry" /\ u.name # <<>> /\ SameName(u.name, n)
  BY <1>1 DEF DirMatch, Vacant, FreeSlot
<1>3. f.parent = c /\ f.rde = u  BY DEF Handle
<1>4. \A x \in DirSlots : r[x] = IF c = 0 /\ x > RootRead THEN old[x] ELSE d[b + x]
  BY DEF readFromCluster
<1>5. u = r[s0]  OBVIOUS
<1> HIDE DEF r, b, f
<1>6. ASSUME NEW s \in Firsts(d, f) PROVE d[b + s].name = u.name
  <2>1. /\ s \in DirSlots /\ Copied(c, s) /\ RootMatch(d[b + s], u.name)
        /\ \A x \in DirSlots : x < s => ~RootMatch(d[b + x], u.name)
    BY <1>3 DEF Firsts, b
  <2>2. s \in Int /\ s0 \in Int /\ RootRead \in Int  BY <1>1, <2>1, Sizes
  <2>3. r[s] = d[b + s]  BY <1>4, <2>1, <2>2 DEF Copied
  <2>4. DirMatch(r[s], n)  BY <1>2, <2>1, <2>3 DEF RootMatch, DirMatch, SameName
  <2>5. s0 <= s  BY <1>1, <2>1, <2>4
  <2>6. r[s0] = d[b + s0]  BY <1>1, <1>4, <2>1, <2>2, <2>5 DEF Copied
  <2>7. RootMatch(d[b + s0], u.name)  BY <1>2, <1>5, <2>6 DEF RootMatch, SameName
  <2>8. s0 = s  BY <1>1, <2>1, <2>2, <2>5, <2>7
  <2> QED  BY <1>5, <2>6, <2>8
<1> QED  BY <1>2, <1>3, <1>6 DEF OwnEntry, f, b

LEMMA OpenedInRoot ==
  ASSUME NEW d \in Disk, NEW n, NEW s0 \in FoundInRoot(LoadRoot(d), n),
         NEW u, u = LoadRoot(d)[s0]
  PROVE  OwnEntry(d, Handle(0, u))
<1> DEFINE r == LoadRoot(d)
           b == DirBase(0)
           f == Handle(0, u)
<1>1. /\ s0 \in Slots /\ RootMatch(u, n)
      /\ \A x \in Slots : RootMatch(r[x], n) => s0 <= x
  BY DEF FoundInRoot, Scan
<1>2. u.kind = "entry" /\ u.name # <<>> /\ SameName(u.name, n)
  BY <1>1 DEF RootMatch
<1>3. f.parent = 0 /\ f.rde = u  BY DEF Handle
<1>4. \A x \in Slots : r[x] = d[b + x]
  <2>1. b = -RootSize  BY DEF DirBase
  <2>2. \A x \in Slots : x - RootSize = b + x  BY <2>1, Sizes
  <2> HIDE DEF b
  <2> QED  BY <2>2 DEF LoadRoot
<1>5. u = r[s0]  OBVIOUS
<1> HIDE DEF r, b, f
<1>6. ASSUME NEW s \in Firsts(d, f) PROVE d[b + s].name = u.name
  <2>1. /\ s \in DirSlots /\ RootMatch(d[b + s], u.name)
        /\ \A x \in DirSlots : x < s => ~RootMatch(d[b + x], u.name)
    BY <1>3 DEF Firsts, b
  <2>2. s \in Slots /\ s \in Int /\ s0 \in Int  BY <1>1, <2>1, SizeAssumption
  <2>3. RootMatch(r[s], n)  BY <1>2, <1>4, <2>1, <2>2 DEF RootMatch, SameName
  <2>4. s0 <= s  BY <1>1, <2>2, <2>3
  <2>5. s0 \in DirSlots  BY <1>1, <2>1, <2>2, <2>4, Sizes
  <2>6. RootMatch(d[b + s0], u.name)  BY <1>1, <1>2, <1>4, <1>5 DEF RootMatch, SameName
  <2>7. s0 = s  BY <2>1, <2>2, <2>4, <2>5, <2>6
  <2> QED  BY <1>1, <1>4, <1>5, <2>7
<1> QED  BY <1>2, <1>3, <1>6 DEF OwnEntry, f, b

LEMMA WindowSources ==
  ASSUME TypeInv, [AnyNext]_vars, NEW s \in Window
  PROVE  dataEntries'[s] = dataEntries[s] \/ \E a \in Addr : dataEntries'[s] = disk[a]
<1>1. CASE dataEntries' = dataEntries  BY <1>1
<1>2. ASSUME dataEntries' = [x \in Window |-> readFromCluster(disk, dir, dataEntries)[x]]
      PROVE  dataEntries'[s] = dataEntries[s] \/ \E a \in Addr : dataEntries'[s] = disk[a]
  <2>1. s \in DirSlots  BY SizeAssumption
  <2>2. DirBase(dir) + s \in Addr  BY <2>1, ClusterOnDisk DEF TypeInv, TypeOK
  <2> QED  BY <1>2, <2>1, <2>2 DEF readFromCluster
<1>3. CASE fatOpenStep \/ fatCreateStep
  <2>1. \/ dataEntries' = dataEntries
        \/ dataEntries' = [x \in Window |-> readFromCluster(disk, dir, dataEntries)[x]]
    BY <1>3 DEF fatOpenStep, fatCreateStep
  <2> QED  BY <1>1, <1>2, <2>1
<1>4. ASSUME NEW p \in Path, fatOpenRoot(p) \/ StartWalk(p) PROVE dataEntries' = dataEntries
  BY <1>4 DEF fatOpenRoot, StartWalk
<1>5. ASSUME NEW p \in Path, NEW isDir \in BOOLEAN, fatCreateRoot(p, isDir)
      PROVE  dataEntries' = dataEntries
  BY <1>5 DEF fatCreateRoot
<1>6. ASSUME NEW t \in TextArg, clustersNeeded(t) = 1, fatWrite(t) PROVE dataEntries' = dataEntries
  BY <1>6 DEF fatWrite
<1>7. CASE FreeCluster \/ WriteSingle \/ WriteLinked \/ WriteLast \/ WriteWild
  BY <1>1, <1>7 DEF FreeCluster, WriteSingle, WriteLinked, WriteLast, WriteWild, Finish
<1>8. CASE fatRead \/ ReadSingle \/ ReadLinked
  BY <1>1, <1>8 DEF fatRead, ReadSingle, ReadLinked
<1>9. CASE UNCHANGED vars  BY <1>1, <1>9 DEF vars
<1>10. CASE Stray \/ \E o, p, isDir : ScanAstray(o, p, isDir)  BY <1>1, <1>10, AstrayKeeps
<1> QED
  BY <1>1, <1>3, <1>4, <1>5, <1>6, <1>7, <1>8, <1>9, <1>10
  DEF AnyNext, AnyCall, Step, Stray, fatOpenPath, fatCreatePath

\* A new entry has a name, whatever directory it is made in.
LEMMA CreatedNamed ==
  ASSUME Named', TypeInv, OwnershipInv,
         fatCreateStep \/ \E p \in Path : \E isDir \in BOOLEAN : fatCreateRoot(p, isDir)
  PROVE  \/ UNCHANGED <<disk, fat>>
         \/ \E n, isDir, place : n # <<>> /\ EntryPlaced(n, isDir, place)
<1>1. ASSUME NEW p \in Path, NEW isDir \in BOOLEAN, fatCreateRoot(p, isDir)
      PROVE  \/ UNCHANGED <<disk, fat>>
             \/ \E n, k, place : n # <<>> /\ EntryPlaced(n, k, place)
  <2>1. op' = "fatCreate" /\ path' = p  BY <1>1 DEF fatCreateRoot, Begin
  <2>2. StoredName(p) # <<>>  BY <2>1 DEF Named, StoredName, NewName
  <2> QED  BY <1>1, <2>2, CreateRootDisk
<1>2. CASE fatCreateStep
  <2>1. op' = "fatCreate" /\ path' = path  BY <1>2 DEF fatCreateStep, args
  <2>2. StoredName(path) # <<>>  BY <2>1 DEF Named, StoredName, NewName
  <2> QED  BY <1>2, <2>2, CreateStepDisk
<1> QED  BY <1>1, <1>2

LEMMA DiskSources ==
  ASSUME SingleWrites, Named', TypeInv, OwnershipInv, [AnyNext]_vars, NEW a \in Addr
  PROVE  \/ Derived(disk'[a])
         \/ \E n, isDir, c : n # <<>> /\ disk'[a] = NewEntry(n, isDir, c)
<1>1. CASE disk' = disk  BY <1>1 DEF Derived, Resized
<1>2. CASE WriteSingle  BY <1>2, SingleSources
<1>3. ASSUME NEW n, NEW isDir, NEW place, n # <<>>, EntryPlaced(n, isDir, place)
      PROVE  disk'[a] = disk[a] \/ \E c : disk'[a] = NewEntry(n, isDir, c)
  BY <1>3 DEF EntryPlaced
<1>4. disk'[a] = disk[a] => Derived(disk'[a])  BY DEF Derived, Resized
<1>5. CASE fatCreateStep \/ \E p \in Path : \E isDir \in BOOLEAN : fatCreateRoot(p, isDir)
  BY <1>1, <1>3, <1>4, <1>5, CreatedNamed
<1> QED  BY <1>1, <1>2, <1>5, StoresNothing

LEMMA BlankStep ==
  ASSUME SingleWrites, Named', TypeInv, OwnershipInv, BlankInv, [AnyNext]_vars
  PROVE  BlankInv'
<1>1. ASSUME NEW a \in Addr PROVE Vacant(disk'[a])
  <2>1. CASE disk'[a] = Zero  BY <2>1 DEF Vacant, Zero
  <2>2. CASE disk'[a].kind = "text"  BY <2>2 DEF Vacant, FreeSlot
  <2>3. ASSUME NEW b \in Addr, Resized(disk[b], disk'[a]) PROVE Vacant(disk'[a])
    <3>1. Vacant(disk[b])  BY DEF BlankInv
    <3>2. disk[b] \in Unit  BY DEF TypeInv, TypeOK
    <3>3. CASE disk'[a] = disk[b]  BY <3>1, <3>3
    <3>4. ASSUME NEW n, disk[b].kind = "entry", disk[b].name # <<>>,
                 disk'[a] = [disk[b] EXCEPT !.size = n]
          PROVE  Vacant(disk'[a])
      <4>1. disk[b] \in Entry  BY <3>2, <3>4, EntryUnit
      <4> QED  BY <3>4, <4>1 DEF Vacant, FreeSlot, Entry
    <3> QED  BY <2>3, <3>3, <3>4 DEF Resized
  <2>4. ASSUME NEW n, NEW isDir, NEW c, n # <<>>, disk'[a] = NewEntry(n, isDir, c)
        PROVE  Vacant(disk'[a])
    BY <2>4 DEF Vacant, FreeSlot, NewEntry
  <2> QED  BY <2>1, <2>2, <2>3, <2>4, DiskSources DEF Derived
<1>2. ASSUME NEW s \in Window PROVE Vacant(dataEntries'[s])
  BY WindowSources DEF BlankInv
<1> QED  BY <1>1, <1>2 DEF BlankInv

\* Between fatOpen and the end of fatWrite the handle stays with its entry.
OpenInv == FirstInv /\ (pc = "free" => op = "fatWrite")

\* Only fatOpen makes a handle that a write may use, of the entry it has found.
InRoot(p, s) ==
  /\ s \in FoundInRoot(LoadRoot(disk), p.names[1])
  /\ fp' = Handle(0, LoadRoot(disk)[s])
InDirectory(s) ==
  LET entries == readFromCluster(disk, dir, dataEntries)
  IN  /\ s \in FoundInDir(entries, path.names[depth])
      /\ fp' = Handle(dir, entries[s])

LEMMA NewHandle ==
  ASSUME SingleWrites, TypeInv, OwnershipInv, OpenInv, [AnyNext]_vars, FileHandle'
  PROVE  /\ disk' = disk
         /\ \/ FileHandle /\ fp' = fp
            \/ \E p \in Path, s \in Slots : InRoot(p, s)
            \/ pc = "walk" /\ \E s \in DirSlots : InDirectory(s)
<1>1. ASSUME NEW p \in Path, fatOpenRoot(p)
      PROVE  disk' = disk /\ \E s \in Slots : InRoot(p, s)
  <2>1. PICK s \in FoundInRoot(LoadRoot(disk), p.names[1]) :
          /\ fp' = Handle(0, LoadRoot(disk)[s])
          /\ writeFatTable /\ writeRootDirectory(disk) /\ initFatStructs
    BY <1>1 DEF fatOpenRoot, Fail, Return, FileHandle
  <2>2. disk' = disk  BY <2>1, WriteBackSame DEF initFatStructs
  <2>3. s \in Slots  BY DEF FoundInRoot, Scan
  <2> QED  BY <2>1, <2>2, <2>3 DEF InRoot
<1>2. ASSUME NEW p \in Path, StartWalk(p) PROVE FALSE
  BY <1>2 DEF StartWalk, Fail, Return, FileHandle
<1>3. CASE fatOpenStep
  <2>1. disk' = disk
    BY <1>3, WriteBackSame
    DEF fatOpenStep, Fail, Descend, storage, caches, OwnershipInv, StorageSound
  <2>2. pc = "walk" /\ \E s \in DirSlots : InDirectory(s)
    BY <1>3 DEF fatOpenStep, Fail, Return, Descend, FileHandle, FoundInDir, Scan, InDirectory
  <2> QED  BY <2>1, <2>2
<1>4. ASSUME NEW p \in Path, NEW isDir \in BOOLEAN, fatCreateRoot(p, isDir) PROVE FALSE
  BY <1>4 DEF fatCreateRoot, Begin, Return, Fault, FileHandle
<1>5. ASSUME fatCreateStep PROVE FALSE
  BY <1>5 DEF fatCreateStep, args, Fail, Return, Descend, FileHandle
<1>6. ASSUME NEW t \in TextArg, clustersNeeded(t) = 1, fatWrite(t)
      PROVE  disk' = disk /\ FileHandle /\ fp' = fp
  BY <1>6 DEF fatWrite, Begin, FileHandle, storage
<1>7. ASSUME WriteSingle PROVE FALSE
  BY <1>7 DEF WriteSingle, Finish, Return, args, OpenInv, FileHandle
<1>8. CASE FreeCluster \/ WriteLinked \/ WriteLast \/ WriteWild  BY <1>8, NoOtherWrite
<1>9. ASSUME fatRead \/ ReadSingle \/ ReadLinked PROVE FALSE
  <2>1. pc' = "read" \/ (ret' = 1 /\ pc' = "idle")
    BY <1>9 DEF fatRead, ReadSingle, ReadLinked, Return
  <2> QED  BY <2>1 DEF FileHandle
<1>10. CASE UNCHANGED vars  BY <1>10 DEF vars, FileHandle
<1>11. ASSUME Stray \/ \E o, p, isDir : ScanAstray(o, p, isDir) PROVE FALSE
  BY <1>11, AstrayKeeps DEF FileHandle
<1> QED
  BY <1>1, <1>2, <1>3, <1>4, <1>5, <1>6, <1>7, <1>8, <1>9, <1>10, <1>11
  DEF AnyNext, AnyCall, Step, Stray, fatOpenPath, fatCreatePath

LEMMA OpenStep ==
  ASSUME SingleWrites, Named', TypeInv, TypeInv', OwnershipInv, OpenInv, [AnyNext]_vars
  PROVE  OpenInv'
<1>1. BlankInv'  BY BlankStep DEF OpenInv, FirstInv
<1>2. ASSUME FileHandle' PROVE OwnEntry(disk, fp)'
  <2>1. disk' = disk  BY <1>2, NewHandle
  <2>2. disk \in Disk  BY DEF TypeInv, TypeOK, Disk
  <2>3. CASE FileHandle /\ fp' = fp
    BY <2>1, <2>3 DEF OpenInv, FirstInv, OwnEntry, Firsts
  <2>4. ASSUME NEW p \in Path, NEW s \in Slots, InRoot(p, s) PROVE OwnEntry(disk, fp)'
    <3> DEFINE u == LoadRoot(disk)[s]
    <3>1. s \in FoundInRoot(LoadRoot(disk), p.names[1]) /\ u = LoadRoot(disk)[s]
          /\ fp' = Handle(0, u)
      BY <2>4 DEF InRoot
    <3> HIDE DEF u
    <3>2. OwnEntry(disk, Handle(0, u))  BY <2>2, <3>1, OpenedInRoot
    <3>3. OwnEntry(disk', fp')  BY <2>1, <3>1, <3>2
    <3> QED  BY <3>3 DEF OwnEntry, Firsts
  <2>5. ASSUME NEW s \in DirSlots, InDirectory(s) PROVE OwnEntry(disk, fp)'
    <3> DEFINE u == readFromCluster(disk, dir, dataEntries)[s]
    <3>1. dir \in Clusters  BY DEF TypeInv, TypeOK
    <3>2. Vacant(u)
      <4>1. DirBase(dir) + s \in Addr  BY <3>1, ClusterOnDisk
      <4>2. s > RootRead => s \in Window  BY Sizes
      <4> QED  BY <4>1, <4>2 DEF OpenInv, FirstInv, BlankInv, readFromCluster
    <3>3. /\ s \in FoundInDir(readFromCluster(disk, dir, dataEntries), path.names[depth])
          /\ u = readFromCluster(disk, dir, dataEntries)[s]
          /\ fp' = Handle(dir, u)
      BY <2>5 DEF InDirectory
    <3> HIDE DEF u
    <3>4. u.attr = "file"  BY <1>2, <3>3 DEF FileHandle, Handle
    <3>5. OwnEntry(disk, Handle(dir, u))  BY <2>2, <3>1, <3>2, <3>3, <3>4, OpenedIsFirst
    <3>6. OwnEntry(disk', fp')  BY <2>1, <3>3, <3>5
    <3> QED  BY <3>6 DEF OwnEntry, Firsts
  <2> QED  BY <1>2, <2>3, <2>4, <2>5, NewHandle
<1>3. pc' = "free" => op' = "fatWrite"
  <2>1. ASSUME pc' = "free", NEW t \in TextArg, clustersNeeded(t) = 1, fatWrite(t)
        PROVE  op' = "fatWrite"
    BY <2>1 DEF fatWrite, Begin
  <2>2. CASE UNCHANGED vars  BY <2>2 DEF vars, OpenInv
  <2>3. CASE FreeCluster \/ WriteLinked \/ WriteLast \/ WriteWild  BY <2>3, NoOtherWrite
  <2>4. CASE Stray \/ \E o, p, isDir : ScanAstray(o, p, isDir)  BY <2>4, AstrayKeeps
  <2> QED
    BY <2>1, <2>2, <2>3, <2>4
    DEF AnyNext, AnyCall, Step, Stray, fatOpenPath, fatCreatePath, fatOpenRoot, fatCreateRoot,
        StartWalk, fatOpenStep, fatCreateStep, WriteSingle, Finish, fatRead, ReadSingle,
        ReadLinked, Fail, Fault, Descend, Return
<1> QED  BY <1>1, <1>2, <1>3 DEF OpenInv, FirstInv

LEMMA WriteKeepsOthers ==
  ASSUME LongRoot, TypeInv, OwnershipInv, OpenInv, WriteSingle,
         NEW a \in Kept, disk'[a] # disk[a]
  PROVE  \/ a - ClusterBase(cluster) \in DirSlots
         \/ /\ a - DirBase(fp.parent) \in DirSlots
            /\ disk[a].name = fp.rde.name
            /\ disk'[a] = [disk[a] EXCEPT !.size = text.len]
<1> DEFINE d == ClearAndWrite(disk, cluster, text, 0)
           s == a - DirBase(fp.parent)
           base == DirBase(fp.parent)
<1>1. /\ fp \in File /\ cluster \in Clusters /\ d \in Disk /\ text \in TextArg
      /\ fp.parent \in Clusters
  BY TypeParts, ClearAndWriteDisk DEF CallTypes, WorkTypes, StorageTypes, File
<1>2. PICK g : disk' = writeFileLength(d, fp, text.len, g)
  BY SingleDisk
<1>3. text.len <= DirSize
  BY <1>1, ShortLength DEF WriteSingle
<1>4. \A b \in Addr : d[b] = disk[b] \/ b - ClusterBase(cluster) \in DirSlots
  BY <1>1, <1>3, WrittenUnits
<1>5. a \in Addr /\ a \in Int  BY Sizes DEF Kept
<1>6. base \in Int /\ \A x \in DirSlots : base + x \in Addr  BY <1>1, ClusterOnDisk
<1>7. ASSUME base # ClusterBase(cluster), NEW x \in DirSlots
      PROVE  d[base + x] = disk[base + x]
  <2>1. ~ ((base + x) - ClusterBase(cluster) \in DirSlots)
    <3>1. CASE fp.parent = 0  BY <1>1, <3>1, RootApart
    <3>2. CASE fp.parent # 0
      <4>1. base = ClusterBase(fp.parent)  BY <3>2 DEF DirBase
      <4>2. fp.parent # cluster  BY <1>7, <4>1
      <4> QED  BY <1>1, <3>2, <4>2, ClustersApart
    <3> QED  BY <3>1, <3>2
  <2>2. base + x \in Addr  BY <1>6
  <2> HIDE DEF d, base
  <2> QED  BY <1>4, <2>1, <2>2
<1>8. OwnEntry(disk, fp)
  BY OnlyCluster DEF WriteSingle, OpenInv, FirstInv, FileHandle, OwnershipInv, CallSound
<1> HIDE DEF d
<1>9. \/ disk'[a] = d[a]
      \/ /\ s \in LengthSlot(d, fp, g) /\ s \in DirSlots
         /\ fp.parent = 0 => s <= RootRead
         /\ disk'[a] = [d[a] EXCEPT !.size = text.len]
  BY <1>1, <1>2, LengthUnits
<1>10. base + s = a  BY <1>5, <1>6
<1>11. CASE disk'[a] = d[a]  BY <1>4, <1>5, <1>11
<1>12. CASE base = ClusterBase(cluster)  BY <1>4, <1>5, <1>9, <1>12
<1>13. ASSUME base # ClusterBase(cluster), s \in LengthSlot(d, fp, g), s \in DirSlots,
              fp.parent = 0 => s <= RootRead
       PROVE  disk[a].name = fp.rde.name /\ d[a] = disk[a]
  <2>1. \A x \in DirSlots : d[base + x] = disk[base + x]  BY <1>7, <1>13
  <2>2. \A x \in DirSlots :
          Copied(fp.parent, x) => readFromCluster(d, fp.parent, g)[x] = disk[base + x]
    BY <2>1, Sizes DEF Copied, readFromCluster
  <2>3. /\ RootMatch(readFromCluster(d, fp.parent, g)[s], fp.rde.name)
        /\ \A x \in DirSlots :
             RootMatch(readFromCluster(d, fp.parent, g)[x], fp.rde.name) => s <= x
    BY <1>13 DEF LengthSlot, Scan
  <2>4. Copied(fp.parent, s) /\ \A x \in DirSlots : x < s => Copied(fp.parent, x)
    BY <1>13, Sizes DEF Copied
  <2>5. RootMatch(disk[base + s], fp.rde.name)  BY <1>13, <2>2, <2>3, <2>4
  <2>6. ASSUME NEW x \in DirSlots, x < s PROVE ~RootMatch(disk[base + x], fp.rde.name)
    <3>1. readFromCluster(d, fp.parent, g)[x] = disk[base + x]  BY <2>2, <2>4, <2>6
    <3>2. x \in Int /\ s \in Int  BY <1>13
    <3> QED  BY <2>3, <2>6, <3>1, <3>2
  <2>7. s \in Firsts(disk, fp)  BY <1>13, <2>4, <2>5, <2>6 DEF Firsts
  <2>8. disk[base + s].name = fp.rde.name  BY <1>8, <2>7 DEF OwnEntry
  <2> QED  BY <1>10, <1>13, <2>1, <2>8
<1> QED  BY <1>9, <1>11, <1>12, <1>13

\* As long as no file of more clusters than one is written over, a write changes the
\* cluster of its file and the size in its entry, and nothing else on the disk, whatever
\* names there are that differ in their first character only: the entry
\* writeFileLength finds by the name is the one fatOpen found (fat.c:661, fat.c:764).
THEOREM WriteStaysHome ==
  ASSUME ShortTexts, SoundImages, BlankImages, NamedPaths, LongRoot
  PROVE  Spec /\ []SingleWrites => WriteIsolated
<1> DEFINE Inv == OwnershipInv /\ OpenInv
           Home == op' = "fatWrite" => \A a \in Kept : disk'[a] # disk[a] =>
             \/ a - ClusterBase(cluster) \in DirSlots
             \/ /\ a - DirBase(fp.parent) \in DirSlots
                /\ disk[a].name = fp.rde.name
                /\ disk'[a] = [disk[a] EXCEPT !.size = text.len]
<1>1. Init => Inv
  <2> SUFFICES ASSUME Init PROVE Inv  OBVIOUS
  <2>1. OwnershipInv  BY InitSound
  <2>2. \A a \in Addr : Vacant(disk[a])  BY DEF Init, BlankImages
  <2>3. \A s \in Window : Vacant(dataEntries[s])  BY DEF Init, Vacant, Zero
  <2>4. ~FileHandle /\ pc # "free"  BY DEF Init, FileHandle
  <2> QED  BY <2>1, <2>2, <2>3, <2>4 DEF OpenInv, FirstInv, BlankInv
<1>2. SingleWrites /\ TypeInv /\ TypeInv' /\ Named' /\ Inv /\ [Next]_vars => Inv'
  BY CallsAreAny, NextSound, OpenStep
<1>3. SingleWrites /\ TypeInv /\ TypeInv' /\ Inv /\ [Next]_vars => [Home]_vars
  <2> SUFFICES ASSUME SingleWrites, TypeInv, TypeInv', Inv, [Next]_vars, op' = "fatWrite",
                      NEW a \in Kept, disk'[a] # disk[a]
               PROVE  \/ a - ClusterBase(cluster) \in DirSlots
                      \/ /\ a - DirBase(fp.parent) \in DirSlots
                         /\ disk[a].name = fp.rde.name
                         /\ disk'[a] = [disk[a] EXCEPT !.size = text.len]
    OBVIOUS
  <2>1. CASE WriteSingle  BY <2>1, WriteKeepsOthers
  <2>2. ~ \E p \in Path : \E isDir \in BOOLEAN : fatCreateRoot(p, isDir)
    BY DEF fatCreateRoot, Begin
  <2>3. ~ fatCreateStep  BY DEF fatCreateStep, args
  <2> QED  BY <2>1, <2>2, <2>3, CallsAreAny, StoresNothing
<1> QED  BY <1>1, <1>2, <1>3, TypesHold, NamesHold, PTL DEF Spec, WriteIsolated

(***************************************************************************)
(* Entries that stay                                                       *)
(***************************************************************************)

TidyInv ==
  /\ TidyVolume(disk, fat)
  /\ \A s \in Window : FileApart(dataEntries[s], disk)
  /\ FileHandle => FileApart(fp.rde, disk)

LEMMA ResizedKind ==
  ASSUME NEW u \in Unit, NEW v, Resized(u, v)
  PROVE  /\ IsFile(v) <=> IsFile(u)
         /\ IsDir(v) <=> IsDir(u)
         /\ Used(v) <=> Used(u)
         /\ u.kind = "entry" =>
              v.kind = "entry" /\ v.name = u.name /\ v.attr = u.attr /\ v.cluster = u.cluster
<1>1. CASE v = u  BY <1>1
<1>2. ASSUME NEW n, u.kind = "entry", v = [u EXCEPT !.size = n]
      PROVE  v.kind = "entry" /\ v.name = u.name /\ v.attr = u.attr /\ v.cluster = u.cluster
  <2>1. u \in Entry  BY <1>2, EntryUnit
  <2> QED  BY <1>2, <2>1 DEF Entry
<1> QED  BY <1>1, <1>2 DEF Resized, IsFile, IsDir, Used

\* The units of a cluster are none of the root directory.
LEMMA DataUnits ==
  ASSUME NEW c \in Clusters, c >= 2, NEW s \in DirSlots
  PROVE  /\ ClusterBase(c) + s \in Addr /\ ClusterBase(c) + s >= 1
         /\ ClusterBase(c) + s \in Kept
<1>1. DirBase(c) = ClusterBase(c) /\ DirBase(c) >= 0  BY BaseOfCluster
<1>2. DirBase(c) + s \in Addr /\ DirBase(c) \in Int  BY ClusterOnDisk
<1> DEFINE x == ClusterBase(c) + s
<1>3. x \in Addr /\ x \in Int /\ x >= 1  BY <1>1, <1>2
<1> HIDE DEF x
<1>4. x + RootSize > DirSize  BY <1>3, SizeAssumption
<1>5. x \in Kept  BY <1>3, <1>4, Sizes DEF Kept
<1> QED  BY <1>3, <1>5 DEF x

\* A new entry, in the root directory or in the directory of a walk, is in no
\* other cluster.
LEMMA PlaceIsElsewhere ==
  ASSUME NEW c \in Clusters, c >= 2, NEW s \in DirSlots, dir \in Clusters,
         ClusterBase(c) + s \in RootPlace \cup DirPlace
  PROVE  dir >= 2 /\ c = dir /\ ClusterBase(c) + s \in DirPlace
<1> DEFINE x == ClusterBase(c) + s
<1>1. x >= 1 /\ x \in Addr  BY DataUnits
<1>2. x \in DirPlace
  <2>1. x \in Int  BY <1>1, Sizes
  <2> HIDE DEF x
  <2>2. x \notin RootPlace  BY <1>1, <2>1 DEF RootPlace
  <2>3. x \in RootPlace \cup DirPlace  BY DEF x
  <2> QED  BY <2>2, <2>3
<1>3. PICK t \in DirSlots : x = DirBase(dir) + t /\ dir >= 2
  BY <1>2 DEF DirPlace
<1>4. ClusterBase(c) \in Int /\ (ClusterBase(c) + s) - ClusterBase(c) = s
  <2>1. ClusterBase(c) \in Int  BY ClusterOnDisk
  <2> QED  BY <2>1
<1>5. (DirBase(dir) + t) - ClusterBase(c) \in DirSlots  BY <1>3, <1>4
<1>6. dir # 0  BY <1>3
<1>7. dir = c  BY <1>5, <1>6, ClustersApart
<1> QED  BY <1>2, <1>3, <1>7

LEMMA RootIsNoDir ==
  ASSUME dir \in Clusters, NEW a \in RootPlace
  PROVE  a \notin DirPlace
<1> SUFFICES ASSUME a \in DirPlace PROVE FALSE  OBVIOUS
<1>1. PICK t \in DirSlots : a = DirBase(dir) + t /\ dir >= 2  BY DEF DirPlace
<1>2. DirBase(dir) >= 0 /\ DirBase(dir) \in Int  BY <1>1, BaseOfCluster, ClusterOnDisk
<1>3. a <= 0 /\ a \in Int  BY Sizes DEF RootPlace
<1> QED  BY <1>1, <1>2, <1>3

LEMMA BareStays ==
  ASSUME NEW c \in Clusters, c >= 2, Bare(disk, c), NEW e, dir \in Clusters,
         NEW a0 \in RootPlace \cup DirPlace, \A a \in Addr \ {a0} : e[a] = disk[a],
         a0 \in DirPlace /\ dir >= 2 => c # dir
  PROVE  Bare(e, c)
<1> SUFFICES ASSUME NEW s \in DirSlots PROVE ~Used(e[ClusterBase(c) + s])
  BY DEF Bare
<1>1. ClusterBase(c) + s \in Addr  BY DataUnits
<1>2. ClusterBase(c) + s # a0  BY PlaceIsElsewhere
<1>3. e[ClusterBase(c) + s] = disk[ClusterBase(c) + s]  BY <1>1, <1>2
<1> QED  BY <1>3 DEF Bare

\* The effect of fatCreate, with the cluster of the new entry: one that was free, or
\* none.
LEMMA PlacedWhere ==
  ASSUME TypeInv, OwnershipInv, BlankInv, NEW n, NEW isDir \in BOOLEAN,
         NEW place, EntryPlaced(n, isDir, place)
  PROVE  \E c \in Clusters :
           /\ fat' = Taken(fat, c)
           /\ \/ \A a \in Addr : disk'[a] = disk[a]
              \/ \E a0 \in place \cap Addr :
                   /\ c = 0 \/ fat[c] = 0
                   /\ ~Used(disk[a0])
                   /\ disk'[a0] = NewEntry(n, isDir, c)
                   /\ \A a \in Addr \ {a0} : disk'[a] = disk[a]
<1>1. PICK u \in Entry : \E c \in NewCluster(fat, u.cluster) :
        /\ FreeSlot(u) /\ fat' = Taken(fat, c)
        /\ \/ \A a \in Addr : disk'[a] = disk[a]
           \/ \E a0 \in place \cap Addr :
                /\ u = disk[a0] /\ disk'[a0] = NewEntry(n, isDir, c)
                /\ \A a \in Addr \ {a0} : disk'[a] = disk[a]
  BY DEF EntryPlaced
<1>2. PICK c \in NewCluster(fat, u.cluster) :
        /\ fat' = Taken(fat, c)
        /\ \/ \A a \in Addr : disk'[a] = disk[a]
           \/ \E a0 \in place \cap Addr :
                /\ u = disk[a0] /\ disk'[a0] = NewEntry(n, isDir, c)
                /\ \A a \in Addr \ {a0} : disk'[a] = disk[a]
  BY <1>1
<1>3. c \in Clusters /\ (c = u.cluster \/ fat[c] = 0)
  BY DEF NewCluster, Scan, unallocated, Entry
<1>4. ASSUME NEW a0 \in place \cap Addr, u = disk[a0]
      PROVE  (c = 0 \/ fat[c] = 0) /\ ~Used(disk[a0])
  BY <1>1, <1>3, <1>4 DEF BlankInv, Vacant, FreeSlot, Used
<1> QED  BY <1>2, <1>3, <1>4

LEMMA SameUnits ==
  ASSUME NEW d \in Disk, NEW e \in Disk, \A a \in Addr : e[a] = d[a]
  PROVE  e = d
<1>1. d = [a \in Addr |-> d[a]] /\ e = [a \in Addr |-> e[a]]  BY DEF Disk
<1>2. [a \in Addr |-> d[a]] = [a \in Addr |-> e[a]]  OBVIOUS
<1> QED  BY Zenon, <1>1, <1>2

LEMMA SameTidy ==
  ASSUME TidyInv, UNCHANGED <<disk, fat>>, \A s \in Window : FileApart(dataEntries'[s], disk),
         FileHandle' => FileApart(fp'.rde, disk)
  PROVE  TidyInv'
<1>1. disk' = disk /\ fat' = fat  OBVIOUS
<1>2. TidyVolume(disk, fat)  BY DEF TidyInv
<1>3. TidyVolume(disk', fat')  BY <1>1, <1>2
<1>4. \A s \in Window : FileApart(dataEntries'[s], disk')  BY <1>1
<1>5. FileHandle' => FileApart(fp'.rde, disk')  BY <1>1
<1> QED  BY <1>3, <1>4, <1>5 DEF TidyInv

\* The directory of a walk has an allocated cluster, that no file has.
LEMMA WalkedCluster ==
  ASSUME TypeInv, OwnershipInv, WellBehaved, pc = "walk", dir >= 2
  PROVE  fat[dir] # 0 /\ \A u : FileApart(u, disk) /\ IsFile(u) => u.cluster # dir
<1>1. PICK a \in Addr : IsDir(disk[a]) /\ disk[a].cluster = dir
  BY SizeAssumption DEF WellBehaved, TypeInv, TypeOK
<1>2. Backed(disk[a], fat)  BY DEF OwnershipInv, StorageSound, Sound
<1> QED  BY <1>1, <1>2 DEF Backed, IsDir, FileApart

LEMMA PlacedTidy ==
  ASSUME TypeInv, TypeInv', OwnershipInv, BlankInv, TidyInv, WellBehaved, WellBehaved',
         NEW n, NEW isDir \in BOOLEAN, NEW place,
         EntryPlaced(n, isDir, place),
         place = RootPlace \/ (place = DirPlace /\ pc = "walk")
  PROVE  /\ TidyVolume(disk', fat')
         /\ \A u \in Unit : Backed(u, fat) /\ FileApart(u, disk) => FileApart(u, disk')
<1>1. PICK c0 \in Clusters :
        /\ fat' = Taken(fat, c0)
        /\ \/ \A a \in Addr : disk'[a] = disk[a]
           \/ \E a0 \in place \cap Addr :
                /\ c0 = 0 \/ fat[c0] = 0
                /\ ~Used(disk[a0])
                /\ disk'[a0] = NewEntry(n, isDir, c0)
                /\ \A a \in Addr \ {a0} : disk'[a] = disk[a]
  BY PlacedWhere
<1>2. /\ fat \in [Clusters -> FatValue] /\ disk \in Disk /\ dir \in Clusters
      /\ fat[0] = EOC /\ fat[1] = EOC
  BY DEF TypeInv, TypeOK, Disk, OwnershipInv, StorageSound, Sound, TidyInv, TidyVolume
<1>3. /\ fat'[1] = EOC
      /\ \A c \in Clusters : fat'[c] = 0 => fat[c] = 0 /\ c >= 2
  <2>1. \A c \in Clusters : fat[c] = 0 => c >= 2  BY <1>2, EocIsNotFree, SizeAssumption
  <2>2. 1 \in Clusters  BY SizeAssumption
  <2> QED  BY <1>1, <1>2, <2>1, <2>2, EocIsNotFree DEF Taken
<1>4. CASE \A a \in Addr : disk'[a] = disk[a]
  <2>1. disk' = disk
    <3>1. disk' \in Disk  BY DEF TypeInv, TypeOK, Disk
    <3> QED  BY <1>2, <1>4, <3>1, SameUnits
  <2>2. \A a \in Addr : FileApart(disk[a], disk)  BY DEF TidyInv, TidyVolume
  <2>3. \A c \in Clusters : fat'[c] = 0 => Bare(disk, c)  BY <1>3 DEF TidyInv, TidyVolume
  <2>4. \A a \in Addr : FileApart(disk'[a], disk')  BY <2>1, <2>2
  <2>5. \A c \in Clusters : fat'[c] = 0 => Bare(disk', c)  BY <2>1, <2>3
  <2>6. TidyVolume(disk', fat')  BY <1>3, <2>4, <2>5 DEF TidyVolume
  <2> QED  BY <2>1, <2>6
<1>5. ASSUME NEW a0 \in place \cap Addr,
             c0 = 0 \/ fat[c0] = 0, disk'[a0] = NewEntry(n, isDir, c0),
             \A a \in Addr \ {a0} : disk'[a] = disk[a]
      PROVE  /\ TidyVolume(disk', fat')
             /\ \A u \in Unit : Backed(u, fat) /\ FileApart(u, disk) => FileApart(u, disk')
  <2>1. a0 \in RootPlace \cup DirPlace  OBVIOUS
  <2>2. a0 \in RootPlace \/ pc = "walk"  OBVIOUS
  <2>3. ASSUME NEW c \in Clusters, c >= 2, Bare(disk, c), pc = "walk" /\ dir >= 2 => c # dir
        PROVE  Bare(disk', c)
    <3>1. a0 \in RootPlace => a0 \notin DirPlace  BY <1>2, RootIsNoDir
    <3>2. a0 \in DirPlace /\ dir >= 2 => c # dir  BY <2>2, <2>3, <3>1
    <3> QED  BY <1>2, <1>5, <2>1, <2>3, <3>2, BareStays
  <2>4. ASSUME NEW a \in Addr, IsDir(disk'[a]), NEW c \in Clusters, fat[c] # 0, c >= 2,
               \A b \in Addr : IsDir(disk[b]) => disk[b].cluster # c
        PROVE  disk'[a].cluster # c
    <3>1. CASE a = a0  BY <1>5, <2>4, <3>1 DEF NewEntry
    <3>2. CASE a # a0  BY <1>5, <2>4, <3>2
    <3> QED  BY <3>1, <3>2
  <2>5. ASSUME NEW u \in Unit, Backed(u, fat), FileApart(u, disk), IsFile(u)
        PROVE  FileApart(u, disk')
    <3>1. u \in Entry  BY <2>5, EntryUnit DEF IsFile
    <3>2. u.cluster \in Clusters /\ fat[u.cluster] # 0 /\ u.cluster >= 2
      BY <2>5, <3>1 DEF Entry, Backed, FileApart, IsFile
    <3>3. pc = "walk" /\ dir >= 2 => u.cluster # dir  BY <2>5, WalkedCluster
    <3>4. Bare(disk', u.cluster)  BY <2>3, <2>5, <3>2, <3>3 DEF FileApart
    <3>5. \A a \in Addr : IsDir(disk'[a]) => disk'[a].cluster # u.cluster
      BY <2>4, <2>5, <3>2 DEF FileApart
    <3> QED  BY <3>2, <3>4, <3>5 DEF FileApart
  <2>6. FileApart(disk'[a0], disk')
    <3> SUFFICES ASSUME IsFile(disk'[a0]) PROVE FileApart(disk'[a0], disk')
      BY DEF FileApart
    <3>1. disk'[a0].cluster = c0  BY <1>5 DEF NewEntry
    <3>2. c0 # 0 /\ fat[c0] = 0  BY <1>5, <3>1 DEF WellBehaved
    <3>3. c0 >= 2 /\ Bare(disk, c0)
      BY <1>2, <3>2, EocIsNotFree DEF TidyInv, TidyVolume
    <3>4. pc = "walk" /\ dir >= 2 => c0 # dir  BY <3>2, WalkedCluster
    <3>5. Bare(disk', c0)  BY <2>3, <3>3, <3>4
    <3>6. ASSUME NEW a \in Addr, IsDir(disk'[a]) PROVE disk'[a].cluster # c0
      <4>1. a # a0  BY <3>6 DEF IsFile, IsDir
      <4>2. disk'[a] = disk[a]  BY <1>5, <4>1
      <4>3. Backed(disk[a], fat)  BY DEF OwnershipInv, StorageSound, Sound
      <4> QED  BY <3>2, <3>6, <4>2, <4>3 DEF Backed, IsDir
    <3> QED  BY <3>1, <3>3, <3>5, <3>6 DEF FileApart
  <2>7. ASSUME NEW a \in Addr PROVE FileApart(disk'[a], disk')
    <3>1. CASE a = a0  BY <2>6, <3>1
    <3>2. CASE a # a0
      <4>1. disk'[a] = disk[a] /\ disk[a] \in Unit  BY <1>2, <1>5, <3>2 DEF Disk
      <4>2. Backed(disk[a], fat) /\ FileApart(disk[a], disk)
        BY DEF OwnershipInv, StorageSound, Sound, TidyInv, TidyVolume
      <4>3. IsFile(disk[a]) => FileApart(disk[a], disk')  BY <2>5, <4>1, <4>2
      <4> QED  BY <4>1, <4>3 DEF FileApart
    <3> QED  BY <3>1, <3>2
  <2>8. ASSUME NEW c \in Clusters, fat'[c] = 0 PROVE Bare(disk', c)
    <3>1. fat[c] = 0 /\ c >= 2  BY <1>3, <2>8
    <3>2. Bare(disk, c)  BY <3>1 DEF TidyInv, TidyVolume
    <3>3. pc = "walk" /\ dir >= 2 => c # dir  BY <3>1, WalkedCluster
    <3> QED  BY <2>3, <3>1, <3>2, <3>3
  <2>9. TidyVolume(disk', fat')  BY <1>3, <2>7, <2>8 DEF TidyVolume
  <2>10. \A u \in Unit : Backed(u, fat) /\ FileApart(u, disk) => FileApart(u, disk')
    BY <2>5 DEF FileApart
  <2> QED  BY <2>9, <2>10
<1> QED  BY <1>1, <1>4, <1>5

\* A write makes no entry out of what was none.
LEMMA WrittenUsed ==
  ASSUME TypeInv, OwnershipInv, WriteSingle, NEW a \in Kept
  PROVE  LET d == ClearAndWrite(disk, cluster, text, 0)
         IN  /\ d[a] = disk[a] => Resized(disk[a], disk'[a])
             /\ Used(disk'[a]) => Used(disk[a])
<1> DEFINE d == ClearAndWrite(disk, cluster, text, 0)
<1>1. CallTypes /\ WorkTypes /\ StorageTypes  BY TypeParts
<1>2. d \in Disk /\ fp \in File
  BY <1>1, ClearAndWriteDisk DEF CallTypes, WorkTypes, StorageTypes
<1>3. PICK g : disk' = writeFileLength(d, fp, text.len, g)  BY SingleDisk
<1>4. a \in Addr  BY DEF Kept
<1>5. d[a] = disk[a] \/ d[a] = Zero \/ d[a].kind = "text"  BY <1>4, WrittenAnything
<1> HIDE DEF d
<1>6. d[a] \in Unit  BY <1>2, <1>4 DEF Disk
<1>7. \/ disk'[a] = d[a]
      \/ d[a].kind = "entry" /\ d[a].name # <<>> /\ disk'[a] = [d[a] EXCEPT !.size = text.len]
  BY <1>2, <1>3, LengthUnits
<1>8. Resized(d[a], disk'[a])  BY <1>7 DEF Resized
<1>9. Used(disk'[a]) <=> Used(d[a])  BY <1>6, <1>8, ResizedKind
<1>10. Used(d[a]) => Used(disk[a])  BY <1>5 DEF Used, Zero
<1> QED  BY <1>8, <1>9, <1>10 DEF d

LEMMA WrittenTidy ==
  ASSUME TypeInv, OwnershipInv, OpenInv, TidyInv, WriteSingle
  PROVE  TidyInv'
<1>1. fat' = fat  BY SingleDisk
<1>2. \A a \in Addr : disk[a] \in Unit  BY DEF TypeInv, TypeOK
<1>3. ASSUME NEW a \in Addr
      PROVE  \/ ~IsFile(disk'[a]) /\ ~IsDir(disk'[a])
             \/ \E b \in Addr : /\ IsFile(disk'[a]) <=> IsFile(disk[b])
                                /\ IsDir(disk'[a]) <=> IsDir(disk[b])
                                /\ disk'[a].cluster = disk[b].cluster
  <2>1. Derived(disk'[a])  BY SingleSources
  <2>2. CASE disk'[a] = Zero  BY <2>2 DEF Zero, IsFile, IsDir
  <2>3. CASE disk'[a].kind = "text"  BY <2>3 DEF IsFile, IsDir
  <2>4. ASSUME NEW b \in Addr, Resized(disk[b], disk'[a])
        PROVE  \/ ~IsFile(disk'[a]) /\ ~IsDir(disk'[a])
               \/ /\ IsFile(disk'[a]) <=> IsFile(disk[b])
                  /\ IsDir(disk'[a]) <=> IsDir(disk[b])
                  /\ disk'[a].cluster = disk[b].cluster
    <3>1. IsFile(disk'[a]) <=> IsFile(disk[b])  BY <1>2, <2>4, ResizedKind
    <3>2. IsDir(disk'[a]) <=> IsDir(disk[b])  BY <1>2, <2>4, ResizedKind
    <3>3. disk[b].kind = "entry" => disk'[a].cluster = disk[b].cluster
      BY <1>2, <2>4, ResizedKind
    <3> QED  BY <3>1, <3>2, <3>3 DEF IsFile, IsDir
  <2> QED  BY <2>1, <2>2, <2>3, <2>4 DEF Derived
<1>4. ASSUME NEW c \in Clusters, c >= 2, Bare(disk, c) PROVE Bare(disk', c)
  <2> SUFFICES ASSUME NEW s \in DirSlots PROVE ~Used(disk'[ClusterBase(c) + s])
    BY DEF Bare
  <2>1. ClusterBase(c) + s \in Kept  BY <1>4, DataUnits
  <2>2. ~Used(disk[ClusterBase(c) + s])  BY <1>4 DEF Bare
  <2> QED  BY <2>1, <2>2, WrittenUsed
<1>5. ASSUME NEW u, FileApart(u, disk), IsFile(u) => u.cluster \in Clusters
      PROVE  FileApart(u, disk')
  <2> SUFFICES ASSUME IsFile(u) PROVE FileApart(u, disk')  BY DEF FileApart
  <2>1. /\ u.cluster \in Clusters /\ u.cluster >= 2 /\ Bare(disk, u.cluster)
        /\ \A a \in Addr : IsDir(disk[a]) => disk[a].cluster # u.cluster
    BY <1>5 DEF FileApart
  <2>2. Bare(disk', u.cluster)  BY <1>4, <2>1
  <2>3. \A a \in Addr : IsDir(disk'[a]) => disk'[a].cluster # u.cluster
    BY <1>3, <2>1
  <2> QED  BY <2>1, <2>2, <2>3 DEF FileApart
<1>6. ASSUME NEW u \in Unit, FileApart(u, disk) PROVE FileApart(u, disk')
  <2>1. IsFile(u) => u.cluster \in Clusters  BY EntryUnit DEF IsFile, Entry
  <2> QED  BY <1>5, <1>6, <2>1
<1>7. ASSUME NEW a \in Addr PROVE FileApart(disk'[a], disk')
  <2> SUFFICES ASSUME IsFile(disk'[a]) PROVE FileApart(disk'[a], disk')  BY DEF FileApart
  <2>1. PICK b \in Addr : IsFile(disk[b]) /\ disk'[a].cluster = disk[b].cluster
    BY <1>3
  <2>2. FileApart(disk[b], disk')  BY <1>2, <1>6 DEF TidyInv, TidyVolume
  <2> QED  BY <2>1, <2>2 DEF FileApart
<1>8. fat[0] = EOC /\ fat[1] = EOC
  BY DEF OwnershipInv, StorageSound, Sound, TidyInv, TidyVolume
<1>9. ASSUME NEW c \in Clusters, fat'[c] = 0 PROVE Bare(disk', c)
  <2>1. c >= 2  BY <1>1, <1>8, <1>9, EocIsNotFree, SizeAssumption
  <2> QED  BY <1>1, <1>4, <1>9, <2>1 DEF TidyInv, TidyVolume
<1>10. TidyVolume(disk', fat')  BY <1>1, <1>7, <1>8, <1>9 DEF TidyVolume
<1>11. ASSUME NEW s \in Window PROVE FileApart(dataEntries'[s], disk')
  <2>1. dataEntries' = dataEntries  BY DEF WriteSingle, Finish
  <2>2. dataEntries[s] \in Unit  BY DEF TypeInv, TypeOK
  <2> QED  BY <1>6, <2>1, <2>2 DEF TidyInv
<1>12. ~FileHandle'
  BY DEF WriteSingle, Finish, Return, args, OpenInv, FileHandle
<1> QED  BY <1>10, <1>11, <1>12 DEF TidyInv

LEMMA HandleSources ==
  ASSUME SingleWrites, TypeInv, OwnershipInv, OpenInv, [AnyNext]_vars, FileHandle'
  PROVE  \/ FileHandle /\ fp' = fp
         \/ \E a \in Addr : fp'.rde = disk[a]
         \/ \E s \in Window : fp'.rde = dataEntries[s]
<1>1. ASSUME NEW p \in Path, NEW s \in Slots, InRoot(p, s)
      PROVE  \E a \in Addr : fp'.rde = disk[a]
  <2>1. s - RootSize \in Addr /\ LoadRoot(disk)[s] = disk[s - RootSize]
    BY Sizes DEF LoadRoot
  <2> QED  BY <1>1, <2>1 DEF InRoot, Handle
<1>2. ASSUME NEW s \in DirSlots, InDirectory(s)
      PROVE  \/ \E a \in Addr : fp'.rde = disk[a]
             \/ \E x \in Window : fp'.rde = dataEntries[x]
  <2> DEFINE entries == readFromCluster(disk, dir, dataEntries)
  <2>1. \/ s \in Window /\ entries[s] = dataEntries[s]
        \/ entries[s] = disk[DirBase(dir) + s]
    BY Sizes DEF readFromCluster
  <2>2. DirBase(dir) + s \in Addr  BY ClusterOnDisk DEF TypeInv, TypeOK
  <2>3. fp'.rde = entries[s]  BY <1>2 DEF InDirectory, Handle
  <2> QED  BY <2>1, <2>2, <2>3
<1> QED  BY <1>1, <1>2, NewHandle

LEMMA CreatedTidy ==
  ASSUME TypeInv, TypeInv', OwnershipInv, BlankInv, TidyInv, WellBehaved, WellBehaved',
         [AnyNext]_vars, NEW n, NEW isDir \in BOOLEAN, NEW place,
         EntryPlaced(n, isDir, place),
         place = RootPlace \/ (place = DirPlace /\ pc = "walk"),
         ~FileHandle'
  PROVE  TidyInv'
<1>1. TidyVolume(disk', fat')  BY PlacedTidy
<1>2. \A u \in Unit : Backed(u, fat) /\ FileApart(u, disk) => FileApart(u, disk')
  BY PlacedTidy
<1>3. ASSUME NEW s \in Window PROVE FileApart(dataEntries'[s], disk')
  <2>1. /\ dataEntries[s] \in Unit /\ Backed(dataEntries[s], fat)
        /\ FileApart(dataEntries[s], disk)
    BY DEF TypeInv, TypeOK, OwnershipInv, StorageSound, WindowSound, TidyInv
  <2>2. \A a \in Addr : disk[a] \in Unit /\ Backed(disk[a], fat) /\ FileApart(disk[a], disk)
    BY DEF TypeInv, TypeOK, OwnershipInv, StorageSound, Sound, TidyInv, TidyVolume
  <2> QED  BY <1>2, <2>1, <2>2, WindowSources
<1> QED  BY <1>1, <1>3 DEF TidyInv

LEMMA TidyNext ==
  ASSUME SingleWrites, TypeInv, TypeInv', OwnershipInv, OpenInv, TidyInv,
         WellBehaved, WellBehaved', [AnyNext]_vars
  PROVE  TidyInv'
<1>1. CASE UNCHANGED <<disk, fat>>
  <2>1. \A a \in Addr : FileApart(disk[a], disk)  BY DEF TidyInv, TidyVolume
  <2>2. \A s \in Window : FileApart(dataEntries[s], disk)  BY DEF TidyInv
  <2>3. \A s \in Window : FileApart(dataEntries'[s], disk)  BY <2>1, <2>2, WindowSources
  <2>4. FileHandle => FileApart(fp.rde, disk)  BY DEF TidyInv
  <2>5. FileHandle' => FileApart(fp'.rde, disk)  BY <2>1, <2>2, <2>4, HandleSources
  <2> QED  BY <1>1, <2>3, <2>5, SameTidy
<1>2. BlankInv  BY DEF OpenInv, FirstInv
<1>3. ASSUME NEW p \in Path, NEW isDir \in BOOLEAN, fatCreateRoot(p, isDir) PROVE TidyInv'
  <2>1. ~FileHandle'  BY <1>3 DEF fatCreateRoot, Begin, Return, Fault, FileHandle
  <2> QED  BY <1>1, <1>2, <1>3, <2>1, CreateRootDisk, CreatedTidy
<1>4. CASE fatCreateStep
  <2>1. ~FileHandle' /\ pc = "walk"
    BY <1>4 DEF fatCreateStep, args, Fail, Return, Descend, FileHandle
  <2>2. isDirectory \in BOOLEAN  BY DEF TypeInv, TypeOK
  <2> QED  BY <1>1, <1>2, <1>4, <2>1, <2>2, CreateStepDisk, CreatedTidy
<1>5. CASE WriteSingle  BY <1>5, WrittenTidy
<1> QED  BY <1>1, <1>3, <1>4, <1>5, StoresNothing

LEMMA EntryStays ==
  ASSUME SingleWrites, TypeInv, OwnershipInv, OpenInv, TidyInv, [AnyNext]_vars,
         NEW a \in Kept, Used(disk[a])
  PROVE  Resized(disk[a], disk'[a])
<1>1. a \in Addr  BY DEF Kept
<1>2. CASE disk' = disk  BY <1>2 DEF Resized
<1>3. ASSUME NEW n, NEW isDir \in BOOLEAN, NEW place, EntryPlaced(n, isDir, place)
      PROVE  Resized(disk[a], disk'[a])
  <2>1. disk'[a] = disk[a]  BY <1>1, <1>3 DEF EntryPlaced, FreeSlot, Used
  <2> QED  BY <2>1 DEF Resized
<1>4. ASSUME NEW p \in Path, NEW isDir \in BOOLEAN, fatCreateRoot(p, isDir)
      PROVE  Resized(disk[a], disk'[a])
  BY <1>2, <1>3, <1>4, CreateRootDisk
<1>5. CASE fatCreateStep
  <2>1. isDirectory \in BOOLEAN  BY DEF TypeInv, TypeOK
  <2> QED  BY <1>2, <1>3, <1>5, <2>1, CreateStepDisk
<1>6. CASE WriteSingle
  <2> DEFINE d == ClearAndWrite(disk, cluster, text, 0)
  <2>1. /\ cluster \in Clusters /\ text \in TextArg /\ clustersNeeded(text) = 1
        /\ pc = "free" /\ cluster = fp.rde.cluster /\ fp.rde.kind = "entry"
        /\ fp.rde.attr = "file"
    BY <1>6, OnlyCluster
    DEF WriteSingle, TypeInv, TypeOK, TextArg, OwnershipInv, CallSound, Entry
  <2>2. text.len <= DirSize  BY <2>1, ShortLength
  <2>3. cluster >= 2 /\ Bare(disk, cluster)
    BY <2>1 DEF TidyInv, FileHandle, FileApart, IsFile
  <2>4. a - ClusterBase(cluster) \notin DirSlots
    <3> SUFFICES ASSUME a - ClusterBase(cluster) \in DirSlots PROVE FALSE  OBVIOUS
    <3>1. ClusterBase(cluster) \in Int /\ a \in Int
      BY <1>1, <2>1, <2>3, ClusterOnDisk, Sizes DEF DirBase
    <3>2. ClusterBase(cluster) + (a - ClusterBase(cluster)) = a  BY <3>1
    <3>3. ~Used(disk[ClusterBase(cluster) + (a - ClusterBase(cluster))])  BY <2>3 DEF Bare
    <3> QED  BY <3>2, <3>3
  <2>5. d[a] = disk[a]  BY <1>1, <2>1, <2>2, <2>4, WrittenUnits
  <2> QED  BY <1>6, <2>5, WrittenUsed
<1> QED  BY <1>2, <1>4, <1>5, <1>6, StoresNothing

\* As long as the paths of calls go through directories and the volume has clusters
\* for its files, no step makes an entry vanish or changes its name, kind or cluster:
\* no file's text lands on a directory and no new entry on a file (fat.c:240-680).
THEOREM EntriesStay ==
  ASSUME ShortTexts, SoundImages, BlankImages, NamedPaths, TidyImages
  PROVE  Spec /\ []WellBehaved => EntriesKept
<1> DEFINE Inv == OwnershipInv /\ OpenInv /\ TidyInv
           Stay == \A a \in Kept : disk[a].kind = "entry" /\ disk[a].attr # "none" =>
             /\ disk'[a].kind = "entry"
             /\ \A f \in {"name", "attr", "cluster"} : disk'[a][f] = disk[a][f]
<1>1. Init => Inv
  <2> SUFFICES ASSUME Init PROVE Inv  OBVIOUS
  <2>1. OwnershipInv  BY InitSound
  <2>2. \A a \in Addr : Vacant(disk[a])  BY DEF Init, BlankImages
  <2>3. \A s \in Window : Vacant(dataEntries[s])  BY DEF Init, Vacant, Zero
  <2>4. ~FileHandle /\ pc # "free"  BY DEF Init, FileHandle
  <2>5. TidyVolume(disk, fat)  BY DEF Init, TidyImages
  <2>6. \A s \in Window : FileApart(dataEntries[s], disk)
    BY DEF Init, FileApart, IsFile, Zero
  <2> QED  BY <2>1, <2>2, <2>3, <2>4, <2>5, <2>6 DEF OpenInv, FirstInv, BlankInv, TidyInv
<1>4. WellBehaved => SingleWrites  BY DEF WellBehaved
<1>2. TypeInv /\ TypeInv' /\ Named' /\ Inv /\ WellBehaved /\ WellBehaved' /\ [Next]_vars => Inv'
  BY <1>4, CallsAreAny, NextSound, OpenStep, TidyNext
<1>3. SingleWrites /\ TypeInv /\ Inv /\ [Next]_vars => [Stay]_vars
  <2> SUFFICES ASSUME SingleWrites, TypeInv, Inv, [Next]_vars, NEW a \in Kept,
                      disk[a].kind = "entry", disk[a].attr # "none"
               PROVE  /\ disk'[a].kind = "entry"
                      /\ \A f \in {"name", "attr", "cluster"} : disk'[a][f] = disk[a][f]
    OBVIOUS
  <2>1. disk[a] \in Unit /\ Vacant(disk[a])
    BY DEF TypeInv, TypeOK, Kept, OpenInv, FirstInv, BlankInv
  <2>2. Used(disk[a])  BY <2>1, EntryUnit DEF Vacant, FreeSlot, Used
  <2>3. Resized(disk[a], disk'[a])  BY <2>2, CallsAreAny, EntryStays
  <2>4. /\ disk'[a].kind = "entry" /\ disk'[a].name = disk[a].name
        /\ disk'[a].attr = disk[a].attr /\ disk'[a].cluster = disk[a].cluster
    BY <2>1, <2>3, ResizedKind
  <2> QED  BY <2>4
<1> QED  BY <1>1, <1>2, <1>3, <1>4, TypesHold, NamesHold, PTL DEF Spec, EntriesKept

\* A text of the length of the entry in its cluster.
Whole(d, e) ==
  \E t \in TextArg : /\ t.len = e.size /\ t.len <= DirSize
                     /\ \A k \in 1..t.len : d[ClusterBase(e.cluster) + k] = Piece(t, k)
WholeFiles(d) == \A a \in Kept : IsFile(d[a]) /\ d[a].size > 0 => Whole(d, d[a])

(***************************************************************************)
(* The handle and its entry                                                *)
(***************************************************************************)

\* The entry that f was made from is the one that writeFileLength finds.
Held(d, f) ==
  /\ f.parent = 0 \/ f.parent >= 2
  /\ \E s \in Firsts(d, f) : d[DirBase(f.parent) + s] = f.rde
HeldInv == FileHandle => Held(disk, fp)

LEMMA HeldInDir ==
  ASSUME NEW d \in Disk, NEW c \in Clusters, c >= 2, NEW old, NEW n,
         NEW s0 \in FoundInDir(readFromCluster(d, c, old), n),
         NEW u, u = readFromCluster(d, c, old)[s0], Vacant(u), u.attr = "file"
  PROVE  Held(d, Handle(c, u))
<1> DEFINE r == readFromCluster(d, c, old)
           b == DirBase(c)
           f == Handle(c, u)
<1>1. /\ s0 \in DirSlots /\ DirMatch(u, n)
      /\ \A x \in DirSlots : DirMatch(r[x], n) => s0 <= x
  BY DEF FoundInDir, Scan
<1>2. u.kind = "entry" /\ u.name # <<>> /\ SameName(u.name, n)
  BY <1>1 DEF DirMatch, Vacant, FreeSlot
<1>3. f.parent = c /\ f.rde = u /\ c # 0  BY DEF Handle
<1>4. \A x \in DirSlots : r[x] = d[b + x]  BY <1>3 DEF readFromCluster
<1>5. u = r[s0]  OBVIOUS
<1> HIDE DEF r, b, f
<1>6. d[b + s0] = u /\ RootMatch(d[b + s0], u.name)
  BY <1>1, <1>2, <1>4, <1>5 DEF RootMatch, SameName
<1>7. ASSUME NEW x \in DirSlots, x < s0 PROVE ~RootMatch(d[b + x], u.name)
  <2>1. ~DirMatch(r[x], n)  BY <1>1, <1>7
  <2> QED  BY <1>2, <1>4, <2>1 DEF RootMatch, DirMatch, SameName
<1>8. s0 \in Firsts(d, f)  BY <1>1, <1>3, <1>6, <1>7 DEF Firsts, Copied, b
<1> QED  BY <1>3, <1>6, <1>8 DEF Held, f, b

LEMMA HeldInRoot ==
  ASSUME NEW d \in Disk, NEW n, NEW s0 \in FoundInRoot(LoadRoot(d), n), s0 <= RootRead,
         NEW u, u = LoadRoot(d)[s0]
  PROVE  Held(d, Handle(0, u))
<1> DEFINE b == DirBase(0)
           f == Handle(0, u)
<1>1. /\ s0 \in Slots /\ RootMatch(u, n)
      /\ \A x \in Slots : RootMatch(LoadRoot(d)[x], n) => s0 <= x
  BY DEF FoundInRoot, Scan
<1>2. f.parent = 0 /\ f.rde = u  BY DEF Handle
<1>3. \A x \in Slots : LoadRoot(d)[x] = d[b + x]
  <2>1. b = -RootSize  BY DEF DirBase
  <2>2. \A x \in Slots : x - RootSize = b + x  BY <2>1, Sizes
  <2> HIDE DEF b
  <2> QED  BY <2>2 DEF LoadRoot
<1> HIDE DEF b, f
<1>4. s0 \in DirSlots /\ \A x \in DirSlots : x \in Slots  BY <1>1, Sizes, SizeAssumption
<1>5. d[b + s0] = u /\ RootMatch(d[b + s0], u.name)
  BY <1>1, <1>3 DEF RootMatch, SameName
<1>6. ASSUME NEW x \in DirSlots, x < s0 PROVE ~RootMatch(d[b + x], u.name)
  <2>1. ~RootMatch(LoadRoot(d)[x], n)  BY <1>1, <1>4, <1>6
  <2> QED  BY <1>1, <1>3, <1>4, <2>1 DEF RootMatch, SameName
<1>7. s0 \in Firsts(d, f)  BY <1>2, <1>4, <1>5, <1>6 DEF Firsts, Copied, b
<1> QED  BY <1>2, <1>5, <1>7 DEF Held, f, b

\* An entry fatOpen finds in the root is among those read as a cluster.
LEMMA FoundShort ==
  ASSUME TypeInv, BlankInv, RootShort, NEW n, NEW s \in FoundInRoot(LoadRoot(disk), n)
  PROVE  s <= RootRead
<1> SUFFICES ASSUME s > RootRead PROVE FALSE
  BY Sizes DEF FoundInRoot, Scan
<1>1. /\ s \in Slots /\ RootMatch(LoadRoot(disk)[s], n)
      /\ \A x \in Slots : RootMatch(LoadRoot(disk)[x], n) => s <= x
  BY DEF FoundInRoot, Scan
<1>2. \A x \in Slots : LoadRoot(disk)[x] = disk[x - RootSize]  BY DEF LoadRoot
<1>3. Used(disk[s - RootSize])  BY <1>1, <1>2 DEF RootMatch, Used
<1>4. PICK x \in 1..RootRead :
        disk[x - RootSize].kind = "entry" /\ disk[x - RootSize].name = disk[s - RootSize].name
  BY <1>1, <1>3 DEF RootShort
<1>5. x \in Slots /\ x < s  BY <1>1, Sizes, SizeAssumption
<1>6. RootMatch(LoadRoot(disk)[x], n)  BY <1>1, <1>2, <1>4, <1>5 DEF RootMatch
<1> QED  BY <1>1, <1>5, <1>6

LEMMA HeldStep ==
  ASSUME SingleWrites, TypeInv, OwnershipInv, OpenInv, HeldInv, Orderly, [AnyNext]_vars
  PROVE  HeldInv'
<1> SUFFICES ASSUME FileHandle' PROVE Held(disk, fp)'  BY DEF HeldInv
<1>1. disk' = disk /\ disk \in Disk  BY NewHandle DEF TypeInv, TypeOK, Disk
<1>2. CASE FileHandle /\ fp' = fp  BY <1>1, <1>2 DEF HeldInv, Held, Firsts
<1>3. ASSUME Held(disk, fp') PROVE Held(disk, fp)'
  <2>1. Held(disk', fp')  BY <1>1, <1>3
  <2> QED  BY <2>1 DEF Held, Firsts
<1>4. ASSUME NEW p \in Path, NEW s \in Slots, InRoot(p, s) PROVE Held(disk, fp')
  <2>1. s <= RootRead  BY <1>4, FoundShort DEF InRoot, Orderly, OpenInv, FirstInv
  <2> QED  BY <1>1, <1>4, <2>1, HeldInRoot DEF InRoot
<1>5. ASSUME pc = "walk", NEW s \in DirSlots, InDirectory(s) PROVE Held(disk, fp')
  <2> DEFINE u == readFromCluster(disk, dir, dataEntries)[s]
  <2>1. dir \in Clusters /\ dir >= 2  BY <1>5 DEF TypeInv, TypeOK, Orderly
  <2>2. Vacant(u)
    <3>1. u = disk[DirBase(dir) + s]  BY <2>1 DEF readFromCluster
    <3>2. DirBase(dir) + s \in Addr  BY <2>1, ClusterOnDisk
    <3> QED  BY <3>1, <3>2 DEF OpenInv, FirstInv, BlankInv
  <2>3. /\ s \in FoundInDir(readFromCluster(disk, dir, dataEntries), path.names[depth])
        /\ u = readFromCluster(disk, dir, dataEntries)[s]
        /\ fp' = Handle(dir, u)
    BY <1>5 DEF InDirectory
  <2> HIDE DEF u
  <2>4. u.attr = "file"  BY <2>3 DEF FileHandle, Handle
  <2> QED  BY <1>1, <2>1, <2>2, <2>3, <2>4, HeldInDir
<1> QED  BY <1>2, <1>3, <1>4, <1>5, NewHandle

(***************************************************************************)
(* What a write does                                                       *)
(***************************************************************************)

LEMMA WrittenText ==
  ASSUME NEW d, NEW c \in Clusters, NEW x \in TextArg, x.len <= DirSize, NEW k \in 1..x.len,
         ClusterBase(c) + k \in Addr
  PROVE  ClearAndWrite(d, c, x, 0)[ClusterBase(c) + k] = Piece(x, k)
<1> DEFINE z == writeToCluster(d, c, Nulls)
           b == ClusterBase(c)
           w == Sector(x, 0)
<1>1. ClearAndWrite(d, c, x, 0) = Overwrite(z, b, w)
  BY DEF ClearAndWrite, writeToCluster
<1>2. k \in Nat /\ x.len \in Nat /\ b \in Int /\ 0 * DirSize + k = k
  BY ClusterOnDisk, SizeAssumption DEF TextArg
<1>3. DOMAIN w = 1..x.len /\ w[k] = Piece(x, k)  BY <1>2 DEF Sector
<1> HIDE DEF z, b, w
<1>4. (b + k) - b = k  BY <1>2
<1> QED  BY <1>1, <1>3, <1>4 DEF Overwrite, b

\* The handle of a write: a file, whose cluster holds no entries.
LEMMA WriteHandle ==
  ASSUME TypeInv, OwnershipInv, TidyInv, HeldInv, WriteSingle
  PROVE  /\ fp \in File /\ IsFile(fp.rde) /\ cluster = fp.rde.cluster /\ cluster \in Clusters
         /\ fp.start = cluster
         /\ cluster >= 2 /\ Bare(disk, cluster) /\ text \in TextArg /\ text.len <= DirSize
         /\ Held(disk, fp) /\ fp.parent \in Clusters
<1>1. pc = "free" /\ fp.rde.attr = "file" /\ cluster = fp.rde.cluster /\ fp.start = cluster
  BY OnlyCluster DEF WriteSingle, OwnershipInv, CallSound, HandleSound
<1>2. /\ fp \in File /\ text \in TextArg /\ clustersNeeded(text) = 1 /\ cluster \in Clusters
      /\ fp.parent \in Clusters /\ fp.rde \in Entry
  BY TypeParts DEF CallTypes, WorkTypes, File, WriteSingle
<1>3. IsFile(fp.rde)  BY <1>1, <1>2 DEF IsFile, Entry
<1> QED
  BY <1>1, <1>2, <1>3, ShortLength DEF FileHandle, HeldInv, TidyInv, FileApart

\* Units of the directory of a file are not of its cluster.
LEMMA ParentApart ==
  ASSUME TypeInv, OwnershipInv, TidyInv, HeldInv, WriteSingle, NEW x \in DirSlots
  PROVE  (DirBase(fp.parent) + x) - ClusterBase(cluster) \notin DirSlots
<1> DEFINE p == fp.parent
           c == cluster
<1>1. p \in Clusters /\ c \in Clusters /\ c >= 2 /\ Bare(disk, c) /\ Held(disk, fp)
  BY WriteHandle
<1>2. CASE p = 0
  <2>1. DirBase(0) + DirSize <= 0 /\ DirBase(0) \in Int  BY <1>1, <1>2, BaseOfCluster, ClusterOnDisk
  <2>2. ClusterBase(c) >= 0 /\ ClusterBase(c) \in Int  BY <1>1, BaseOfCluster, ClusterOnDisk
  <2> HIDE DEF c, p
  <2> QED  BY <1>2, <2>1, <2>2, Sizes DEF p, c
<1>3. CASE p # 0
  <2>1. PICK s \in Firsts(disk, fp) : TRUE  BY <1>1 DEF Held
  <2>2. s \in DirSlots /\ Used(disk[DirBase(p) + s])  BY <2>1 DEF Firsts, RootMatch, Used
  <2>3. DirBase(p) = ClusterBase(p)  BY <1>3 DEF DirBase
  <2>4. p # c  BY <1>1, <2>2, <2>3 DEF Bare
  <2> HIDE DEF p, c
  <2> QED  BY <1>1, <1>3, <2>4, ClustersApart DEF p, c
<1> QED  BY <1>2, <1>3

\* writeFileLength finds the entry that fatOpen found.
LEMMA FoundAgain ==
  ASSUME NEW d, NEW e, NEW f, NEW s0 \in Firsts(e, f), NEW g,
         \A x \in DirSlots : d[DirBase(f.parent) + x] = e[DirBase(f.parent) + x]
  PROVE  LengthSlot(d, f, g) = {s0}
<1> DEFINE r == readFromCluster(d, f.parent, g)
           m(x) == RootMatch(r[x], f.rde.name)
           b == DirBase(f.parent)
<1>1. /\ s0 \in DirSlots /\ Copied(f.parent, s0) /\ RootMatch(e[b + s0], f.rde.name)
      /\ \A x \in DirSlots : x < s0 => ~RootMatch(e[b + x], f.rde.name)
  BY DEF Firsts
<1>2. \A x \in DirSlots : Copied(f.parent, x) => r[x] = e[b + x]
  BY Sizes DEF Copied, readFromCluster
<1>3. \A x \in DirSlots : x < s0 => Copied(f.parent, x)  BY <1>1, Sizes DEF Copied
<1> HIDE DEF r, b
<1>4. m(s0)  BY <1>1, <1>2
<1>5. \A x \in DirSlots : m(x) => s0 <= x
  <2> SUFFICES ASSUME NEW x \in DirSlots, m(x), x < s0 PROVE FALSE
    BY <1>1, Sizes
  <2> QED  BY <1>1, <1>2, <1>3
<1>6. LengthSlot(d, f, g) = Scan({x \in DirSlots : m(x)})  BY DEF LengthSlot, r
<1> HIDE DEF m
<1>7. \A s : s \in Scan({x \in DirSlots : m(x)}) <=>
               s \in DirSlots /\ m(s) /\ \A x \in DirSlots : m(x) => s <= x
  BY DEF Scan
<1>8. \A s : s \in Scan({x \in DirSlots : m(x)}) <=> s = s0
  BY <1>1, <1>4, <1>5, <1>7, Sizes
<1> QED  BY <1>6, <1>8

\* The slots that fatOpen looks at first are none of those writeFileLength garbles.
LEMMA ShownKept ==
  ASSUME NEW p \in Clusters, p = 0 \/ p >= 2, NEW s \in DirSlots, Copied(p, s)
  PROVE  DirBase(p) + s \in Kept
<1>1. DirBase(p) + s \in Addr  BY ClusterOnDisk
<1>2. CASE p = 0
  <2>1. DirBase(p) = -RootSize  BY <1>2 DEF DirBase
  <2>2. (DirBase(p) + s) + RootSize = s /\ s <= RootRead
    BY <1>2, <2>1, Sizes DEF Copied
  <2> QED  BY <1>1, <2>2, Sizes DEF Kept
<1>3. CASE p >= 2
  <2>1. DirBase(p) = ClusterBase(p)  BY <1>3 DEF DirBase
  <2> QED  BY <1>3, <2>1, DataUnits
<1> QED  BY <1>2, <1>3

LEMMA WrittenInside ==
  ASSUME NEW d, NEW c, NEW x \in TextArg, x.len <= DirSize, NEW a \in Addr,
         a - ClusterBase(c) \in DirSlots
  PROVE  LET e == ClearAndWrite(d, c, x, 0) IN e[a] = Zero \/ e[a].kind = "text"
<1> DEFINE z == writeToCluster(d, c, Nulls)
           b == ClusterBase(c)
           w == Sector(x, 0)
           e == ClearAndWrite(d, c, x, 0)
<1>1. z[a] = Zero  BY DEF writeToCluster, Overwrite, Nulls
<1>2. DOMAIN w = 1..x.len /\ \A u \in DOMAIN w : w[u].kind = "text"
  BY DEF Sector, Piece, Junk
<1>3. e[a] = IF a - b \in DOMAIN w THEN w[a - b] ELSE z[a]
  <2>1. e = Overwrite(z, b, w)  BY DEF ClearAndWrite, writeToCluster
  <2> HIDE DEF z, e, w, b
  <2> QED  BY <2>1 DEF Overwrite
<1> HIDE DEF z, e, w, b
<1>4. e[a] = Zero \/ e[a].kind = "text"  BY <1>1, <1>2, <1>3
<1> QED  BY <1>4 DEF e

LEMMA FileWritten ==
  ASSUME TypeInv, OwnershipInv, OpenInv, TidyInv, HeldInv, WriteSingle
  PROVE  \E s0 \in Firsts(disk, fp) :
           LET b0 == DirBase(fp.parent) + s0
           IN  /\ b0 \in Kept /\ disk[b0] = fp.rde
               /\ disk'[b0] = [fp.rde EXCEPT !.size = text.len]
               /\ \A k \in 1..text.len : disk'[ClusterBase(cluster) + k] = Piece(text, k)
               /\ \A a \in Kept \ {b0} :
                    IF a - ClusterBase(cluster) \in DirSlots
                    THEN disk'[a] = Zero \/ disk'[a].kind = "text"
                    ELSE disk'[a] = disk[a]
<1> DEFINE d == ClearAndWrite(disk, cluster, text, 0)
           p == DirBase(fp.parent)
<1>1. /\ fp \in File /\ cluster \in Clusters /\ cluster >= 2 /\ text \in TextArg
      /\ text.len <= DirSize /\ Held(disk, fp) /\ fp.parent \in Clusters
      /\ fp.parent = 0 \/ fp.parent >= 2
  BY WriteHandle DEF Held
<1>2. PICK s0 \in Firsts(disk, fp) : disk[p + s0] = fp.rde  BY <1>1 DEF Held
<1> DEFINE b0 == p + s0
<1>3. s0 \in DirSlots /\ b0 \in Kept  BY <1>1, ShownKept DEF Firsts
<1>4. d \in Disk  BY <1>1, ClearAndWriteDisk, TypeParts DEF StorageTypes
<1>5. PICK g : disk' = writeFileLength(d, fp, text.len, g)  BY SingleDisk
<1>6. \A a \in Addr : d[a] = disk[a] \/ a - ClusterBase(cluster) \in DirSlots
  BY <1>1, WrittenUnits
<1>7. \A x \in DirSlots : p + x \in Addr /\ (p + x) - ClusterBase(cluster) \notin DirSlots
  BY <1>1, ParentApart, ClusterOnDisk
<1>8. \A k \in 1..text.len :
        /\ ClusterBase(cluster) + k \in Kept
        /\ d[ClusterBase(cluster) + k] = Piece(text, k)
        /\ Piece(text, k).kind = "text"
  <2> SUFFICES ASSUME NEW k \in 1..text.len
               PROVE  /\ ClusterBase(cluster) + k \in Kept
                      /\ d[ClusterBase(cluster) + k] = Piece(text, k)
                      /\ Piece(text, k).kind = "text"
    OBVIOUS
  <2>1. k \in DirSlots  BY <1>1, Sizes DEF TextArg
  <2>2. ClusterBase(cluster) + k \in Addr /\ ClusterBase(cluster) + k \in Kept
    BY <1>1, <2>1, DataUnits
  <2> QED  BY <1>1, <2>2, WrittenText DEF Piece, Junk
<1>a. \A a \in Addr : a - ClusterBase(cluster) \in DirSlots => d[a] = Zero \/ d[a].kind = "text"
  BY <1>1, WrittenInside
<1> HIDE DEF d
<1>9. \A x \in DirSlots : d[p + x] = disk[p + x]  BY <1>6, <1>7
<1>10. LengthSlot(d, fp, g) = {s0}  BY <1>9, FoundAgain
<1>11. ASSUME NEW a \in Kept
       PROVE  /\ disk'[a] = IF a - p = s0 THEN [d[a] EXCEPT !.size = text.len] ELSE d[a]
              /\ a - p = s0 => d[a].kind = "entry"
  BY <1>1, <1>4, <1>5, <1>10, LengthUnits
<1>12. p \in Int /\ \A a \in Kept : a \in Int /\ a \in Addr
  BY <1>1, ClusterOnDisk, Sizes DEF Kept
<1>13. \A a \in Kept : a - p = s0 <=> a = b0
  <2> HIDE DEF p
  <2> QED  BY <1>3, <1>12
<1>14. disk'[b0] = [fp.rde EXCEPT !.size = text.len]
  BY <1>2, <1>3, <1>9, <1>11, <1>13
<1>15. \A k \in 1..text.len : disk'[ClusterBase(cluster) + k] = Piece(text, k)
  BY <1>8, <1>11
<1>16. ASSUME NEW a \in Kept \ {b0}
       PROVE  IF a - ClusterBase(cluster) \in DirSlots
              THEN disk'[a] = Zero \/ disk'[a].kind = "text"
              ELSE disk'[a] = disk[a]
  <2>1. disk'[a] = d[a] /\ a \in Addr  BY <1>11, <1>12, <1>13, <1>16
  <2> QED  BY <1>6, <1>a, <2>1
<1> QED  BY <1>2, <1>3, <1>14, <1>15, <1>16

(***************************************************************************)
(* Files keep what was written                                             *)
(***************************************************************************)

\* A text stays whole when the units of its cluster stay.
LEMMA WholeStays ==
  ASSUME NEW d, NEW e, NEW u, Whole(d, u),
         \A s \in DirSlots : e[ClusterBase(u.cluster) + s] = d[ClusterBase(u.cluster) + s]
  PROVE  Whole(e, u)
<1>1. PICK t \in TextArg : /\ t.len = u.size /\ t.len <= DirSize
                           /\ \A k \in 1..t.len : d[ClusterBase(u.cluster) + k] = Piece(t, k)
  BY DEF Whole
<1>2. \A k \in 1..t.len : k \in DirSlots  BY <1>1, Sizes DEF TextArg
<1>3. \A k \in 1..t.len : e[ClusterBase(u.cluster) + k] = Piece(t, k)  BY <1>1, <1>2
<1> QED  BY <1>1, <1>3 DEF Whole

LEMMA WrittenWhole ==
  ASSUME TypeInv, OwnershipInv, OpenInv, BlankInv', TidyInv, HeldInv, WholeFiles(disk),
         WriteSingle
  PROVE  WholeFiles(disk')
<1> DEFINE p == DirBase(fp.parent)
           c == cluster
<1>1. PICK s0 \in Firsts(disk, fp) :
        /\ p + s0 \in Kept /\ disk[p + s0] = fp.rde
        /\ disk'[p + s0] = [fp.rde EXCEPT !.size = text.len]
        /\ \A k \in 1..text.len : disk'[ClusterBase(c) + k] = Piece(text, k)
        /\ \A a \in Kept \ {p + s0} :
             a - ClusterBase(c) \notin DirSlots => disk'[a] = disk[a]
  BY FileWritten
<1> DEFINE b0 == p + s0
<1>2. /\ c \in Clusters /\ c >= 2 /\ Bare(disk, c) /\ c = fp.rde.cluster /\ IsFile(fp.rde)
      /\ text \in TextArg /\ text.len <= DirSize /\ fp \in File
  BY WriteHandle
<1>3. fp.rde \in Entry  BY <1>2 DEF File
<1> HIDE DEF p, c, b0
<1>4. \A a \in Kept : a \in Addr /\ a \in Int  BY Sizes DEF Kept
<1>5. ASSUME NEW a \in Kept, IsFile(disk'[a]), disk'[a].size > 0
      PROVE  Whole(disk', disk'[a])
  <2>1. CASE a = b0
    <3>1. disk'[a].cluster = c /\ disk'[a].size = text.len
      BY <1>1, <1>2, <1>3, <2>1 DEF b0, Entry
    <3> QED  BY <1>1, <1>2, <3>1 DEF Whole
  <2>2. CASE a # b0
    <3>1. Used(disk'[a])  BY <1>4, <1>5 DEF BlankInv, Vacant, FreeSlot, IsFile, Used
    <3>2. Used(disk[a])  BY <3>1, WrittenUsed
    <3>3. a - ClusterBase(c) \notin DirSlots
      <4> SUFFICES ASSUME a - ClusterBase(c) \in DirSlots PROVE FALSE  OBVIOUS
      <4>1. ClusterBase(c) + (a - ClusterBase(c)) = a  BY <1>2, <1>4, ClusterOnDisk
      <4> QED  BY <1>2, <3>2, <4>1 DEF Bare
    <3>4. disk'[a] = disk[a]  BY <1>1, <2>2, <3>3 DEF b0
    <3> DEFINE e == disk[a].cluster
    <3>5. e >= 2 /\ Bare(disk, e) /\ e \in Clusters
      <4>1. FileApart(disk[a], disk) /\ disk[a] \in Unit
        BY <1>4 DEF TidyInv, TidyVolume, TypeInv, TypeOK
      <4> QED  BY <1>5, <3>4, <4>1, EntryUnit DEF FileApart, IsFile, Entry
    <3>6. e # c
      <4>1. Owns(disk[a]) /\ Owns(disk[b0])
        BY <1>1, <1>2, <1>5, <3>4, <3>5 DEF Owns, IsFile, b0
      <4>2. Distinct(disk)  BY DEF OwnershipInv, StorageSound, Sound
      <4> QED  BY <1>1, <1>2, <2>2, <4>1, <4>2 DEF Distinct, b0
    <3> HIDE DEF e
    <3>7. ASSUME NEW s \in DirSlots
          PROVE  disk'[ClusterBase(e) + s] = disk[ClusterBase(e) + s]
      <4>1. ClusterBase(e) + s \in Kept  BY <3>5, DataUnits
      <4>2. (ClusterBase(e) + s) - ClusterBase(c) \notin DirSlots
        <5>1. DirBase(e) = ClusterBase(e) /\ e # 0  BY <3>5, BaseOfCluster
        <5> QED  BY <1>2, <3>5, <3>6, <5>1, ClustersApart
      <4>3. ClusterBase(e) + s # b0
        <5>1. Used(disk[b0])  BY <1>1 DEF Firsts, RootMatch, Used, b0, p
        <5> QED  BY <3>5, <5>1 DEF Bare
      <4> QED  BY <1>1, <4>1, <4>2, <4>3 DEF b0
    <3>8. Whole(disk, disk[a])  BY <1>5, <3>4 DEF WholeFiles
    <3> QED  BY <3>4, <3>7, <3>8, WholeStays DEF e
  <2> QED  BY <2>1, <2>2
<1> QED  BY <1>5 DEF WholeFiles

LEMMA CreatedWhole ==
  ASSUME TypeInv, TypeInv', OwnershipInv, BlankInv, TidyInv, WellBehaved, WholeFiles(disk),
         NEW n, NEW isDir \in BOOLEAN, NEW place, EntryPlaced(n, isDir, place),
         place = RootPlace \/ (place = DirPlace /\ pc = "walk")
  PROVE  WholeFiles(disk')
<1>1. PICK c0 \in Clusters :
        \/ \A a \in Addr : disk'[a] = disk[a]
        \/ \E a0 \in place \cap Addr :
             /\ ~Used(disk[a0])
             /\ disk'[a0] = NewEntry(n, isDir, c0)
             /\ \A a \in Addr \ {a0} : disk'[a] = disk[a]
  BY PlacedWhere
<1>2. disk \in Disk /\ disk' \in Disk /\ dir \in Clusters
  BY DEF TypeInv, TypeOK, Disk
<1>3. CASE \A a \in Addr : disk'[a] = disk[a]
  <2>1. disk' = disk  BY <1>2, <1>3, SameUnits
  <2> QED  BY <2>1
<1>4. ASSUME NEW a0 \in place \cap Addr, disk'[a0] = NewEntry(n, isDir, c0),
             \A a \in Addr \ {a0} : disk'[a] = disk[a],
             NEW a \in Kept, IsFile(disk'[a]), disk'[a].size > 0
      PROVE  Whole(disk', disk'[a])
  <2>1. a \in Addr  BY DEF Kept
  <2>2. a # a0  BY <1>4 DEF NewEntry
  <2>3. disk'[a] = disk[a]  BY <1>4, <2>1, <2>2
  <2> DEFINE c == disk[a].cluster
  <2>4. c \in Clusters /\ c >= 2
    <3>1. FileApart(disk[a], disk) /\ disk[a] \in Unit
      BY <2>1 DEF TidyInv, TidyVolume, TypeInv, TypeOK
    <3> QED  BY <1>4, <2>3, <3>1, EntryUnit DEF FileApart, IsFile, Entry
  <2>5. pc = "walk" /\ dir >= 2 => c # dir
    BY <1>4, <2>1, <2>3, WalkedCluster DEF TidyInv, TidyVolume
  <2>6. a0 \in RootPlace \/ (pc = "walk" /\ a0 \in DirPlace)  OBVIOUS
  <2>7. a0 \in RootPlace \cup DirPlace  BY <2>6
  <2> HIDE DEF c
  <2>8. ASSUME NEW s \in DirSlots
        PROVE  disk'[ClusterBase(c) + s] = disk[ClusterBase(c) + s]
    <3>1. ClusterBase(c) + s \in Addr  BY <2>4, DataUnits
    <3>2. ASSUME ClusterBase(c) + s = a0 PROVE FALSE
      <4>1. dir >= 2 /\ c = dir /\ a0 \in DirPlace
        BY <1>2, <2>4, <2>7, <3>2, PlaceIsElsewhere
      <4>2. a0 \notin RootPlace  BY <1>2, <4>1, RootIsNoDir
      <4> QED  BY <2>5, <2>6, <4>1, <4>2
    <3> QED  BY <1>4, <3>1, <3>2
  <2>9. Whole(disk, disk[a])  BY <1>4, <2>3 DEF WholeFiles
  <2> QED  BY <2>3, <2>8, <2>9, WholeStays DEF c
<1>5. ASSUME NEW a0 \in place \cap Addr, disk'[a0] = NewEntry(n, isDir, c0),
             \A a \in Addr \ {a0} : disk'[a] = disk[a]
      PROVE  WholeFiles(disk')
  BY <1>4, <1>5 DEF WholeFiles
<1> QED  BY <1>1, <1>3, <1>5

LEMMA WholeStep ==
  ASSUME SingleWrites, TypeInv, TypeInv', OwnershipInv, OpenInv, OpenInv', TidyInv, HeldInv,
         WellBehaved, WholeFiles(disk), [AnyNext]_vars
  PROVE  WholeFiles(disk')
<1>1. CASE UNCHANGED <<disk, fat>>  BY <1>1
<1>2. BlankInv /\ BlankInv'  BY DEF OpenInv, FirstInv
<1>3. ASSUME NEW p \in Path, NEW isDir \in BOOLEAN, fatCreateRoot(p, isDir)
      PROVE  WholeFiles(disk')
  BY <1>1, <1>2, <1>3, CreateRootDisk, CreatedWhole
<1>4. CASE fatCreateStep
  <2>1. pc = "walk" /\ isDirectory \in BOOLEAN
    BY <1>4 DEF fatCreateStep, TypeInv, TypeOK
  <2> QED  BY <1>1, <1>2, <1>4, <2>1, CreateStepDisk, CreatedWhole
<1>5. CASE WriteSingle  BY <1>2, <1>5, WrittenWhole
<1> QED  BY <1>1, <1>3, <1>4, <1>5, StoresNothing

\* The chain of a file that is not empty ends with its first cluster.
EndedFiles(d, t) == \A a \in Kept : IsFile(d[a]) /\ d[a].size > 0 => t[d[a].cluster] = EOC
DiskEnded == EndedFiles(disk, fat)

LEMMA EndedStep ==
  ASSUME SingleWrites, TypeInv, OwnershipInv, OpenInv, TidyInv, HeldInv,
         DiskEnded, [AnyNext]_vars
  PROVE  DiskEnded'
<1>1. CASE UNCHANGED <<disk, fat>>
  BY <1>1 DEF DiskEnded, EndedFiles, IsFile
<1>2. ASSUME NEW n, NEW isDir, NEW place, EntryPlaced(n, isDir, place) PROVE DiskEnded'
  <2>1. PICK u \in Entry : \E c \in NewCluster(fat, u.cluster) :
          /\ fat' = Taken(fat, c)
          /\ \A a \in Addr : disk'[a] = disk[a] \/ disk'[a] = NewEntry(n, isDir, c)
    BY <1>2 DEF EntryPlaced
  <2>2. PICK c \in NewCluster(fat, u.cluster) :
          /\ fat' = Taken(fat, c)
          /\ \A a \in Addr : disk'[a] = disk[a] \/ disk'[a] = NewEntry(n, isDir, c)
    BY <2>1
  <2>3. \A x \in Clusters : fat[x] = EOC => fat'[x] = EOC
    BY <2>2 DEF Taken, TypeInv, TypeOK, EOC
  <2>4. ASSUME NEW a \in Kept, IsFile(disk'[a]), disk'[a].size > 0
        PROVE  fat'[disk'[a].cluster] = EOC
    <3>1. a \in Addr  BY DEF Kept
    <3>2. disk'[a] = disk[a]  BY <2>2, <2>4, <3>1 DEF NewEntry
    <3>3. disk[a].cluster \in Clusters
      BY <2>4, <3>1, <3>2, EntryUnit DEF TypeInv, TypeOK, IsFile, Entry
    <3> QED  BY <2>3, <2>4, <3>2, <3>3 DEF DiskEnded, EndedFiles
  <2> QED  BY <2>4 DEF DiskEnded, EndedFiles, IsFile
<1>3. CASE fatCreateStep \/ \E p \in Path : \E isDir \in BOOLEAN : fatCreateRoot(p, isDir)
  BY <1>1, <1>2, <1>3, CreateRootDisk, CreateStepDisk
<1>4. CASE WriteSingle
  <2>1. PICK s0 \in Firsts(disk, fp) :
          LET b0 == DirBase(fp.parent) + s0
          IN  /\ disk'[b0] = [fp.rde EXCEPT !.size = text.len]
              /\ \A a \in Kept \ {b0} :
                   \/ disk'[a] = Zero \/ disk'[a].kind = "text" \/ disk'[a] = disk[a]
    BY <1>4, FileWritten
  <2>2. fat' = fat /\ fp \in File /\ fat[cluster] = EOC /\ cluster = fp.rde.cluster
    BY <1>4, SingleDisk, WriteHandle DEF WriteSingle, OwnershipInv, StorageSound
  <2>3. ASSUME NEW a \in Kept, IsFile(disk'[a]), disk'[a].size > 0
        PROVE  fat'[disk'[a].cluster] = EOC
    <3>1. CASE disk'[a] = [fp.rde EXCEPT !.size = text.len]
      BY <2>2, <3>1 DEF File, Entry
    <3>2. CASE disk'[a] = disk[a]  BY <2>2, <2>3, <3>2 DEF DiskEnded, EndedFiles
    <3> QED  BY <2>1, <2>3, <3>1, <3>2 DEF IsFile, Zero
  <2> QED  BY <2>3 DEF DiskEnded, EndedFiles, IsFile
<1> QED  BY <1>1, <1>3, <1>4, StoresNothing

\* The states the calls reach as long as the volume is used in order.
DiskWhole == WholeFiles(disk)
FilesInv == OwnershipInv /\ OpenInv /\ TidyInv /\ HeldInv /\ DiskWhole /\ DiskEnded

LEMMA FilesInit ==
  ASSUME SoundImages, BlankImages, TidyImages, WholeImages, Init
  PROVE  FilesInv
<1>1. OwnershipInv  BY InitSound
<1>2. \A a \in Addr : Vacant(disk[a])  BY DEF Init, BlankImages
<1>3. \A s \in Window : Vacant(dataEntries[s])  BY DEF Init, Vacant, Zero
<1>4. ~FileHandle /\ pc # "free"  BY DEF Init, FileHandle
<1>5. TidyVolume(disk, fat) /\ WholeFiles(disk) /\ DiskEnded
  <2>1. PICK m \in Images : disk = m.disk /\ fat = m.fat  BY DEF Init
  <2>2. ASSUME NEW a \in Kept, IsFile(disk[a]), disk[a].size > 0 PROVE Whole(disk, disk[a])
    BY <2>1, <2>2 DEF WholeImages, Whole, TextArg
  <2>3. DiskEnded  BY <2>1 DEF WholeImages, DiskEnded, EndedFiles
  <2> QED  BY <2>1, <2>2, <2>3 DEF TidyImages, WholeFiles
<1>6. \A s \in Window : FileApart(dataEntries[s], disk)
  BY DEF Init, FileApart, IsFile, Zero
<1> QED
  BY <1>1, <1>2, <1>3, <1>4, <1>5, <1>6
  DEF FilesInv, OpenInv, FirstInv, BlankInv, TidyInv, HeldInv, DiskWhole

LEMMA FilesStep ==
  ASSUME SingleWrites, Named', TypeInv, TypeInv', FilesInv, Orderly, Orderly', [AnyNext]_vars
  PROVE  FilesInv'
<1>1. OwnershipInv'  BY NextSound DEF FilesInv
<1>2. OpenInv'  BY OpenStep DEF FilesInv
<1>3. TidyInv'  BY TidyNext DEF FilesInv, Orderly
<1>4. HeldInv'  BY HeldStep DEF FilesInv
<1>5. WholeFiles(disk')  BY <1>2, WholeStep DEF FilesInv, Orderly, DiskWhole
<1>6. DiskWhole'  BY <1>5 DEF DiskWhole, WholeFiles, Whole, IsFile
<1>7. DiskEnded'  BY EndedStep DEF FilesInv
<1> QED  BY <1>1, <1>2, <1>3, <1>4, <1>6, <1>7 DEF FilesInv

LEMMA OrderlySingle == Orderly => SingleWrites
BY DEF Orderly, WellBehaved

\* Whole files are the ones FilesIntact speaks of.
LEMMA FilesAreIntact ==
  ASSUME FilesInv
  PROVE  FilesIntact
<1> SUFFICES ASSUME NEW a \in Kept, disk[a].kind = "entry",
                    disk[a].attr = "file", disk[a].size > 0
             PROVE  \E t \in {disk[ClusterBase(disk[a].cluster) + 1].text} :
                      t.len = disk[a].size /\ Holds(disk[a].cluster, t)
  BY DEF FilesIntact
<1>1. PICK t \in TextArg :
        /\ t.len = disk[a].size
        /\ \A k \in 1..t.len : disk[ClusterBase(disk[a].cluster) + k] = Piece(t, k)
  BY DEF FilesInv, DiskWhole, WholeFiles, Whole, IsFile
<1>2. t.len \in Nat /\ 1 \in 1..t.len  BY <1>1 DEF TextArg
<1>3. Piece(t, 1).text = t  BY <1>2 DEF Piece
<1>4. disk[ClusterBase(disk[a].cluster) + 1] = Piece(t, 1)  BY <1>1, <1>2
<1> QED  BY <1>1, <1>3, <1>4 DEF Holds

\* On a volume used in order, every file holds one whole text of the length its entry
\* says, whatever files and directories were made and written before and after it
\* (fat.c:661-770).
THEOREM FilesStayIntact ==
  ASSUME ShortTexts, SoundImages, BlankImages, NamedPaths, TidyImages, WholeImages
  PROVE  Spec /\ []Orderly => []FilesIntact
<1>1. Init => FilesInv  BY FilesInit
<1>2. TypeInv /\ TypeInv' /\ Named' /\ FilesInv /\ Orderly /\ Orderly' /\ [Next]_vars => FilesInv'
  BY OrderlySingle, CallsAreAny, FilesStep
<1>3. FilesInv => FilesIntact  BY FilesAreIntact
<1> QED  BY <1>1, <1>2, <1>3, TypesHold, NamesHold, PTL DEF Spec

(***************************************************************************)
(* What a write has stored                                                 *)
(***************************************************************************)

LEMMA StoredByWrite ==
  ASSUME TypeInv, TypeInv', FilesInv, WriteSingle
  PROVE  WriteStored'
<1> DEFINE p == DirBase(fp.parent)
<1> USE DEF FilesInv
<1>1. PICK s0 \in Firsts(disk, fp) :
        /\ p + s0 \in Kept /\ disk[p + s0] = fp.rde
        /\ disk'[p + s0] = [fp.rde EXCEPT !.size = text.len]
        /\ \A k \in 1..text.len : disk'[ClusterBase(cluster) + k] = Piece(text, k)
        /\ \A a \in Kept \ {p + s0} :
             a - ClusterBase(cluster) \notin DirSlots => disk'[a] = disk[a]
  BY FileWritten
<1>2. /\ fp' = fp /\ text' = text /\ fp.start = cluster /\ fp.rde \in Entry
      /\ fp.rde.cluster = cluster /\ fp.parent \in Clusters
      /\ fp.parent = 0 \/ fp.parent >= 2
  BY SingleDisk, WriteHandle DEF WriteSingle, Finish, args, File, Held
<1>3. /\ s0 \in DirSlots /\ Copied(fp.parent, s0) /\ RootMatch(disk[p + s0], fp.rde.name)
      /\ \A x \in DirSlots : x < s0 => ~RootMatch(disk[p + x], fp.rde.name)
  BY DEF Firsts
<1>4. ASSUME NEW x \in DirSlots, x < s0 PROVE disk'[p + x] = disk[p + x]
  <2>1. Copied(fp.parent, x)  BY <1>3, <1>4, Sizes DEF Copied
  <2>2. p + x \in Kept  BY <1>2, <2>1, ShownKept
  <2>3. (p + x) - ClusterBase(cluster) \notin DirSlots  BY ParentApart
  <2>4. p + x # p + s0
    <3>1. p \in Int  BY <1>2, ClusterOnDisk
    <3> HIDE DEF p
    <3> QED  BY <1>3, <1>4, <3>1, Sizes
  <2> QED  BY <1>1, <2>2, <2>3, <2>4
<1> HIDE DEF p
<1>5. RootMatch(disk'[p + s0], fp.rde.name)
  BY <1>1, <1>2, <1>3 DEF RootMatch, Entry
<1>6. s0 \in Scan({x \in DirSlots : RootMatch(disk'[p + x], fp.rde.name)})
  <2>1. \A x \in DirSlots : RootMatch(disk'[p + x], fp.rde.name) => s0 <= x
    <3> SUFFICES ASSUME NEW x \in DirSlots, RootMatch(disk'[p + x], fp.rde.name), x < s0
                 PROVE  FALSE
      BY <1>3, Sizes
    <3> QED  BY <1>3, <1>4
  <2> QED  BY <1>3, <1>5, <2>1 DEF Scan
<1>7. disk'[p + s0].size = text.len /\ disk'[p + s0].cluster = fp.start
  BY <1>1, <1>2 DEF Entry
<1>8. s0 \in Found(fp.parent, fp.rde.name)'  BY <1>2, <1>6 DEF Found, p
<1>9. Holds(fp.start, text)'  BY <1>1, <1>2 DEF Holds
<1> QED  BY <1>2, <1>7, <1>8, <1>9 DEF WriteStored, p

LEMMA StoredStep ==
  ASSUME SingleWrites, TypeInv, TypeInv', FilesInv, WriteStored, [AnyNext]_vars
  PROVE  WriteStored'
<1>1. CASE WriteSingle  BY <1>1, StoredByWrite
<1>2. CASE FreeCluster \/ WriteLinked \/ WriteLast \/ WriteWild
  BY <1>2, NoOtherWrite DEF FilesInv
<1>3. CASE UNCHANGED vars
  BY <1>3 DEF vars, WriteStored, Returned, Idle, Holds, Found
<1>4. ASSUME ~Returned("fatWrite", 0)' PROVE WriteStored'  BY <1>4 DEF WriteStored
<1>5. ASSUME NEW p \in Path, NEW isDir \in BOOLEAN,
             fatOpenRoot(p) \/ fatOpenPath(p) \/ fatCreateRoot(p, isDir) \/ fatCreatePath(p, isDir)
      PROVE  ~Returned("fatWrite", 0)'
  BY <1>5 DEF fatOpenRoot, fatOpenPath, fatCreateRoot, fatCreatePath, Begin, Returned
<1>6. ASSUME NEW t \in TextArg, clustersNeeded(t) = 1, fatWrite(t) PROVE ~Returned("fatWrite", 0)'
  BY <1>6 DEF fatWrite, Returned, Idle
<1>7. CASE fatOpenStep \/ fatCreateStep
  <2>1. op' # "fatWrite"  BY <1>7 DEF fatOpenStep, fatCreateStep, args
  <2> QED  BY <1>4, <2>1 DEF Returned
<1>8. CASE fatRead \/ ReadSingle \/ ReadLinked
  <2>1. pc' = "read" \/ ret' = 1  BY <1>8 DEF fatRead, ReadSingle, ReadLinked, Return
  <2> QED  BY <1>4, <2>1 DEF Returned, Idle
<1>9. CASE Stray \/ \E o, p, isDir : ScanAstray(o, p, isDir)
  BY <1>4, <1>9, AstrayKeeps DEF Returned, Idle
<1> QED
  BY <1>1, <1>2, <1>3, <1>4, <1>5, <1>6, <1>7, <1>8, <1>9 DEF AnyNext, AnyCall, Step, Stray

\* On a volume used in order fatWrite does what its comment says: when it returns, the
\* file has the whole text, and the entry that its name leads to has the length and
\* the cluster (fat.c:661-770).
THEOREM WritesAreStored ==
  ASSUME ShortTexts, SoundImages, BlankImages, NamedPaths, TidyImages, WholeImages
  PROVE  Spec /\ []Orderly => []WriteStored
<1> DEFINE Inv == FilesInv /\ WriteStored
<1>1. Init => Inv
  BY FilesInit DEF Init, WriteStored, Returned
<1>2. TypeInv /\ TypeInv' /\ Named' /\ Inv /\ Orderly /\ Orderly' /\ [Next]_vars => Inv'
  BY OrderlySingle, CallsAreAny, FilesStep, StoredStep
<1> QED  BY <1>1, <1>2, TypesHold, NamesHold, PTL DEF Spec

(***************************************************************************)
(* What a call has created                                                 *)
(***************************************************************************)

\* The path is one that PlainPaths allows, and so is what fatCreate was given last.
Plain(p) ==
  /\ \A k \in DOMAIN p.names : p.names[k] # <<>>
  /\ LastName(p) \notin DotNames /\ Stored(LastName(p)) = LastName(p)
  /\ Len(p.names) = 1 => ~p.abs
PlainInv == op = "fatCreate" => Plain(path)

LEMMA PlainStep ==
  ASSUME PlainPaths, PlainInv, [Next]_vars
  PROVE  PlainInv'
<1>1. ASSUME NEW p \in Paths, NEW isDir \in BOOLEAN, NEW o,
             \/ fatOpenRoot(p) \/ fatOpenPath(p) \/ fatCreateRoot(p, isDir)
             \/ fatCreatePath(p, isDir) \/ ScanAstray(o, p, isDir)
      PROVE  PlainInv'
  <2>1. path' = p
    BY <1>1 DEF fatOpenRoot, fatOpenPath, fatCreateRoot, fatCreatePath, ScanAstray, Begin
  <2>2. Plain(p)  BY DEF PlainPaths, Plain, LastName
  <2> QED  BY <2>1, <2>2 DEF PlainInv
<1>2. CASE UNCHANGED <<op, path>>  BY <1>2 DEF PlainInv
<1>3. ASSUME NEW t \in Texts, fatWrite(t) PROVE op' # "fatCreate"
  BY <1>3 DEF fatWrite, Begin
<1>4. Step \/ UNCHANGED vars => UNCHANGED <<op, path>>  BY StepKeepsCall
<1>5. fatRead => op' # "fatCreate"  BY DEF fatRead, Begin
<1> QED  BY <1>1, <1>2, <1>3, <1>4, <1>5 DEF Next, Call, PlainInv

LEMMA WholeIndex ==
  ASSUME NEW p \in Path, \A x \in DOMAIN p.names : p.names[x] # <<>>
  PROVE  subDirectIndex(p) = Len(p.names)
<1> DEFINE n == Len(p.names)
           prefix == {j \in DOMAIN p.names : \A x \in 1..j : p.names[x] # <<>>}
<1>1. p.names \in Seq(Name)  BY DEF Path
<1>2. n \in Nat /\ DOMAIN p.names = 1..n  BY <1>1
<1> HIDE DEF n
<1>3. \A j \in 1..n : \A x \in 1..j : p.names[x] # <<>>
  <2> SUFFICES ASSUME NEW j \in 1..n, NEW x \in 1..j PROVE p.names[x] # <<>>  OBVIOUS
  <2>1. x \in DOMAIN p.names  BY <1>2
  <2> QED  BY <2>1
<1>4. prefix = 1..n  BY <1>2, <1>3
<1>5. Cardinality(1..n) = n  BY <1>2, FS_Interval, SMT
<1> QED  BY <1>4, <1>5 DEF subDirectIndex, n

LEMMA WholePath ==
  ASSUME NEW p \in Path, Plain(p)
  PROVE  subDirectIndex(p) = Len(p.names)
BY WholeIndex DEF Plain

\* Such a name is stored as it stands.
LEMMA PlainStored ==
  ASSUME NEW p \in Path, Plain(p), p.names # <<>>
  PROVE  StoredName(p) = LastName(p) /\ LastName(p) = p.names[subDirectIndex(p)]
<1>1. subDirectIndex(p) = Len(p.names)  BY WholePath
<1>2. Len(p.names) \in Nat \ {0}
  <2>1. p.names \in Seq(Name)  BY DEF Path
  <2> QED  BY <2>1, EmptySeq
<1>3. NewName(p) = LastName(p)
  <2>1. CASE Len(p.names) > 1
    <3>1. NewName(p) = p.names[subDirectIndex(p)]  BY <2>1, Zenon DEF NewName
    <3> QED  BY <1>1, <3>1 DEF LastName
  <2>2. CASE ~ (Len(p.names) > 1)
    <3>1. Len(p.names) = 1
      <4> DEFINE n == Len(p.names)
      <4>1. n \in Nat \ {0} /\ ~(n > 1)  BY <1>2, <2>2
      <4> HIDE DEF n
      <4>2. n = 1  BY <4>1
      <4> QED  BY <4>2 DEF n
    <3>2. ~p.abs  BY <3>1 DEF Plain
    <3> QED  BY <2>2, <3>1, <3>2, Zenon DEF NewName, LastName
  <2> QED  BY <2>1, <2>2
<1> QED  BY <1>1, <1>3 DEF Plain, StoredName, LastName

\* The first of the slots of a directory where a name is found, after an entry of
\* that name was placed where the scan for it had stopped.
LEMMA FoundPlaced ==
  ASSUME NEW c \in Clusters, NEW n \in Name, n # <<>>, NEW s \in DirSlots, NEW x,
         x.kind = "entry", x.name = n,
         DirBase(c) + s \in Addr, disk'[DirBase(c) + s] = x,
         \A a \in Addr \ {DirBase(c) + s} : disk'[a] = disk[a],
         \A y \in DirSlots : y < s => ~RootMatch(disk[DirBase(c) + y], n)
  PROVE  s \in Found(c, n)'
<1> DEFINE b == DirBase(c)
<1>1. b \in Int /\ \A y \in DirSlots : b + y \in Addr  BY ClusterOnDisk
<1>2. RootMatch(disk'[b + s], n)  BY DEF RootMatch, SameName
<1>3. ASSUME NEW y \in DirSlots, y < s PROVE ~RootMatch(disk'[b + y], n)
  <2>1. b + y # b + s
    <3> HIDE DEF b
    <3> QED  BY <1>1, <1>3, Sizes
  <2> QED  BY <1>1, <1>3, <2>1
<1> HIDE DEF b
<1>4. \A y \in DirSlots : RootMatch(disk'[b + y], n) => s <= y
  <2> SUFFICES ASSUME NEW y \in DirSlots, RootMatch(disk'[b + y], n), y < s PROVE FALSE
    BY Sizes
  <2> QED  BY <1>3
<1>5. s \in Scan({y \in DirSlots : RootMatch(disk'[b + y], n)})  BY <1>2, <1>4 DEF Scan
<1> QED  BY <1>5 DEF Found, b

\* A new entry has a cluster of its own.
OwnCluster(a0, n, isDir) ==
  \E c \in Clusters : /\ disk'[a0] = NewEntry(n, isDir, c) /\ c # 0
                      /\ fat[c] = 0 /\ fat' = Taken(fat, c) /\ fat'[c] = EOC

LEMMA PutCluster ==
  ASSUME TypeInv, OwnershipInv, BlankInv, WellBehaved',
         NEW a0, NEW n \in Name, n \notin DotNames, NEW isDir, PutEntry(a0, n, isDir)
  PROVE  OwnCluster(a0, n, isDir)
<1>1. PICK c \in NewCluster(fat, disk[a0].cluster) :
        fat' = Taken(fat, c) /\ disk'[a0] = NewEntry(n, isDir, c)
  BY DEF PutEntry
<1>2. a0 \in Addr /\ FreeSlot(disk[a0])  BY DEF PutEntry
<1>3. disk[a0].cluster = 0  BY <1>2 DEF BlankInv, Vacant
<1>4. c \in Clusters /\ (c = 0 \/ fat[c] = 0)
  BY <1>3, SizeAssumption DEF NewCluster, Scan, unallocated
<1>5. c # 0
  <2>1. IsFile(disk'[a0]) \/ IsDir(disk'[a0])  BY <1>1 DEF IsFile, IsDir, NewEntry
  <2> QED  BY <1>1, <1>2, <2>1 DEF WellBehaved, NewEntry
<1>6. fat'[c] = EOC  BY <1>1, <1>4, <1>5 DEF Taken, TypeInv, TypeOK
<1> QED  BY <1>1, <1>4, <1>5, <1>6 DEF OwnCluster

\* An entry made in the root is among those read as a cluster.
LEMMA PutShort ==
  ASSUME TypeInv, RootShort', NEW n \in Name, n # <<>>, NEW isDir \in BOOLEAN,
         NEW s \in PlaceInRoot(LoadRoot(disk), n), PutEntry(s - RootSize, n, isDir)
  PROVE  s <= RootRead /\ s \in DirSlots
<1>1. /\ s \in Slots
      /\ \A x \in Slots : RootMatch(LoadRoot(disk)[x], n) => s <= x
  BY DEF PlaceInRoot, Scan
<1>2. s <= RootRead
  <2> SUFFICES ASSUME s > RootRead PROVE FALSE  BY <1>1, Sizes
  <2>1. /\ s - RootSize \in Addr /\ disk'[s - RootSize].kind = "entry"
        /\ disk'[s - RootSize].name = n
    BY DEF PutEntry, NewEntry
  <2>2. Used(disk'[s - RootSize])  BY <2>1 DEF Used
  <2>3. PICK x \in 1..RootRead :
          disk'[x - RootSize].kind = "entry" /\ disk'[x - RootSize].name = n
    <3>1. \E x \in 1..RootRead :
            LET u == disk'[x - RootSize]
            IN  u.kind = "entry" /\ u.name = disk'[s - RootSize].name
      BY <1>1, <2>2 DEF RootShort, Used
    <3> QED  BY <2>1, <3>1
  <2>4. x \in Slots /\ x < s /\ x - RootSize \in Addr /\ x - RootSize # s - RootSize
    BY <1>1, Sizes, SizeAssumption
  <2>5. disk'[x - RootSize] = disk[x - RootSize]  BY <2>4 DEF PutEntry
  <2>6. RootMatch(LoadRoot(disk)[x], n)
    BY <2>3, <2>4, <2>5 DEF LoadRoot, RootMatch, SameName
  <2> QED  BY <1>1, <2>4, <2>6
<1> QED  BY <1>1, <1>2, Sizes, SizeAssumption

\* What fatCreate puts on the disk, below the root and in it.
LEMMA RootEntry ==
  ASSUME TypeInv, OwnershipInv, RootShort', NEW p \in Path, Plain(p),
         NEW isDir \in BOOLEAN, fatCreateRoot(p, isDir)
  PROVE  \/ UNCHANGED <<disk, fat>> /\ (pc' = "fault" \/ ret' = 1)
         \/ \E s \in DirSlots :
              /\ s <= RootRead
              /\ PutEntry(DirBase(0) + s, p.names[1], isDir)
              /\ \A y \in DirSlots : y < s => ~RootMatch(disk[DirBase(0) + y], p.names[1])
<1> DEFINE n == p.names[1]
<1>1. Len(p.names) = 1 /\ p.names \in Seq(Name)
  BY DEF fatCreateRoot, Path
<1>2. n \in Name /\ n # <<>> /\ StoredName(p) = n
  BY <1>1, PlainStored DEF Plain, LastName
<1> HIDE DEF n
<1>3. DirBase(0) = -RootSize  BY DEF DirBase
<1>4. ASSUME NEW s \in PlaceInRoot(LoadRoot(disk), n), PutEntry(s - RootSize, n, isDir)
      PROVE  \E x \in DirSlots :
               /\ x <= RootRead /\ PutEntry(DirBase(0) + x, n, isDir)
               /\ \A y \in DirSlots : y < x => ~RootMatch(disk[DirBase(0) + y], n)
  <2>1. s <= RootRead /\ s \in DirSlots  BY <1>2, <1>4, PutShort
  <2>2. DirBase(0) + s = s - RootSize  BY <1>3, <2>1, Sizes
  <2>3. \A x \in Slots : RootMatch(LoadRoot(disk)[x], n) => s <= x
    BY DEF PlaceInRoot, Scan
  <2>4. ASSUME NEW y \in DirSlots, y < s PROVE ~RootMatch(disk[DirBase(0) + y], n)
    <3>1. y \in Slots /\ DirBase(0) + y = y - RootSize  BY <1>3, Sizes, SizeAssumption
    <3>2. LoadRoot(disk)[y] = disk[DirBase(0) + y]  BY <3>1 DEF LoadRoot
    <3>3. ~ (s <= y)  BY <2>1, <2>4, Sizes
    <3> QED  BY <2>3, <3>1, <3>2, <3>3
  <2> QED  BY <1>4, <2>1, <2>2, <2>4
<1> QED  BY <1>2, <1>4, CreateRootDisk DEF n

LEMMA DirEntry ==
  ASSUME TypeInv, OwnershipInv, dir >= 2, Plain(path), fatCreateStep
  PROVE  \/ UNCHANGED <<disk, fat>> /\ (pc' = "walk" \/ ret' # 0)
         \/ /\ depth = subDirectIndex(path)
            /\ \E s \in DirSlots :
                 /\ PutEntry(DirBase(dir) + s, path.names[depth], isDirectory)
                 /\ \A y \in DirSlots :
                      y < s => ~RootMatch(disk[DirBase(dir) + y], path.names[depth])
<1> DEFINE entries == readFromCluster(disk, dir, dataEntries)
           n == path.names[depth]
<1>1. dir # 0 /\ \A y \in DirSlots : entries[y] = disk[DirBase(dir) + y]
  BY DEF readFromCluster
<1> HIDE DEF entries, n
<1>2. ASSUME NEW s \in PlaceInDir(entries, n), PutEntry(DirBase(dir) + s, n, isDirectory)
      PROVE  \E x \in DirSlots :
               /\ PutEntry(DirBase(dir) + x, n, isDirectory)
               /\ \A y \in DirSlots : y < x => ~RootMatch(disk[DirBase(dir) + y], n)
  <2>1. s \in DirSlots /\ \A x \in DirSlots : DirMatch(entries[x], n) => s <= x
    BY DEF PlaceInDir, Scan
  <2>2. ASSUME NEW y \in DirSlots, y < s PROVE ~RootMatch(disk[DirBase(dir) + y], n)
    <3>1. ~ (s <= y)  BY <2>1, <2>2, Sizes
    <3> QED  BY <1>1, <2>1, <3>1 DEF RootMatch, DirMatch
  <2> QED  BY <1>2, <2>1, <2>2
<1>3. depth = subDirectIndex(path) => StoredName(path) = n
  <2>1. path \in Path /\ depth \in Nat \ {0}
    BY DEF fatCreateStep, TypeInv, TypeOK
  <2>2. subDirectIndex(path) = Len(path.names)  BY <2>1, WholePath
  <2>3. depth = subDirectIndex(path) => path.names # <<>>  BY <2>1, <2>2
  <2> QED  BY <2>1, <2>3, PlainStored DEF n
<1> QED  BY <1>2, <1>3, CreateStepDisk DEF entries, n

LEMMA FoundAfter ==
  ASSUME NEW c \in Clusters, NEW n \in Name, n # <<>>, NEW isDir, NEW k, NEW s \in DirSlots,
         NEW b, b = DirBase(c) + s, PutEntry(b, n, isDir), disk'[b] = NewEntry(n, isDir, k),
         \A y \in DirSlots : y < s => ~RootMatch(disk[DirBase(c) + y], n)
  PROVE  s \in Found(c, n)'
<1> DEFINE x == NewEntry(n, isDir, k)
<1>1. x.kind = "entry" /\ x.name = n  BY DEF NewEntry
<1>2. b \in Addr /\ disk'[b] = x /\ \A a \in Addr \ {b} : disk'[a] = disk[a]
  BY DEF PutEntry
<1> HIDE DEF x
<1> QED  BY <1>1, <1>2, FoundPlaced

LEMMA ThereAfter ==
  ASSUME NEW n, NEW isDir, NEW k, NEW s, NEW b, b = DirBase(dir') + s,
         disk'[b] = NewEntry(n, isDir, k), k # 0, fat'[k] = EOC, s \in Found(dir, n)',
         LastName(path') = n, isDirectory' = isDir
  PROVE  CreatedIsThere'
<1>1. disk'[DirBase(dir') + s] = NewEntry(n, isDir, k)  OBVIOUS
<1>2. s \in Found(dir, LastName(path))'  BY DEF Found
<1>3. \E x \in Found(dir, LastName(path))' :
        LET e == disk'[DirBase(dir') + x]
        IN  /\ e.name = LastName(path')
            /\ e.attr = (IF isDirectory' THEN "dir" ELSE "file")
            /\ e.size = 0 /\ e.cluster # 0 /\ fat'[e.cluster] = EOC
  BY <1>1, <1>2 DEF NewEntry
<1> QED  BY <1>3 DEF CreatedIsThere, LastName

LEMMA CreatedStep ==
  ASSUME SingleWrites, PlainInv', TypeInv, OwnershipInv, OpenInv, Orderly, Orderly',
         CreatedIsThere, [AnyNext]_vars
  PROVE  CreatedIsThere'
<1>0. BlankInv  BY DEF OpenInv, FirstInv
<1>1. ASSUME ~Returned("fatCreate", 0)' PROVE CreatedIsThere'  BY <1>1 DEF CreatedIsThere
<1>2. ASSUME NEW p \in Path, NEW isDir \in BOOLEAN, fatCreateRoot(p, isDir)
      PROVE  CreatedIsThere'
  <2> DEFINE n == p.names[1]
  <2>1. /\ Len(p.names) = 1 /\ p.names \in Seq(Name)
        /\ dir' = 0 /\ path' = p /\ isDirectory' = isDir /\ Plain(p)
    BY <1>2 DEF fatCreateRoot, Path, Begin, PlainInv
  <2>2. /\ n \in Name /\ n # <<>> /\ n \notin DotNames /\ 0 \in Clusters
        /\ n = LastName(path')
    BY <2>1, SizeAssumption DEF Plain, LastName
  <2>3. RootShort' /\ WellBehaved'  BY DEF Orderly
  <2>4. \/ pc' = "fault" \/ ret' = 1
        \/ \E s \in DirSlots :
             /\ PutEntry(DirBase(0) + s, n, isDir)
             /\ \A y \in DirSlots : y < s => ~RootMatch(disk[DirBase(0) + y], n)
    BY <1>2, <2>1, <2>3, RootEntry
  <2> HIDE DEF n
  <2>5. CASE pc' = "fault" \/ ret' = 1  BY <1>1, <2>5 DEF Returned, Idle
  <2>6. ASSUME NEW s \in DirSlots, NEW b, b = DirBase(0) + s, PutEntry(b, n, isDir),
               \A y \in DirSlots : y < s => ~RootMatch(disk[DirBase(0) + y], n)
        PROVE  CreatedIsThere'
    <3>1. PICK k \in Clusters : disk'[b] = NewEntry(n, isDir, k) /\ k # 0 /\ fat'[k] = EOC
      <4>1. PutEntry(b, n, isDir)  BY <2>6
      <4>2. n \in Name /\ n \notin DotNames  BY <2>2
      <4>3. OwnCluster(b, n, isDir)  BY <1>0, <2>3, <4>1, <4>2, PutCluster
      <4> QED  BY <4>3 DEF OwnCluster
    <3>2. s \in Found(0, n)'  BY <2>2, <2>6, <3>1, FoundAfter
    <3>3. s \in Found(dir, n)'  BY <2>1, <3>2 DEF Found
    <3> QED  BY <2>1, <2>2, <2>6, <3>1, <3>3, ThereAfter
  <2> QED  BY <2>4, <2>5, <2>6
<1>3. CASE fatCreateStep
  <2> DEFINE n == path.names[depth]
  <2>1. /\ pc = "walk" /\ depth \in Nat \ {0} /\ dir >= 2 /\ dir \in Clusters
        /\ path \in Path /\ Plain(path) /\ isDirectory \in BOOLEAN /\ WellBehaved'
    BY <1>3 DEF fatCreateStep, args, TypeInv, TypeOK, PlainInv, Orderly
  <2>2. \/ pc' = "walk" \/ ret' # 0
        \/ /\ depth = subDirectIndex(path)
           /\ \E s \in DirSlots :
                /\ PutEntry(DirBase(dir) + s, n, isDirectory)
                /\ \A y \in DirSlots : y < s => ~RootMatch(disk[DirBase(dir) + y], n)
    BY <1>3, <2>1, DirEntry
  <2>3. path' = path /\ isDirectory' = isDirectory  BY <1>3 DEF fatCreateStep, args
  <2>4. CASE pc' = "walk" \/ ret' # 0  BY <1>1, <2>4 DEF Returned, Idle
  <2>5. ASSUME pc' # "walk", depth = subDirectIndex(path), NEW s \in DirSlots,
               NEW c \in Clusters, c = dir, NEW e \in BOOLEAN, e = isDirectory,
               NEW m, m = n, NEW b, b = DirBase(c) + s, PutEntry(b, m, e),
               \A y \in DirSlots : y < s => ~RootMatch(disk[DirBase(c) + y], m)
        PROVE  CreatedIsThere'
    <3>1. depth = Len(path.names)  BY <2>1, <2>5, WholePath
    <3>2. path.names \in Seq(Name)  BY <2>1 DEF Path
    <3>3. m \in Name /\ m # <<>> /\ m \notin DotNames /\ m = LastName(path')
      BY <2>1, <2>3, <2>5, <3>1, <3>2 DEF Plain, LastName
    <3>4. dir' = c  BY <1>3, <2>5 DEF fatCreateStep, Fail, Descend
    <3> HIDE DEF n
    <3>5. PICK k \in Clusters : disk'[b] = NewEntry(m, e, k) /\ k # 0 /\ fat'[k] = EOC
      <4>1. PutEntry(b, m, e)  BY <2>5
      <4>2. m \in Name /\ m \notin DotNames  BY <3>3
      <4>3. WellBehaved'  BY <2>1
      <4>4. OwnCluster(b, m, e)  BY <1>0, <4>1, <4>2, <4>3, PutCluster
      <4> QED  BY <4>4 DEF OwnCluster
    <3>6. s \in Found(c, m)'  BY <2>5, <3>3, <3>5, FoundAfter
    <3>7. s \in Found(dir, m)'  BY <3>4, <3>6 DEF Found
    <3> QED  BY <2>3, <2>5, <3>3, <3>4, <3>5, <3>7, ThereAfter
  <2> QED  BY <2>1, <2>2, <2>4, <2>5
<1>4. CASE UNCHANGED vars
  BY <1>4 DEF vars, CreatedIsThere, Returned, Idle, Found
<1>5. ASSUME NEW p \in Path, fatOpenRoot(p) \/ fatOpenPath(p)
      PROVE  ~Returned("fatCreate", 0)'
  BY <1>5 DEF fatOpenRoot, fatOpenPath, Begin, Returned
<1>6. ASSUME NEW p \in Path, NEW isDir \in BOOLEAN, fatCreatePath(p, isDir)
      PROVE  ~Returned("fatCreate", 0)'
  BY <1>6 DEF fatCreatePath, StartWalk, Fail, Return, Returned, Idle
<1>7. ASSUME NEW t \in TextArg, clustersNeeded(t) = 1, fatWrite(t) PROVE ~Returned("fatCreate", 0)'
  BY <1>7 DEF fatWrite, Returned, Idle
<1>8. CASE fatOpenStep
  BY <1>1, <1>8 DEF fatOpenStep, args, Returned
<1>9. CASE FreeCluster \/ WriteSingle \/ WriteLinked \/ WriteLast \/ WriteWild
  <2>1. WriteSingle /\ op = "fatWrite"  BY <1>9, NoOtherWrite DEF WriteSingle, OpenInv
  <2>2. op' = op  BY <2>1 DEF WriteSingle, Finish, args
  <2> QED  BY <1>1, <2>1, <2>2 DEF Returned
<1>10. CASE fatRead \/ ReadSingle \/ ReadLinked
  <2>1. pc' = "read" \/ ret' = 1  BY <1>10 DEF fatRead, ReadSingle, ReadLinked, Return
  <2> QED  BY <1>1, <2>1 DEF Returned, Idle
<1>12. CASE Stray \/ \E o, p, isDir : ScanAstray(o, p, isDir)
  BY <1>1, <1>12, AstrayKeeps DEF Returned, Idle
<1>11. CASE AnyCall
  <2>1. ASSUME NEW p \in Path, fatOpenRoot(p) \/ fatOpenPath(p) PROVE CreatedIsThere'
    BY <1>1, <1>5, <2>1
  <2>2. ASSUME NEW p \in Path, NEW isDir \in BOOLEAN, fatCreatePath(p, isDir)
        PROVE  CreatedIsThere'
    BY <1>1, <1>6, <2>2
  <2>3. ASSUME NEW t \in TextArg, clustersNeeded(t) = 1, fatWrite(t) PROVE CreatedIsThere'
    BY <1>1, <1>7, <2>3
  <2> QED  BY <1>2, <1>10, <1>11, <1>12, <2>1, <2>2, <2>3 DEF AnyCall
<1> QED  BY <1>3, <1>4, <1>8, <1>9, <1>10, <1>11, <1>12 DEF AnyNext, Step, Stray

\* On a volume used in order fatCreate does what its comment says: the path it was
\* given then leads to a new, empty file or directory, which has a cluster of its own
\* (fat.c:240-530).
THEOREM NewFilesAreThere ==
  ASSUME ShortTexts, SoundImages, BlankImages, NamedPaths, TidyImages, WholeImages, PlainPaths
  PROVE  Spec /\ []Orderly => []CreatedIsThere
<1> DEFINE Inv == FilesInv /\ PlainInv /\ CreatedIsThere
<1>1. Init => Inv
  BY FilesInit DEF Init, PlainInv, CreatedIsThere, Returned
<1>2. TypeInv /\ TypeInv' /\ Named' /\ Inv /\ Orderly /\ Orderly' /\ [Next]_vars => Inv'
  BY OrderlySingle, CallsAreAny, FilesStep, PlainStep, CreatedStep DEF FilesInv
<1> QED  BY <1>1, <1>2, TypesHold, NamesHold, PTL DEF Spec

(***************************************************************************)
(* Clusters that are nobody's                                              *)
(***************************************************************************)

LostInv == LostNone(disk, fat)

LEMMA OwnerStays ==
  ASSUME SingleWrites, TypeInv, OwnershipInv, OpenInv, TidyInv, [AnyNext]_vars,
         NEW a \in Kept, Owns(disk[a])
  PROVE  Owns(disk'[a]) /\ disk'[a].cluster = disk[a].cluster
<1>1. disk[a] \in Unit /\ Vacant(disk[a])
  BY DEF TypeInv, TypeOK, Kept, OpenInv, FirstInv, BlankInv
<1>2. Used(disk[a])  BY <1>1 DEF Owns, Vacant, FreeSlot, Used
<1>3. Resized(disk[a], disk'[a])  BY <1>2, EntryStays
<1>4. /\ disk'[a].kind = "entry" /\ disk'[a].name = disk[a].name
      /\ disk'[a].attr = disk[a].attr /\ disk'[a].cluster = disk[a].cluster
  BY <1>1, <1>3, ResizedKind DEF Owns
<1> QED  BY <1>4 DEF Owns

\* The cluster that fatCreate takes is the new entry's, and no pointer to another
\* goes: the cluster taken was free.
LEMMA LostPut ==
  ASSUME SingleWrites, TypeInv, OwnershipInv, OpenInv, TidyInv, WellBehaved', LostInv,
         [AnyNext]_vars, NEW a0 \in Kept, NEW n \in Name, n \notin DotNames, NEW isDir,
         PutEntry(a0, n, isDir)
  PROVE  LostInv'
<1>1. BlankInv  BY DEF OpenInv, FirstInv
<1>2. PICK k \in Clusters : /\ disk'[a0] = NewEntry(n, isDir, k) /\ k # 0
                            /\ fat[k] = 0 /\ fat' = Taken(fat, k) /\ fat'[k] = EOC
  <2>1. OwnCluster(a0, n, isDir)  BY <1>1, PutCluster
  <2> QED  BY <2>1 DEF OwnCluster
<1>3. fat \in [Clusters -> FatValue]  BY DEF TypeInv, TypeOK
<1>4. \A x \in Clusters : x # k => fat'[x] = fat[x]  BY <1>2, <1>3 DEF Taken
<1>5. Owns(disk'[a0]) /\ disk'[a0].cluster = k
  BY <1>2 DEF NewEntry, Owns
<1> SUFFICES ASSUME NEW c \in Clusters \ {0, 1}, fat'[c] # 0
             PROVE  \/ \E a \in Kept : Owns(disk'[a]) /\ disk'[a].cluster = c
                    \/ \E x \in Clusters : fat'[x] = c
  BY DEF LostInv, LostNone
<1>6. CASE c = k  BY <1>5, <1>6
<1>7. CASE c # k
  <2>1. fat[c] # 0  BY <1>4, <1>7
  <2>2. \/ \E a \in Kept : Owns(disk[a]) /\ disk[a].cluster = c
        \/ \E x \in Clusters : fat[x] = c
    BY <2>1 DEF LostInv, LostNone
  <2>3. ASSUME NEW a \in Kept, Owns(disk[a]), disk[a].cluster = c
        PROVE  \E b \in Kept : Owns(disk'[b]) /\ disk'[b].cluster = c
    BY <2>3, OwnerStays
  <2>4. ASSUME NEW x \in Clusters, fat[x] = c PROVE fat'[x] = c
    <3>1. x # k  BY <1>2, <2>4
    <3> QED  BY <1>4, <2>4, <3>1
  <2> QED  BY <2>2, <2>3, <2>4
<1> QED  BY <1>6, <1>7

LEMMA LostStep ==
  ASSUME SingleWrites, PlainInv', TypeInv, OwnershipInv, OpenInv, TidyInv, LostInv,
         Orderly, Orderly', [AnyNext]_vars
  PROVE  LostInv'
<1>1. CASE UNCHANGED <<disk, fat>>
  BY <1>1 DEF LostInv, LostNone
<1>2. WellBehaved' /\ RootShort'  BY DEF Orderly
<1>3. ASSUME NEW p \in Path, NEW isDir \in BOOLEAN, fatCreateRoot(p, isDir)
      PROVE  LostInv'
  <2> DEFINE n == p.names[1]
  <2>1. Len(p.names) = 1 /\ p.names \in Seq(Name) /\ Plain(p)
    BY <1>3 DEF fatCreateRoot, Begin, Path, PlainInv
  <2>2. n \in Name /\ n \notin DotNames  BY <2>1 DEF Plain, LastName
  <2>3. \/ UNCHANGED <<disk, fat>>
        \/ \E s \in DirSlots : s <= RootRead /\ PutEntry(DirBase(0) + s, n, isDir)
    BY <1>2, <1>3, <2>1, RootEntry
  <2> HIDE DEF n
  <2>4. ASSUME NEW s \in DirSlots, s <= RootRead, NEW b, b = DirBase(0) + s,
               PutEntry(b, n, isDir)
        PROVE  LostInv'
    <3>1. b \in Kept
      <4>1. b \in Addr  BY <2>4 DEF PutEntry
      <4>2. b + RootSize = s  BY <2>4, Sizes DEF DirBase
      <4> QED  BY <2>4, <4>1, <4>2, Sizes DEF Kept
    <3>2. PutEntry(b, n, isDir)  BY <2>4
    <3> QED  BY <1>2, <2>2, <3>1, <3>2, LostPut
  <2> QED  BY <1>1, <2>3, <2>4
<1>4. CASE fatCreateStep
  <2> DEFINE n == path.names[depth]
  <2>1. /\ pc = "walk" /\ dir >= 2 /\ dir \in Clusters /\ path \in Path /\ Plain(path)
        /\ depth \in Nat \ {0}
    BY <1>4 DEF fatCreateStep, args, TypeInv, TypeOK, PlainInv, Orderly
  <2>2. \/ UNCHANGED <<disk, fat>>
        \/ /\ depth = subDirectIndex(path)
           /\ \E s \in DirSlots : PutEntry(DirBase(dir) + s, n, isDirectory)
    BY <1>4, <2>1, DirEntry
  <2>3. ASSUME depth = subDirectIndex(path), NEW s \in DirSlots,
               NEW e, e = isDirectory, NEW m, m = n, NEW b, b = DirBase(dir) + s,
               PutEntry(b, m, e)
        PROVE  LostInv'
    <3>1. depth = Len(path.names)  BY <2>1, <2>3, WholePath
    <3>2. path.names \in Seq(Name)  BY <2>1 DEF Path
    <3>3. m \in Name /\ m \notin DotNames
      BY <2>1, <2>3, <3>1, <3>2 DEF Plain, LastName
    <3>4. b \in Kept
      <4>1. DirBase(dir) = ClusterBase(dir)  BY <2>1, BaseOfCluster
      <4> QED  BY <2>1, <2>3, <4>1, DataUnits
    <3>5. PutEntry(b, m, e)  BY <2>3
    <3> QED  BY <1>2, <3>3, <3>4, <3>5, LostPut
  <2> HIDE DEF n
  <2> QED  BY <1>1, <2>2, <2>3
<1>5. CASE WriteSingle
  <2>1. fat' = fat  BY <1>5, SingleDisk
  <2> SUFFICES ASSUME NEW c \in Clusters \ {0, 1}, fat'[c] # 0
               PROVE  \/ \E a \in Kept : Owns(disk'[a]) /\ disk'[a].cluster = c
                      \/ \E x \in Clusters : fat'[x] = c
    BY DEF LostInv, LostNone
  <2>2. \/ \E a \in Kept : Owns(disk[a]) /\ disk[a].cluster = c
        \/ \E x \in Clusters : fat[x] = c
    BY <2>1 DEF LostInv, LostNone
  <2> QED  BY <2>1, <2>2, OwnerStays
<1> QED  BY <1>1, <1>3, <1>4, <1>5, StoresNothing

\* On a volume used in order no cluster is lost: each that is allocated is an entry's
\* or the next of another, also while a call is under way, as fatCreate takes a cluster
\* in the step that stores the entry (fat.c:406-530).
THEOREM NothingLost ==
  ASSUME ShortTexts, SoundImages, BlankImages, NamedPaths, TidyImages, WholeImages,
         PlainPaths, LostImages
  PROVE  Spec /\ []Orderly => []NoClusterLost
<1> DEFINE Inv == FilesInv /\ PlainInv /\ LostInv
<1>1. Init => Inv
  BY FilesInit DEF Init, PlainInv, LostImages, LostInv
<1>2. TypeInv /\ TypeInv' /\ Named' /\ Inv /\ Orderly /\ Orderly' /\ [Next]_vars => Inv'
  BY OrderlySingle, CallsAreAny, FilesStep, PlainStep, LostStep DEF FilesInv
<1>3. Inv => NoClusterLost
  BY DEF LostInv, LostNone, NoClusterLost, Owner, Kept
<1> QED  BY <1>1, <1>2, <1>3, TypesHold, NamesHold, PTL DEF Spec

(***************************************************************************)
(* What a read copies                                                      *)
(***************************************************************************)

\* A text that is not empty is named by its first piece.
LEMMA SpreadStart ==
  ASSUME NEW u, NEW d, NEW t, NEW n \in 1..FatSize, NEW q, NEW x,
         Spread(u, d, t, n, q, x), u.size > 0
  PROVE  d[ClusterBase(u.cluster) + 1].text = x
<1>1. x.len \in Nat /\ x.len > 0 /\ q[1] = u.cluster  BY DEF Spread
<1>2. 1 \in 1..n /\ 1 \in DirSlots /\ (1 - 1) * DirSize + 1 = 1  BY SizeAssumption
<1>3. d[ClusterBase(q[1]) + 1] = Piece(x, 1)
  <2>1. (1 - 1) * DirSize + 1 <= x.len  BY <1>1, <1>2
  <2> QED  BY <1>2, <2>1 DEF Spread
<1>4. Piece(x, 1).text = x  BY <1>1 DEF Piece
<1> QED  BY <1>1, <1>3, <1>4

LEMMA SealedIs ==
  ASSUME NEW u, NEW d, NEW t, u.kind = "entry", u.attr = "none", u.size > 0
  PROVE  Sealed(u, d, t) <=>
           \E n \in 1..FatSize : \E q \in [1..n -> Clusters] : \E x :
             Spread(u, d, t, n, q, x) /\ Apart(d, n, q)
BY SpreadStart DEF Sealed

\* What a step leaves of the FAT and the disk, so that no write gets at sealed texts.
Steady ==
  /\ \A c \in Clusters : c >= 2 /\ fat[c] # 0 => fat'[c] = fat[c]
  /\ \A c \in Clusters :
       c >= 2 /\ (\A a \in Kept : IsFile(disk[a]) => disk[a].cluster # c) =>
         \A s \in DirSlots :
           LET a == ClusterBase(c) + s IN disk[a].kind = "text" => disk'[a] = disk[a]
  /\ \A a \in Kept : IsFile(disk'[a]) =>
       \/ fat[disk'[a].cluster] = 0
       \/ \E b \in Kept : IsFile(disk[b]) /\ disk[b].cluster = disk'[a].cluster
  /\ \A a \in Kept : \/ disk'[a] = disk[a] \/ disk'[a] = Zero
                     \/ disk'[a].kind = "text" \/ disk'[a].attr # "none"

LEMMA SealedStays ==
  ASSUME NEW u, Sealed(u, disk, fat), Steady
  PROVE  Sealed(u, disk', fat')
<1> SUFFICES ASSUME u.kind = "entry", u.attr = "none", u.size > 0
             PROVE  \E n \in 1..FatSize : \E q \in [1..n -> Clusters] : \E x :
                      Spread(u, disk', fat', n, q, x) /\ Apart(disk', n, q)
  BY SealedIs DEF Sealed
<1>1. PICK n \in 1..FatSize : \E q \in [1..n -> Clusters] : \E x :
             Spread(u, disk, fat, n, q, x) /\ Apart(disk, n, q)
  BY SealedIs
<1>2. PICK q \in [1..n -> Clusters] : \E x :
             Spread(u, disk, fat, n, q, x) /\ Apart(disk, n, q)
  BY <1>1
<1>3. PICK x : Spread(u, disk, fat, n, q, x) /\ Apart(disk, n, q)  BY <1>2
<1>4. ASSUME NEW k \in 1..n
      PROVE  /\ q[k] \in Clusters /\ q[k] >= 2 /\ fat[q[k]] # 0 /\ fat'[q[k]] = fat[q[k]]
             /\ \A a \in Kept : IsFile(disk[a]) => disk[a].cluster # q[k]
  <2>1. q[k] \in Clusters /\ q[k] >= 2 /\ fat[q[k]] = (IF k = n THEN EOC ELSE q[k + 1])
    BY <1>3 DEF Spread
  <2>2. fat[q[k]] # 0
    <3>1. k # n => k + 1 \in 1..n  OBVIOUS
    <3>2. k # n => q[k + 1] >= 2  BY <1>3, <3>1 DEF Spread
    <3> QED  BY <2>1, <3>2, EocIsNotFree
  <2>3. fat'[q[k]] = fat[q[k]]  BY <2>1, <2>2 DEF Steady
  <2> QED  BY <1>3, <2>1, <2>2, <2>3 DEF Apart
<1>5. ASSUME NEW k \in 1..n, NEW s \in DirSlots, (k - 1) * DirSize + s <= x.len
      PROVE  disk'[ClusterBase(q[k]) + s] = Piece(x, (k - 1) * DirSize + s)
  <2>1. disk[ClusterBase(q[k]) + s] = Piece(x, (k - 1) * DirSize + s)
    BY <1>3, <1>5 DEF Spread
  <2>2. disk[ClusterBase(q[k]) + s].kind = "text"  BY <2>1 DEF Piece, Junk
  <2>3. disk'[ClusterBase(q[k]) + s] = disk[ClusterBase(q[k]) + s]
    BY <1>4, <2>2 DEF Steady
  <2> QED  BY <2>1, <2>3
<1>6. Spread(u, disk', fat', n, q, x)  BY <1>3, <1>4, <1>5 DEF Spread
<1>7. ASSUME NEW k \in 1..n, NEW a \in Kept, IsFile(disk'[a]) PROVE disk'[a].cluster # q[k]
  BY <1>4, <1>7 DEF Steady
<1> QED  BY <1>6, <1>7 DEF Apart

\* A new entry takes a free cluster and a slot that holds no text.
LEMMA CreatedSteady ==
  ASSUME TypeInv, OwnershipInv, BlankInv, WellBehaved', NEW n, NEW isDir \in BOOLEAN,
         NEW place, EntryPlaced(n, isDir, place)
  PROVE  Steady
<1>1. PICK u \in Entry : \E c \in NewCluster(fat, u.cluster) :
        /\ FreeSlot(u)
        /\ fat' = Taken(fat, c)
        /\ \/ \A a \in Addr : disk'[a] = disk[a]
           \/ \E a0 \in place \cap Addr :
                /\ u = disk[a0] /\ disk'[a0] = NewEntry(n, isDir, c)
                /\ \A a \in Addr \ {a0} : disk'[a] = disk[a]
  BY DEF EntryPlaced
<1>2. PICK c \in NewCluster(fat, u.cluster) :
        /\ fat' = Taken(fat, c)
        /\ \/ \A a \in Addr : disk'[a] = disk[a]
           \/ \E a0 \in Addr :
                /\ u = disk[a0] /\ disk'[a0] = NewEntry(n, isDir, c)
                /\ \A a \in Addr \ {a0} : disk'[a] = disk[a]
  BY <1>1
<1>3. FreeSlot(u) /\ u.cluster \in Clusters  BY <1>1 DEF Entry
<1>4. c \in Clusters /\ (c = u.cluster \/ fat[c] = 0)
  BY <1>3 DEF NewCluster, Scan, unallocated
<1>5. fat \in [Clusters -> FatValue]  BY DEF TypeInv, TypeOK
<1>6. \A x \in Clusters : fat[x] # 0 => fat'[x] = fat[x]  BY <1>2, <1>4, <1>5 DEF Taken
<1>7. \A x \in Clusters : x >= 2 => \A s \in DirSlots : ClusterBase(x) + s \in Addr
  BY DataUnits
<1>8. \A a \in Kept : a \in Addr  BY DEF Kept
<1>9. CASE \A a \in Addr : disk'[a] = disk[a]
  BY <1>6, <1>7, <1>8, <1>9 DEF Steady
<1>10. ASSUME NEW a0 \in Addr, u = disk[a0], disk'[a0] = NewEntry(n, isDir, c),
              \A a \in Addr \ {a0} : disk'[a] = disk[a]
       PROVE  Steady
  <2>1. disk[a0].kind = "entry" /\ disk[a0].cluster = 0
    BY <1>3, <1>10 DEF FreeSlot, BlankInv, Vacant
  <2>2. disk'[a0].cluster = c /\ disk'[a0].attr # "none"  BY <1>10 DEF NewEntry
  <2>3. IsFile(disk'[a0]) => fat[disk'[a0].cluster] = 0
    <3> SUFFICES ASSUME IsFile(disk'[a0]) PROVE fat[c] = 0  BY <2>2
    <3>1. disk'[a0].cluster # 0  BY <1>10 DEF WellBehaved
    <3> QED  BY <1>4, <1>10, <2>1, <2>2, <3>1
  <2> QED  BY <1>6, <1>7, <1>8, <1>10, <2>1, <2>2, <2>3 DEF Steady
<1> QED  BY <1>2, <1>9, <1>10

\* A write stays in the cluster of its file, and what it puts there is text.
LEMMA WrittenSteady ==
  ASSUME TypeInv, OwnershipInv, OpenInv, TidyInv, HeldInv, WriteSingle
  PROVE  Steady
<1> DEFINE p == DirBase(fp.parent)
           in(a) == a - ClusterBase(cluster) \in DirSlots
<1>1. PICK s0 \in Firsts(disk, fp) :
        /\ p + s0 \in Kept /\ disk[p + s0] = fp.rde
        /\ disk'[p + s0] = [fp.rde EXCEPT !.size = text.len]
        /\ \A a \in Kept \ {p + s0} :
             IF in(a) THEN disk'[a] = Zero \/ disk'[a].kind = "text" ELSE disk'[a] = disk[a]
  BY FileWritten
<1> DEFINE b0 == p + s0
<1>2. /\ fp.rde \in Entry /\ IsFile(fp.rde) /\ cluster = fp.rde.cluster
      /\ cluster \in Clusters /\ cluster >= 2
  BY WriteHandle DEF File
<1>3. b0 \in Kept /\ disk[b0] = fp.rde /\ disk'[b0] = [fp.rde EXCEPT !.size = text.len]
  BY <1>1
<1>4. \A a \in Kept \ {b0} :
        IF in(a) THEN disk'[a] = Zero \/ disk'[a].kind = "text" ELSE disk'[a] = disk[a]
  BY <1>1
<1> HIDE DEF b0
<1>5. fat' = fat  BY SingleDisk
<1>6. ASSUME NEW c \in Clusters, c >= 2, \A a \in Kept : IsFile(disk[a]) => disk[a].cluster # c,
             NEW s \in DirSlots, disk[ClusterBase(c) + s].kind = "text"
      PROVE  disk'[ClusterBase(c) + s] = disk[ClusterBase(c) + s]
  <2> DEFINE a == ClusterBase(c) + s
  <2>1. a \in Kept  BY <1>6, DataUnits
  <2>2. c # cluster  BY <1>2, <1>3, <1>6
  <2>3. DirBase(c) = ClusterBase(c)  BY <1>6, BaseOfCluster
  <2>4. ~in(a)  BY <1>2, <1>6, <2>2, <2>3, ClustersApart
  <2>5. a # b0  BY <1>2, <1>3, <1>6 DEF Entry
  <2> HIDE DEF a, in
  <2>6. disk'[a] = disk[a]  BY <1>4, <2>1, <2>4, <2>5
  <2> QED  BY <2>6 DEF a
<1>7. /\ IsFile(disk[b0]) /\ disk'[b0].cluster = disk[b0].cluster
      /\ disk'[b0].attr # "none"
  BY <1>2, <1>3 DEF Entry, IsFile
<1>8. ASSUME NEW a \in Kept, disk'[a] = disk[a] \/ disk'[a] = Zero \/ disk'[a].kind = "text",
             IsFile(disk'[a])
      PROVE  IsFile(disk[a]) /\ disk[a].cluster = disk'[a].cluster
  BY <1>8 DEF IsFile, Zero
<1>9. \A a \in Kept \ {b0} : disk'[a] = disk[a] \/ disk'[a] = Zero \/ disk'[a].kind = "text"
  BY <1>4
<1> QED  BY <1>3, <1>5, <1>6, <1>7, <1>8, <1>9 DEF Steady

LEMMA SteadyStep ==
  ASSUME SingleWrites, TypeInv, OwnershipInv, OpenInv, TidyInv, HeldInv, WellBehaved',
         [AnyNext]_vars
  PROVE  Steady
<1>1. CASE UNCHANGED <<disk, fat>>  BY <1>1 DEF Steady
<1>2. BlankInv  BY DEF OpenInv, FirstInv
<1>3. ASSUME NEW p \in Path, NEW isDir \in BOOLEAN, fatCreateRoot(p, isDir)
      PROVE  Steady
  BY <1>1, <1>2, <1>3, CreateRootDisk, CreatedSteady
<1>4. CASE fatCreateStep
  <2>1. isDirectory \in BOOLEAN  BY DEF TypeInv, TypeOK
  <2> QED  BY <1>1, <1>2, <1>4, <2>1, CreateStepDisk, CreatedSteady
<1>5. CASE WriteSingle  BY <1>5, WrittenSteady
<1> QED  BY <1>1, <1>3, <1>4, <1>5, StoresNothing

\* A handle is made from an entry that no write garbles: of the root directory, fatOpen
\* stops at one that is read as a cluster.
LEMMA HandleUnit ==
  ASSUME SingleWrites, TypeInv, OwnershipInv, Orderly, [AnyNext]_vars
  PROVE  fp' = fp \/ fp' = NoFile \/ \E a \in Kept : fp'.rde = disk[a]
<1>1. ASSUME NEW p \in Path, fatOpenRoot(p)
      PROVE  fp' = NoFile \/ \E a \in Kept : fp'.rde = disk[a]
  <2> DEFINE root == LoadRoot(disk)
  <2>1. CASE fp' = NoFile  BY <2>1
  <2>2. ASSUME NEW s \in FoundInRoot(root, p.names[1]), fp' = Handle(0, root[s])
        PROVE  \E a \in Kept : fp'.rde = disk[a]
    <3>1. /\ s \in Slots /\ RootMatch(root[s], p.names[1])
          /\ \A x \in Slots : RootMatch(root[x], p.names[1]) => s <= x
      BY DEF FoundInRoot, Scan
    <3>2. \A x \in Slots : x - RootSize \in Addr /\ root[x] = disk[x - RootSize]
      BY Sizes DEF LoadRoot
    <3> HIDE DEF root
    <3>3. s <= RootRead
      <4> SUFFICES ASSUME s > RootRead PROVE FALSE  BY <3>1, Sizes
      <4>1. Used(disk[s - RootSize])  BY <3>1, <3>2 DEF RootMatch, Used
      <4>2. PICK x \in 1..RootRead :
              /\ disk[x - RootSize].kind = "entry"
              /\ disk[x - RootSize].name = disk[s - RootSize].name
        BY <3>1, <4>1 DEF Orderly, RootShort
      <4>3. x \in Slots /\ ~(s <= x)  BY <3>1, Sizes, SizeAssumption
      <4>4. RootMatch(root[x], p.names[1])
        BY <3>1, <3>2, <4>2, <4>3 DEF RootMatch
      <4> QED  BY <3>1, <4>3, <4>4
    <3>4. s - RootSize \in Kept
      <4>1. (s - RootSize) + RootSize = s  BY <3>1, Sizes
      <4> QED  BY <3>1, <3>2, <3>3, <4>1, Sizes DEF Kept
    <3> QED  BY <2>2, <3>1, <3>2, <3>4 DEF Handle
  <2> HIDE DEF root
  <2> QED  BY <1>1, <2>1, <2>2 DEF fatOpenRoot, Fail, root
<1>2. ASSUME NEW p \in Path, StartWalk(p) PROVE fp' = NoFile
  BY <1>2 DEF StartWalk, Fail
<1>3. CASE fatOpenStep
  <2> DEFINE entries == readFromCluster(disk, dir, dataEntries)
  <2>1. CASE fp' = fp \/ fp' = NoFile  BY <2>1
  <2>2. ASSUME NEW s \in FoundInDir(entries, path.names[depth]), fp' = Handle(dir, entries[s])
        PROVE  \E a \in Kept : fp'.rde = disk[a]
    <3>1. s \in DirSlots  BY DEF FoundInDir, Scan
    <3>2. dir >= 2 /\ dir \in Clusters
      BY <1>3 DEF fatOpenStep, Orderly, TypeInv, TypeOK
    <3>3. entries[s] = disk[DirBase(dir) + s]  BY <3>1, <3>2 DEF readFromCluster
    <3>4. DirBase(dir) + s \in Kept  BY <3>1, <3>2, BaseOfCluster, DataUnits
    <3> QED  BY <2>2, <3>3, <3>4 DEF Handle
  <2> HIDE DEF entries
  <2> QED  BY <1>3, <2>1, <2>2 DEF fatOpenStep, Fail, Descend, entries
<1>4. ASSUME NEW p \in Path, NEW isDir \in BOOLEAN, fatCreateRoot(p, isDir)
      PROVE  fp' = NoFile
  BY <1>4 DEF fatCreateRoot
<1>5. CASE fatCreateStep
  BY <1>5 DEF fatCreateStep, Fail, Descend
<1>6. ASSUME NEW t \in TextArg, clustersNeeded(t) = 1, fatWrite(t) PROVE fp' = fp
  BY <1>6 DEF fatWrite
<1>7. CASE WriteSingle  BY <1>7, SingleDisk
<1>8. CASE FreeCluster \/ WriteLinked \/ WriteLast \/ WriteWild  BY <1>8, NoOtherWrite
<1>9. CASE fatRead \/ ReadSingle \/ ReadLinked
  BY <1>9 DEF fatRead, ReadSingle, ReadLinked
<1>10. CASE UNCHANGED vars  BY <1>10 DEF vars
<1>11. CASE Stray \/ \E o, p, isDir : ScanAstray(o, p, isDir)  BY <1>11, AstrayKeeps
<1> QED
  BY <1>1, <1>2, <1>3, <1>4, <1>5, <1>6, <1>7, <1>8, <1>9, <1>10, <1>11
  DEF AnyNext, AnyCall, Step, Stray, fatOpenPath, fatCreatePath

SealedInv ==
  /\ \A a \in Kept : Sealed(disk[a], disk, fat)
  /\ Sealed(fp.rde, disk, fat)

LEMMA SealedStep ==
  ASSUME SingleWrites, TypeInv, FilesInv, SealedInv, Orderly, Orderly', [AnyNext]_vars
  PROVE  SealedInv'
<1>1. Steady  BY SteadyStep DEF FilesInv, Orderly
<1>2. ASSUME NEW a \in Kept PROVE Sealed(disk[a], disk', fat')
  BY <1>1, SealedStays DEF SealedInv
<1>3. ASSUME NEW a \in Kept PROVE Sealed(disk'[a], disk', fat')
  <2>1. CASE disk'[a] = disk[a]  BY <1>2, <2>1
  <2>2. CASE disk'[a] = Zero  BY <2>2 DEF Sealed, Zero
  <2>3. CASE disk'[a].kind = "text" \/ disk'[a].attr # "none"  BY <2>3 DEF Sealed
  <2> QED  BY <1>1, <2>1, <2>2, <2>3 DEF Steady
<1>4. Sealed(fp'.rde, disk', fat')
  <2>1. Sealed(fp.rde, disk', fat')  BY <1>1, SealedStays DEF SealedInv
  <2>2. Sealed(NoFile.rde, disk', fat')  BY DEF NoFile, Sealed, Zero
  <2> QED  BY <1>2, <2>1, <2>2, HandleUnit DEF FilesInv
<1> QED  BY <1>3, <1>4 DEF SealedInv

\* What a read has copied, in which of the clusters of the text it is.
ReadUpTo(n, q, x) ==
  /\ Spread(fp.rde, disk, fat, n, q, x)
  /\ i < n /\ cluster = q[i + 1]
  /\ i * DirSize <= x.len /\ out = [k \in 1..(i * DirSize) |-> Piece(x, k)]

ReadInv ==
  /\ pc = "idle" => i = 0
  /\ pc = "read" /\ fp.rde.size > 0 =>
       \E n \in 1..FatSize : \E q \in [1..n -> Clusters] : \E x : ReadUpTo(n, q, x)

\* The handle of a file that may be read leads to a text of its length.
LEMMA OpenedSpread ==
  ASSUME TypeInv, FilesInv, SealedInv, pc = "idle", op = "fatOpen", ret = 0,
         fp.rde.attr # "dir", fp.rde.size > 0
  PROVE  /\ fp.start = fp.rde.cluster
         /\ \E n \in 1..FatSize : \E q \in [1..n -> Clusters] : \E x :
              Spread(fp.rde, disk, fat, n, q, x)
<1>1. /\ Backed(fp.rde, fat) /\ fp.start = fp.rde.cluster /\ fp.rde \in Entry
      /\ fp.rde.kind = "entry" /\ fp.parent \in Clusters /\ fp.rde.cluster \in Clusters
  BY DEF FilesInv, OwnershipInv, CallSound, HandleSound, TypeInv, TypeOK, Entry
<1>2. CASE fp.rde.attr = "none"
  BY <1>1, <1>2, SealedIs DEF SealedInv
<1>3. CASE fp.rde.attr = "file"
  <2> DEFINE e == fp.rde
             c == e.cluster
             q == [k \in 1..1 |-> c]
  <2>1. FileHandle /\ IsFile(e)  BY <1>1, <1>3 DEF FileHandle, IsFile
  <2>2. c >= 2  BY <2>1 DEF FilesInv, TidyInv, FileApart
  <2>4. /\ fp.parent = 0 \/ fp.parent >= 2
        /\ \E s \in Firsts(disk, fp) : disk[DirBase(fp.parent) + s] = e
    BY <2>1 DEF FilesInv, HeldInv, Held
  <2>5. PICK s \in Firsts(disk, fp) : disk[DirBase(fp.parent) + s] = e  BY <2>4
  <2>6. DirBase(fp.parent) + s \in Kept  BY <1>1, <2>4, ShownKept DEF Firsts
  <2>7. Whole(disk, e)
    BY <2>1, <2>5, <2>6 DEF FilesInv, DiskWhole, WholeFiles
  <2>3. fat[c] = EOC
    BY <2>1, <2>5, <2>6 DEF FilesInv, DiskEnded, EndedFiles
  <2>8. PICK x \in TextArg : /\ x.len = e.size /\ x.len <= DirSize
                             /\ \A k \in 1..x.len : disk[ClusterBase(c) + k] = Piece(x, k)
    BY <2>7 DEF Whole
  <2>9. /\ x.len \in Nat /\ 1 * DirSize = DirSize /\ 1 \in 1..FatSize
        /\ \A s1 \in DirSlots : (1 - 1) * DirSize + s1 = s1 /\ (s1 <= x.len => s1 \in 1..x.len)
    BY <2>8, SizeAssumption DEF TextArg
  <2>10. q \in [1..1 -> Clusters] /\ q[1] = c  BY <1>1
  <2> HIDE DEF q, c, e
  <2>11. /\ q[1] = e.cluster
         /\ \A k \in 1..1 : q[k] >= 2 /\ fat[q[k]] = IF k = 1 THEN EOC ELSE q[k + 1]
    BY <2>2, <2>3, <2>10 DEF c
  <2>12. /\ x \in [id: Nat, len: Nat] /\ x.len = e.size /\ x.len <= 1 * DirSize
    BY <2>8, <2>9 DEF TextArg
  <2>13. ASSUME NEW k \in 1..1, NEW s1 \in DirSlots, (k - 1) * DirSize + s1 <= x.len
         PROVE  disk[ClusterBase(q[k]) + s1] = Piece(x, (k - 1) * DirSize + s1)
    <3>1. k = 1  OBVIOUS
    <3> QED  BY <2>8, <2>9, <2>10, <2>13, <3>1
  <2>14. Spread(e, disk, fat, 1, q, x)  BY <2>11, <2>12, <2>13 DEF Spread
  <2> QED  BY <1>1, <2>9, <2>10, <2>14 DEF e
<1> QED  BY <1>1, <1>2, <1>3 DEF Entry

LEMMA Joined ==
  ASSUME NEW x, NEW m \in Nat, NEW w \in Nat
  PROVE  [k \in 1..m |-> Piece(x, k)] \o [k \in 1..w |-> Piece(x, m + k)]
           = [k \in 1..(m + w) |-> Piece(x, k)]
<1> DEFINE s == [k \in 1..m |-> Piece(x, k)]
           t == [k \in 1..w |-> Piece(x, m + k)]
           z == s \o t
<1>1. s \in Seq({Piece(x, k) : k \in Nat}) /\ Len(s) = m  OBVIOUS
<1>2. t \in Seq({Piece(x, k) : k \in Nat}) /\ Len(t) = w  OBVIOUS
<1>3. \A k \in 1..m : s[k] = Piece(x, k)  OBVIOUS
<1>4. \A k \in 1..w : t[k] = Piece(x, m + k)  OBVIOUS
<1> HIDE DEF s, t
<1>5. z \in Seq({Piece(x, k) : k \in Nat}) /\ Len(z) = m + w  BY <1>1, <1>2
<1>6. ASSUME NEW k \in 1..(m + w) PROVE z[k] = Piece(x, k)
  <2>1. CASE k <= m  BY <1>1, <1>2, <1>3, <2>1
  <2>2. CASE k > m
    <3>1. k - m \in 1..w /\ m + (k - m) = k  BY <2>2
    <3>2. z[k] = t[k - m]  BY <1>1, <1>2, <2>2
    <3> QED  BY <1>4, <3>1, <3>2
  <2>3. k <= m \/ k > m  OBVIOUS
  <2> HIDE DEF z
  <2> QED  BY <2>1, <2>2, <2>3, Zenon
<1> HIDE DEF z
<1>7. z = [k \in 1..(m + w) |-> z[k]]  BY <1>5
<1>8. z = [k \in 1..(m + w) |-> Piece(x, k)]  BY <1>6, <1>7
<1> QED  BY <1>8 DEF z, s, t

\* What is read of a cluster is the part of the text that lies in it.
LEMMA ReadPart ==
  ASSUME TypeInv, OwnershipInv, NEW n \in 1..FatSize, NEW q \in [1..n -> Clusters], NEW x,
         ReadUpTo(n, q, x)
  PROVE  LET m == i * DirSize
         IN  /\ m \in Nat /\ i \in Nat /\ x.len \in Nat /\ x.len = fp.rde.size
             /\ x.len - m <= DirSize \/ i + 1 < n
             /\ i + 1 < n <=> fatTable[cluster] # EOC
             /\ i + 1 < n => fatTable[cluster] = q[i + 2]
             /\ out = [k \in 1..m |-> Piece(x, k)] /\ Len(out) = m
             /\ m <= x.len /\ (i + 1) * DirSize = m + DirSize
             /\ \A k \in DirSlots : m + k <= x.len => ReadData[k] = Piece(x, m + k)
<1> DEFINE m == i * DirSize
<1>1. /\ i \in Nat /\ cluster \in Clusters /\ fatTable = fat /\ i + 1 \in 1..n
  BY DEF TypeInv, TypeOK, OwnershipInv, StorageSound, ReadUpTo
<1>2. DirSize \in Nat /\ m \in Nat /\ (i + 1) * DirSize = m + DirSize /\ ((i + 1) - 1) * DirSize = m
  BY <1>1, SizeAssumption
<1>3. /\ cluster = q[i + 1] /\ cluster >= 2 /\ x.len \in Nat /\ x.len = fp.rde.size
      /\ fat[cluster] = (IF i + 1 = n THEN EOC ELSE q[i + 2]) /\ x.len <= n * DirSize
  <2>1. (i + 1) + 1 = i + 2  BY <1>1
  <2> QED  BY <1>1, <2>1 DEF ReadUpTo, Spread
<1>4. i + 1 < n => fat[cluster] # EOC
  <2>1. i + 1 < n => i + 2 \in 1..n  BY <1>1
  <2>2. i + 1 < n => q[i + 2] \in Clusters  BY <2>1
  <2> QED  BY <1>1, <1>3, <2>2, SizeAssumption
<1>5. i + 1 = n => x.len <= m + DirSize  BY <1>2, <1>3
<1>6. m <= x.len /\ out = [k \in 1..m |-> Piece(x, k)]  BY DEF ReadUpTo
<1>7. Len(out) = m  BY <1>2, <1>6
<1>8. ASSUME NEW k \in DirSlots, m + k <= x.len PROVE ReadData[k] = Piece(x, m + k)
  <2>1. ReadData[k] = disk[ClusterBase(cluster) + k]
    <3>1. DirBase(cluster) = ClusterBase(cluster) /\ cluster # 0  BY <1>1, <1>3, BaseOfCluster
    <3> QED  BY <3>1 DEF ReadData, readFromCluster
  <2>2. ((i + 1) - 1) * DirSize + k = m + k  BY <1>2
  <2>3. disk[ClusterBase(q[i + 1]) + k] = Piece(x, m + k)
    <3>1. \A j \in 1..n : (j - 1) * DirSize + k <= x.len =>
            disk[ClusterBase(q[j]) + k] = Piece(x, (j - 1) * DirSize + k)
      BY DEF ReadUpTo, Spread
    <3> HIDE DEF m
    <3> QED  BY <1>1, <1>8, <2>2, <3>1
  <2> QED  BY <1>3, <2>1, <2>3
<1> HIDE DEF m
<1>9. x.len - m <= DirSize \/ i + 1 < n  BY <1>1, <1>2, <1>3, <1>5
<1>10. (i + 1 < n <=> fatTable[cluster] # EOC) /\ (i + 1 < n => fatTable[cluster] = q[i + 2])
  BY <1>1, <1>3, <1>4
<1> QED  BY <1>1, <1>2, <1>3, <1>6, <1>7, <1>8, <1>9, <1>10 DEF m

\* A round of a read goes on, or it was the last and the text is whole.
LEMMA ReadRound ==
  ASSUME TypeInv, OwnershipInv, ReadSingle \/ ReadLinked,
         NEW n \in 1..FatSize, NEW q \in [1..n -> Clusters], NEW x, ReadUpTo(n, q, x),
         fp.rde.size > 0
  PROVE  /\ fp' = fp
         /\ \/ pc' = "idle" /\ i' = 0 /\ out' = [k \in 1..x.len |-> Piece(x, k)]
            \/ pc' # "idle" /\ ReadUpTo(n, q, x)'
<1> DEFINE m == i * DirSize
           w == IF x.len - m < DirSize THEN x.len - m ELSE DirSize
<1>1. /\ m \in Nat /\ i \in Nat /\ x.len \in Nat /\ x.len = fp.rde.size
      /\ x.len - m <= DirSize \/ i + 1 < n
      /\ i + 1 < n <=> fatTable[cluster] # EOC
      /\ i + 1 < n => fatTable[cluster] = q[i + 2]
      /\ out = [k \in 1..m |-> Piece(x, k)] /\ Len(out) = m
      /\ m <= x.len /\ (i + 1) * DirSize = m + DirSize
      /\ \A k \in DirSlots : m + k <= x.len => ReadData[k] = Piece(x, m + k)
  BY ReadPart
<1>2. DirSize \in Nat /\ DirSize > 0  BY SizeAssumption
<1>3. fp' = fp /\ disk' = disk /\ fat' = fat
  BY DEF ReadSingle, ReadLinked, storage
<1>4. CASE ReadSingle
  <2>1. /\ i = 0 /\ pc' = "idle" /\ i' = 0 /\ fatTable[cluster] = EOC
        /\ out' = [k \in 1..fp.rde.size |-> IF k <= DirSize THEN ReadData[k] ELSE Junk]
    BY <1>4 DEF ReadSingle, Return
  <2>2. m = 0 /\ x.len <= DirSize  BY <1>1, <1>2, <2>1
  <2>3. \A k \in 1..x.len : k <= DirSize /\ ReadData[k] = Piece(x, k)
    <3> HIDE DEF m
    <3>1. \A k \in 1..x.len : k \in DirSlots /\ m + k = k /\ k <= x.len
      BY <1>1, <1>2, <2>2
    <3> QED  BY <1>1, <2>2, <3>1
  <2>4. out' = [k \in 1..x.len |-> Piece(x, k)]  BY <1>1, <2>1, <2>3
  <2> QED  BY <1>3, <2>1, <2>4
<1>5. CASE ReadLinked
  <2> DEFINE more == IF Wanted < DirSize THEN Wanted ELSE DirSize
  <2>1. Wanted = x.len - m  BY <1>1 DEF Wanted
  <2>2. out' = out \o [k \in 1..more |-> ReadData[k]]  BY <1>5 DEF ReadLinked
  <2>3. more = w /\ w \in Nat /\ m + w <= x.len /\ w <= DirSize  BY <1>1, <1>2, <2>1
  <2> HIDE DEF m, w, more
  <2>4. \A k \in 1..w : ReadData[k] = Piece(x, m + k)
    <3>1. \A k \in 1..w : k \in DirSlots /\ m + k <= x.len  BY <1>1, <1>2, <2>3
    <3> QED  BY <1>1, <3>1
  <2>5. [k \in 1..more |-> ReadData[k]] = [k \in 1..w |-> Piece(x, m + k)]  BY <2>3, <2>4
  <2>6. out' = [k \in 1..(m + w) |-> Piece(x, k)]
    <3>1. out = [k \in 1..m |-> Piece(x, k)] /\ m \in Nat /\ w \in Nat  BY <1>1, <2>3
    <3>2. PICK a \in Nat, b \in Nat : a = m /\ b = w  BY <3>1
    <3>3. [k \in 1..a |-> Piece(x, k)] \o [k \in 1..b |-> Piece(x, a + k)]
            = [k \in 1..(a + b) |-> Piece(x, k)]
      BY Joined
    <3> QED  BY <2>2, <2>5, <3>1, <3>2, <3>3
  <2>7. CASE Wanted < DirSize \/ fatTable[cluster] = EOC
    <3>1. pc' = "idle" /\ i' = 0  BY <1>5, <2>7 DEF ReadLinked, Return
    <3>2. m \in Nat /\ x.len \in Nat /\ (x.len - m <= DirSize \/ Wanted < DirSize)
      BY <1>1, <2>7
    <3>3. m + w = x.len  BY <1>2, <2>1, <3>2 DEF w
    <3> QED  BY <1>3, <2>6, <3>1, <3>3
  <2>8. CASE ~(Wanted < DirSize \/ fatTable[cluster] = EOC)
    <3>1. pc' = "read" /\ cluster' = fatTable[cluster] /\ i' = i + 1
      BY <1>5, <2>8 DEF ReadLinked
    <3>2. m + w = (i + 1) * DirSize /\ (i + 1) * DirSize <= x.len
      <4>1. m \in Nat /\ x.len \in Nat /\ (i + 1) * DirSize = m + DirSize  BY <1>1
      <4>2. m + w = m + DirSize /\ m + DirSize <= x.len
        BY <1>2, <2>1, <2>8, <4>1 DEF w
      <4> QED  BY <4>1, <4>2
    <3>3. i + 1 < n /\ cluster' = q[i + 2] /\ (i + 1) + 1 = i + 2  BY <1>1, <2>8, <3>1
    <3>4. Spread(fp.rde, disk, fat, n, q, x)  BY DEF ReadUpTo
    <3>5. ReadUpTo(n, q, x)'
      BY <1>3, <2>6, <3>1, <3>2, <3>3, <3>4 DEF ReadUpTo
    <3> QED  BY <1>3, <3>1, <3>5
  <2> QED  BY <2>7, <2>8
<1> QED  BY <1>4, <1>5

LEMMA ReadStep ==
  ASSUME SingleWrites, TypeInv, FilesInv, SealedInv, ReadInv, [AnyNext]_vars
  PROVE  ReadInv'
<1>1. ASSUME i' = 0, pc' = "idle" PROVE ReadInv'  BY <1>1 DEF ReadInv
<1>2. CASE pc' # "idle" /\ pc' # "read"  BY <1>2 DEF ReadInv
<1>3. CASE UNCHANGED vars  BY <1>3 DEF vars, ReadInv, ReadUpTo, Spread
<1>4. ASSUME NEW p \in Path, NEW isDir \in BOOLEAN,
             fatOpenRoot(p) \/ fatOpenPath(p) \/ fatCreateRoot(p, isDir) \/ fatCreatePath(p, isDir)
      PROVE  ReadInv'
  BY <1>1, <1>2, <1>4
  DEF fatOpenRoot, fatOpenPath, fatCreateRoot, fatCreatePath, StartWalk, Fail, Return, Fault
<1>5. ASSUME NEW t \in TextArg, clustersNeeded(t) = 1, fatWrite(t) PROVE ReadInv'
  BY <1>2, <1>5 DEF fatWrite
<1>6. CASE fatOpenStep \/ fatCreateStep
  BY <1>1, <1>2, <1>6 DEF fatOpenStep, fatCreateStep, Fail, Return, Descend
<1>7. CASE FreeCluster \/ WriteLinked \/ WriteLast \/ WriteWild
  BY <1>7, NoOtherWrite DEF FilesInv
<1>8. CASE WriteSingle  BY <1>1, <1>8 DEF WriteSingle, Finish, Return
<1>9. CASE fatRead
  <2>1. /\ pc = "idle" /\ pc' = "read" /\ op = "fatOpen" /\ ret = 0 /\ fp.rde.attr # "dir"
        /\ cluster' = fp.start /\ i' = i /\ fp' = fp /\ disk' = disk /\ fat' = fat /\ out' = <<>>
    BY <1>9 DEF fatRead, Begin, storage
  <2>2. i' = 0  BY <2>1 DEF ReadInv
  <2> SUFFICES ASSUME fp.rde.size > 0
               PROVE  \E n \in 1..FatSize : \E q \in [1..n -> Clusters] : \E x : ReadUpTo(n, q, x)'
    BY <2>1, <2>2 DEF ReadInv
  <2>3. fp.start = fp.rde.cluster  BY <2>1, OpenedSpread
  <2>4. PICK n \in 1..FatSize : \E q \in [1..n -> Clusters] : \E x :
               Spread(fp.rde, disk, fat, n, q, x)
    BY <2>1, OpenedSpread
  <2>5. PICK q \in [1..n -> Clusters] : \E x : Spread(fp.rde, disk, fat, n, q, x)
    BY <2>4
  <2>6. PICK x : Spread(fp.rde, disk, fat, n, q, x)  BY <2>5
  <2>7. q[1] = fp.rde.cluster /\ x.len \in Nat  BY <2>6 DEF Spread
  <2>8. 0 < n /\ 0 + 1 = 1 /\ 0 * DirSize = 0 /\ 0 <= x.len  BY <2>7, Sizes
  <2>9. [k \in 1..0 |-> Piece(x, k)] = <<>>  OBVIOUS
  <2>10. ReadUpTo(n, q, x)'
    BY <2>1, <2>2, <2>3, <2>6, <2>7, <2>8, <2>9 DEF ReadUpTo
  <2> QED  BY <2>10
<1>10. CASE ReadSingle \/ ReadLinked
  <2>1. pc = "read" /\ fp' = fp  BY <1>10 DEF ReadSingle, ReadLinked
  <2>2. pc' = "idle" => i' = 0  BY <1>10 DEF ReadSingle, ReadLinked, Return
  <2>3. CASE ~(fp.rde.size > 0)  BY <2>1, <2>2, <2>3 DEF ReadInv
  <2>4. CASE fp.rde.size > 0
    <3>1. PICK n \in 1..FatSize : \E q \in [1..n -> Clusters] : \E x : ReadUpTo(n, q, x)
      BY <2>1, <2>4 DEF ReadInv
    <3>2. PICK q \in [1..n -> Clusters] : \E x : ReadUpTo(n, q, x)  BY <3>1
    <3>3. PICK x : ReadUpTo(n, q, x)  BY <3>2
    <3>4. (pc' = "idle" /\ i' = 0) \/ (pc' # "idle" /\ ReadUpTo(n, q, x)')
      BY <1>10, <2>4, <3>3, ReadRound DEF FilesInv
    <3> QED  BY <3>4 DEF ReadInv
  <2> QED  BY <2>3, <2>4
<1>11. CASE Stray \/ \E o, p, isDir : ScanAstray(o, p, isDir)  BY <1>2, <1>11, AstrayKeeps
<1> QED
  BY <1>3, <1>4, <1>5, <1>6, <1>7, <1>8, <1>9, <1>10, <1>11 DEF AnyNext, AnyCall, Step, Stray

LEMMA WholeRead ==
  ASSUME TypeInv, FilesInv, ReadInv, ReadIsWhole, [AnyNext]_vars
  PROVE  ReadIsWhole'
<1>1. CASE ReadSingle \/ ReadLinked
  <2> SUFFICES ASSUME pc' = "idle", fp'.rde.size > 0
               PROVE  /\ Len(out') = fp'.rde.size
                      /\ \E t \in {out'[1].text} :
                           t.len = Len(out') /\ \A k \in 1..t.len : out'[k] = Piece(t, k)
    BY DEF ReadIsWhole, Returned, Idle
  <2>1. pc = "read" /\ fp' = fp /\ fp.rde.size > 0
    BY <1>1 DEF ReadSingle, ReadLinked
  <2>2. PICK n \in 1..FatSize : \E q \in [1..n -> Clusters] : \E x : ReadUpTo(n, q, x)
    BY <2>1 DEF ReadInv
  <2>3. PICK q \in [1..n -> Clusters] : \E x : ReadUpTo(n, q, x)  BY <2>2
  <2>4. PICK x : ReadUpTo(n, q, x)  BY <2>3
  <2>5. out' = [k \in 1..x.len |-> Piece(x, k)]
    BY <1>1, <2>1, <2>4, ReadRound DEF FilesInv
  <2>6. x.len \in Nat /\ x.len = fp.rde.size  BY <2>4 DEF ReadUpTo, Spread
  <2>7. Len(out') = x.len /\ \A k \in 1..x.len : out'[k] = Piece(x, k)  BY <2>5, <2>6
  <2>8. 1 \in 1..x.len /\ 1 <= x.len  BY <2>1, <2>6
  <2>9. out'[1].text = x
    <3>1. out'[1] = Piece(x, 1)  BY <2>7, <2>8
    <3> QED  BY <2>8, <3>1 DEF Piece
  <2> QED  BY <2>1, <2>6, <2>7, <2>9
<1>2. CASE UNCHANGED vars  BY <1>2 DEF vars, ReadIsWhole, Returned, Idle
<1>3. ASSUME ~Returned("fatRead", 1)' PROVE ReadIsWhole'  BY <1>3 DEF ReadIsWhole
<1>4. CASE fatRead  BY <1>3, <1>4 DEF fatRead, Returned, Idle
<1>5. ASSUME NEW p \in Path, NEW isDir \in BOOLEAN,
             fatOpenRoot(p) \/ fatOpenPath(p) \/ fatCreateRoot(p, isDir) \/ fatCreatePath(p, isDir)
      PROVE  ~Returned("fatRead", 1)'
  BY <1>5 DEF fatOpenRoot, fatOpenPath, fatCreateRoot, fatCreatePath, Begin, Returned
<1>6. ASSUME NEW t \in TextArg, clustersNeeded(t) = 1, fatWrite(t) PROVE ~Returned("fatRead", 1)'
  BY <1>6 DEF fatWrite, Returned, Idle
<1>7. CASE fatOpenStep \/ fatCreateStep
  <2>1. op' # "fatRead"  BY <1>7 DEF fatOpenStep, fatCreateStep, args
  <2> QED  BY <1>3, <2>1 DEF Returned
<1>8. CASE FreeCluster \/ WriteSingle \/ WriteLinked \/ WriteLast \/ WriteWild
  <2>1. pc' # "idle" \/ ret' = 0
    BY <1>8
    DEF FreeCluster, WriteSingle, WriteLinked, WriteLast, WriteWild, Finish, Return, Fault
  <2> QED  BY <1>3, <2>1 DEF Returned, Idle
<1>9. CASE Stray \/ \E o, p, isDir : ScanAstray(o, p, isDir)
  BY <1>3, <1>9, AstrayKeeps DEF Returned, Idle
<1> QED
  BY <1>1, <1>2, <1>3, <1>4, <1>5, <1>6, <1>7, <1>8, <1>9 DEF AnyNext, AnyCall, Step, Stray

\* On a volume used in order fatRead does what its comment says: the caller gets one
\* whole text of the length of the file, in order, also of a file of many clusters that
\* no call can write (fat.c:773-830).
THEOREM ReadsGetTheText ==
  ASSUME ShortTexts, SoundImages, BlankImages, NamedPaths, TidyImages, WholeImages,
         SealedImages
  PROVE  Spec /\ []Orderly => []ReadIsWhole
<1> DEFINE Inv == FilesInv /\ SealedInv /\ ReadInv /\ ReadIsWhole
<1>1. Init => Inv
  <2> SUFFICES ASSUME Init PROVE Inv  OBVIOUS
  <2>1. FilesInv  BY FilesInit
  <2>2. \A a \in Kept : Sealed(disk[a], disk, fat)  BY DEF Init, SealedImages
  <2>3. Sealed(fp.rde, disk, fat)  BY DEF Init, Sealed, NoFile, Zero
  <2>4. ReadInv /\ ReadIsWhole  BY DEF Init, ReadInv, ReadIsWhole, Returned
  <2> QED  BY <2>1, <2>2, <2>3, <2>4 DEF SealedInv
<1>2. TypeInv /\ TypeInv' /\ Named' /\ Inv /\ Orderly /\ Orderly' /\ [Next]_vars => Inv'
  BY OrderlySingle, CallsAreAny, FilesStep, SealedStep, ReadStep, WholeRead DEF FilesInv
<1> QED  BY <1>1, <1>2, TypesHold, NamesHold, PTL DEF Spec
=============================================================================
