----------------------------- MODULE FatProofs -----------------------------
(***************************************************************************)
(* Invariants of module Fat for every size of disk, every set of paths and *)
(* texts and every image.                                                  *)
(***************************************************************************)
EXTENDS FatProperties, FiniteSetTheorems, SequenceTheorems, WellFoundedInduction, TLAPS

USE DEF Addr, Slots, DirSlots, Window, Clusters, FatValue

(***************************************************************************)
(* Addresses                                                               *)
(***************************************************************************)

\* Multiplication by a natural number keeps the order of the integers.
LEMMA Monotone ==
  ASSUME NEW a \in Int, NEW b \in Int, NEW k \in Nat, a <= b
  PROVE  a * k <= b * k
<1> DEFINE d == b - a
<1>1. d \in Nat /\ b = a + d  OBVIOUS
<1>2. d * k \in Nat  BY <1>1
<1>3. (a + d) * k = a * k + d * k  BY <1>1
<1> HIDE DEF d
<1> QED  BY <1>1, <1>2, <1>3

\* The constants are numbers and the disk has at least the root directory.
LEMMA Sizes ==
  /\ FatSize \in Nat /\ RootSize \in Nat /\ DirSize \in Nat /\ RootRead \in Nat
  /\ Last \in Nat /\ EOC \in Int
<1> DEFINE n == FatSize - 2
<1>1. n \in Nat  BY SizeAssumption
<1>2. DirSize \in Nat  BY SizeAssumption
<1>3. n * DirSize \in Nat  BY <1>1, <1>2
<1> QED  BY SizeAssumption, <1>3 DEF Last, EOC

\* The units of every cluster number, 0 and 1 included, are units of the disk.
LEMMA ClusterOnDisk ==
  ASSUME NEW c \in Clusters
  PROVE  /\ ClusterBase(c) \in Int /\ DirBase(c) \in Int
         /\ \A s \in DirSlots : DirBase(c) + s \in Addr
<1>1. ClusterBase(c) \in Int  BY SizeAssumption DEF ClusterBase
<1>2. CASE c = 0  BY <1>1, <1>2, Sizes, SizeAssumption DEF DirBase
<1>3. CASE c # 0
  <2>1. DirBase(c) = ClusterBase(c)  BY <1>3 DEF DirBase
  <2>2. (-1) * DirSize <= ClusterBase(c)
    BY <1>3, SizeAssumption, Monotone DEF ClusterBase
  <2>3. (c - 1) * DirSize <= Last
    BY SizeAssumption, Monotone DEF Last
  <2>4. (c - 1) * DirSize = ClusterBase(c) + DirSize
    BY SizeAssumption DEF ClusterBase
  <2>5. (-1) * DirSize = -DirSize  BY SizeAssumption
  <2> QED  BY <1>1, <2>1, <2>2, <2>3, <2>4, <2>5, Sizes, SizeAssumption
<1> QED  BY <1>2, <1>3

(***************************************************************************)
(* Types                                                                   *)
(***************************************************************************)

Disk == [Addr -> Unit]
TextArg == [id: Nat, len: Nat]
File == [parent: Clusters, rde: Entry, start: Clusters]

\* A unit that is an entry has an entry's fields.
LEMMA EntryUnit ==
  ASSUME NEW u \in Unit, u.kind = "entry"
  PROVE  u \in Entry
BY DEF Unit, Entry, Text

\* The records the definitions are built from have their types.
LEMMA Constants ==
  /\ Zero \in Entry /\ Zero \in Unit /\ NoText \in TextArg /\ Junk \in Unit
  /\ NoFile \in File /\ NoPath \in Path /\ Nulls \in [DirSlots -> Unit]
<1>1. 0 \in Clusters  BY SizeAssumption
<1>2. <<>> \in Name  BY DEF Name
<1>3. Zero \in Entry  BY <1>1, <1>2 DEF Zero, Entry
<1>4. NoText \in TextArg  BY DEF NoText, TextArg
<1>5. Junk \in Unit  BY <1>4 DEF Junk, Unit, Text, TextArg
<1>6. NoFile \in File  BY <1>1, <1>3 DEF NoFile, File
<1>7. NoPath \in Path  BY DEF NoPath, Path
<1>8. Zero \in Unit  BY <1>3 DEF Unit
<1>9. Nulls \in [DirSlots -> Unit]  BY <1>8 DEF Nulls
<1> QED  BY <1>3, <1>4, <1>5, <1>6, <1>7, <1>8, <1>9

LEMMA PieceUnit ==
  ASSUME NEW t \in TextArg, NEW k \in Nat
  PROVE  Piece(t, k) \in Unit
BY Constants DEF Piece, Unit, Text, TextArg

LEMMA SectorUnits ==
  ASSUME NEW t \in TextArg, NEW k \in Nat
  PROVE  \A u \in DOMAIN Sector(t, k) : Sector(t, k)[u] \in Unit
<1> SUFFICES ASSUME NEW u \in 1..t.len PROVE Piece(t, k * DirSize + u) \in Unit
  BY DEF Sector
<1>1. k * DirSize \in Nat  BY SizeAssumption
<1>2. k * DirSize + u \in Nat  BY <1>1 DEF TextArg
<1> QED  BY <1>2, PieceUnit

\* Whatever is written where, a disk stays a disk.
LEMMA OverwriteDisk ==
  ASSUME NEW d \in Disk, NEW base \in Int, NEW data,
         \A u \in DOMAIN data : data[u] \in Unit
  PROVE  Overwrite(d, base, data) \in Disk
BY DEF Overwrite, Disk

LEMMA WriteDisk ==
  ASSUME NEW d \in Disk, NEW c \in Clusters, NEW data,
         \A u \in DOMAIN data : data[u] \in Unit
  PROVE  writeToCluster(d, c, data) \in Disk
BY OverwriteDisk, ClusterOnDisk DEF writeToCluster

LEMMA ClearAndWriteDisk ==
  ASSUME NEW d \in Disk, NEW c \in Clusters, NEW t \in TextArg, NEW k \in Nat
  PROVE  ClearAndWrite(d, c, t, k) \in Disk
<1>1. writeToCluster(d, c, Nulls) \in Disk  BY Constants, WriteDisk
<1> QED  BY <1>1, WriteDisk, SectorUnits DEF ClearAndWrite

LEMMA LoadRootUnits ==
  ASSUME NEW d \in Disk
  PROVE  LoadRoot(d) \in [Slots -> Unit]
BY Sizes DEF LoadRoot, Disk

LEMMA PutRootDisk ==
  ASSUME NEW d \in Disk, NEW r \in [Slots -> Unit]
  PROVE  PutRoot(d, r) \in Disk
BY Sizes, OverwriteDisk DEF PutRoot

\* What is left of the window is all that a read of the root takes from before.
LEMMA ReadUnits ==
  ASSUME NEW d \in Disk, NEW c \in Clusters, NEW old,
         c = 0 => \A s \in Window : old[s] \in Unit
  PROVE  readFromCluster(d, c, old) \in [DirSlots -> Unit]
<1> SUFFICES ASSUME NEW s \in DirSlots
             PROVE  (IF c = 0 /\ s > RootRead THEN old[s] ELSE d[DirBase(c) + s]) \in Unit
  BY DEF readFromCluster
<1>1. CASE c = 0 /\ s > RootRead
  BY <1>1, Sizes
<1>2. CASE ~(c = 0 /\ s > RootRead)
  BY <1>2, ClusterOnDisk DEF Disk
<1> QED  BY <1>1, <1>2

LEMMA ResizedUnit ==
  ASSUME NEW u \in Entry, NEW n \in Nat
  PROVE  [u EXCEPT !.size = n] \in Unit
BY DEF Entry, Unit

LEMMA WithLengthUnits ==
  ASSUME NEW e \in [DirSlots -> Unit], NEW r, NEW n \in Nat
  PROVE  WithLength(e, r, n) \in [DirSlots -> Unit]
<1> DEFINE found == Scan({s \in DirSlots : RootMatch(e[s], r.name)})
           new(u) == [u EXCEPT !.size = n]
<1>1. ASSUME NEW s \in DirSlots, s \in found
      PROVE  new(e[s]) \in Unit
  <2>1. e[s] \in Entry  BY <1>1, EntryUnit DEF Scan, RootMatch
  <2> QED  BY <2>1, ResizedUnit
<1>2. WithLength(e, r, n) = [s \in DirSlots |-> IF s \in found THEN new(e[s]) ELSE e[s]]
  BY DEF WithLength
<1> HIDE DEF found, new
<1> QED  BY <1>1, <1>2

(***************************************************************************)
(* Type correctness                                                        *)
(***************************************************************************)

\* A walk stands at a component of the path.
TypeInv == TypeOK /\ (pc = "walk" => depth # 0)

\* What every call leaves in the variables for its arguments.
CallTypes ==
  /\ op \in {"none", "fatOpen", "fatCreate", "fatWrite", "fatRead"}
  /\ path \in Path /\ isDirectory \in BOOLEAN /\ text \in TextArg

\* The variables a call works on.
WorkTypes ==
  /\ fp \in File /\ ret \in 0..5
  /\ pc \in {"idle", "walk", "free", "place", "read", "fault"}
  /\ dir \in Clusters /\ depth \in Nat /\ cluster \in Clusters /\ i \in Nat
  /\ out \in Seq(Unit)
  /\ pc = "walk" => depth # 0

\* The disk and what is in memory of it.
StorageTypes ==
  /\ disk \in Disk /\ fat \in [Clusters -> FatValue]
  /\ fatTable \in [Clusters -> FatValue] /\ rootDir \in [Slots -> Unit]
  /\ dataEntries \in [Window -> Unit]

LEMMA TypeParts == TypeInv <=> CallTypes /\ WorkTypes /\ StorageTypes
BY Zenon DEF TypeInv, TypeOK, CallTypes, WorkTypes, StorageTypes, Disk, File, TextArg

LEMMA TypePartsNext == TypeInv' <=> CallTypes' /\ WorkTypes' /\ StorageTypes'
BY Zenon DEF TypeInv, TypeOK, CallTypes, WorkTypes, StorageTypes, Disk, File, TextArg

\* The components up to subDirectIndex are among those of the path.
LEMMA IndexIsNat ==
  ASSUME NEW p \in Path
  PROVE  subDirectIndex(p) \in Nat /\ subDirectIndex(p) <= Len(p.names)
<1> DEFINE n == Len(p.names)
           prefix == {j \in DOMAIN p.names : \A x \in 1..j : p.names[x] # <<>>}
<1>1. p.names \in Seq(Name)  BY DEF Path
<1>2. n \in Nat /\ DOMAIN p.names = 1..n  BY <1>1
<1>3. IsFiniteSet(1..n) /\ Cardinality(1..n) = n
  BY <1>2, FS_Interval, SMT
<1>4. prefix \subseteq 1..n  BY <1>2
<1>5. Cardinality(prefix) <= n  BY <1>3, <1>4, FS_Subset
<1>6. Cardinality(prefix) \in Nat  BY <1>3, <1>4, FS_Subset, FS_CardinalityType
<1>7. subDirectIndex(p) = Cardinality(prefix)  BY DEF subDirectIndex
<1> QED  BY <1>2, <1>5, <1>6, <1>7

LEMMA ComponentName ==
  ASSUME NEW p \in Path, NEW k \in Nat \ {0}, k <= subDirectIndex(p)
  PROVE  k \in DOMAIN p.names /\ p.names[k] \in Name
<1>1. p.names \in Seq(Name)  BY DEF Path
<1>2. k \in 1..Len(p.names)  BY <1>1, IndexIsNat
<1> QED  BY <1>1, <1>2

LEMMA InitTypes == Init => TypeInv
<1> SUFFICES ASSUME Init PROVE TypeInv
  OBVIOUS
<1>1. PICK m \in Images : disk = m.disk /\ fat = m.fat  BY DEF Init
<1>2. disk \in Disk /\ fat \in [Clusters -> FatValue]
  BY <1>1, ImageAssumption DEF Disk
<1>3. fatTable \in [Clusters -> FatValue] /\ rootDir \in [Slots -> Unit]
  BY <1>2, LoadRootUnits DEF Init
<1>4. dataEntries \in [Window -> Unit]  BY Constants DEF Init
<1>5. fp \in File /\ path \in Path /\ text \in TextArg  BY Constants DEF Init
<1>6. dir \in Clusters /\ cluster \in Clusters  BY SizeAssumption DEF Init
<1>7. /\ op \in {"none", "fatOpen", "fatCreate", "fatWrite", "fatRead"}
      /\ ret \in 0..5 /\ pc = "idle"
      /\ depth \in Nat /\ i \in Nat /\ out \in Seq(Unit)
  BY DEF Init
<1>8. isDirectory \in BOOLEAN  BY Zenon DEF Init
<1> QED
  BY <1>2, <1>3, <1>4, <1>5, <1>6, <1>7, <1>8 DEF TypeInv, TypeOK, Disk, File, TextArg

\* What initFatStructs loads has the type of the caches.
LEMMA LoadTypes ==
  ASSUME StorageTypes, initFatStructs
  PROVE  fatTable' \in [Clusters -> FatValue] /\ rootDir' \in [Slots -> Unit]
BY LoadRootUnits DEF StorageTypes, initFatStructs

\* The arguments of a call are of the caller's sets.
LEMMA BeginTypes ==
  ASSUME NEW o \in {"fatOpen", "fatCreate", "fatWrite", "fatRead"}, NEW p \in Path,
         NEW isDir \in BOOLEAN, NEW t \in TextArg, Begin(o, p, isDir, t)
  PROVE  CallTypes' /\ out' \in Seq(Unit)
BY DEF Begin, CallTypes

LEMMA ReturnTypes ==
  ASSUME NEW r \in 0..5, Return(r), fp' \in File, dir' \in Clusters, out' \in Seq(Unit)
  PROVE  WorkTypes'
BY SizeAssumption DEF Return, WorkTypes

LEMMA FailTypes ==
  ASSUME WorkTypes, StorageTypes, NEW r \in 0..5, Fail(r), out' \in Seq(Unit)
  PROVE  /\ WorkTypes'
         /\ disk' \in Disk /\ fat' \in [Clusters -> FatValue]
<1>1. /\ Return(r) /\ disk' \in Disk /\ fat' \in [Clusters -> FatValue]
      /\ fp' \in File /\ dir' \in Clusters
  BY Constants DEF Fail, storage, WorkTypes, StorageTypes
<1> QED  BY <1>1, ReturnTypes

\* A handle made from an entry, and the FAT and the root written back.
LEMMA HandleType ==
  ASSUME NEW c \in Clusters, NEW e \in Entry
  PROVE  Handle(c, e) \in File
BY DEF Handle, File, Entry

LEMMA WriteBackTypes ==
  ASSUME NEW d \in Disk, rootDir' \in [Slots -> Unit], fatTable' \in [Clusters -> FatValue],
         writeFatTable, writeRootDirectory(d)
  PROVE  disk' \in Disk /\ fat' \in [Clusters -> FatValue]
BY PutRootDisk DEF writeFatTable, writeRootDirectory

\* What a scan finds is an entry.
LEMMA FoundEntry ==
  ASSUME NEW n
  PROVE  /\ \A r \in [Slots -> Unit] : \A s \in FoundInRoot(r, n) : s \in Slots /\ r[s] \in Entry
         /\ \A e \in [DirSlots -> Unit] : \A s \in FoundInDir(e, n) : s \in DirSlots /\ e[s] \in Entry
         /\ \A r \in [Slots -> Unit] : \A s \in PlaceInRoot(r, n) : s \in Slots /\ r[s] \in Entry
         /\ \A e \in [DirSlots -> Unit] : \A s \in PlaceInDir(e, n) : s \in DirSlots /\ e[s] \in Entry
BY EntryUnit DEF FoundInRoot, FoundInDir, PlaceInRoot, PlaceInDir, Scan, RootMatch, DirMatch, FreeSlot

(***************************************************************************)
(* Every action keeps the types                                            *)
(***************************************************************************)

LEMMA StartWalkTypes ==
  ASSUME WorkTypes, StorageTypes, NEW p \in Path, StartWalk(p), out' \in Seq(Unit)
  PROVE  WorkTypes' /\ StorageTypes'
<1> DEFINE root == LoadRoot(disk)
           found == FoundInRoot(root, p.names[1])
<1>1. root \in [Slots -> Unit]  BY LoadRootUnits DEF StorageTypes
<1>2. /\ fatTable' \in [Clusters -> FatValue] /\ rootDir' \in [Slots -> Unit]
      /\ dataEntries' \in [Window -> Unit]
  BY LoadTypes DEF StartWalk, StorageTypes
<1>3. CASE found = {} /\ Fail(1)
  BY <1>2, <1>3, FailTypes DEF StorageTypes
<1>4. ASSUME NEW s \in found,
             pc' = "walk" /\ dir' = root[s].cluster /\ depth' = 2 /\ fp' = NoFile
               /\ UNCHANGED <<storage, ret, cluster, i>>
      PROVE  WorkTypes' /\ StorageTypes'
  <2>1. root[s] \in Entry  BY <1>1, FoundEntry
  <2>2. dir' \in Clusters  BY <1>4, <2>1 DEF Entry
  <2> QED  BY <1>2, <1>4, <2>2, Constants DEF WorkTypes, StorageTypes, storage
<1> QED  BY <1>3, <1>4 DEF StartWalk

LEMMA OpenRootTypes ==
  ASSUME TypeInv, NEW p \in Path, fatOpenRoot(p)
  PROVE  TypeInv'
<1> DEFINE root == LoadRoot(disk)
           found == FoundInRoot(root, p.names[1])
<1>1. WorkTypes /\ StorageTypes  BY TypeParts
<1>2. CallTypes' /\ out' \in Seq(Unit)
  BY BeginTypes, Constants DEF fatOpenRoot
<1>3. root \in [Slots -> Unit]  BY <1>1, LoadRootUnits DEF StorageTypes
<1>4. /\ fatTable' \in [Clusters -> FatValue] /\ rootDir' \in [Slots -> Unit]
      /\ dataEntries' \in [Window -> Unit]
  BY <1>1, LoadTypes DEF fatOpenRoot, StorageTypes
<1>5. CASE found = {} /\ Fail(1)
  <2>1. WorkTypes' /\ StorageTypes'
    BY <1>1, <1>2, <1>4, <1>5, FailTypes DEF StorageTypes
  <2> QED  BY <1>2, <2>1, TypePartsNext
<1>6. ASSUME NEW s \in found,
             fp' = Handle(0, root[s]) /\ dir' = 0
               /\ writeFatTable /\ writeRootDirectory(disk) /\ Return(0)
      PROVE  TypeInv'
  <2>1. root[s] \in Entry  BY <1>3, FoundEntry
  <2>2. 0 \in Clusters  BY SizeAssumption
  <2>3. fp' \in File /\ dir' \in Clusters  BY <1>6, <2>1, <2>2, HandleType
  <2>4. WorkTypes'  BY <1>2, <1>6, <2>3, ReturnTypes
  <2>5. StorageTypes'
    BY <1>1, <1>4, <1>6, WriteBackTypes DEF StorageTypes
  <2> QED  BY <1>2, <2>4, <2>5, TypePartsNext
<1> QED  BY <1>5, <1>6 DEF fatOpenRoot

LEMMA PathCallTypes ==
  ASSUME TypeInv, NEW p \in Path, NEW isDir \in BOOLEAN,
         fatOpenPath(p) \/ fatCreatePath(p, isDir)
  PROVE  TypeInv'
<1>1. WorkTypes /\ StorageTypes  BY TypeParts
<1>2. CASE fatOpenPath(p)
  <2>1. CallTypes' /\ out' \in Seq(Unit)
    BY <1>2, BeginTypes, Constants DEF fatOpenPath
  <2>2. WorkTypes' /\ StorageTypes'
    BY <1>1, <1>2, <2>1, StartWalkTypes DEF fatOpenPath
  <2> QED  BY <2>1, <2>2, TypePartsNext
<1>3. CASE fatCreatePath(p, isDir)
  <2>1. CallTypes' /\ out' \in Seq(Unit)
    BY <1>3, BeginTypes, Constants DEF fatCreatePath
  <2>2. WorkTypes' /\ StorageTypes'
    BY <1>1, <1>3, <2>1, StartWalkTypes DEF fatCreatePath
  <2> QED  BY <2>1, <2>2, TypePartsNext
<1> QED  BY <1>2, <1>3

\* The directory a walk reads, and what it leaves in the window.
LEMMA WindowUnits ==
  ASSUME NEW e \in [DirSlots -> Unit]
  PROVE  [s \in Window |-> e[s]] \in [Window -> Unit]
<1>1. Window \subseteq DirSlots  BY SizeAssumption
<1> QED  BY <1>1

LEMMA WalkUnits ==
  ASSUME WorkTypes, StorageTypes
  PROVE  /\ readFromCluster(disk, dir, dataEntries) \in [DirSlots -> Unit]
         /\ [s \in Window |-> readFromCluster(disk, dir, dataEntries)[s]]
              \in [Window -> Unit]
<1>1. readFromCluster(disk, dir, dataEntries) \in [DirSlots -> Unit]
  BY ReadUnits DEF WorkTypes, StorageTypes
<1> QED  BY <1>1, WindowUnits

LEMMA DescendTypes ==
  ASSUME WorkTypes, NEW c \in Clusters, Descend(c), out' \in Seq(Unit)
  PROVE  WorkTypes'
BY DEF Descend, WorkTypes

LEMMA OpenStepTypes ==
  ASSUME TypeInv, fatOpenStep
  PROVE  TypeInv'
<1> DEFINE entries == readFromCluster(disk, dir, dataEntries)
           found == FoundInDir(entries, path.names[depth])
<1>1. CallTypes /\ WorkTypes /\ StorageTypes  BY TypeParts
<1>2. CallTypes' /\ out' \in Seq(Unit)
  BY <1>1 DEF fatOpenStep, args, CallTypes, WorkTypes
<1>3. entries \in [DirSlots -> Unit] /\ [s \in Window |-> entries[s]] \in [Window -> Unit]
  BY <1>1, WalkUnits
<1>4. CASE Fail(2) /\ UNCHANGED caches /\ dataEntries' \in [Window -> Unit]
  <2>1. WorkTypes' /\ disk' \in Disk /\ fat' \in [Clusters -> FatValue]
    BY <1>1, <1>2, <1>4, FailTypes
  <2>2. StorageTypes'  BY <1>1, <1>4, <2>1 DEF StorageTypes, caches
  <2> QED  BY <1>2, <2>1, <2>2, TypePartsNext
<1>5. ASSUME NEW s \in found, UNCHANGED caches, dataEntries' \in [Window -> Unit],
             fp' = Handle(dir, entries[s]) /\ UNCHANGED dir,
             writeFatTable, writeRootDirectory(disk), Return(0)
      PROVE  TypeInv'
  <2>1. entries[s] \in Entry  BY <1>3, FoundEntry
  <2>2. fp' \in File /\ dir' \in Clusters
    BY <1>1, <1>5, <2>1, HandleType DEF WorkTypes
  <2>3. WorkTypes'  BY <1>2, <1>5, <2>2, ReturnTypes
  <2>4. fatTable' \in [Clusters -> FatValue] /\ rootDir' \in [Slots -> Unit]
    BY <1>1, <1>5 DEF StorageTypes, caches
  <2>5. StorageTypes'
    BY <1>1, <1>5, <2>4, WriteBackTypes DEF StorageTypes
  <2> QED  BY <1>2, <2>3, <2>5, TypePartsNext
<1>6. ASSUME NEW s \in found, UNCHANGED caches, dataEntries' \in [Window -> Unit],
             Descend(entries[s].cluster)
      PROVE  TypeInv'
  <2>1. entries[s] \in Entry  BY <1>3, FoundEntry
  <2>2. entries[s].cluster \in Clusters  BY <2>1 DEF Entry
  <2>3. WorkTypes'  BY <1>1, <1>2, <1>6, <2>2, DescendTypes
  <2>4. StorageTypes'  BY <1>1, <1>6 DEF StorageTypes, Descend, storage, caches
  <2> QED  BY <1>2, <2>3, <2>4, TypePartsNext
<1> HIDE DEF entries
<1>7. \/ Fail(2) /\ UNCHANGED caches /\ dataEntries' \in [Window -> Unit]
      \/ \E s \in found :
           /\ UNCHANGED caches /\ dataEntries' \in [Window -> Unit]
           /\ \/ /\ fp' = Handle(dir, entries[s]) /\ UNCHANGED dir
                 /\ writeFatTable /\ writeRootDirectory(disk) /\ Return(0)
              \/ Descend(entries[s].cluster)
  BY <1>1, <1>3 DEF fatOpenStep, entries, StorageTypes
<1> QED  BY <1>4, <1>5, <1>6, <1>7

\* The entry fatCreate makes is an entry, and the FAT stays a FAT.
LEMMA NewEntryTypes ==
  ASSUME NEW t \in [Clusters -> FatValue], NEW old \in Entry, NEW c \in NewCluster(t, old.cluster),
         NEW n \in Name, NEW isDir \in BOOLEAN
  PROVE  /\ c \in Clusters /\ Taken(t, c) \in [Clusters -> FatValue]
         /\ NewEntry(n, isDir, c) \in Entry
<1>1. c \in Clusters  BY DEF NewCluster, Scan, unallocated, Entry
<1>2. Taken(t, c) \in [Clusters -> FatValue]  BY <1>1 DEF Taken
<1>3. NewEntry(n, isDir, c) \in Entry  BY <1>1 DEF NewEntry, Entry
<1> QED  BY <1>1, <1>2, <1>3

\* A part of a name is a name, cut off at a character or at a length.
LEMMA PartIsName ==
  ASSUME NEW n \in Name, NEW x \in Nat \ {0}, NEW y \in Int, y <= Len(n)
  PROVE  SubSeq(n, x, y) \in Name /\ Len(SubSeq(n, x, y)) = IF x <= y THEN y - x + 1 ELSE 0
<1>1. \A k \in x..y : n[k] \in Char
  <2>1. Len(n) \in Nat /\ \A k \in 1..Len(n) : n[k] \in Char  BY DEF Name
  <2> QED  BY <2>1
<1> QED  BY <1>1, SubSeqProperties DEF Name

LEMMA BeforeIsName ==
  ASSUME NEW n \in Name, NEW c
  PROVE  Before(n, c) \in Name /\ Len(Before(n, c)) <= Len(n)
<1> DEFINE S == {k \in DOMAIN n : \A j \in 1..k : n[j] # c}
           l == Len(n)
<1>1. l \in Nat /\ DOMAIN n = 1..l  BY DEF Name
<1>2. IsFiniteSet(1..l) /\ Cardinality(1..l) = l
  <2> HIDE DEF l
  <2> QED  BY <1>1, FS_Interval
<1>3. S \subseteq 1..l  BY <1>1
<1>4. Cardinality(S) \in Nat /\ Cardinality(S) <= l
  BY <1>2, <1>3, FS_Subset, FS_CardinalityType
<1>5. Before(n, c) = SubSeq(n, 1, Cardinality(S))  BY DEF Before
<1> HIDE DEF S
<1> QED  BY <1>1, <1>4, <1>5, PartIsName

LEMMA CutIsName ==
  ASSUME NEW n \in Name, NEW l \in Nat
  PROVE  Cut(n, l) \in Name
<1>1. Len(n) \in Nat  BY DEF Name
<1> QED  BY <1>1, PartIsName DEF Cut

LEMMA StoredIsName ==
  ASSUME NEW n \in Name
  PROVE  Stored(n) \in Name
<1> DEFINE stem == Before(Cut(Before(n, "."), StemLength), " ")
           ext == Before(Cut(Extension(n), ExtLength), " ")
<1>1. stem \in Name  BY BeforeIsName, CutIsName, LimitAssumption
<1>2. Extension(n) \in Name
  <2>1. Len(n) \in Nat /\ Len(Before(n, ".")) \in Nat  BY BeforeIsName DEF Name
  <2> QED  BY <2>1, PartIsName DEF Extension
<1>3. ext \in Name  BY <1>2, BeforeIsName, CutIsName, LimitAssumption
<1>4. <<".">> \in Name  BY InputAssumption DEF Name
<1> HIDE DEF stem, ext
<1>5. stem \o <<".">> \o ext \in Name  BY <1>1, <1>3, <1>4 DEF Name
<1> QED  BY <1>1, <1>5 DEF Stored, stem, ext

LEMMA StoredNameType ==
  ASSUME NEW p \in Path, p.names # <<>>, Len(p.names) > 1 => subDirectIndex(p) # 0
  PROVE  NewName(p) \in Name /\ StoredName(p) \in Name
<1>1. p.names[1] \in Name  BY DEF Path
<1>2. <<"/">> \in Name  BY InputAssumption DEF Name
<1>3. <<"/">> \o p.names[1] \in Name  BY <1>1, <1>2 DEF Name
<1>4. Len(p.names) > 1 => p.names[subDirectIndex(p)] \in Name
  BY IndexIsNat, ComponentName
<1>5. NewName(p) \in Name  BY <1>1, <1>3, <1>4 DEF NewName
<1> QED  BY <1>5, StoredIsName DEF StoredName

LEMMA CreateRootTypes ==
  ASSUME TypeInv, NEW p \in Path, p.names # <<>>, NEW isDir \in BOOLEAN,
         fatCreateRoot(p, isDir)
  PROVE  TypeInv'
<1> DEFINE root == LoadRoot(disk)
           stop == PlaceInRoot(root, p.names[1])
<1>1. WorkTypes /\ StorageTypes  BY TypeParts
<1>2. CallTypes' /\ out' \in Seq(Unit)
  BY BeginTypes, Constants DEF fatCreateRoot
<1>3. root \in [Slots -> Unit]  BY <1>1, LoadRootUnits DEF StorageTypes
<1>4. dir' \in Clusters /\ fp' \in File /\ dataEntries' \in [Window -> Unit]
  BY <1>1, Constants, SizeAssumption DEF fatCreateRoot, StorageTypes
<1>5. ASSUME initFatStructs, UNCHANGED storage
      PROVE  StorageTypes'
  BY <1>1, <1>4, <1>5, LoadTypes DEF storage, StorageTypes
<1>6. CASE initFatStructs /\ Fault /\ UNCHANGED storage
  <2>1. WorkTypes'  BY <1>1, <1>2, <1>4, <1>6 DEF Fault, WorkTypes
  <2> QED  BY <1>2, <1>5, <1>6, <2>1, TypePartsNext
<1>7. CASE initFatStructs /\ Return(1) /\ UNCHANGED storage
  <2>1. WorkTypes'  BY <1>2, <1>4, <1>7, ReturnTypes
  <2> QED  BY <1>2, <1>5, <1>7, <2>1, TypePartsNext
<1>8. ASSUME NEW s \in stop, NEW c \in NewCluster(fat, root[s].cluster),
             fatTable' = Taken(fat, c),
             rootDir' = [root EXCEPT ![s] = NewEntry(StoredName(p), isDir, c)],
             writeFatTable, writeRootDirectory(disk), Return(0)
      PROVE  TypeInv'
  <2>1. s \in Slots /\ root[s] \in Entry  BY <1>3, FoundEntry
  <2>2. /\ Taken(fat, c) \in [Clusters -> FatValue]
        /\ NewEntry(StoredName(p), isDir, c) \in Entry
    <3>1. ~(Len(p.names) > 1)  BY DEF fatCreateRoot
    <3>2. StoredName(p) \in Name  BY <3>1, StoredNameType, Zenon
    <3> QED  BY <1>1, <2>1, <3>2, NewEntryTypes DEF StorageTypes
  <2>3. fatTable' \in [Clusters -> FatValue]  BY <1>8, <2>2
  <2>4. rootDir' \in [Slots -> Unit]  BY <1>3, <1>8, <2>2 DEF Unit
  <2>5. StorageTypes'
    BY <1>1, <1>4, <1>8, <2>3, <2>4, WriteBackTypes DEF StorageTypes
  <2>6. WorkTypes'  BY <1>2, <1>4, <1>8, ReturnTypes
  <2> QED  BY <1>2, <2>5, <2>6, TypePartsNext
<1> QED  BY <1>6, <1>7, <1>8 DEF fatCreateRoot

LEMMA CreateStepTypes ==
  ASSUME TypeInv, fatCreateStep
  PROVE  TypeInv'
<1> DEFINE entries == readFromCluster(disk, dir, dataEntries)
           name == path.names[depth]
           atEnd == depth = subDirectIndex(path)
           stop == IF atEnd THEN PlaceInDir(entries, name) ELSE FoundInDir(entries, name)
           placed(s, c) == [entries EXCEPT ![s] = NewEntry(StoredName(path), isDirectory, c)]
<1>1. CallTypes /\ WorkTypes /\ StorageTypes  BY TypeParts
<1>2. CallTypes' /\ out' \in Seq(Unit)
  BY <1>1 DEF fatCreateStep, args, CallTypes, WorkTypes
<1>3. entries \in [DirSlots -> Unit] /\ [s \in Window |-> entries[s]] \in [Window -> Unit]
  BY <1>1, WalkUnits
<1>4. \A s \in stop : s \in DirSlots /\ entries[s] \in Entry
  BY <1>3, FoundEntry
<1>5. CASE (\E r \in 2..4 : Fail(r)) /\ UNCHANGED caches /\ dataEntries' \in [Window -> Unit]
  <2>1. WorkTypes' /\ disk' \in Disk /\ fat' \in [Clusters -> FatValue]
    BY <1>1, <1>2, <1>5, FailTypes
  <2>2. StorageTypes'  BY <1>1, <1>5, <2>1 DEF StorageTypes, caches
  <2> QED  BY <1>2, <2>1, <2>2, TypePartsNext
<1>6. ASSUME NEW s \in stop, UNCHANGED caches, dataEntries' \in [Window -> Unit],
             Descend(entries[s].cluster)
      PROVE  TypeInv'
  <2>1. entries[s].cluster \in Clusters  BY <1>4 DEF Entry
  <2>2. WorkTypes'  BY <1>1, <1>2, <1>6, <2>1, DescendTypes
  <2>3. StorageTypes'  BY <1>1, <1>6 DEF StorageTypes, Descend, storage, caches
  <2> QED  BY <1>2, <2>2, <2>3, TypePartsNext
<1>7. ASSUME NEW s \in stop, atEnd, UNCHANGED <<rootDir, fp, dir>>, pc = "walk",
             dataEntries' \in [Window -> Unit],
             NEW c \in NewCluster(fatTable, entries[s].cluster),
             fatTable' = Taken(fatTable, c),
             writeRootDirectory(writeDataEntries(disk, dir, placed(s, c))),
             writeFatTable, Return(0)
      PROVE  TypeInv'
  <2>1. StoredName(path) \in Name
    <3>1. path \in Path /\ depth \in Nat \ {0}  BY <1>1, <1>7 DEF CallTypes, WorkTypes
    <3>2. path.names # <<>>  BY <1>7, <3>1, ComponentName
    <3> QED  BY <1>7, <3>1, <3>2, StoredNameType
  <2>2. c \in Clusters /\ fatTable' \in [Clusters -> FatValue]
        /\ NewEntry(StoredName(path), isDirectory, c) \in Unit
    BY <1>1, <1>4, <1>7, <2>1, NewEntryTypes DEF StorageTypes, CallTypes, Unit
  <2>3. placed(s, c) \in [DirSlots -> Unit]  BY <1>3, <2>2
  <2> HIDE DEF placed
  <2>4. writeDataEntries(disk, dir, placed(s, c)) \in Disk
    BY <1>1, <2>3, OverwriteDisk, ClusterOnDisk
    DEF writeDataEntries, WorkTypes, StorageTypes
  <2>5. rootDir' \in [Slots -> Unit]  BY <1>1, <1>7 DEF StorageTypes
  <2>6. StorageTypes'
    BY <1>7, <2>2, <2>4, <2>5, WriteBackTypes DEF StorageTypes
  <2>7. fp' \in File /\ dir' \in Clusters  BY <1>1, <1>7 DEF WorkTypes
  <2>8. WorkTypes'  BY <1>2, <1>7, <2>7, ReturnTypes
  <2> QED  BY <1>2, <2>6, <2>8, TypePartsNext
<1>8. \/ (\E r \in 2..4 : Fail(r)) /\ UNCHANGED caches /\ dataEntries' \in [Window -> Unit]
      \/ \E s \in stop :
           /\ UNCHANGED caches /\ dataEntries' \in [Window -> Unit]
           /\ Descend(entries[s].cluster)
      \/ \E s \in stop :
           /\ atEnd /\ UNCHANGED <<rootDir, fp, dir>> /\ pc = "walk"
           /\ dataEntries' \in [Window -> Unit]
           /\ \E c \in NewCluster(fatTable, entries[s].cluster) :
                /\ fatTable' = Taken(fatTable, c)
                /\ writeRootDirectory(writeDataEntries(disk, dir, placed(s, c)))
           /\ writeFatTable /\ Return(0)
  <2>1. CASE depth > subDirectIndex(path) /\ Fail(4) /\ UNCHANGED <<dataEntries, caches>>
    BY <1>1, <2>1 DEF StorageTypes
  <2>2. CASE /\ dataEntries' = [s \in Window |-> entries[s]]
             /\ stop = {} /\ Fail(2) /\ UNCHANGED caches
    BY <1>3, <2>2
  <2>3. CASE /\ dataEntries' = [s \in Window |-> entries[s]]
             /\ \E s \in stop :
                  /\ UNCHANGED caches
                  /\ \/ atEnd /\ ~FreeSlot(entries[s]) /\ Fail(3)
                     \/ ~atEnd /\ Descend(entries[s].cluster)
    BY <1>3, <2>3
  <2>4. CASE /\ dataEntries' = [s \in Window |-> entries[s]]
             /\ \E s \in stop :
                  /\ atEnd /\ FreeSlot(entries[s])
                  /\ UNCHANGED <<rootDir, fp, dir>>
                  /\ \E c \in NewCluster(fatTable, entries[s].cluster) :
                       /\ fatTable' = Taken(fatTable, c)
                       /\ writeRootDirectory(writeDataEntries(disk, dir, placed(s, c)))
                  /\ writeFatTable /\ Return(0)
    BY <1>3, <2>4 DEF fatCreateStep
  <2> QED  BY <2>1, <2>2, <2>3, <2>4 DEF fatCreateStep
<1> QED  BY <1>5, <1>6, <1>7, <1>8

LEMMA FatWriteTypes ==
  ASSUME TypeInv, NEW t \in TextArg, fatWrite(t)
  PROVE  TypeInv'
<1>1. CallTypes /\ WorkTypes /\ StorageTypes  BY TypeParts
<1>2. CallTypes' /\ out' \in Seq(Unit)
  BY <1>1, BeginTypes DEF fatWrite, CallTypes
<1>3. WorkTypes'  BY <1>1, <1>2 DEF fatWrite, WorkTypes, File
<1>4. StorageTypes'  BY <1>1, LoadTypes DEF fatWrite, StorageTypes, storage
<1> QED  BY <1>2, <1>3, <1>4, TypePartsNext

LEMMA FreeClusterTypes ==
  ASSUME TypeInv, FreeCluster
  PROVE  TypeInv'
<1>1. CallTypes /\ WorkTypes /\ StorageTypes  BY TypeParts
<1>2. disk' \in Disk
  BY <1>1, WriteDisk, Constants DEF FreeCluster, WorkTypes, StorageTypes
<1>3. fatTable' \in [Clusters -> FatValue]
  <2>1. 0 \in FatValue  BY SizeAssumption
  <2>2. fatTable \in [Clusters -> FatValue] /\ fatTable' = [fatTable EXCEPT ![cluster] = 0]
    BY <1>1 DEF FreeCluster, StorageTypes
  <2> HIDE DEF Clusters, FatValue
  <2> QED  BY <2>1, <2>2
<1>4. StorageTypes'  BY <1>1, <1>2, <1>3 DEF FreeCluster, StorageTypes
<1>5. cluster' \in Clusters  BY <1>1 DEF FreeCluster, StorageTypes, WorkTypes
<1>6. WorkTypes'  BY <1>1, <1>5 DEF FreeCluster, WorkTypes
<1>7. CallTypes'  BY <1>1 DEF FreeCluster, CallTypes, args
<1> QED  BY <1>4, <1>6, <1>7, TypePartsNext

\* The new length goes to an entry of the directory, or nowhere.
LEMMA FileLengthDisk ==
  ASSUME WorkTypes, StorageTypes, NEW d \in Disk, NEW f \in File, f.parent = fp.parent,
         NEW n \in Nat, NEW g \in Residue
  PROVE  writeFileLength(d, f, n, g) \in Disk
<1>1. f.parent \in Clusters  BY DEF File
<1>2. f.parent = 0 => \A s \in Window : g[s] \in Unit
  BY Constants DEF Residue, StorageTypes
<1>3. readFromCluster(d, f.parent, g) \in [DirSlots -> Unit]  BY <1>1, <1>2, ReadUnits
<1>4. WithLength(readFromCluster(d, f.parent, g), f.rde, n) \in [DirSlots -> Unit]
  BY <1>3, WithLengthUnits
<1> QED
  BY <1>1, <1>4, OverwriteDisk, ClusterOnDisk DEF writeFileLength, writeDataEntries

LEMMA MovedType ==
  ASSUME WorkTypes
  PROVE  Moved(cluster) \in File /\ Moved(cluster).parent = fp.parent
BY DEF Moved, WorkTypes, File, Entry

LEMMA FinishTypes ==
  ASSUME TypeInv, NEW d \in Disk, NEW f \in File, f.parent = fp.parent,
         NEW t \in [Clusters -> FatValue], Finish(d, f, t)
  PROVE  TypeInv'
<1>1. CallTypes /\ WorkTypes /\ StorageTypes  BY TypeParts
<1>2. CallTypes' /\ out' \in Seq(Unit) /\ fp' \in File /\ dir' \in Clusters
  BY <1>1 DEF Finish, args, CallTypes, WorkTypes
<1>3. WorkTypes'  BY <1>2, ReturnTypes DEF Finish
<1>4. PICK g \in Residue :
        LET e == writeFileLength(d, f, text.len, g)
        IN  rootDir' = LoadRoot(e) /\ writeRootDirectory(e)
  BY DEF Finish
<1> DEFINE e == writeFileLength(d, f, text.len, g)
<1>5. e \in Disk
  BY <1>1, FileLengthDisk DEF CallTypes, TextArg
<1>6. rootDir' = LoadRoot(e) /\ writeRootDirectory(e)  BY <1>4
<1> HIDE DEF e
<1>7. rootDir' \in [Slots -> Unit]  BY <1>5, <1>6, LoadRootUnits
<1>8. fatTable' \in [Clusters -> FatValue] /\ writeFatTable
      /\ dataEntries' \in [Window -> Unit]
  BY <1>1 DEF Finish, StorageTypes
<1>9. StorageTypes'  BY <1>5, <1>6, <1>7, <1>8, WriteBackTypes DEF StorageTypes
<1> QED  BY <1>2, <1>3, <1>9, TypePartsNext

LEMMA WriteTypes ==
  ASSUME TypeInv, WriteSingle \/ WriteLinked \/ WriteLast \/ WriteWild
  PROVE  TypeInv'
<1>1. CallTypes /\ WorkTypes /\ StorageTypes  BY TypeParts
<1>2. \A k \in Nat : ClearAndWrite(disk, cluster, text, k) \in Disk
  BY <1>1, ClearAndWriteDisk DEF CallTypes, WorkTypes, StorageTypes
<1>3. [fatTable EXCEPT ![cluster] = EOC] \in [Clusters -> FatValue]
  BY <1>1 DEF StorageTypes
<1>4. CASE WriteSingle
  BY <1>1, <1>2, <1>3, <1>4, FinishTypes, MovedType DEF WriteSingle
<1>5. CASE WriteLast
  BY <1>1, <1>2, <1>3, <1>5, FinishTypes DEF WriteLast, WorkTypes
<1>6. CASE WriteLinked
  <2>1. PICK next \in Scan(unallocated(fatTable)) :
          fatTable' = [fatTable EXCEPT ![cluster] = next] /\ cluster' = next
    BY <1>6 DEF WriteLinked
  <2>2. next \in Clusters  BY DEF Scan, unallocated
  <2>3. fatTable' \in [Clusters -> FatValue] /\ cluster' \in Clusters
    BY <1>1, <2>1, <2>2 DEF StorageTypes
  <2>4. disk' \in Disk  BY <1>1, <1>2, <1>6 DEF WriteLinked, WorkTypes
  <2>5. fp' \in File  BY <1>1, <1>6, MovedType DEF WriteLinked, WorkTypes
  <2>6. CallTypes'  BY <1>1, <1>6 DEF WriteLinked, CallTypes, args
  <2>7. WorkTypes'  BY <1>1, <1>6, <2>3, <2>5 DEF WriteLinked, WorkTypes
  <2>8. StorageTypes'  BY <1>1, <1>6, <2>3, <2>4 DEF WriteLinked, StorageTypes
  <2> QED  BY <2>6, <2>7, <2>8, TypePartsNext
<1>7. CASE WriteWild
  <2>1. CallTypes'  BY <1>1, <1>7 DEF WriteWild, CallTypes, args
  <2>2. WorkTypes'  BY <1>1, <1>7 DEF WriteWild, Fault, WorkTypes
  <2>3. StorageTypes'  BY <1>1, <1>7 DEF WriteWild, StorageTypes, storage, caches
  <2> QED  BY <2>1, <2>2, <2>3, TypePartsNext
<1> QED  BY <1>4, <1>5, <1>6, <1>7

LEMMA FatReadTypes ==
  ASSUME TypeInv, fatRead
  PROVE  TypeInv'
<1>1. CallTypes /\ WorkTypes /\ StorageTypes  BY TypeParts
<1>2. CallTypes' /\ out' \in Seq(Unit)
  BY <1>1, BeginTypes, Constants DEF fatRead, CallTypes
<1>3. WorkTypes'  BY <1>1, <1>2 DEF fatRead, WorkTypes, File
<1>4. StorageTypes'  BY <1>1, LoadTypes DEF fatRead, StorageTypes, storage
<1> QED  BY <1>2, <1>3, <1>4, TypePartsNext

LEMMA ReadTypes ==
  ASSUME TypeInv, ReadSingle \/ ReadLinked
  PROVE  TypeInv'
<1>1. CallTypes /\ WorkTypes /\ StorageTypes  BY TypeParts
<1>2. CallTypes' /\ StorageTypes'
  BY <1>1 DEF ReadSingle, ReadLinked, CallTypes, StorageTypes, args, storage, caches
<1>3. fp' \in File /\ dir' \in Clusters
  BY <1>1 DEF ReadSingle, ReadLinked, WorkTypes
<1>4. ReadData \in [DirSlots -> Unit]
  <2> DEFINE old == [s \in DirSlots |-> Junk]
  <2>1. \A s \in Window : old[s] \in Unit  BY Constants, SizeAssumption
  <2> HIDE DEF old
  <2>2. readFromCluster(disk, cluster, old) \in [DirSlots -> Unit]
    BY <1>1, <2>1, ReadUnits DEF WorkTypes, StorageTypes
  <2> QED  BY <2>2 DEF ReadData, old
<1>5. fp.rde.size \in Nat  BY <1>1 DEF WorkTypes, File, Entry
<1>6. DirSize \in Nat  BY SizeAssumption
<1>7. CASE ReadSingle
  <2>1. out' \in Seq(Unit)
    BY <1>4, <1>5, <1>6, <1>7, Constants DEF ReadSingle
  <2>2. WorkTypes'  BY <1>3, <1>7, <2>1, ReturnTypes DEF ReadSingle
  <2> QED  BY <1>2, <2>2, TypePartsNext
<1>8. CASE ReadLinked
  <2> DEFINE n == IF Wanted < DirSize THEN Wanted ELSE DirSize
  <2>1. n \in Int /\ n <= DirSize  BY <1>1, <1>5, <1>6 DEF Wanted, WorkTypes
  <2>2. [k \in 1..n |-> ReadData[k]] \in Seq(Unit)
    <3> HIDE DEF n
    <3>1. \A k \in 1..n : ReadData[k] \in Unit  BY <1>4, <1>6, <2>1
    <3>2. CASE n >= 0  BY <2>1, <3>1, <3>2
    <3>3. CASE n < 0
      <4>1. 1..n = 1..0  BY <2>1, <3>3
      <4>2. [k \in 1..0 |-> ReadData[k]] \in Seq(Unit)  OBVIOUS
      <4> QED  BY <4>1, <4>2
    <3> QED  BY <2>1, <3>2, <3>3
  <2>3. out' \in Seq(Unit)  BY <1>1, <1>8, <2>2 DEF ReadLinked, WorkTypes
  <2>4. CASE Return(1)  BY <1>2, <1>3, <2>3, <2>4, ReturnTypes, TypePartsNext
  <2>5. CASE /\ fatTable[cluster] # EOC
             /\ cluster' = fatTable[cluster] /\ i' = i + 1
             /\ UNCHANGED <<pc, ret, depth>>
    <3>1. cluster' \in Clusters  BY <1>1, <2>5 DEF StorageTypes, WorkTypes
    <3>2. WorkTypes'  BY <1>1, <1>3, <2>3, <2>5, <3>1 DEF WorkTypes
    <3> QED  BY <1>2, <3>2, TypePartsNext
  <2> QED  BY <1>8, <2>4, <2>5 DEF ReadLinked
<1> QED  BY <1>7, <1>8

\* What goes astray stops where it is, or with the caches loaded.
Stray == WalkAstray \/ LengthAstray \/ ClusterAstray

LEMMA StrayStops ==
  ASSUME Stray
  PROVE  Fault /\ UNCHANGED <<storage, caches, dataEntries, fp, args, dir, out>>
BY Zenon DEF Stray, WalkAstray, LengthAstray, ClusterAstray

LEMMA ScanStops ==
  ASSUME NEW o, NEW p, NEW isDir, ScanAstray(o, p, isDir)
  PROVE  /\ Begin(o, p, isDir, NoText) /\ initFatStructs /\ Fault
         /\ dir' = 0 /\ fp' = NoFile /\ UNCHANGED <<storage, dataEntries>>
BY Zenon DEF ScanAstray

LEMMA StrayTypes ==
  ASSUME TypeInv, Stray
  PROVE  TypeInv'
<1>1. CallTypes /\ WorkTypes /\ StorageTypes  BY TypeParts
<1>2. CallTypes'  BY <1>1, StrayStops DEF CallTypes, args
<1>3. WorkTypes'  BY <1>1, StrayStops DEF Fault, WorkTypes
<1>4. StorageTypes'  BY <1>1, StrayStops DEF StorageTypes, storage, caches
<1> QED  BY <1>2, <1>3, <1>4, TypePartsNext

LEMMA ScanAstrayTypes ==
  ASSUME TypeInv, NEW o \in {"fatOpen", "fatCreate"}, NEW p \in Path,
         NEW isDir \in BOOLEAN, ScanAstray(o, p, isDir)
  PROVE  TypeInv'
<1>1. WorkTypes /\ StorageTypes  BY TypeParts
<1>2. CallTypes' /\ out' \in Seq(Unit)  BY BeginTypes, ScanStops, Constants
<1>3. dir' \in Clusters /\ fp' \in File  BY ScanStops, Constants, SizeAssumption
<1>4. StorageTypes'  BY <1>1, ScanStops, LoadTypes DEF storage, StorageTypes
<1>5. WorkTypes'  BY <1>1, <1>2, <1>3, ScanStops DEF Fault, WorkTypes
<1> QED  BY <1>2, <1>4, <1>5, TypePartsNext

LEMMA StutterTypes ==
  ASSUME TypeInv, UNCHANGED vars
  PROVE  TypeInv'
BY DEF vars, TypeInv, TypeOK

LEMMA NextTypes == TypeInv /\ [Next]_vars => TypeInv'
<1> SUFFICES ASSUME TypeInv, [Next]_vars PROVE TypeInv'
  OBVIOUS
<1>1. ASSUME NEW p \in Paths, fatOpenRoot(p) \/ fatOpenPath(p) PROVE TypeInv'
  <2>1. p \in Path /\ FALSE \in BOOLEAN  BY InputAssumption
  <2> QED  BY <1>1, <2>1, OpenRootTypes, PathCallTypes
<1>2. ASSUME NEW p \in Paths, NEW isDir \in BOOLEAN,
             fatCreateRoot(p, isDir) \/ fatCreatePath(p, isDir)
      PROVE  TypeInv'
  <2>1. p \in Path /\ p.names # <<>>  BY InputAssumption
  <2> QED  BY <1>2, <2>1, CreateRootTypes, PathCallTypes
<1>3. ASSUME NEW t \in Texts, fatWrite(t) PROVE TypeInv'
  <2>1. t \in TextArg  BY InputAssumption DEF TextArg
  <2> QED  BY <1>3, <2>1, FatWriteTypes
<1>4. CASE fatRead  BY <1>4, FatReadTypes
<1>5. CASE fatOpenStep  BY <1>5, OpenStepTypes
<1>6. CASE fatCreateStep  BY <1>6, CreateStepTypes
<1>7. CASE FreeCluster  BY <1>7, FreeClusterTypes
<1>8. CASE WriteSingle \/ WriteLinked \/ WriteLast \/ WriteWild  BY <1>8, WriteTypes
<1>9. CASE ReadSingle \/ ReadLinked  BY <1>9, ReadTypes
<1>10. CASE UNCHANGED vars  BY <1>10, StutterTypes
<1>11. ASSUME NEW o \in {"fatOpen", "fatCreate"}, NEW p \in Paths, NEW isDir \in BOOLEAN,
              ScanAstray(o, p, isDir)
       PROVE  TypeInv'
  BY <1>11, InputAssumption, ScanAstrayTypes
<1>12. CASE Stray  BY <1>12, StrayTypes
<1> QED
  BY <1>1, <1>2, <1>3, <1>4, <1>5, <1>6, <1>7, <1>8, <1>9, <1>10, <1>11, <1>12
  DEF Next, Call, Step, Stray

\* The types hold at every step of every call, and a walk stands at a component.
THEOREM TypesHold == Spec => []TypeInv
<1>1. Init => TypeInv  BY InitTypes
<1>2. TypeInv /\ [Next]_vars => TypeInv'  BY NextTypes
<1> QED  BY <1>1, <1>2, PTL DEF Spec

\* Whatever the disk holds and whatever calls are made, the disk, the FAT and the
\* caches keep their types and every FAT index, slot and address is in range.
THEOREM TypeCorrect == Spec => []TypeOK
<1>1. TypeInv => TypeOK  BY DEF TypeInv
<1> QED  BY <1>1, TypesHold, PTL

(***************************************************************************)
(* The caches                                                              *)
(***************************************************************************)

\* The caches differ from the disk only while fatWrite works on them.
CacheInv ==
  pc \in {"idle", "walk", "read"} => fatTable = fat /\ rootDir = LoadRoot(disk)

\* The root directory written back is the one a load finds.
LEMMA RootRoundTrip ==
  ASSUME NEW d, NEW r \in [Slots -> Unit]
  PROVE  LoadRoot(PutRoot(d, r)) = r
<1>1. ASSUME NEW s \in Slots
      PROVE  PutRoot(d, r)[s - RootSize] = r[s]
  <2>1. s - RootSize \in Addr  BY Sizes
  <2>2. (s - RootSize) - (-RootSize) = s  BY Sizes
  <2> QED  BY <2>1, <2>2 DEF PutRoot, Overwrite
<1> QED  BY <1>1 DEF LoadRoot

LEMMA WriteBackCaches ==
  ASSUME NEW d, rootDir' \in [Slots -> Unit], writeFatTable, writeRootDirectory(d)
  PROVE  fatTable' = fat' /\ rootDir' = LoadRoot(disk')
BY RootRoundTrip DEF writeFatTable, writeRootDirectory

LEMMA FreshCaches ==
  ASSUME initFatStructs, UNCHANGED storage
  PROVE  fatTable' = fat' /\ rootDir' = LoadRoot(disk')
BY DEF initFatStructs, storage, LoadRoot

LEMMA KeptCaches ==
  ASSUME CacheInv, pc \in {"idle", "walk", "read"}, UNCHANGED storage, UNCHANGED caches
  PROVE  fatTable' = fat' /\ rootDir' = LoadRoot(disk')
BY DEF CacheInv, storage, caches, LoadRoot

LEMMA CallCaches ==
  ASSUME TypeInv', NEW p, NEW isDir, NEW t,
         \/ fatOpenRoot(p) \/ fatOpenPath(p) \/ fatCreateRoot(p, isDir) \/ fatCreatePath(p, isDir)
         \/ fatWrite(t) \/ fatRead \/ \E o : ScanAstray(o, p, isDir)
  PROVE  CacheInv'
<1>1. rootDir' \in [Slots -> Unit]  BY DEF TypeInv, TypeOK
<1>2. CASE fatOpenRoot(p)
  <2>1. CASE initFatStructs /\ UNCHANGED storage
    BY <2>1, FreshCaches DEF CacheInv
  <2>2. CASE writeFatTable /\ writeRootDirectory(disk)
    BY <1>1, <2>2, WriteBackCaches DEF CacheInv
  <2> QED  BY <1>2, <2>1, <2>2 DEF fatOpenRoot, Fail
<1>3. CASE StartWalk(p)
  BY <1>3, FreshCaches DEF StartWalk, Fail, CacheInv, storage
<1>4. CASE fatCreateRoot(p, isDir)
  <2>1. CASE initFatStructs /\ UNCHANGED storage
    BY <2>1, FreshCaches DEF CacheInv
  <2>2. CASE writeFatTable /\ writeRootDirectory(disk)
    BY <1>1, <2>2, WriteBackCaches DEF CacheInv
  <2> QED  BY <1>4, <2>1, <2>2 DEF fatCreateRoot
<1>5. CASE fatWrite(t)
  BY <1>5 DEF fatWrite, CacheInv
<1>6. CASE fatRead
  BY <1>6, FreshCaches DEF fatRead, CacheInv
<1>7. CASE \E o : ScanAstray(o, p, isDir)
  BY <1>7, ScanStops DEF Fault, CacheInv
<1> QED  BY <1>2, <1>3, <1>4, <1>5, <1>6, <1>7 DEF fatOpenPath, fatCreatePath

LEMMA StepCaches ==
  ASSUME TypeInv, TypeInv', CacheInv, Step
  PROVE  CacheInv'
<1>1. rootDir' \in [Slots -> Unit]  BY DEF TypeInv, TypeOK
<1>2. CASE fatOpenStep
  <2>1. CASE UNCHANGED storage /\ UNCHANGED caches
    BY <1>2, <2>1, KeptCaches DEF fatOpenStep, CacheInv
  <2>2. CASE writeFatTable /\ writeRootDirectory(disk)
    BY <1>1, <2>2, WriteBackCaches DEF CacheInv
  <2> QED  BY <1>2, <2>1, <2>2 DEF fatOpenStep, Fail, Descend, storage
<1>3. CASE fatCreateStep
  <2>1. CASE UNCHANGED storage /\ UNCHANGED caches
    BY <1>3, <2>1, KeptCaches DEF fatCreateStep, CacheInv
  <2>2. CASE writeFatTable /\ \E e : writeRootDirectory(e)
    BY <1>1, <2>2, WriteBackCaches DEF CacheInv
  <2> QED  BY <1>3, <2>1, <2>2 DEF fatCreateStep, Fail, Descend, storage, caches
<1>4. CASE FreeCluster \/ WriteLinked \/ WriteWild
  BY <1>4 DEF FreeCluster, WriteLinked, WriteWild, Fault, CacheInv
<1>5. CASE WriteSingle \/ WriteLast
  <2>1. writeFatTable /\ \E e : writeRootDirectory(e)
    BY <1>5 DEF WriteSingle, WriteLast, Finish
  <2> QED  BY <1>1, <2>1, WriteBackCaches DEF CacheInv
<1>6. CASE ReadSingle \/ ReadLinked
  BY <1>6, KeptCaches DEF ReadSingle, ReadLinked, CacheInv
<1>7. CASE Stray  BY <1>7, StrayStops DEF Fault, CacheInv
<1> QED  BY <1>2, <1>3, <1>4, <1>5, <1>6, <1>7 DEF Step, Stray

\* Between calls the two caches are what the disk holds, for every disk and every
\* sequence of calls: ls may list the cached root directory without a reload.
THEOREM CachesCoherent == Spec => []CachesAreTheDisk
<1>1. Init => CacheInv  BY DEF Init, CacheInv
<1>2. TypeInv /\ TypeInv' /\ CacheInv /\ [Next]_vars => CacheInv'
  <2> SUFFICES ASSUME TypeInv, TypeInv', CacheInv, [Next]_vars PROVE CacheInv'
    OBVIOUS
  <2>1. CASE UNCHANGED vars  BY <2>1 DEF vars, CacheInv, LoadRoot
  <2>2. CASE Call  BY <2>2, CallCaches DEF Call
  <2> QED  BY <2>1, <2>2, StepCaches DEF Next
<1>3. CacheInv => CachesAreTheDisk  BY DEF CacheInv, CachesAreTheDisk, Idle
<1> QED  BY <1>1, <1>2, <1>3, TypesHold, PTL DEF Spec

(***************************************************************************)
(* Chains that end                                                         *)
(***************************************************************************)

\* What FreeCluster has done to the cached FAT: entries freed, never the last of
\* a chain.  Longer texts alone are placed over several clusters.
Freed == \A c \in Clusters : \/ fatTable[c] = fat[c]
                             \/ fatTable[c] = 0 /\ fat[c] # EOC
ChainInv ==
  /\ CacheInv
  /\ pc = "free" => Freed
  /\ pc = "place" => clustersNeeded(text) > 1

Ends(t) ==
  /\ t[0] = EOC /\ t[1] = EOC
  /\ \A S \in SUBSET Clusters : S # {} => \E c \in S : t[c] \notin S

\* A FAT some of whose entries are freed or become the last of a chain has no ring
\* that it had not before: a walk that comes to a free entry ends in cluster 0.
LEMMA StillEnds ==
  ASSUME NEW t, Ends(t), NEW u,
         \A c \in Clusters : u[c] = t[c] \/ u[c] = EOC \/ (u[c] = 0 /\ t[c] # EOC)
  PROVE  Ends(u)
<1>1. EOC \notin Clusters /\ 0 \in Clusters /\ 1 \in Clusters
  BY SizeAssumption DEF EOC
<1>2. u[0] = EOC /\ u[1] = EOC  BY <1>1 DEF Ends
<1>3. ASSUME NEW S \in SUBSET Clusters, S # {} PROVE \E c \in S : u[c] \notin S
  <2>1. PICK c \in S : t[c] \notin S  BY <1>3 DEF Ends
  <2>2. CASE 0 \in S  BY <1>1, <1>2, <2>2
  <2>3. CASE 0 \notin S  BY <1>1, <2>1, <2>3
  <2> QED  BY <2>2, <2>3
<1> QED  BY <1>2, <1>3 DEF Ends

LEMMA TakenEnds ==
  ASSUME fat \in [Clusters -> FatValue], NEW c \in Clusters, fat' = Taken(fat, c), ChainsEnd
  PROVE  ChainsEnd'
<1>1. \A x \in Clusters : fat'[x] = fat[x] \/ fat'[x] = EOC  BY DEF Taken
<1>2. Ends(fat)  BY DEF ChainsEnd, Ends
<1>3. Ends(fat')  BY <1>1, <1>2, StillEnds
<1> QED  BY <1>3 DEF ChainsEnd, Ends

LEMMA CreateEnds ==
  ASSUME TypeInv, TypeInv', ChainInv, ChainsEnd,
         fatCreateStep \/ \E p \in Paths, isDir \in BOOLEAN : fatCreateRoot(p, isDir)
  PROVE  ChainsEnd'
<1>1. disk \in Disk /\ fat \in [Clusters -> FatValue] /\ WorkTypes /\ StorageTypes
  BY TypeParts DEF TypeInv, TypeOK, Disk
<1>2. CASE fat' = fat  BY <1>2 DEF ChainsEnd
<1>3. ASSUME NEW u \in Entry, NEW c \in NewCluster(fat, u.cluster), fat' = Taken(fat, c)
      PROVE  ChainsEnd'
  <2>1. u.cluster \in Clusters  BY DEF Entry
  <2>2. c \in Clusters  BY <2>1 DEF NewCluster, Scan, unallocated
  <2> QED  BY <1>1, <1>3, <2>2, TakenEnds
<1>4. ASSUME NEW p \in Paths, NEW isDir \in BOOLEAN, fatCreateRoot(p, isDir)
      PROVE  \/ fat' = fat
             \/ \E u \in Entry : \E c \in NewCluster(fat, u.cluster) : fat' = Taken(fat, c)
  <2>1. \A s \in PlaceInRoot(LoadRoot(disk), p.names[1]) : LoadRoot(disk)[s] \in Entry
    BY <1>1, FoundEntry, LoadRootUnits
  <2> QED  BY <1>4, <2>1 DEF fatCreateRoot, writeFatTable, storage
<1>5. CASE fatCreateStep
  <2> DEFINE entries == readFromCluster(disk, dir, dataEntries)
             name == path.names[depth]
  <2>1. fatTable = fat  BY <1>5 DEF fatCreateStep, ChainInv, CacheInv
  <2>2. entries \in [DirSlots -> Unit]  BY <1>1, WalkUnits
  <2>3. /\ \A s \in PlaceInDir(entries, name) : entries[s] \in Entry
        /\ \A s \in FoundInDir(entries, name) : entries[s] \in Entry
    BY <2>2, FoundEntry
  <2>4. \/ fat' = fat
        \/ \E s \in PlaceInDir(entries, name) \cup FoundInDir(entries, name) :
             \E c \in NewCluster(fatTable, entries[s].cluster) : fat' = Taken(fatTable, c)
    BY <1>5 DEF fatCreateStep, Fail, Descend, writeFatTable, storage
  <2> HIDE DEF entries, name
  <2> QED  BY <1>2, <1>3, <2>1, <2>3, <2>4
<1> QED  BY <1>2, <1>3, <1>4, <1>5

LEMMA WriteEnds ==
  ASSUME TypeInv, ChainInv, ChainsEnd, WriteSingle
  PROVE  ChainsEnd'
<1>1. fat' = [fatTable EXCEPT ![cluster] = EOC] /\ Freed
  BY DEF WriteSingle, Finish, writeFatTable, ChainInv
<1>2. fatTable \in [Clusters -> FatValue]  BY DEF TypeInv, TypeOK
<1>3. \A c \in Clusters : fat'[c] = fat[c] \/ fat'[c] = EOC \/ (fat'[c] = 0 /\ fat[c] # EOC)
  BY <1>1, <1>2 DEF Freed
<1>4. Ends(fat)  BY DEF ChainsEnd, Ends
<1>5. Ends(fat')  BY <1>3, <1>4, StillEnds
<1> QED  BY <1>5 DEF ChainsEnd, Ends

LEMMA ChainStep ==
  ASSUME TypeInv, TypeInv', ChainInv, [Next]_vars
  PROVE  ChainInv'
<1>1. CacheInv'
  <2>1. CASE UNCHANGED vars  BY <2>1 DEF vars, ChainInv, CacheInv, LoadRoot
  <2>2. CASE Call  BY <2>2, CallCaches DEF Call
  <2> QED  BY <2>1, <2>2, StepCaches DEF Next, ChainInv
<1>2. CASE FreeCluster
  <2>1. fatTable' = [fatTable EXCEPT ![cluster] = 0] /\ fat' = fat /\ pc' = "free"
    BY <1>2 DEF FreeCluster
  <2>2. fatTable \in [Clusters -> FatValue] /\ fatTable[cluster] # EOC /\ Freed
    BY <1>2 DEF TypeInv, TypeOK, FreeCluster, ChainInv
  <2>3. Freed'  BY <2>1, <2>2 DEF Freed
  <2> QED  BY <1>1, <2>1, <2>3 DEF ChainInv
<1>3. ASSUME NEW t \in Texts, fatWrite(t) PROVE ChainInv'
  BY <1>1, <1>3 DEF fatWrite, initFatStructs, storage, ChainInv, Freed
<1>4. CASE WriteLinked
  <2>1. /\ pc' = "place" /\ text' = text
        /\ \/ clustersNeeded(text) > 1
           \/ pc = "place"
    BY <1>4 DEF WriteLinked, args
  <2> QED  BY <1>1, <2>1 DEF ChainInv, clustersNeeded
<1>5. CASE pc' \notin {"free", "place"}  BY <1>1, <1>5 DEF ChainInv
<1>6. CASE UNCHANGED vars  BY <1>1, <1>6 DEF vars, ChainInv, Freed, clustersNeeded
<1>7. ASSUME NEW p \in Paths, fatOpenRoot(p) \/ StartWalk(p) PROVE pc' \notin {"free", "place"}
  BY <1>7 DEF fatOpenRoot, StartWalk, Fail, Return
<1>8. ASSUME NEW p \in Paths, NEW isDir \in BOOLEAN, fatCreateRoot(p, isDir)
      PROVE  pc' \notin {"free", "place"}
  BY <1>8 DEF fatCreateRoot, Fault, Return
<1>9. CASE fatOpenStep \/ fatCreateStep
  <2>1. pc' \notin {"free", "place"}
    BY <1>9 DEF fatOpenStep, fatCreateStep, Fail, Return, Descend
  <2> QED  BY <1>5, <2>1
<1>10. CASE WriteSingle \/ WriteLast \/ WriteWild
  BY <1>5, <1>10 DEF WriteSingle, WriteLast, WriteWild, Finish, Return, Fault
<1>11. CASE fatRead \/ ReadSingle \/ ReadLinked
  BY <1>5, <1>11 DEF fatRead, ReadSingle, ReadLinked, Return
<1>12. CASE Stray \/ \E o, p, isDir : ScanAstray(o, p, isDir)
  BY <1>5, <1>12, StrayStops, ScanStops DEF Fault
<1> QED
  BY <1>2, <1>3, <1>4, <1>5, <1>6, <1>7, <1>8, <1>9, <1>10, <1>11, <1>12
  DEF Next, Call, Step, Stray, fatOpenPath, fatCreatePath

LEMMA EndsStep ==
  ASSUME TypeInv, TypeInv', ChainInv, [Next]_vars, ChainsEnd, clustersNeeded(text') = 1
  PROVE  ChainsEnd'
<1>1. CASE fat' = fat  BY <1>1 DEF ChainsEnd
<1>2. ASSUME NEW p \in Paths, fatOpenRoot(p) \/ StartWalk(p) PROVE fat' = fat
  BY <1>2 DEF fatOpenRoot, StartWalk, Fail, storage, initFatStructs, writeFatTable
<1>3. CASE fatCreateStep \/ \E p \in Paths, isDir \in BOOLEAN : fatCreateRoot(p, isDir)
  BY <1>3, CreateEnds
<1>4. CASE fatOpenStep
  <2>1. fatTable = fat  BY <1>4 DEF fatOpenStep, ChainInv, CacheInv
  <2>2. fat' = fat
    BY <1>4, <2>1 DEF fatOpenStep, Fail, Descend, storage, caches, writeFatTable
  <2> QED  BY <1>1, <2>2
<1>5. CASE WriteSingle  BY <1>5, WriteEnds
<1>6. CASE WriteLast
  <2>1. clustersNeeded(text) > 1 /\ text' = text
    BY <1>6 DEF WriteLast, Finish, args, ChainInv
  <2>2. clustersNeeded(text') = clustersNeeded(text)  BY <2>1
  <2> HIDE DEF clustersNeeded
  <2>3. clustersNeeded(text) = 1  BY <2>2
  <2> QED  BY <2>1, <2>3
<1>7. CASE FreeCluster \/ WriteLinked \/ WriteWild
  BY <1>1, <1>7 DEF FreeCluster, WriteLinked, WriteWild, storage
<1>8. ASSUME NEW t \in Texts, fatWrite(t) PROVE fat' = fat
  BY <1>8 DEF fatWrite, storage
<1>9. CASE fatRead \/ ReadSingle \/ ReadLinked
  BY <1>1, <1>9 DEF fatRead, ReadSingle, ReadLinked, storage
<1>10. CASE UNCHANGED vars  BY <1>1, <1>10 DEF vars
<1>11. CASE Stray \/ \E o, p, isDir : ScanAstray(o, p, isDir)
  BY <1>1, <1>11, StrayStops, ScanStops DEF storage
<1> QED
  BY <1>1, <1>2, <1>3, <1>4, <1>5, <1>6, <1>7, <1>8, <1>9, <1>10, <1>11
  DEF Next, Call, Step, Stray, fatOpenPath, fatCreatePath

\* Whatever the card holds and whatever longer texts have left of its chains, no call
\* with a text of less than a cluster makes one turn back on itself (fat.c:723).
THEOREM ChainsKept == Spec => ShortTextsKeepChains
<1>1. Init => ChainInv  BY DEF Init, ChainInv, CacheInv
<1>2. TypeInv /\ TypeInv' /\ ChainInv /\ [Next]_vars =>
        /\ ChainInv'
        /\ [ChainsEnd /\ clustersNeeded(text') = 1 => ChainsEnd']_vars
  BY ChainStep, EndsStep
<1> QED  BY <1>1, <1>2, TypesHold, PTL DEF Spec, ShortTextsKeepChains

(***************************************************************************)
(* No two entries own the same cluster, for every size of disk, every set  *)
(* of paths and every sequence of calls, when                              *)
(*   - texts fill less than a cluster, as the shell's line does,           *)
(*   - the image is sound: entries name allocated clusters, each its own,  *)
(*   - and no file of more than one cluster is written over.               *)
(***************************************************************************)

\* Calls of any caller, with whatever path, and a text of less than a cluster.
AnyCall ==
  \/ \E p \in Path : fatOpenRoot(p) \/ fatOpenPath(p)
  \/ \E p \in Path, isDir \in BOOLEAN : fatCreateRoot(p, isDir) \/ fatCreatePath(p, isDir)
  \/ \E t \in TextArg : clustersNeeded(t) = 1 /\ fatWrite(t)
  \/ fatRead
  \/ \E o \in {"fatOpen", "fatCreate"}, p \in Path, isDir \in BOOLEAN : ScanAstray(o, p, isDir)

AnyNext == AnyCall \/ Step

\* The callers of module Fat are such, when their texts are short.
LEMMA CallsAreAny ==
  ASSUME ShortTexts, [Next]_vars
  PROVE  [AnyNext]_vars
<1>1. Paths \subseteq Path /\ \A t \in Texts : t \in TextArg /\ clustersNeeded(t) = 1
  BY InputAssumption DEF ShortTexts, TextArg
<1>2. Call => AnyCall
  <2>1. ASSUME NEW p \in Paths, fatOpenRoot(p) \/ fatOpenPath(p) PROVE AnyCall
    BY <1>1, <2>1 DEF AnyCall
  <2>2. ASSUME NEW p \in Paths, NEW isDir \in BOOLEAN,
               fatCreateRoot(p, isDir) \/ fatCreatePath(p, isDir)
        PROVE  AnyCall
    BY <1>1, <2>2 DEF AnyCall
  <2>3. ASSUME NEW t \in Texts, fatWrite(t) PROVE AnyCall
    BY <1>1, <2>3 DEF AnyCall
  <2>4. ASSUME NEW o \in {"fatOpen", "fatCreate"}, NEW p \in Paths, NEW isDir \in BOOLEAN,
               ScanAstray(o, p, isDir)
        PROVE  AnyCall
    BY <1>1, <2>4 DEF AnyCall
  <2> QED  BY <2>1, <2>2, <2>3, <2>4 DEF Call, AnyCall
<1> QED  BY <1>2 DEF Next, AnyNext

(***************************************************************************)
(* The disk, the window and a handle, with the FAT t                       *)
(***************************************************************************)

Sound(d, t) ==
  t[0] = EOC /\ (\A a \in Addr : Backed(d[a], t)) /\ Distinct(d)

WindowSound(w, t) == \A s \in Window : Backed(w[s], t)
HandleSound(f, t) == Backed(f.rde, t) /\ f.start = f.rde.cluster

StorageSound ==
  /\ fatTable = fat /\ rootDir = LoadRoot(disk)
  /\ Sound(disk, fat) /\ WindowSound(dataEntries, fat)

CallSound ==
  /\ HandleSound(fp, fat)
  /\ pc # "place"
  /\ pc = "free" => fp.rde.attr = "file" /\ cluster = fp.start /\ clustersNeeded(text) = 1

\* The FAT only grows, so that no allocated cluster is ever free again, and the
\* caches are the disk even inside a call.
OwnershipInv == StorageSound /\ CallSound

(***************************************************************************)
(* Units and the FAT                                                       *)
(***************************************************************************)

LEMMA EocIsNotFree == EOC # 0
BY DEF EOC

\* Taking a cluster leaves the clusters of all entries allocated.
LEMMA TakenBacks ==
  ASSUME NEW t \in [Clusters -> FatValue], NEW c \in Clusters, NEW u \in Unit, Backed(u, t)
  PROVE  Backed(u, Taken(t, c))
<1> SUFFICES ASSUME u.kind = "entry"
             PROVE  Taken(t, c)[u.cluster] = t[u.cluster]
  BY DEF Backed
<1>1. u.cluster \in Clusters  BY EntryUnit DEF Entry
<1>2. t[u.cluster] # 0  BY DEF Backed
<1> QED  BY <1>1, <1>2 DEF Taken

\* The entry fatCreate makes in an unused slot has a cluster of its own.
LEMMA NewEntryBacked ==
  ASSUME NEW t \in [Clusters -> FatValue], NEW old \in Entry, FreeSlot(old), Backed(old, t),
         NEW c \in NewCluster(t, old.cluster), NEW n, NEW isDir
  PROVE  /\ c \in Clusters
         /\ Backed(NewEntry(n, isDir, c), Taken(t, c))
         /\ c = old.cluster \/ t[c] = 0
<1>1. c \in Clusters  BY DEF NewCluster, Scan, unallocated, Entry
<1>2. old.kind = "entry"  BY DEF Entry
<1>3. c = old.cluster \/ t[c] = 0  BY DEF NewCluster, Scan, unallocated
<1>5. Taken(t, c)[c] # 0  BY <1>1, EocIsNotFree DEF Taken
<1>6. NewEntry(n, isDir, c).cluster = c  BY DEF NewEntry
<1> QED  BY <1>1, <1>3, <1>5, <1>6, EocIsNotFree DEF Backed

LEMMA ResizedBacked ==
  ASSUME NEW u \in Entry, NEW n, NEW t
  PROVE  /\ Backed(u, t) => Backed([u EXCEPT !.size = n], t)
         /\ Owns([u EXCEPT !.size = n]) <=> Owns(u)
         /\ [u EXCEPT !.size = n].cluster = u.cluster
BY DEF Backed, Owns, Entry, FreeSlot

LEMMA TextBacked ==
  ASSUME NEW u, u.kind = "text", NEW t
  PROVE  Backed(u, t) /\ ~Owns(u)
BY DEF Backed, Owns

LEMMA ZeroBacked ==
  ASSUME NEW t, t[0] = EOC
  PROVE  Backed(Zero, t) /\ ~Owns(Zero)
BY EocIsNotFree DEF Backed, Owns, Zero

LEMMA JunkBacked ==
  ASSUME NEW t
  PROVE  Backed(Junk, t)
BY DEF Backed, Junk

\* Writing back the root directory that was read from a disk changes nothing.
LEMMA PutBackRoot ==
  ASSUME NEW d \in Disk
  PROVE  PutRoot(d, LoadRoot(d)) = d
<1>1. ASSUME NEW a \in Addr
      PROVE  PutRoot(d, LoadRoot(d))[a] = d[a]
  <2>1. a - (-RootSize) - RootSize = a  BY Sizes
  <2>2. CASE a - (-RootSize) \in Slots
    BY <2>1, <2>2 DEF PutRoot, Overwrite, LoadRoot
  <2>3. CASE a - (-RootSize) \notin Slots
    BY <2>3 DEF PutRoot, Overwrite, LoadRoot
  <2> QED  BY <2>2, <2>3
<1> QED  BY <1>1 DEF PutRoot, Overwrite, Disk

\* A handle of no file.
LEMMA NoFileSound ==
  ASSUME NEW t, t[0] = EOC
  PROVE  HandleSound(NoFile, t)
BY ZeroBacked DEF HandleSound, NoFile, Zero

LEMMA HandleIsSound ==
  ASSUME NEW t, NEW u, Backed(u, t), NEW p
  PROVE  HandleSound(Handle(p, u), t)
BY DEF HandleSound, Handle

(***************************************************************************)
(* A new entry                                                             *)
(***************************************************************************)

LEMMA TakenSound ==
  ASSUME NEW d \in Disk, NEW t \in [Clusters -> FatValue], Sound(d, t), NEW c \in Clusters
  PROVE  Sound(d, Taken(t, c))
<1>1. Taken(t, c)[0] = EOC
  BY EocIsNotFree, SizeAssumption DEF Taken, Sound
<1>2. \A a \in Addr : Backed(d[a], Taken(t, c))
  BY TakenBacks DEF Sound, Disk
<1> QED  BY <1>1, <1>2 DEF Sound

LEMMA EmptyNameOwns ==
  ASSUME NEW u \in Entry, FreeSlot(u), u.cluster # 0
  PROVE  Owns(u)
<1>1. <<>> # <<".">> /\ <<>> # <<".", ".">>  OBVIOUS
<1> QED  BY <1>1 DEF Owns, FreeSlot, DotNames

\* An entry placed in an unused slot, wherever it is, shares its cluster with none.
LEMMA PlaceSound ==
  ASSUME NEW d \in Disk, NEW t \in [Clusters -> FatValue], Sound(d, t),
         NEW a0 \in Addr, FreeSlot(d[a0]), NEW c \in NewCluster(t, d[a0].cluster),
         NEW n, NEW isDir, NEW e,
         e[a0] = NewEntry(n, isDir, c), \A a \in Addr \ {a0} : e[a] = d[a]
  PROVE  Sound(e, Taken(t, c))
<1>1. d[a0] \in Entry /\ Backed(d[a0], t)
  <2>1. d[a0] \in Unit  BY DEF Disk
  <2>2. d[a0].kind = "entry"  BY DEF FreeSlot
  <2>3. d[a0] \in Entry  BY <2>1, <2>2, EntryUnit
  <2>4. Backed(d[a0], t)  BY DEF Sound
  <2> QED  BY <2>3, <2>4
<1>2. /\ c \in Clusters /\ Backed(e[a0], Taken(t, c))
      /\ c = d[a0].cluster \/ t[c] = 0
  <2> DEFINE old == d[a0]
  <2>1. old \in Entry /\ FreeSlot(old) /\ Backed(old, t) /\ c \in NewCluster(t, old.cluster)
    BY <1>1
  <2> HIDE DEF old
  <2>2. /\ c \in Clusters /\ Backed(NewEntry(n, isDir, c), Taken(t, c))
        /\ c = old.cluster \/ t[c] = 0
    BY <2>1, NewEntryBacked
  <2> QED  BY <2>2 DEF old
<1>3. Sound(d, Taken(t, c))  BY <1>2, TakenSound
<1>4. \A a \in Addr : Backed(e[a], Taken(t, c))
  BY <1>2, <1>3 DEF Sound
<1>5. ASSUME NEW b \in Kept, b # a0, Owns(d[b]), d[b].cluster = c, a0 \in Kept
      PROVE  FALSE
  <2>1. b \in Addr  BY DEF Kept
  <2>2. t[c] # 0  BY <1>5, <2>1 DEF Sound, Backed, Owns
  <2>3. d[a0].cluster = c /\ c # 0  BY <1>2, <1>5, <2>2 DEF Owns
  <2>4. Owns(d[a0])  BY <1>1, <2>3, EmptyNameOwns
  <2> QED  BY <1>5, <2>3, <2>4 DEF Sound, Distinct
<1>6. e[a0].cluster = c  BY DEF NewEntry
<1>7. ASSUME NEW a \in Kept, NEW b \in Kept, Owns(e[a]), Owns(e[b]), e[a].cluster = e[b].cluster
      PROVE  a = b
  <2>1. a \in Addr /\ b \in Addr  BY DEF Kept
  <2>2. CASE a = a0 /\ b # a0  BY <1>5, <1>6, <1>7, <2>1, <2>2
  <2>3. CASE a # a0 /\ b = a0  BY <1>5, <1>6, <1>7, <2>1, <2>3
  <2>4. CASE a # a0 /\ b # a0
    <3>1. e[a] = d[a] /\ e[b] = d[b]  BY <2>1, <2>4
    <3> QED  BY <1>7, <3>1 DEF Sound, Distinct
  <2> QED  BY <2>2, <2>3, <2>4
<1>8. Distinct(e)  BY <1>7 DEF Distinct
<1> QED  BY <1>3, <1>4, <1>8 DEF Sound

\* The directory a walk reads holds sound entries.
LEMMA ReadSound ==
  ASSUME NEW d \in Disk, NEW t, Sound(d, t), NEW c \in Clusters, NEW old,
         c = 0 => WindowSound(old, t)
  PROVE  \A s \in DirSlots : Backed(readFromCluster(d, c, old)[s], t)
<1> SUFFICES ASSUME NEW s \in DirSlots
             PROVE  Backed(IF c = 0 /\ s > RootRead THEN old[s] ELSE d[DirBase(c) + s], t)
  BY DEF readFromCluster
<1>1. CASE c = 0 /\ s > RootRead  BY <1>1, Sizes DEF WindowSound
<1>2. CASE ~(c = 0 /\ s > RootRead)  BY <1>2, ClusterOnDisk DEF Sound
<1> QED  BY <1>1, <1>2

\* Where the data clusters begin.
LEMMA BaseOfCluster ==
  ASSUME NEW c \in Clusters
  PROVE  /\ c < 2 => DirBase(c) + DirSize <= 0
         /\ c >= 2 => DirBase(c) >= 0 /\ DirBase(c) = ClusterBase(c)
<1>1. CASE c = 0  BY <1>1, SizeAssumption DEF DirBase
<1>2. CASE c = 1
  <2>1. (-1) * DirSize = -DirSize  BY SizeAssumption
  <2> QED  BY <1>2, <2>1, SizeAssumption DEF DirBase, ClusterBase
<1>3. CASE c >= 2
  <2>1. 0 * DirSize <= (c - 2) * DirSize  BY <1>3, SizeAssumption, Monotone
  <2> QED  BY <1>3, <2>1, SizeAssumption DEF DirBase, ClusterBase
<1> QED  BY <1>1, <1>2, <1>3

RootWith(d, s, x) == [LoadRoot(d) EXCEPT ![s] = x]

\* A root slot changed in the cache and written back.
LEMMA PutRootSlot ==
  ASSUME NEW d \in Disk, NEW s \in Slots, NEW x, NEW e,
         e = PutRoot(d, RootWith(d, s, x))
  PROVE  e[s - RootSize] = x /\ \A a \in Addr \ {s - RootSize} : e[a] = d[a]
<1> DEFINE r == [LoadRoot(d) EXCEPT ![s] = x]
<1>1. DOMAIN r = Slots  BY DEF LoadRoot
<1>2. r[s] = x  BY DEF LoadRoot
<1>3. ASSUME NEW u \in Slots, u # s PROVE r[u] = d[u - RootSize]
  BY <1>3 DEF LoadRoot
<1> HIDE DEF r
<1>4. s - RootSize \in Addr /\ (s - RootSize) - (-RootSize) = s  BY Sizes
<1>5. PutRoot(d, r)[s - RootSize] = x
  BY <1>1, <1>2, <1>4 DEF PutRoot, Overwrite
<1>6. ASSUME NEW a \in Addr, a # s - RootSize PROVE PutRoot(d, r)[a] = d[a]
  <2>1. (a - (-RootSize)) - RootSize = a  BY Sizes
  <2>2. a - (-RootSize) # s  BY <1>6, Sizes
  <2>3. CASE a - (-RootSize) \in Slots
    BY <1>1, <1>3, <2>1, <2>2, <2>3 DEF PutRoot, Overwrite
  <2>4. CASE a - (-RootSize) \notin Slots
    BY <1>1, <2>4 DEF PutRoot, Overwrite
  <2> QED  BY <2>3, <2>4
<1>7. e = PutRoot(d, r)  BY DEF r, RootWith
<1> QED  BY <1>5, <1>6, <1>7

\* The directory with an entry placed in slot s, and the root put back.
DirWith(d, c, old, s, x) ==
  PutRoot(writeDataEntries(d, c, [readFromCluster(d, c, old) EXCEPT ![s] = x]), LoadRoot(d))

\* A slot changed in the directory at cluster c and the cached root written back:
\* for the clusters before the first the root covers the change again.
LEMMA PutDirSlot ==
  ASSUME NEW d \in Disk, NEW c \in Clusters, NEW old, NEW s \in DirSlots, NEW x, NEW e,
         e = DirWith(d, c, old, s, x)
  PROVE  \/ c < 2 /\ \A a \in Addr : e[a] = d[a]
         \/ /\ c >= 2 /\ readFromCluster(d, c, old)[s] = d[DirBase(c) + s]
            /\ DirBase(c) + s \in Addr /\ e[DirBase(c) + s] = x
            /\ \A a \in Addr \ {DirBase(c) + s} : e[a] = d[a]
<1> DEFINE r == readFromCluster(d, c, old)
           w == [r EXCEPT ![s] = x]
           o == writeDataEntries(d, c, w)
           b == DirBase(c)
<1>1. DOMAIN w = DirSlots  BY DEF readFromCluster
<1>2. w[s] = x  BY DEF readFromCluster
<1>3. b \in Int /\ \A u \in DirSlots : b + u \in Addr  BY ClusterOnDisk
<1>4. ASSUME c >= 2, NEW u \in DirSlots PROVE r[u] = d[b + u]
  BY <1>4 DEF readFromCluster
<1>5. ASSUME c >= 2, NEW u \in DirSlots, u # s PROVE w[u] = d[b + u]
  <2>1. w[u] = r[u]  BY <1>5 DEF readFromCluster
  <2> QED  BY <1>4, <1>5, <2>1
<1>6. e = PutRoot(o, LoadRoot(d))  BY DEF DirWith
<1>7. \A a \in Addr : o[a] = IF a - b \in DirSlots THEN w[a - b] ELSE d[a]
  <2> HIDE DEF w, b
  <2> QED  BY <1>1 DEF writeDataEntries, Overwrite, b
<1> HIDE DEF r, w, o, b
<1>8. \A a \in Addr : a <= 0 => e[a] = d[a]
  <2> SUFFICES ASSUME NEW a \in Addr, a <= 0 PROVE e[a] = d[a]
    OBVIOUS
  <2>1. a - (-RootSize) \in Slots /\ (a - (-RootSize)) - RootSize = a  BY Sizes
  <2> QED  BY <1>6, <2>1 DEF PutRoot, Overwrite, LoadRoot
<1>9. \A a \in Addr : a > 0 => e[a] = o[a]
  <2> SUFFICES ASSUME NEW a \in Addr, a > 0 PROVE e[a] = o[a]
    OBVIOUS
  <2>1. a - (-RootSize) \notin Slots  BY Sizes
  <2>2. DOMAIN LoadRoot(d) = Slots  BY DEF LoadRoot
  <2> QED  BY <1>6, <2>1, <2>2 DEF PutRoot, Overwrite
<1>10. c < 2 => b + DirSize <= 0  BY BaseOfCluster DEF b
<1>11. c >= 2 => b >= 0  BY BaseOfCluster DEF b
<1>12. CASE c < 2
  <2>0. Addr \subseteq Int  BY Sizes
  <2>1. ASSUME NEW a \in Addr, a > 0 PROVE e[a] = d[a]
    <3>1. a - b \notin DirSlots
      <4>1. a \in Int /\ b \in Int /\ DirSize \in Nat /\ b + DirSize <= 0
        BY <1>3, <1>10, <1>12, <2>0, Sizes
      <4>2. a - b > DirSize  BY <2>1, <4>1
      <4> QED  BY <4>1, <4>2
    <3> QED  BY <1>7, <1>9, <2>1, <3>1
  <2>2. ASSUME NEW a \in Addr PROVE e[a] = d[a]
    <3>1. a <= 0 \/ a > 0  BY <2>0
    <3> QED  BY <1>8, <2>1, <3>1
  <2> QED  BY <1>12, <2>2
<1>13. CASE c >= 2
  <2>1. b + s > 0 /\ (b + s) - b = s  BY <1>3, <1>11, <1>13, Sizes
  <2>2. b + s \in Addr /\ e[b + s] = x
    <3>1. b + s \in Addr /\ e[b + s] = o[b + s]  BY <1>3, <1>9, <2>1
    <3>2. o[b + s] = w[(b + s) - b]  BY <1>7, <2>1, <3>1
    <3> QED  BY <1>2, <2>1, <3>1, <3>2
  <2>3. ASSUME NEW a \in Addr, a # b + s, a > 0 PROVE e[a] = d[a]
    <3>1. CASE a - b \in DirSlots
      <4>1. a - b # s /\ b + (a - b) = a  BY <1>3, <2>3
      <4> QED  BY <1>5, <1>7, <1>9, <1>13, <2>3, <3>1, <4>1
    <3>2. CASE a - b \notin DirSlots
      BY <1>7, <1>9, <2>3, <3>2
    <3> QED  BY <3>1, <3>2
  <2>4. r[s] = d[b + s]  BY <1>4, <1>13
  <2>5. ASSUME NEW a \in Addr, a # b + s PROVE e[a] = d[a]
    <3>1. a <= 0 \/ a > 0  BY Sizes
    <3> QED  BY <1>8, <2>3, <2>5, <3>1
  <2> QED  BY <1>13, <2>2, <2>4, <2>5 DEF r, b
<1>14. c < 2 \/ c >= 2  BY SizeAssumption
<1> QED  BY <1>12, <1>13, <1>14 DEF r, b

(***************************************************************************)
(* A text written                                                          *)
(***************************************************************************)

\* Units blanked or overwritten with text take no cluster.
LEMMA ReplacedSound ==
  ASSUME NEW d, NEW t, Sound(d, t), NEW e,
         \A a \in Addr : e[a] = d[a] \/ e[a] = Zero \/ e[a].kind = "text"
  PROVE  Sound(e, t)
<1>1. t[0] = EOC  BY DEF Sound
<1>2. ASSUME NEW a \in Addr
      PROVE  Backed(e[a], t) /\ (Owns(e[a]) => e[a] = d[a])
  <2>1. CASE e[a] = d[a]  BY <2>1 DEF Sound
  <2>2. CASE e[a] = Zero  BY <1>1, <2>2, ZeroBacked
  <2>3. CASE e[a].kind = "text"  BY <2>3, TextBacked
  <2> QED  BY <2>1, <2>2, <2>3
<1>3. Kept \subseteq Addr  BY DEF Kept
<1>4. Distinct(e)  BY <1>2, <1>3 DEF Distinct, Sound
<1> QED  BY <1>1, <1>2, <1>4 DEF Sound

LEMMA ClearAndWriteSound ==
  ASSUME NEW d, NEW t, Sound(d, t), NEW c, NEW x, NEW k
  PROVE  Sound(ClearAndWrite(d, c, x, k), t)
<1> DEFINE z == writeToCluster(d, c, Nulls)
           e == ClearAndWrite(d, c, x, k)
<1>1. \A a \in Addr : z[a] = d[a] \/ z[a] = Zero
  BY DEF writeToCluster, Overwrite, Nulls
<1>2. \A u \in DOMAIN Sector(x, k) : Sector(x, k)[u].kind = "text"
  BY DEF Sector, Piece, Junk
<1>3. \A a \in Addr : e[a] = z[a] \/ e[a].kind = "text"
  <2>1. e = Overwrite(z, ClusterBase(c), Sector(x, k))
    BY DEF ClearAndWrite, writeToCluster
  <2> HIDE DEF z, e
  <2> QED  BY <1>2, <2>1 DEF Overwrite
<1> HIDE DEF z, e
<1>4. \A a \in Addr : e[a] = d[a] \/ e[a] = Zero \/ e[a].kind = "text"
  BY <1>1, <1>3
<1>5. Sound(e, t)  BY <1>4, ReplacedSound
<1> QED  BY <1>5 DEF e

\* The new length changes no entry's cluster.
LEMMA WithLengthSound ==
  ASSUME NEW e \in [DirSlots -> Unit], NEW r, NEW n, NEW t, NEW s \in DirSlots
  PROVE  LET w == WithLength(e, r, n)
         IN  /\ Backed(e[s], t) => Backed(w[s], t)
             /\ Owns(w[s]) => Owns(e[s]) /\ w[s].cluster = e[s].cluster
<1> DEFINE found == Scan({x \in DirSlots : RootMatch(e[x], r.name)})
           w == WithLength(e, r, n)
           new(u) == [u EXCEPT !.size = n]
<1>1. w[s] = IF s \in found THEN new(e[s]) ELSE e[s]
  BY DEF WithLength
<1>2. s \in found => e[s] \in Entry
  BY EntryUnit DEF Scan, RootMatch
<1>3. \A u \in Entry : /\ Backed(u, t) => Backed(new(u), t)
                       /\ Owns(new(u)) <=> Owns(u)
                       /\ new(u).cluster = u.cluster
  BY ResizedBacked
<1> HIDE DEF found, w, new
<1>4. /\ Backed(e[s], t) => Backed(w[s], t)
      /\ Owns(w[s]) => Owns(e[s]) /\ w[s].cluster = e[s].cluster
  BY <1>1, <1>2, <1>3
<1> QED  BY <1>4 DEF w

LEMMA FileLengthSound ==
  ASSUME NEW d \in Disk, NEW t, Sound(d, t), NEW f \in File, NEW n, NEW g,
         f.parent = 0 => WindowSound(g, t) /\ \A s \in Window : g[s] \in Unit
  PROVE  Sound(writeFileLength(d, f, n, g), t)
<1> DEFINE c == f.parent
           b == DirBase(c)
           r == readFromCluster(d, c, g)
           w == WithLength(r, f.rde, n)
           e == writeFileLength(d, f, n, g)
<1>1. c \in Clusters /\ b \in Int  BY ClusterOnDisk DEF File
<1>2. r \in [DirSlots -> Unit]  BY <1>1, ReadUnits
<1>3. \A s \in DirSlots : Backed(r[s], t)  BY <1>1, ReadSound
<1>4. \A a \in Addr : e[a] = IF a - b \in DirSlots THEN w[a - b] ELSE d[a]
  <2>1. DOMAIN w = DirSlots  BY DEF WithLength
  <2>2. e = Overwrite(d, b, w)  BY DEF writeFileLength, writeDataEntries
  <2> HIDE DEF e, b, w
  <2> QED  BY <2>1, <2>2 DEF Overwrite
<1>5. \A s \in DirSlots : (c = 0 /\ s > RootRead) \/ r[s] = d[b + s]
  BY DEF readFromCluster
<1>6. c = 0 => b = -RootSize  BY DEF DirBase
<1>7. \A s \in DirSlots : Backed(r[s], t) => Backed(w[s], t)
  BY <1>2, WithLengthSound
<1>8. \A s \in DirSlots : Owns(w[s]) => Owns(r[s]) /\ w[s].cluster = r[s].cluster
  BY <1>2, WithLengthSound
<1> HIDE DEF c, b, r, w, e
<1>9. \A a \in Addr : Backed(e[a], t)  BY <1>3, <1>4, <1>7 DEF Sound
<1>10. ASSUME NEW a \in Kept, Owns(e[a])
       PROVE  Owns(d[a]) /\ e[a].cluster = d[a].cluster
  <2>1. a \in Addr /\ a \in Int /\ a + RootSize \notin Window  BY Sizes DEF Kept
  <2>2. CASE a - b \in DirSlots
    <3>1. b + (a - b) = a  BY <1>1, <2>1
    <3>2. ~(c = 0 /\ a - b > RootRead)
      BY <1>6, <2>1, <2>2, Sizes
    <3>3. r[a - b] = d[a]  BY <1>5, <2>2, <3>1, <3>2
    <3>4. e[a] = w[a - b]  BY <1>4, <2>1, <2>2
    <3> QED  BY <1>8, <1>10, <2>2, <3>3, <3>4
  <2>3. CASE a - b \notin DirSlots  BY <1>4, <1>10, <2>1, <2>3
  <2> QED  BY <2>2, <2>3
<1>11. Distinct(e)  BY <1>10 DEF Distinct, Sound
<1>12. Sound(e, t)  BY <1>9, <1>11 DEF Sound
<1> QED  BY <1>12 DEF e

(***************************************************************************)
(* Every action keeps the disk sound                                       *)
(***************************************************************************)

\* Storage that stays as it is stays sound, reloaded or written back.
LEMMA SameStorage ==
  ASSUME StorageSound, UNCHANGED <<disk, fat>>, fatTable' = fat, rootDir' = LoadRoot(disk),
         WindowSound(dataEntries', fat)
  PROVE  StorageSound'
<1>1. disk' = disk /\ fat' = fat  OBVIOUS
<1> QED  BY <1>1 DEF StorageSound, Sound, WindowSound, Backed, Distinct, LoadRoot

LEMMA WriteBackSame ==
  ASSUME TypeInv, rootDir' = LoadRoot(disk), fatTable' = fat,
         writeFatTable, writeRootDirectory(disk)
  PROVE  UNCHANGED <<disk, fat>>
<1>1. disk \in Disk  BY DEF TypeInv, TypeOK, Disk
<1> QED  BY <1>1, PutBackRoot DEF writeFatTable, writeRootDirectory

LEMMA ReturnSound ==
  ASSUME NEW r, Return(r), HandleSound(fp', fat')
  PROVE  CallSound'
BY DEF Return, CallSound, HandleSound, Backed

LEMMA NoFileCall ==
  ASSUME StorageSound, UNCHANGED fat, fp' = NoFile
  PROVE  HandleSound(fp', fat')
BY NoFileSound DEF StorageSound, Sound

LEMMA FailSound ==
  ASSUME StorageSound, NEW r, Fail(r)
  PROVE  CallSound' /\ UNCHANGED <<disk, fat>>
<1>1. UNCHANGED <<disk, fat>> /\ Return(r) /\ fp' = NoFile  BY DEF Fail, storage
<1> QED  BY <1>1, NoFileCall, ReturnSound

LEMMA RootSound ==
  ASSUME StorageSound, NEW s \in Slots
  PROVE  LoadRoot(disk)[s] = disk[s - RootSize] /\ s - RootSize \in Addr
         /\ Backed(LoadRoot(disk)[s], fat)
<1>1. s - RootSize \in Addr  BY Sizes
<1>2. LoadRoot(disk)[s] = disk[s - RootSize]  BY DEF LoadRoot
<1> QED  BY <1>1, <1>2 DEF StorageSound, Sound

LEMMA StartWalkSound ==
  ASSUME OwnershipInv, NEW p, StartWalk(p)
  PROVE  OwnershipInv'
<1>1. StorageSound  BY DEF OwnershipInv
<1>2. fatTable' = fat /\ rootDir' = LoadRoot(disk) /\ dataEntries' = dataEntries
  BY DEF StartWalk, initFatStructs
<1>3. CASE Fail(1)
  BY <1>1, <1>2, <1>3, FailSound, SameStorage DEF OwnershipInv, StorageSound
<1>4. CASE pc' = "walk" /\ fp' = NoFile /\ UNCHANGED <<disk, fat>>
  <2>1. CallSound'  BY <1>1, <1>4, NoFileCall DEF CallSound, HandleSound, Backed
  <2> QED  BY <1>1, <1>2, <1>4, <2>1, SameStorage DEF OwnershipInv, StorageSound
<1> QED  BY <1>3, <1>4 DEF StartWalk, storage

LEMMA OpenRootSound ==
  ASSUME TypeInv, OwnershipInv, NEW p, fatOpenRoot(p)
  PROVE  OwnershipInv'
<1> DEFINE root == LoadRoot(disk)
           found == FoundInRoot(root, p.names[1])
<1>1. StorageSound /\ disk \in Disk  BY DEF OwnershipInv, TypeInv, TypeOK, Disk
<1>2. fatTable' = fat /\ rootDir' = root /\ dataEntries' = dataEntries
  BY DEF fatOpenRoot, initFatStructs
<1>3. CASE Fail(1)
  BY <1>1, <1>2, <1>3, FailSound, SameStorage DEF OwnershipInv, StorageSound
<1>4. ASSUME NEW s \in found, fp' = Handle(0, root[s]),
             writeFatTable, writeRootDirectory(disk), Return(0)
      PROVE  OwnershipInv'
  <2>1. UNCHANGED <<disk, fat>>  BY <1>2, <1>4, WriteBackSame
  <2>2. Backed(root[s], fat)
    <3>1. s \in Slots  BY <1>1, FoundEntry, LoadRootUnits
    <3> QED  BY <1>1, <3>1, RootSound
  <2>3. HandleSound(fp', fat')
    <3> HIDE DEF root
    <3> QED  BY <1>4, <2>1, <2>2, HandleIsSound
  <2>4. CallSound'  BY <1>4, <2>3, ReturnSound
  <2> QED  BY <1>1, <1>2, <2>1, <2>4, SameStorage DEF OwnershipInv, StorageSound
<1> QED  BY <1>3, <1>4 DEF fatOpenRoot

\* What a round of a walk reads, and leaves in the window.
LEMMA WalkSound ==
  ASSUME TypeInv, StorageSound
  PROVE  LET entries == readFromCluster(disk, dir, dataEntries)
         IN  /\ entries \in [DirSlots -> Unit]
             /\ \A s \in DirSlots : Backed(entries[s], fat)
             /\ WindowSound([s \in Window |-> entries[s]], fat)
<1> DEFINE entries == readFromCluster(disk, dir, dataEntries)
<1>1. disk \in Disk /\ dir \in Clusters /\ WorkTypes /\ StorageTypes
  BY TypeParts DEF TypeInv, TypeOK, Disk
<1>2. entries \in [DirSlots -> Unit]  BY <1>1, WalkUnits
<1>3. \A s \in DirSlots : Backed(entries[s], fat)
  BY <1>1, ReadSound DEF StorageSound
<1>4. Window \subseteq DirSlots  BY SizeAssumption
<1> HIDE DEF entries
<1>5. WindowSound([s \in Window |-> entries[s]], fat)
  BY <1>3, <1>4 DEF WindowSound
<1> QED  BY <1>2, <1>3, <1>5 DEF entries

LEMMA DescendSound ==
  ASSUME OwnershipInv, NEW c, Descend(c)
  PROVE  CallSound' /\ UNCHANGED <<disk, fat>>
BY DEF Descend, OwnershipInv, CallSound, HandleSound, Backed, storage

LEMMA OpenStepSound ==
  ASSUME TypeInv, OwnershipInv, fatOpenStep
  PROVE  OwnershipInv'
<1> DEFINE entries == readFromCluster(disk, dir, dataEntries)
           found == FoundInDir(entries, path.names[depth])
<1>1. StorageSound  BY DEF OwnershipInv
<1>2. /\ entries \in [DirSlots -> Unit]
      /\ \A s \in DirSlots : Backed(entries[s], fat)
      /\ WindowSound([s \in Window |-> entries[s]], fat)
  BY <1>1, WalkSound
<1>3. /\ WindowSound(dataEntries', fat) /\ UNCHANGED caches
      /\ fatTable' = fat /\ rootDir' = LoadRoot(disk)
  BY <1>1, <1>2 DEF fatOpenStep, caches, StorageSound
<1>4. CASE Fail(2)
  BY <1>1, <1>3, <1>4, FailSound, SameStorage DEF OwnershipInv
<1>5. ASSUME NEW s \in found, fp' = Handle(dir, entries[s]),
             writeFatTable, writeRootDirectory(disk), Return(0)
      PROVE  OwnershipInv'
  <2>1. UNCHANGED <<disk, fat>>  BY <1>3, <1>5, WriteBackSame
  <2>2. Backed(entries[s], fat)  BY <1>2, FoundEntry
  <2>3. HandleSound(fp', fat')
    <3> HIDE DEF entries
    <3> QED  BY <1>5, <2>1, <2>2, HandleIsSound
  <2>4. CallSound'  BY <1>5, <2>3, ReturnSound
  <2> QED  BY <1>1, <1>3, <2>1, <2>4, SameStorage DEF OwnershipInv
<1>6. ASSUME NEW s \in found, Descend(entries[s].cluster)
      PROVE  OwnershipInv'
  BY <1>1, <1>3, <1>6, DescendSound, SameStorage DEF OwnershipInv
<1> HIDE DEF entries
<1> QED  BY <1>4, <1>5, <1>6 DEF fatOpenStep, entries

LEMMA CreateRootSound ==
  ASSUME TypeInv, TypeInv', OwnershipInv, NEW p, NEW isDir, fatCreateRoot(p, isDir)
  PROVE  OwnershipInv'
<1> DEFINE root == LoadRoot(disk)
           stop == PlaceInRoot(root, p.names[1])
<1>1. StorageSound /\ disk \in Disk /\ fat \in [Clusters -> FatValue]
  BY DEF OwnershipInv, TypeInv, TypeOK, Disk
<1>2. fp' = NoFile /\ WindowSound(dataEntries, fat) /\ dataEntries' = dataEntries
  BY <1>1 DEF fatCreateRoot, StorageSound
<1>3. CASE initFatStructs /\ UNCHANGED storage /\ (Fault \/ Return(1))
  <2>1. UNCHANGED <<disk, fat>> /\ fatTable' = fat /\ rootDir' = LoadRoot(disk)
    BY <1>3 DEF initFatStructs, storage
  <2>2. HandleSound(fp', fat')  BY <1>1, <1>2, <2>1, NoFileCall
  <2>3. pc' \notin {"place", "free"}  BY <1>3 DEF Fault, Return
  <2>4. CallSound'  BY <2>2, <2>3 DEF CallSound, HandleSound, Backed
  <2> QED  BY <1>1, <1>2, <2>1, <2>4, SameStorage DEF OwnershipInv
<1>4. ASSUME NEW s \in stop, FreeSlot(root[s]), NEW c \in NewCluster(fat, root[s].cluster),
             fatTable' = Taken(fat, c),
             rootDir' = [root EXCEPT ![s] = NewEntry(StoredName(p), isDir, c)],
             writeFatTable, writeRootDirectory(disk), Return(0)
      PROVE  OwnershipInv'
  <2>1. s \in Slots  BY <1>1, FoundEntry, LoadRootUnits
  <2>2. root[s] = disk[s - RootSize] /\ s - RootSize \in Addr  BY <1>1, <2>1, RootSound
  <2>3. /\ disk'[s - RootSize] = NewEntry(StoredName(p), isDir, c)
        /\ \A a \in Addr \ {s - RootSize} : disk'[a] = disk[a]
    <3> DEFINE x == NewEntry(StoredName(p), isDir, c)
    <3>1. disk' = PutRoot(disk, RootWith(disk, s, x))
      BY <1>4 DEF writeRootDirectory, RootWith
    <3> HIDE DEF x
    <3>2. disk'[s - RootSize] = x /\ \A a \in Addr \ {s - RootSize} : disk'[a] = disk[a]
      BY <1>1, <2>1, <3>1, PutRootSlot
    <3> QED  BY <3>2 DEF x
  <2>4. Sound(disk, fat)  BY <1>1 DEF StorageSound
  <2>5. Sound(disk', Taken(fat, c))
    <3> DEFINE a0 == s - RootSize
    <3>1. /\ a0 \in Addr /\ FreeSlot(disk[a0]) /\ c \in NewCluster(fat, disk[a0].cluster)
          /\ disk'[a0] = NewEntry(StoredName(p), isDir, c)
          /\ \A a \in Addr \ {a0} : disk'[a] = disk[a]
      BY <1>4, <2>2, <2>3
    <3> HIDE DEF a0
    <3> QED  BY <1>1, <2>4, <3>1, PlaceSound
  <2>6. fat' = Taken(fat, c) /\ fatTable' = fat'  BY <1>4 DEF writeFatTable
  <2>7. c \in Clusters
    <3>1. root[s] \in Entry  BY <1>1, FoundEntry, LoadRootUnits
    <3>2. root[s].cluster \in Clusters  BY <3>1 DEF Entry
    <3> QED  BY <1>4, <3>2 DEF NewCluster, Scan, unallocated
  <2>8. WindowSound(dataEntries', fat')
    BY <1>1, <1>2, <2>6, <2>7, TakenBacks DEF WindowSound, TypeInv, TypeOK
  <2>9. rootDir' = LoadRoot(disk')
    <3>1. rootDir' \in [Slots -> Unit]  BY DEF TypeInv, TypeOK
    <3> QED  BY <1>4, <3>1, WriteBackCaches
  <2>10. StorageSound'  BY <2>5, <2>6, <2>8, <2>9 DEF StorageSound
  <2>11. Sound(disk', fat')  BY <2>5, <2>6
  <2>12. HandleSound(fp', fat')  BY <1>2, <2>11, NoFileSound DEF Sound
  <2> QED  BY <1>4, <2>10, <2>12, ReturnSound DEF OwnershipInv
<1> QED  BY <1>3, <1>4 DEF fatCreateRoot

\* An entry placed in a subdirectory is like one placed anywhere; one placed in
\* the clusters the root covers is lost, with the cluster it was given.
LEMMA DirPlaceSound ==
  ASSUME NEW d \in Disk, NEW t \in [Clusters -> FatValue], Sound(d, t), NEW k \in Clusters,
         NEW old, NEW s \in DirSlots, NEW u, u = readFromCluster(d, k, old)[s],
         u \in Entry, FreeSlot(u), NEW c \in NewCluster(t, u.cluster),
         NEW n, NEW isDir, NEW x, x = NewEntry(n, isDir, c),
         NEW e, e = DirWith(d, k, old, s, x)
  PROVE  Sound(e, Taken(t, c))
<1>1. c \in Clusters
  <2>1. u.cluster \in Clusters  BY DEF Entry
  <2> QED  BY <2>1 DEF NewCluster, Scan, unallocated
<1>2. Sound(d, Taken(t, c))  BY <1>1, TakenSound
<1> DEFINE a0 == DirBase(k) + s
<1>3. \/ \A a \in Addr : e[a] = d[a]
      \/ /\ u = d[a0] /\ a0 \in Addr /\ e[a0] = x
         /\ \A a \in Addr \ {a0} : e[a] = d[a]
  BY PutDirSlot
<1> HIDE DEF a0
<1>4. CASE \A a \in Addr : e[a] = d[a]
  <2>1. Kept \subseteq Addr  BY DEF Kept
  <2> QED  BY <1>2, <1>4, <2>1 DEF Sound, Distinct
<1>5. CASE /\ u = d[a0] /\ a0 \in Addr /\ e[a0] = x
           /\ \A a \in Addr \ {a0} : e[a] = d[a]
  BY <1>5, PlaceSound
<1> QED  BY <1>3, <1>4, <1>5

LEMMA CreateStepSound ==
  ASSUME TypeInv, TypeInv', OwnershipInv, fatCreateStep
  PROVE  OwnershipInv'
<1> DEFINE entries == readFromCluster(disk, dir, dataEntries)
           name == path.names[depth]
           atEnd == depth = subDirectIndex(path)
           stop == IF atEnd THEN PlaceInDir(entries, name) ELSE FoundInDir(entries, name)
           new(c) == NewEntry(StoredName(path), isDirectory, c)
<1>1. /\ StorageSound /\ disk \in Disk /\ dir \in Clusters
      /\ fat \in [Clusters -> FatValue] /\ fatTable = fat /\ rootDir = LoadRoot(disk)
  BY DEF OwnershipInv, StorageSound, TypeInv, TypeOK, Disk
<1>2. /\ entries \in [DirSlots -> Unit]
      /\ \A s \in DirSlots : Backed(entries[s], fat)
      /\ WindowSound([s \in Window |-> entries[s]], fat)
  BY <1>1, WalkSound
<1>3. \A s \in stop : s \in DirSlots /\ entries[s] \in Entry
  BY <1>2, FoundEntry
<1>4. WindowSound(dataEntries', fat)
  BY <1>1, <1>2 DEF fatCreateStep, StorageSound
<1>5. ASSUME NEW r, Fail(r), UNCHANGED caches
      PROVE  OwnershipInv'
  BY <1>1, <1>4, <1>5, FailSound, SameStorage DEF OwnershipInv, caches
<1>6. ASSUME NEW s \in stop, Descend(entries[s].cluster), UNCHANGED caches
      PROVE  OwnershipInv'
  BY <1>1, <1>4, <1>6, DescendSound, SameStorage DEF OwnershipInv, caches
<1>7. ASSUME NEW s \in stop, FreeSlot(entries[s]), UNCHANGED <<rootDir, fp, dir>>,
             NEW c \in NewCluster(fatTable, entries[s].cluster),
             fatTable' = Taken(fatTable, c),
             disk' = DirWith(disk, dir, dataEntries, s, new(c)),
             writeFatTable, Return(0), rootDir' = LoadRoot(disk')
      PROVE  OwnershipInv'
  <2>1. s \in DirSlots /\ entries[s] \in Entry  BY <1>3
  <2>2. c \in Clusters
    <3>1. entries[s].cluster \in Clusters  BY <2>1 DEF Entry
    <3> QED  BY <1>7, <3>1 DEF NewCluster, Scan, unallocated
  <2>3. fat' = Taken(fat, c) /\ fatTable' = fat'  BY <1>1, <1>7 DEF writeFatTable
  <2>4. Sound(disk', fat')
    <3> DEFINE u == entries[s]
               x == new(c)
    <3>1. /\ u = readFromCluster(disk, dir, dataEntries)[s] /\ u \in Entry /\ FreeSlot(u)
          /\ c \in NewCluster(fat, u.cluster) /\ x = NewEntry(StoredName(path), isDirectory, c)
          /\ disk' = DirWith(disk, dir, dataEntries, s, x)
      BY <1>1, <1>7, <2>1
    <3>2. Sound(disk, fat)  BY <1>1 DEF StorageSound
    <3> HIDE DEF u, x, name
    <3>3. Sound(disk', Taken(fat, c))
      BY <1>1, <2>1, <3>1, <3>2, DirPlaceSound
    <3> QED  BY <2>3, <3>3
  <2>5. WindowSound(dataEntries', fat')
    BY <1>1, <1>4, <2>2, <2>3, TakenBacks DEF WindowSound, TypeInv, TypeOK
  <2>6. StorageSound'  BY <1>7, <2>3, <2>4, <2>5 DEF StorageSound
  <2>7. HandleSound(fp', fat')
    <3>1. fp.rde \in Unit  BY DEF TypeInv, TypeOK, Unit
    <3>2. HandleSound(fp, fat)  BY DEF OwnershipInv, CallSound
    <3> QED  BY <1>1, <1>7, <2>2, <2>3, <3>1, <3>2, TakenBacks DEF HandleSound
  <2> QED  BY <1>7, <2>6, <2>7, ReturnSound DEF OwnershipInv
<1>8. ASSUME NEW s \in stop, NEW c,
             writeRootDirectory(writeDataEntries(disk, dir, [entries EXCEPT ![s] = new(c)])),
             UNCHANGED rootDir, writeFatTable
      PROVE  disk' = DirWith(disk, dir, dataEntries, s, new(c)) /\ rootDir' = LoadRoot(disk')
  <2>1. disk' = DirWith(disk, dir, dataEntries, s, new(c))
    BY <1>1, <1>8 DEF writeRootDirectory, DirWith
  <2>2. rootDir' \in [Slots -> Unit]  BY DEF TypeInv, TypeOK
  <2> QED  BY <1>8, <2>1, <2>2, WriteBackCaches
<1> HIDE DEF entries, new
<1>9. \/ (\E r \in 2..4 : Fail(r)) /\ UNCHANGED caches
      \/ \E s \in stop : Descend(entries[s].cluster) /\ UNCHANGED caches
      \/ \E s \in stop :
           /\ FreeSlot(entries[s]) /\ UNCHANGED <<rootDir, fp, dir>>
           /\ \E c \in NewCluster(fatTable, entries[s].cluster) :
                /\ fatTable' = Taken(fatTable, c)
                /\ writeRootDirectory(writeDataEntries(disk, dir, [entries EXCEPT ![s] = new(c)]))
           /\ writeFatTable /\ Return(0)
  <2> DEFINE done(s) ==
        /\ FreeSlot(entries[s]) /\ UNCHANGED <<rootDir, fp, dir>>
        /\ \E c \in NewCluster(fatTable, entries[s].cluster) :
             /\ fatTable' = Taken(fatTable, c)
             /\ writeRootDirectory(writeDataEntries(disk, dir, [entries EXCEPT ![s] = new(c)]))
        /\ writeFatTable /\ Return(0)
  <2>1. \/ Fail(4) /\ UNCHANGED <<dataEntries, caches>>
        \/ Fail(2) /\ UNCHANGED caches
        \/ \E s \in stop :
             UNCHANGED caches /\ (Fail(3) \/ Descend(entries[s].cluster))
        \/ \E s \in stop : done(s)
    BY Zenon DEF fatCreateStep, entries, new
  <2> HIDE DEF done, stop
  <2>2. UNCHANGED <<dataEntries, caches>> => UNCHANGED caches  OBVIOUS
  <2>3. 2 \in 2..4 /\ 3 \in 2..4 /\ 4 \in 2..4  OBVIOUS
  <2>4. \A s : done(s) =>
          /\ FreeSlot(entries[s]) /\ UNCHANGED <<rootDir, fp, dir>>
          /\ \E c \in NewCluster(fatTable, entries[s].cluster) :
               /\ fatTable' = Taken(fatTable, c)
               /\ writeRootDirectory(writeDataEntries(disk, dir, [entries EXCEPT ![s] = new(c)]))
          /\ writeFatTable /\ Return(0)
    BY DEF done
  <2> QED  BY <2>1, <2>2, <2>3, <2>4, Zenon
<1> QED  BY <1>5, <1>6, <1>7, <1>8, <1>9

LEMMA FatWriteSound ==
  ASSUME TypeInv, OwnershipInv, NEW t \in TextArg, clustersNeeded(t) = 1, fatWrite(t)
  PROVE  OwnershipInv'
<1>1. StorageSound  BY DEF OwnershipInv
<1>2. UNCHANGED <<disk, fat>> /\ fatTable' = fat /\ rootDir' = LoadRoot(disk)
      /\ WindowSound(dataEntries', fat)
  BY <1>1 DEF fatWrite, storage, initFatStructs, StorageSound
<1>3. CallSound'
  <2>1. fp.rde.attr = "file" /\ fp' = fp /\ cluster' = fp.start /\ text' = t /\ pc' = "free"
    BY DEF fatWrite, Begin
  <2>2. clustersNeeded(text') = 1  BY <2>1
  <2>3. HandleSound(fp', fat')
    BY <1>2, <2>1 DEF OwnershipInv, CallSound, HandleSound, Backed
  <2> QED  BY <2>1, <2>2, <2>3 DEF CallSound, HandleSound, Backed, clustersNeeded
<1> QED  BY <1>1, <1>2, <1>3, SameStorage DEF OwnershipInv

\* While fatWrite runs, its handle's cluster is the only one of its chain.
LEMMA OnlyCluster ==
  ASSUME OwnershipInv, pc = "free"
  PROVE  clustersNeeded(text) = 1 /\ cluster = fp.rde.cluster
BY DEF OwnershipInv, CallSound, HandleSound

\* What writeFileLength finds in its uninitialised buffer is sound.
LEMMA ResidueSound ==
  ASSUME TypeInv, StorageSound, NEW g \in Residue, fp.parent = 0
  PROVE  WindowSound(g, fat) /\ \A s \in Window : g[s] \in Unit
<1>1. g \in [Window -> {Zero, Junk} \cup {rootDir[s] : s \in Slots}]
  BY DEF Residue
<1>2. fat[0] = EOC  BY DEF StorageSound, Sound
<1>3. ASSUME NEW x \in Slots PROVE rootDir[x] \in Unit /\ Backed(rootDir[x], fat)
  <2>1. rootDir[x] \in Unit  BY DEF TypeInv, TypeOK
  <2>2. rootDir = LoadRoot(disk)  BY DEF StorageSound
  <2> QED  BY <2>1, <2>2, RootSound
<1>4. ASSUME NEW s \in Window PROVE g[s] \in Unit /\ Backed(g[s], fat)
  <2>1. g[s] = Zero \/ g[s] = Junk \/ \E x \in Slots : g[s] = rootDir[x]
    BY <1>1
  <2>2. CASE g[s] = Zero  BY <1>2, <2>2, ZeroBacked, Constants
  <2>3. CASE g[s] = Junk  BY <2>3, JunkBacked, Constants
  <2>4. ASSUME NEW x \in Slots, g[s] = rootDir[x] PROVE g[s] \in Unit /\ Backed(g[s], fat)
    BY <1>3, <2>4
  <2> QED  BY <2>1, <2>2, <2>3, <2>4
<1> QED  BY <1>4 DEF WindowSound

LEMMA WriteSingleSound ==
  ASSUME TypeInv, TypeInv', OwnershipInv, WriteSingle
  PROVE  OwnershipInv'
<1> DEFINE d == ClearAndWrite(disk, cluster, text, 0)
           f == Moved(cluster)
<1>1. StorageSound /\ CallTypes /\ WorkTypes /\ StorageTypes
  BY TypeParts DEF OwnershipInv
<1>2. fatTable[cluster] = EOC /\ cluster = fp.rde.cluster
  BY OnlyCluster DEF WriteSingle
<1>3. fatTable' = fat /\ fat' = fat
  <2>1. fatTable' = [fatTable EXCEPT ![cluster] = EOC] /\ fat' = fatTable'
    BY DEF WriteSingle, Finish, writeFatTable
  <2>2. fatTable \in [Clusters -> FatValue] /\ fatTable = fat
    BY <1>1 DEF StorageTypes, StorageSound
  <2> QED  BY <1>2, <2>1, <2>2
<1>4. d \in Disk /\ f \in File /\ f.parent = fp.parent
  BY <1>1, ClearAndWriteDisk, MovedType DEF CallTypes, WorkTypes, StorageTypes
<1>5. Sound(d, fat)  BY <1>1, ClearAndWriteSound DEF StorageSound
<1> HIDE DEF d, f
<1>6. PICK g \in Residue :
        LET e == writeFileLength(d, f, text.len, g)
        IN  rootDir' = LoadRoot(e) /\ writeRootDirectory(e)
  BY DEF WriteSingle, Finish, d, f
<1> DEFINE e == writeFileLength(d, f, text.len, g)
<1>7. f.parent = 0 => WindowSound(g, fat) /\ \A s \in Window : g[s] \in Unit
  BY <1>1, <1>4, ResidueSound
<1>8. Sound(e, fat)  BY <1>4, <1>5, <1>7, FileLengthSound
<1>9. e \in Disk  BY <1>1, <1>4, FileLengthDisk DEF CallTypes, TextArg
<1>10. rootDir' = LoadRoot(e) /\ writeRootDirectory(e)  BY <1>6
<1> HIDE DEF e
<1>11. disk' = e  BY <1>9, <1>10, PutBackRoot DEF writeRootDirectory
<1>12. WindowSound(dataEntries', fat')
  BY <1>1, <1>3 DEF WriteSingle, Finish, StorageSound
<1>13. StorageSound'  BY <1>3, <1>8, <1>10, <1>11, <1>12 DEF StorageSound
<1>14. HandleSound(fp', fat')
  <2>1. fp' = [fp EXCEPT !.start = cluster, !.rde.cluster = cluster]
    BY DEF WriteSingle, Finish, Moved
  <2>2. fp \in File /\ HandleSound(fp, fat)  BY <1>1 DEF WorkTypes, OwnershipInv, CallSound
  <2>3. fp' = fp  BY <1>2, <2>1, <2>2 DEF File, Entry, HandleSound
  <2> QED  BY <1>3, <2>2, <2>3
<1> QED  BY <1>13, <1>14, ReturnSound DEF OwnershipInv, WriteSingle, Finish

\* The other steps of fatWrite are never reached.
LEMMA NoOtherWrite ==
  ASSUME OwnershipInv, SingleWrites, FreeCluster \/ WriteLinked \/ WriteLast \/ WriteWild
  PROVE  FALSE
<1>1. pc # "place"  BY DEF OwnershipInv, CallSound
<1> QED
  BY <1>1, OnlyCluster DEF SingleWrites, FreeCluster, WriteLinked, WriteLast, WriteWild

\* A call that goes astray leaves a sound disk.
LEMMA StraySound ==
  ASSUME OwnershipInv, Stray \/ \E o, p, isDir : ScanAstray(o, p, isDir)
  PROVE  OwnershipInv'
<1>1. StorageSound /\ CallSound  BY DEF OwnershipInv
<1>2. CASE Stray
  <2>1. UNCHANGED <<storage, caches, dataEntries, fp>> /\ pc' = "fault"
    BY <1>2, StrayStops DEF Fault
  <2>2. StorageSound'  BY <1>1, <2>1, SameStorage DEF storage, caches, StorageSound
  <2>3. CallSound'  BY <1>1, <2>1 DEF storage, CallSound, HandleSound, Backed
  <2> QED  BY <2>2, <2>3 DEF OwnershipInv
<1>3. CASE \E o, p, isDir : ScanAstray(o, p, isDir)
  <2>1. /\ initFatStructs /\ pc' = "fault" /\ fp' = NoFile /\ UNCHANGED <<storage, dataEntries>>
    BY <1>3, ScanStops DEF Fault
  <2>2. StorageSound'  BY <1>1, <2>1, SameStorage DEF storage, initFatStructs, StorageSound
  <2>3. CallSound'  BY <1>1, <2>1, NoFileCall DEF storage, CallSound, HandleSound, Backed
  <2> QED  BY <2>2, <2>3 DEF OwnershipInv
<1> QED  BY <1>2, <1>3

LEMMA ReadsSound ==
  ASSUME TypeInv, OwnershipInv, fatRead \/ ReadSingle \/ ReadLinked
  PROVE  OwnershipInv'
<1>1. StorageSound /\ CallSound  BY DEF OwnershipInv
<1>2. /\ UNCHANGED <<disk, fat>> /\ fatTable' = fat /\ rootDir' = LoadRoot(disk)
      /\ WindowSound(dataEntries', fat)
  BY <1>1 DEF fatRead, ReadSingle, ReadLinked, storage, caches, initFatStructs, StorageSound
<1>3. fp' = fp /\ pc' \notin {"place", "free"}
  BY DEF fatRead, ReadSingle, ReadLinked, Return
<1>4. CallSound'  BY <1>1, <1>2, <1>3 DEF CallSound, HandleSound, Backed
<1> QED  BY <1>1, <1>2, <1>4, SameStorage DEF OwnershipInv

(***************************************************************************)
(* The theorem                                                             *)
(***************************************************************************)

LEMMA InitSound ==
  ASSUME SoundImages, Init
  PROVE  OwnershipInv
<1>1. PICK m \in Images : disk = m.disk /\ fat = m.fat  BY DEF Init
<1>2. Sound(disk, fat)  BY <1>1, ImageAssumption DEF SoundImages, Sound
<1>3. fat[0] = EOC  BY <1>2 DEF Sound
<1>4. WindowSound(dataEntries, fat)
  BY <1>3, ZeroBacked DEF Init, WindowSound
<1>5. HandleSound(fp, fat) /\ pc = "idle"  BY <1>3, NoFileSound DEF Init
<1> QED  BY <1>2, <1>4, <1>5 DEF OwnershipInv, StorageSound, CallSound, Init

LEMMA NextSound ==
  ASSUME SingleWrites, TypeInv, TypeInv', OwnershipInv, [AnyNext]_vars
  PROVE  OwnershipInv'
<1>1. ASSUME NEW p \in Path, fatOpenRoot(p) PROVE OwnershipInv'
  BY <1>1, OpenRootSound
<1>2. ASSUME NEW p \in Path, StartWalk(p) PROVE OwnershipInv'
  BY <1>2, StartWalkSound
<1>3. ASSUME NEW p \in Path, NEW isDir \in BOOLEAN, fatCreateRoot(p, isDir)
      PROVE  OwnershipInv'
  BY <1>3, CreateRootSound
<1>4. ASSUME NEW t \in TextArg, clustersNeeded(t) = 1, fatWrite(t) PROVE OwnershipInv'
  BY <1>4, FatWriteSound
<1>5. CASE fatOpenStep  BY <1>5, OpenStepSound
<1>6. CASE fatCreateStep  BY <1>6, CreateStepSound
<1>7. CASE WriteSingle  BY <1>7, WriteSingleSound
<1>8. CASE FreeCluster \/ WriteLinked \/ WriteLast \/ WriteWild  BY <1>8, NoOtherWrite
<1>9. CASE fatRead \/ ReadSingle \/ ReadLinked  BY <1>9, ReadsSound
<1>10. CASE UNCHANGED vars
  <2>1. UNCHANGED <<disk, fat, fatTable, rootDir, dataEntries, fp, pc, cluster, text>>
    BY <1>10 DEF vars
  <2>2. StorageSound'  BY <2>1, SameStorage DEF OwnershipInv, StorageSound
  <2>3. CallSound'
    BY <2>1 DEF OwnershipInv, CallSound, HandleSound, Backed, clustersNeeded
  <2> QED  BY <2>2, <2>3 DEF OwnershipInv
<1>11. CASE Stray \/ \E o, p, isDir : ScanAstray(o, p, isDir)  BY <1>11, StraySound
<1> QED
  BY <1>1, <1>2, <1>3, <1>4, <1>5, <1>6, <1>7, <1>8, <1>9, <1>10, <1>11
  DEF AnyNext, AnyCall, Step, Stray, fatOpenPath, fatCreatePath

\* What one file's write stores is never another file's: whatever directories and
\* files the volume begins with, as long as each has an allocated cluster of its
\* own, no sequence of calls that writes only over files of one cluster gives one
\* cluster to two entries (fat.c:240-680).
THEOREM OwnedOnce ==
  ASSUME ShortTexts, SoundImages
  PROVE  Spec /\ []SingleWrites => []ClustersOwnedOnce
<1>1. Init => OwnershipInv  BY InitSound
<1>2. SingleWrites /\ TypeInv /\ TypeInv' /\ OwnershipInv /\ [Next]_vars => OwnershipInv'
  BY NextSound, CallsAreAny
<1>3. OwnershipInv => ClustersOwnedOnce
  <2> SUFFICES ASSUME OwnershipInv, NEW a \in Kept, Owner(a)
               PROVE  /\ fat[disk[a].cluster] # 0
                      /\ \A b \in Kept : Owner(b) /\ disk[b].cluster = disk[a].cluster => a = b
    BY DEF ClustersOwnedOnce
  <2>1. Sound(disk, fat)  BY DEF OwnershipInv, StorageSound
  <2>2. a \in Addr  BY DEF Kept
  <2>3. \A b : Owner(b) <=> Owns(disk[b])  BY DEF Owner
  <2> QED  BY <2>1, <2>2, <2>3 DEF Sound, Backed, Distinct, Owns
<1> QED  BY <1>1, <1>2, <1>3, TypesHold, PTL DEF Spec

(***************************************************************************)
(* When the kernel goes wild                                               *)
(***************************************************************************)

\* A scan that stops nowhere had nothing to stop at.
LEMMA ScanFinds ==
  ASSUME NEW S, S \subseteq Slots, S # {}
  PROVE  Scan(S) # {}
<1>1. S \subseteq Nat  BY SizeAssumption
<1>2. PICK s \in S : \A x \in S : ~ (<<x, s>> \in OpToRel(<, Nat))
  BY <1>1, NatLessThanWellFounded, WFMin
<1>3. s \in Scan(S)
  <2>1. \A x \in S : ~ (x < s)  BY <1>1, <1>2 DEF OpToRel
  <2> QED  BY <1>1, <2>1 DEF Scan
<1> QED  BY <1>3

\* A text of less than a cluster is written in one step, after the old chain, and a
\* walk has more than one component.
ShortInv ==
  /\ pc # "place"
  /\ pc = "free" => clustersNeeded(text) = 1
  /\ pc = "walk" => Len(path.names) > 1
  /\ WildOnlyAtLimits

LEMMA RootFault ==
  ASSUME TypeInv, NEW p \in Path, NEW isDir \in BOOLEAN, fatCreateRoot(p, isDir), pc' = "fault"
  PROVE  WildOnlyAtLimits'
<1> DEFINE root == LoadRoot(disk)
           n == p.names[1]
<1>1. PlaceInRoot(root, n) = {} /\ initFatStructs /\ op' = "fatCreate"
  BY DEF fatCreateRoot, Begin, Return
<1>2. {s \in Slots : FreeSlot(root[s]) \/ RootMatch(root[s], n)} = {}
  <2> DEFINE T == {s \in Slots : FreeSlot(root[s]) \/ RootMatch(root[s], n)}
  <2>1. T \subseteq Slots  BY Zenon
  <2>2. Scan(T) = {}  BY <1>1 DEF PlaceInRoot
  <2> HIDE DEF T
  <2>3. T = {}  BY <2>1, <2>2, ScanFinds
  <2> QED  BY <2>3 DEF T
<1>3. rootDir' = root  BY <1>1 DEF initFatStructs
<1> HIDE DEF root, n
<1> QED  BY <1>1, <1>2, <1>3 DEF WildOnlyAtLimits

LEMMA ZeroFits == ~Overlong(Zero)
<1>1. Len(<<>>) = 0 /\ <<>> \in Name  BY DEF Name
<1>2. Len(Before(<<>>, ".")) = 0
  <2> DEFINE b == Before(<<>>, ".")
  <2>1. b \in Name /\ Len(b) <= 0  BY <1>1, BeforeIsName
  <2> HIDE DEF b
  <2>2. Len(b) \in Nat  BY <2>1 DEF Name
  <2> QED  BY <2>1, <2>2 DEF b
<1>3. Len(Extension(<<>>)) = 0
  BY <1>1, <1>2, SubSeqEmpty DEF Extension
<1> QED  BY <1>1, <1>3, LimitAssumption DEF Overlong, Zero

\* A scan that comes by an overlong name saw it on the disk or in the window.
LEMMA PassedEntry ==
  ASSUME NEW d \in Disk, NEW c \in Clusters, NEW old, NEW stop,
         Passes(readFromCluster(d, c, old), stop)
  PROVE  \/ \E a \in Addr : Overlong(d[a])
         \/ \E s \in Window : Overlong(old[s])
<1>1. PICK s \in DirSlots : Overlong(readFromCluster(d, c, old)[s])
  BY DEF Passes, readFromCluster
<1>2. readFromCluster(d, c, old)[s] = old[s] \/ readFromCluster(d, c, old)[s] = d[DirBase(c) + s]
  BY DEF readFromCluster
<1>3. CASE c = 0 /\ s > RootRead
  <2>1. s \in Window /\ readFromCluster(d, c, old)[s] = old[s]
    BY <1>3, Sizes DEF readFromCluster
  <2> QED  BY <1>1, <2>1
<1>4. CASE ~(c = 0 /\ s > RootRead)
  <2>1. readFromCluster(d, c, old)[s] = d[DirBase(c) + s]  BY <1>4 DEF readFromCluster
  <2> QED  BY <1>1, <2>1, ClusterOnDisk
<1> QED  BY <1>3, <1>4

LEMMA ScanFault ==
  ASSUME NEW o, NEW p, NEW isDir, ScanAstray(o, p, isDir)
  PROVE  WildOnlyAtLimits'
<1>1. op' = o /\ path' = p /\ disk' = disk  BY DEF ScanAstray, Begin, storage
<1>2. CASE Overruns(p)  BY <1>1, <1>2 DEF WildOnlyAtLimits, Unfit, Overruns, subDirectIndex
<1>3. CASE o = "fatCreate" /\ LongStem(NewName(p))
  <2>1. LongStem(NewName(path'))  BY <1>1, <1>3
  <2> QED  BY <1>1, <1>3, <2>1 DEF WildOnlyAtLimits, Unfit, LongStem, NewName, subDirectIndex
<1>4. ASSUME NEW s \in Slots, Overlong(LoadRoot(disk)[s]) PROVE WildOnlyAtLimits'
  <2>1. Overlong(disk[s - RootSize]) /\ s - RootSize \in Addr
    BY <1>4, Sizes DEF LoadRoot
  <2>2. Overlong(disk'[s - RootSize])  BY <1>1, <2>1
  <2> QED  BY <2>1, <2>2 DEF WildOnlyAtLimits, Unfit
<1>5. DOMAIN LoadRoot(disk) = Slots  BY DEF LoadRoot
<1>6. Overruns(p) \/ (\E stop : Passes(LoadRoot(disk), stop))
        \/ (o = "fatCreate" /\ LongStem(NewName(p)))
  BY Zenon DEF ScanAstray
<1> QED  BY <1>2, <1>3, <1>4, <1>5, <1>6 DEF Passes

LEMMA StrayFault ==
  ASSUME TypeInv, ShortInv, Stray
  PROVE  WildOnlyAtLimits'
<1>1. /\ disk' = disk /\ dataEntries' = dataEntries /\ path' = path /\ op' = op
      /\ dir' = dir /\ cluster' = cluster
  BY StrayStops DEF storage, args, Fault
<1>2. disk \in Disk /\ dir \in Clusters /\ fp.parent \in Clusters
  BY DEF TypeInv, TypeOK, Disk
<1>3. CASE OffDisk  BY <1>1, <1>3 DEF OffDisk, WildOnlyAtLimits
<1>4. CASE Unfit
  <2>1. Unfit'  BY <1>1, <1>4 DEF Unfit, Overruns, LongStem, NewName, subDirectIndex
  <2> QED  BY <2>1 DEF WildOnlyAtLimits
<1>5. CASE WalkAstray
  <2>1. \/ dir >= DiskClusters
        \/ \E stop : Passes(readFromCluster(disk, dir, dataEntries), stop)
        \/ /\ pc = "walk" /\ op = "fatCreate" /\ depth = subDirectIndex(path)
           /\ LongStem(path.names[depth])
    BY <1>5, Zenon DEF WalkAstray
  <2>2. pc = "walk" /\ depth = subDirectIndex(path) => NewName(path) = path.names[depth]
    BY DEF ShortInv, NewName
  <2>3. CASE dir >= DiskClusters  BY <1>3, <2>3 DEF OffDisk
  <2>4. CASE \E stop : Passes(readFromCluster(disk, dir, dataEntries), stop)
    BY <1>2, <1>4, <2>4, PassedEntry DEF Unfit
  <2> QED  BY <1>4, <2>1, <2>2, <2>3, <2>4 DEF Unfit
<1>6. CASE LengthAstray
  <2>1. PICK stop : Passes(readFromCluster(disk, fp.parent, Nulls), stop)
    BY <1>6, Zenon DEF LengthAstray
  <2>2. \A s \in Window : Nulls[s] = Zero  BY SizeAssumption DEF Nulls
  <2>3. \E a \in Addr : Overlong(disk[a])  BY <1>2, <2>1, <2>2, PassedEntry, ZeroFits
  <2> QED  BY <1>4, <2>3 DEF Unfit
<1>7. CASE ClusterAstray  BY <1>3, <1>7 DEF ClusterAstray, OffDisk
<1> QED  BY <1>5, <1>6, <1>7 DEF Stray

LEMMA ShortNext ==
  ASSUME TypeInv, ShortInv, [AnyNext]_vars
  PROVE  ShortInv'
<1> USE DEF ShortInv
<1>1. ASSUME NEW p \in Path, fatOpenRoot(p) PROVE ShortInv'
  BY <1>1 DEF fatOpenRoot, Fail, Return, WildOnlyAtLimits
<1>2. ASSUME NEW p \in Path, StartWalk(p), path' = p PROVE ShortInv'
  BY <1>2 DEF StartWalk, Begin, Fail, Return, WildOnlyAtLimits
<1>3. ASSUME NEW p \in Path, NEW isDir \in BOOLEAN, fatCreateRoot(p, isDir)
      PROVE  ShortInv'
  <2>1. pc' = "fault" \/ pc' = "idle"  BY <1>3 DEF fatCreateRoot, Fault, Return
  <2>2. pc' = "fault" => WildOnlyAtLimits'  BY <1>3, RootFault
  <2> QED  BY <2>1, <2>2 DEF WildOnlyAtLimits
<1>4. ASSUME NEW t \in TextArg, clustersNeeded(t) = 1, fatWrite(t) PROVE ShortInv'
  BY <1>4 DEF fatWrite, Begin, clustersNeeded, WildOnlyAtLimits
<1>5. CASE fatOpenStep \/ fatCreateStep
  <2>1. (pc' = "idle" \/ pc' = "walk") /\ pc = "walk" /\ path' = path
    BY <1>5 DEF fatOpenStep, fatCreateStep, Fail, Return, Descend, args
  <2> QED  BY <2>1 DEF WildOnlyAtLimits
<1>6. CASE FreeCluster
  BY <1>6 DEF FreeCluster, args, clustersNeeded, WildOnlyAtLimits
<1>7. CASE WriteSingle
  BY <1>7 DEF WriteSingle, Finish, Return, WildOnlyAtLimits
<1>8. CASE WriteLinked \/ WriteLast \/ WriteWild
  BY <1>8 DEF WriteLinked, WriteLast, WriteWild
<1>9. CASE fatRead \/ ReadSingle \/ ReadLinked
  <2>1. pc' = "idle" \/ pc' = "read"
    BY <1>9 DEF fatRead, ReadSingle, ReadLinked, Return
  <2> QED  BY <2>1 DEF WildOnlyAtLimits
<1>10. CASE UNCHANGED vars
  <2>1. pc' = pc /\ text' = text /\ path' = path  BY <1>10 DEF vars
  <2>2. WildOnlyAtLimits'
    BY <1>10 DEF vars, WildOnlyAtLimits, Unfit, OffDisk, Overruns, LongStem, NewName,
                 subDirectIndex
  <2> QED  BY <2>1, <2>2 DEF clustersNeeded
<1>11. CASE Stray
  BY <1>11, StrayFault, StrayStops DEF Fault
<1>12. CASE \E o, p, isDir : ScanAstray(o, p, isDir)
  BY <1>12, ScanFault, ScanStops DEF Fault
<1> QED
  BY <1>1, <1>2, <1>3, <1>4, <1>5, <1>6, <1>7, <1>8, <1>9, <1>10, <1>11, <1>12
  DEF AnyNext, AnyCall, Step, Stray, fatOpenPath, fatCreatePath, Begin

\* Whatever image the card holds and whatever is called, with texts of less than a
\* cluster the kernel goes wild in fatCreate on a root directory with no free slot
\* (fat.c:335), and else only on names and paths that do not fit its arrays, or behind
\* the end of the disk: a text never runs out of free clusters (fat.c:723).
THEOREM WildAtLimits ==
  ASSUME ShortTexts
  PROVE  Spec => []WildOnlyAtLimits
<1>1. Init => ShortInv  BY DEF Init, ShortInv, WildOnlyAtLimits
<1>2. TypeInv /\ ShortInv /\ [Next]_vars => ShortInv'  BY ShortNext, CallsAreAny
<1>3. ShortInv => WildOnlyAtLimits  BY DEF ShortInv
<1> QED  BY <1>1, <1>2, <1>3, TypesHold, PTL DEF Spec

(***************************************************************************)
(* What calls do to the disk                                               *)
(***************************************************************************)

\* fatCreate gives the unused entry u, in one of the slots of place, the cluster c;
\* below the root, in the clusters the root covers, the entry itself is lost.
EntryPlaced(n, isDir, place) ==
  \E u \in Entry : \E c \in NewCluster(fat, u.cluster) :
    /\ FreeSlot(u)
    /\ fat' = Taken(fat, c)
    /\ \/ \A a \in Addr : disk'[a] = disk[a]
       \/ \E a0 \in place \cap Addr :
            /\ u = disk[a0] /\ disk'[a0] = NewEntry(n, isDir, c)
            /\ \A a \in Addr \ {a0} : disk'[a] = disk[a]

\* It takes the unused slot at a0.
PutEntry(a0, n, isDir) ==
  /\ a0 \in Addr /\ FreeSlot(disk[a0])
  /\ \E c \in NewCluster(fat, disk[a0].cluster) :
       fat' = Taken(fat, c) /\ disk'[a0] = NewEntry(n, isDir, c)
  /\ \A a \in Addr \ {a0} : disk'[a] = disk[a]

RootPlace == {a \in Addr : a <= 0}
DirPlace == {DirBase(dir) + s : s \in DirSlots} \cap {a \in Addr : dir >= 2}

LEMMA CreateRootDisk ==
  ASSUME TypeInv, OwnershipInv, NEW p, NEW isDir, fatCreateRoot(p, isDir)
  PROVE  \/ UNCHANGED <<disk, fat>> /\ (pc' = "fault" \/ ret' = 1)
         \/ /\ EntryPlaced(StoredName(p), isDir, RootPlace)
            /\ \E s \in PlaceInRoot(LoadRoot(disk), p.names[1]) :
                 PutEntry(s - RootSize, StoredName(p), isDir)
<1> DEFINE root == LoadRoot(disk)
           stop == PlaceInRoot(root, p.names[1])
<1>1. StorageSound /\ disk \in Disk /\ fat \in [Clusters -> FatValue]
  BY DEF OwnershipInv, TypeInv, TypeOK, Disk
<1>2. ASSUME NEW s \in stop, FreeSlot(root[s]), NEW c \in NewCluster(fat, root[s].cluster),
             fatTable' = Taken(fat, c),
             rootDir' = [root EXCEPT ![s] = NewEntry(StoredName(p), isDir, c)],
             writeFatTable, writeRootDirectory(disk)
      PROVE  /\ EntryPlaced(StoredName(p), isDir, RootPlace)
             /\ PutEntry(s - RootSize, StoredName(p), isDir)
  <2> DEFINE u == root[s]
             x == NewEntry(StoredName(p), isDir, c)
             a0 == s - RootSize
  <2>1. s \in Slots /\ u \in Entry  BY <1>1, FoundEntry, LoadRootUnits
  <2>2. u = disk[a0] /\ a0 \in Addr  BY <1>1, <2>1, RootSound
  <2>3. disk' = PutRoot(disk, RootWith(disk, s, x))
    BY <1>2 DEF writeRootDirectory, RootWith
  <2>4. FreeSlot(u) /\ c \in NewCluster(fat, u.cluster) /\ fat' = Taken(fat, c)
    BY <1>2 DEF writeFatTable
  <2> HIDE DEF u, x
  <2>5. disk'[a0] = x /\ \A a \in Addr \ {a0} : disk'[a] = disk[a]
    BY <1>1, <2>1, <2>3, PutRootSlot
  <2> HIDE DEF a0
  <2>6. a0 \in RootPlace  BY <2>1, <2>2, Sizes DEF a0, RootPlace
  <2>7. EntryPlaced(StoredName(p), isDir, RootPlace)
    BY <2>1, <2>2, <2>4, <2>5, <2>6 DEF EntryPlaced, x
  <2>8. PutEntry(a0, StoredName(p), isDir)  BY <2>2, <2>4, <2>5 DEF PutEntry, x
  <2> QED  BY <2>7, <2>8 DEF a0
<1> QED  BY <1>2 DEF fatCreateRoot, storage, Fault, Return

LEMMA CreateStepDisk ==
  ASSUME TypeInv, OwnershipInv, fatCreateStep
  PROVE  \/ UNCHANGED <<disk, fat>> /\ (pc' = "walk" \/ ret' # 0)
         \/ /\ depth = subDirectIndex(path)
            /\ EntryPlaced(StoredName(path), isDirectory, DirPlace)
            /\ dir >= 2 =>
                 \E s \in PlaceInDir(readFromCluster(disk, dir, dataEntries), path.names[depth]) :
                   PutEntry(DirBase(dir) + s, StoredName(path), isDirectory)
<1> DEFINE entries == readFromCluster(disk, dir, dataEntries)
           name == path.names[depth]
           new == StoredName(path)
           atEnd == depth = subDirectIndex(path)
           stop == IF atEnd THEN PlaceInDir(entries, name) ELSE FoundInDir(entries, name)
<1>1. /\ StorageSound /\ disk \in Disk /\ dir \in Clusters
      /\ fat \in [Clusters -> FatValue] /\ fatTable = fat /\ rootDir = LoadRoot(disk)
  BY DEF OwnershipInv, StorageSound, TypeInv, TypeOK, Disk
<1>2. entries \in [DirSlots -> Unit]  BY <1>1, WalkSound
<1>3. \A s \in stop : s \in DirSlots /\ entries[s] \in Entry
  BY <1>2, FoundEntry
<1>4. ASSUME NEW s \in stop, FreeSlot(entries[s]), UNCHANGED rootDir,
             NEW c \in NewCluster(fatTable, entries[s].cluster),
             fatTable' = Taken(fatTable, c),
             writeRootDirectory(writeDataEntries(disk, dir,
               [entries EXCEPT ![s] = NewEntry(new, isDirectory, c)])),
             writeFatTable
      PROVE  /\ EntryPlaced(new, isDirectory, DirPlace)
             /\ dir >= 2 => PutEntry(DirBase(dir) + s, new, isDirectory)
  <2> DEFINE u == entries[s]
             x == NewEntry(new, isDirectory, c)
             a0 == DirBase(dir) + s
  <2>1. s \in DirSlots /\ u \in Entry  BY <1>3
  <2>2. FreeSlot(u) /\ c \in NewCluster(fat, u.cluster) /\ fat' = Taken(fat, c)
    BY <1>1, <1>4 DEF writeFatTable
  <2>3. disk' = DirWith(disk, dir, dataEntries, s, x)
    BY <1>1, <1>4 DEF writeRootDirectory, DirWith
  <2> HIDE DEF x, name, new
  <2>4. \/ \A a \in Addr : disk'[a] = disk[a]
        \/ /\ dir >= 2 /\ u = disk[a0] /\ a0 \in Addr /\ disk'[a0] = x
           /\ \A a \in Addr \ {a0} : disk'[a] = disk[a]
    BY <1>1, <2>1, <2>3, PutDirSlot
  <2>5. a0 \in Addr /\ dir >= 2 => a0 \in DirPlace  BY <2>1 DEF DirPlace
  <2> HIDE DEF u, a0
  <2>6. EntryPlaced(new, isDirectory, DirPlace)
    BY <2>1, <2>2, <2>4, <2>5 DEF EntryPlaced, x
  <2>7. dir >= 2 => u = disk[a0] /\ a0 \in Addr
    BY <1>1, <2>1, <2>3, PutDirSlot DEF u, a0
  <2>8. dir >= 2 => disk'[a0] = x /\ \A a \in Addr \ {a0} : disk'[a] = disk[a]
    BY <1>1, <2>1, <2>3, PutDirSlot, SizeAssumption DEF a0
  <2>9. dir >= 2 => PutEntry(a0, new, isDirectory)
    BY <2>2, <2>7, <2>8 DEF PutEntry, x
  <2> QED  BY <2>6, <2>9 DEF a0
<1> DEFINE done(s) ==
      /\ atEnd /\ FreeSlot(entries[s]) /\ UNCHANGED rootDir
      /\ \E c \in NewCluster(fatTable, entries[s].cluster) :
           /\ fatTable' = Taken(fatTable, c)
           /\ writeRootDirectory(writeDataEntries(disk, dir,
                [entries EXCEPT ![s] = NewEntry(new, isDirectory, c)]))
      /\ writeFatTable
<1>5. \/ UNCHANGED <<disk, fat>> /\ (pc' = "walk" \/ ret' \in {2, 3, 4})
      \/ atEnd /\ \E s \in stop : done(s)
  BY Zenon DEF fatCreateStep, Fail, Return, Descend, storage
<1> DEFINE placed(s) ==
      /\ EntryPlaced(new, isDirectory, DirPlace)
      /\ dir >= 2 => PutEntry(DirBase(dir) + s, new, isDirectory)
<1>6. \A s \in stop : done(s) => placed(s)
  <2> SUFFICES ASSUME NEW s \in stop, done(s) PROVE placed(s)
    OBVIOUS
  <2> HIDE DEF entries, name, new, atEnd, stop
  <2> QED  BY <1>4
<1>7. atEnd => stop = PlaceInDir(entries, name)  OBVIOUS
<1> HIDE DEF done, stop, entries, name, new, placed
<1>8. \/ UNCHANGED <<disk, fat>> /\ (pc' = "walk" \/ ret' \in {2, 3, 4})
      \/ atEnd /\ \E s \in PlaceInDir(entries, name) : placed(s)
  BY Zenon, <1>5, <1>6, <1>7
<1>9. ret' \in {2, 3, 4} => ret' # 0  OBVIOUS
<1> QED  BY <1>8, <1>9 DEF placed, name, new, entries

\* Blanks and text over one cluster.
LEMMA WrittenUnits ==
  ASSUME NEW d, NEW c, NEW x \in TextArg, x.len <= DirSize, NEW a \in Addr
  PROVE  LET e == ClearAndWrite(d, c, x, 0)
         IN  \/ e[a] = d[a]
             \/ a - ClusterBase(c) \in DirSlots /\ (e[a] = Zero \/ e[a].kind = "text")
<1> DEFINE z == writeToCluster(d, c, Nulls)
           b == ClusterBase(c)
           w == Sector(x, 0)
           e == ClearAndWrite(d, c, x, 0)
<1>1. z[a] = d[a] \/ (a - b \in DirSlots /\ z[a] = Zero)
  BY DEF writeToCluster, Overwrite, Nulls
<1>2. DOMAIN w = 1..x.len /\ \A u \in DOMAIN w : w[u].kind = "text"
  BY DEF Sector, Piece, Junk
<1>3. e[a] = IF a - b \in DOMAIN w THEN w[a - b] ELSE z[a]
  <2>1. e = Overwrite(z, b, w)  BY DEF ClearAndWrite, writeToCluster
  <2> HIDE DEF z, e, w, b
  <2> QED  BY <2>1 DEF Overwrite
<1>4. 1..x.len \subseteq DirSlots  BY SizeAssumption DEF TextArg
<1> HIDE DEF z, e, w, b
<1>5. e[a] = d[a] \/ (a - b \in DirSlots /\ (e[a] = Zero \/ e[a].kind = "text"))
  BY <1>1, <1>2, <1>3, <1>4
<1> QED  BY <1>5 DEF e, b

LEMMA WrittenAnything ==
  ASSUME NEW d, NEW c, NEW x, NEW k
  PROVE  LET e == ClearAndWrite(d, c, x, k)
         IN  \A a \in Addr : e[a] = d[a] \/ e[a] = Zero \/ e[a].kind = "text"
<1> DEFINE z == writeToCluster(d, c, Nulls)
           e == ClearAndWrite(d, c, x, k)
<1>1. \A a \in Addr : z[a] = d[a] \/ z[a] = Zero
  BY DEF writeToCluster, Overwrite, Nulls
<1>2. \A u \in DOMAIN Sector(x, k) : Sector(x, k)[u].kind = "text"
  BY DEF Sector, Piece, Junk
<1>3. \A a \in Addr : e[a] = z[a] \/ e[a].kind = "text"
  <2>1. e = Overwrite(z, ClusterBase(c), Sector(x, k))
    BY DEF ClearAndWrite, writeToCluster
  <2> HIDE DEF z, e
  <2> QED  BY <1>2, <2>1 DEF Overwrite
<1> HIDE DEF z, e
<1>4. \A a \in Addr : e[a] = d[a] \/ e[a] = Zero \/ e[a].kind = "text"
  BY <1>1, <1>3
<1> QED  BY <1>4 DEF e

\* Where writeFileLength looks for the entry of file f, and the slot it takes.
LengthSlot(d, f, g) ==
  Scan({s \in DirSlots : RootMatch(readFromCluster(d, f.parent, g)[s], f.rde.name)})

\* Of the units that are kept it changes the size in one entry at most.
LEMMA LengthUnits ==
  ASSUME NEW d \in Disk, NEW f \in File, NEW n, NEW g, NEW a \in Kept
  PROVE  LET e == writeFileLength(d, f, n, g)
             s == a - DirBase(f.parent)
         IN  /\ e[a] = IF s \in LengthSlot(d, f, g) THEN [d[a] EXCEPT !.size = n] ELSE d[a]
             /\ s \in LengthSlot(d, f, g) =>
                  /\ s \in DirSlots /\ (f.parent = 0 => s <= RootRead)
                  /\ d[a].kind = "entry" /\ d[a].name # <<>>
<1> DEFINE c == f.parent
           b == DirBase(c)
           r == readFromCluster(d, c, g)
           w == WithLength(r, f.rde, n)
           e == writeFileLength(d, f, n, g)
           s == a - b
           new(u) == [u EXCEPT !.size = n]
<1>1. c \in Clusters /\ b \in Int  BY ClusterOnDisk DEF File
<1>2. a \in Addr /\ a \in Int /\ a + RootSize \notin Window  BY Sizes DEF Kept
<1>3. e[a] = IF s \in DirSlots THEN w[s] ELSE d[a]
  <2>1. DOMAIN w = DirSlots  BY DEF WithLength
  <2>2. e = Overwrite(d, b, w)  BY DEF writeFileLength, writeDataEntries
  <2> HIDE DEF e, b, w
  <2> QED  BY <1>2, <2>1, <2>2 DEF Overwrite
<1>4. s \in DirSlots => w[s] = IF s \in LengthSlot(d, f, g) THEN new(r[s]) ELSE r[s]
  BY DEF WithLength, LengthSlot
<1>5. s \in DirSlots => (c = 0 /\ s > RootRead) \/ r[s] = d[b + s]
  BY DEF readFromCluster
<1>6. s \in LengthSlot(d, f, g) => r[s].kind = "entry" /\ r[s].name # <<>>
  BY DEF LengthSlot, Scan, RootMatch
<1>7. c = 0 => b = -RootSize  BY DEF DirBase
<1> HIDE DEF c, b, r, w, e, s, new
<1>8. b + s = a /\ s \in Int  BY <1>1, <1>2 DEF s
<1>9. s \in DirSlots => ~(c = 0 /\ s > RootRead)
  BY <1>2, <1>7, <1>8, Sizes
<1>10. s \in LengthSlot(d, f, g) => s \in DirSlots  BY DEF LengthSlot, Scan
<1>11. s \in LengthSlot(d, f, g) =>
         /\ s \in DirSlots /\ (c = 0 => s <= RootRead)
         /\ d[a].kind = "entry" /\ d[a].name # <<>>
  BY <1>5, <1>6, <1>8, <1>9, <1>10, Sizes
<1>12. e[a] = IF s \in LengthSlot(d, f, g) THEN new(d[a]) ELSE d[a]
  BY <1>3, <1>4, <1>5, <1>8, <1>9, <1>10
<1> QED  BY <1>11, <1>12 DEF e, s, b, c, new

\* fatWrite on a text of less than a cluster: one cluster and one length.
LEMMA SingleDisk ==
  ASSUME TypeInv, OwnershipInv, WriteSingle
  PROVE  /\ fat' = fat /\ fatTable' = fat /\ fp' = fp
         /\ \E g \in Residue :
              disk' = writeFileLength(ClearAndWrite(disk, cluster, text, 0), fp, text.len, g)
<1> DEFINE d == ClearAndWrite(disk, cluster, text, 0)
           f == Moved(cluster)
<1>1. StorageSound /\ CallTypes /\ WorkTypes /\ StorageTypes
  BY TypeParts DEF OwnershipInv
<1>2. fatTable[cluster] = EOC /\ cluster = fp.rde.cluster
  BY OnlyCluster DEF WriteSingle
<1>3. fatTable' = fat /\ fat' = fat
  <2>1. fatTable' = [fatTable EXCEPT ![cluster] = EOC] /\ fat' = fatTable'
    BY DEF WriteSingle, Finish, writeFatTable
  <2>2. fatTable \in [Clusters -> FatValue] /\ fatTable = fat
    BY <1>1 DEF StorageTypes, StorageSound
  <2> QED  BY <1>2, <2>1, <2>2
<1>4. d \in Disk  BY <1>1, ClearAndWriteDisk DEF CallTypes, WorkTypes, StorageTypes
<1>5. f = fp
  <2>1. fp \in File /\ HandleSound(fp, fat)  BY <1>1 DEF WorkTypes, OwnershipInv, CallSound
  <2> QED  BY <1>2, <2>1 DEF File, Entry, HandleSound, Moved
<1> HIDE DEF d, f
<1>6. PICK g \in Residue :
        LET e == writeFileLength(d, f, text.len, g)
        IN  rootDir' = LoadRoot(e) /\ writeRootDirectory(e)
  BY DEF WriteSingle, Finish, d, f
<1> DEFINE e == writeFileLength(d, f, text.len, g)
<1>7. f.parent = 0 => WindowSound(g, fat) /\ \A s \in Window : g[s] \in Unit
  BY <1>1, <1>5, ResidueSound
<1>8. e \in Disk
  BY <1>1, <1>4, <1>5, <1>6, FileLengthDisk DEF CallTypes, TextArg, WorkTypes
<1>9. rootDir' = LoadRoot(e) /\ writeRootDirectory(e)  BY <1>6
<1>10. fp' = f  BY DEF WriteSingle, Finish, f
<1> HIDE DEF e
<1>11. disk' = e  BY <1>8, <1>9, PutBackRoot DEF writeRootDirectory
<1> QED  BY <1>3, <1>5, <1>10, <1>11 DEF e, d

\* No other step that can happen stores anything.
LEMMA StoresNothing ==
  ASSUME SingleWrites, TypeInv, OwnershipInv, [AnyNext]_vars
  PROVE  \/ UNCHANGED <<disk, fat>>
         \/ \E p \in Path : \E isDir \in BOOLEAN : fatCreateRoot(p, isDir)
         \/ fatCreateStep \/ WriteSingle
<1>1. StorageSound  BY DEF OwnershipInv
<1>2. ASSUME NEW p \in Path, fatOpenRoot(p) PROVE UNCHANGED <<disk, fat>>
  BY <1>1, <1>2, WriteBackSame DEF fatOpenRoot, initFatStructs, Fail, storage
<1>3. ASSUME NEW p \in Path, StartWalk(p) PROVE UNCHANGED <<disk, fat>>
  BY <1>3 DEF StartWalk, Fail, storage
<1>4. CASE fatOpenStep
  BY <1>1, <1>4, WriteBackSame DEF fatOpenStep, Fail, Descend, storage, caches, StorageSound
<1>5. ASSUME NEW t \in TextArg, clustersNeeded(t) = 1, fatWrite(t) PROVE UNCHANGED <<disk, fat>>
  BY <1>5 DEF fatWrite, storage
<1>6. CASE FreeCluster \/ WriteLinked \/ WriteLast \/ WriteWild  BY <1>6, NoOtherWrite
<1>7. CASE fatRead \/ ReadSingle \/ ReadLinked
  BY <1>7 DEF fatRead, ReadSingle, ReadLinked, storage
<1>8. CASE UNCHANGED vars  BY <1>8 DEF vars
<1>9. CASE Stray \/ \E o, p, isDir : ScanAstray(o, p, isDir)
  BY <1>9, StrayStops, ScanStops DEF storage
<1> QED
  BY <1>2, <1>3, <1>4, <1>5, <1>6, <1>7, <1>8, <1>9
  DEF AnyNext, AnyCall, Step, Stray, fatOpenPath, fatCreatePath

(***************************************************************************)
(* When the FAT is full                                                    *)
(***************************************************************************)

\* The entry of a new file or directory is given cluster 0 only by a full FAT, or one
\* behind the disk when no lower one is free, and taking a cluster makes no other one
\* free.
LEMMA PlacedClusterless ==
  ASSUME TypeInv, OwnershipInv, ClusterlessOnlyWhenFull, NEW n, NEW isDir,
         NEW place, EntryPlaced(n, isDir, place)
  PROVE  ClusterlessOnlyWhenFull'
<1>1. PICK u \in Entry : \E c \in NewCluster(fat, u.cluster) :
        /\ FreeSlot(u) /\ fat' = Taken(fat, c)
        /\ \/ \A a \in Addr : disk'[a] = disk[a]
           \/ \E a0 \in place \cap Addr :
                /\ u = disk[a0] /\ disk'[a0] = NewEntry(n, isDir, c)
                /\ \A a \in Addr \ {a0} : disk'[a] = disk[a]
  BY DEF EntryPlaced
<1>2. PICK c \in NewCluster(fat, u.cluster) :
        /\ fat' = Taken(fat, c)
        /\ \A a \in Addr : disk'[a] = disk[a] \/ disk'[a] = NewEntry(n, isDir, c)
  BY <1>1
<1>3. fat \in [Clusters -> FatValue] /\ fat[0] = EOC
  BY DEF TypeInv, TypeOK, OwnershipInv, StorageSound, Sound
<1>4. unallocated(fat') \subseteq unallocated(fat)
  BY <1>2, <1>3, EocIsNotFree DEF Taken, unallocated
<1>5. unallocated(fat) # {} => c # 0 /\ \A x \in unallocated(fat) : c <= x
  BY <1>3, EocIsNotFree DEF NewCluster, Scan, unallocated
<1>6. c \in Int  BY SizeAssumption DEF NewCluster, Scan, unallocated, Entry
<1>7. ASSUME NEW a \in Kept PROVE Deserved(disk'[a], fat')
  <2>1. a \in Addr  BY DEF Kept
  <2>2. CASE disk'[a] = disk[a]
    BY <1>4, <2>2 DEF ClusterlessOnlyWhenFull, Deserved
  <2>3. CASE disk'[a] = NewEntry(n, isDir, c)
    <3> SUFFICES ASSUME Clusterless(disk'[a]), NEW x \in unallocated(fat')
                 PROVE  c # 0 /\ x >= DiskClusters
      BY <2>3 DEF Deserved, NewEntry
    <3>1. c = 0 \/ c >= DiskClusters  BY <2>3 DEF Clusterless, NewEntry
    <3>2. x \in Int  BY DEF unallocated
    <3> QED  BY <1>4, <1>5, <1>6, <3>1, <3>2, LimitAssumption
  <2> QED  BY <1>2, <2>1, <2>2, <2>3
<1> QED  BY <1>7 DEF ClusterlessOnlyWhenFull

LEMMA SameClusterless ==
  ASSUME UNCHANGED <<disk, fat>>, ClusterlessOnlyWhenFull
  PROVE  ClusterlessOnlyWhenFull'
<1>1. disk' = disk /\ fat' = fat  OBVIOUS
<1> QED  BY <1>1 DEF ClusterlessOnlyWhenFull, Deserved, Clusterless, unallocated

LEMMA WrittenClusterless ==
  ASSUME TypeInv, OwnershipInv, ClusterlessOnlyWhenFull, WriteSingle
  PROVE  ClusterlessOnlyWhenFull'
<1> DEFINE d == ClearAndWrite(disk, cluster, text, 0)
<1>1. CallTypes /\ WorkTypes /\ StorageTypes  BY TypeParts
<1>2. d \in Disk /\ fp \in File
  BY <1>1, ClearAndWriteDisk DEF CallTypes, WorkTypes, StorageTypes
<1>3. PICK g : fat' = fat /\ disk' = writeFileLength(d, fp, text.len, g)
  BY SingleDisk
<1>4. \A a \in Addr : d[a] = disk[a] \/ d[a] = Zero \/ d[a].kind = "text"
  BY WrittenAnything
<1> HIDE DEF d
<1>5. ASSUME NEW a \in Kept, Clusterless(disk'[a])
      PROVE  Clusterless(disk[a]) /\ disk'[a].cluster = disk[a].cluster
  <2>1. a \in Addr  BY DEF Kept
  <2>2. \/ disk'[a] = d[a]
        \/ d[a].kind = "entry" /\ disk'[a] = [d[a] EXCEPT !.size = text.len]
    BY <1>2, <1>3, LengthUnits
  <2>3. d[a] \in Unit  BY <1>2, <2>1 DEF Disk
  <2>4. Clusterless(d[a]) /\ disk'[a].cluster = d[a].cluster
    BY <1>5, <2>2, <2>3, EntryUnit DEF Clusterless, Entry
  <2> QED  BY <1>4, <2>1, <2>4 DEF Clusterless, Zero
<1> QED  BY <1>3, <1>5 DEF ClusterlessOnlyWhenFull, Deserved, unallocated

LEMMA ClusterlessNext ==
  ASSUME SingleWrites, TypeInv, TypeInv', OwnershipInv, ClusterlessOnlyWhenFull, [AnyNext]_vars
  PROVE  ClusterlessOnlyWhenFull'
<1>1. ASSUME NEW p \in Path, NEW isDir \in BOOLEAN, fatCreateRoot(p, isDir)
      PROVE  ClusterlessOnlyWhenFull'
  BY <1>1, CreateRootDisk, PlacedClusterless, SameClusterless
<1>2. CASE fatCreateStep
  BY <1>2, CreateStepDisk, PlacedClusterless, SameClusterless
<1>3. CASE WriteSingle  BY <1>3, WrittenClusterless
<1>4. CASE UNCHANGED <<disk, fat>>  BY <1>4, SameClusterless
<1> QED  BY <1>1, <1>2, <1>3, <1>4, StoresNothing

\* An entry without a cluster of its own, whose text would go to the root directory,
\* appears only once no cluster of the volume is free (fat.c:350), and one that names a
\* cluster behind disk[] only once none of the disk is, as long as no file of more than
\* one cluster is written over.
THEOREM ClusterlessWhenFull ==
  ASSUME ShortTexts, SoundImages, RoomyImages
  PROVE  Spec /\ []SingleWrites => []ClusterlessOnlyWhenFull
<1>1. Init => OwnershipInv /\ ClusterlessOnlyWhenFull
  <2> SUFFICES ASSUME Init PROVE OwnershipInv /\ ClusterlessOnlyWhenFull  OBVIOUS
  <2>1. PICK m \in Images : disk = m.disk /\ fat = m.fat  BY DEF Init
  <2> QED  BY <2>1, InitSound DEF RoomyImages, ClusterlessOnlyWhenFull
<1> DEFINE Inv == OwnershipInv /\ ClusterlessOnlyWhenFull
<1>2. SingleWrites /\ TypeInv /\ TypeInv' /\ Inv /\ [Next]_vars => Inv'
  BY NextSound, ClusterlessNext, CallsAreAny
<1> QED  BY <1>1, <1>2, TypesHold, PTL DEF Spec
=============================================================================
