-------------------------------- MODULE Fat --------------------------------
(***************************************************************************)
(* The FAT16 filesystem of src/fat.c: fatOpen, fatCreate, fatRead and      *)
(* fatWrite over the emulated disk (the array disk[] that initFat fills    *)
(* from the SD card and that nothing writes back), with the two caches     *)
(* initFatStructs loads: the FAT and the root directory.                   *)
(*                                                                         *)
(* The disk is a line of 32-byte units, the size of a directory entry.     *)
(* Address 0 is the last unit of the root directory and unit 1 the first   *)
(* of cluster 2, so root slot s lies at s - RootSize.  A unit holds a      *)
(* directory entry or a piece of text: an entry marked as deleted is an    *)
(* entry to this code, whose name begins with another character, and what  *)
(* only Linux reads (long names) is like text, it matches no name.         *)
(*                                                                         *)
(* The FAT has more entries than disk[] has clusters.  The model's disk    *)
(* has a cluster for each; the units from DiskEnd + 1 on lie behind        *)
(* disk[], and whoever gets there goes astray.                             *)
(***************************************************************************)
EXTENDS Integers, Sequences, FiniteSets

CONSTANTS
  FatSize,    \* entries of the FAT (8192)
  RootSize,   \* entries of the root directory (512)
  DirSize,    \* units of a cluster (64)
  RootRead,   \* units readFromCluster copies for cluster 0 (32 of the 64)
  DiskClusters, \* clusters from this one on lie behind disk[] (8169)
  MaxRows,    \* rows of placementFile[][] (20)
  NameLength, \* characters of a row and of path[], less the NUL (10)
  StemLength, \* characters of file_name and tempName (8)
  ExtLength,  \* characters of file_extension and tempExtension (3)
  Char,       \* the characters of names
  Paths,      \* the paths callers pass
  Texts,      \* the texts callers write; len counts units, the NUL included
  Images      \* the contents initFat may find on the SD card

EOC == 65528                                  \* 0xfff8, end of a chain

Last == (FatSize - 2) * DirSize
DiskEnd == (DiskClusters - 2) * DirSize       \* the last unit of disk[]
Addr == (1 - RootSize)..Last                  \* units of the disk
Slots == 1..RootSize
DirSlots == 1..DirSize
Window == (RootRead + 1)..DirSize             \* root slots not copied
Clusters == 0..(FatSize - 1)
FatValue == Clusters \cup {EOC}

Name == Seq(Char)                             \* a name, character by character
Entry == [kind: {"entry"}, name: Name, attr: {"none", "file", "dir"},
          cluster: Clusters, size: Nat]
Text == [kind: {"text"}, text: [id: Nat, len: Nat], unit: Nat]
Unit == Entry \cup Text
Path == [abs: BOOLEAN, names: Seq(Name)]

ASSUME SizeAssumption ==
  /\ FatSize \in Nat /\ FatSize > 2 /\ FatSize <= EOC
  /\ RootRead \in Nat \ {0} /\ DirSize \in Nat /\ RootSize \in Nat
  /\ RootRead <= DirSize /\ 2 * DirSize <= RootSize

ASSUME LimitAssumption ==
  /\ DiskClusters \in Nat /\ DiskClusters > 2 /\ DiskClusters <= FatSize
  /\ MaxRows \in Nat \ {0, 1} /\ NameLength \in Nat \ {0}
  /\ StemLength \in Nat \ {0} /\ ExtLength \in Nat \ {0, 1}

ASSUME InputAssumption ==
  /\ \A p \in Paths : p \in Path /\ p.names # <<>>
  /\ Texts \subseteq [id: Nat, len: Nat \ {0}]
  /\ {"/", "."} \subseteq Char

ASSUME ImageAssumption ==
  \A m \in Images : /\ m.fat \in [Clusters -> FatValue]
                    /\ m.fat[0] = EOC /\ m.fat[1] = EOC
                    /\ m.disk \in [Addr -> Unit]

VARIABLES
  disk,         \* disk[], root directory and data clusters
  fat,          \* disk[], the first FAT
  fatTable,     \* fatTablePointers: the cached FAT
  rootDir,      \* rootDirectoryPointers: the cached root directory
  dataEntries,  \* dataEntries[]: what the last read left in the window
  fp,           \* the caller's struct file
  op, path, isDirectory, text,  \* the last call and its arguments
  ret,          \* what it returned
  pc,           \* where it is
  dir, depth,   \* parentDirectory.cluster, placementFileIndex + 1
  cluster, i,   \* fpCluster, clusters done by the loops over a chain
  out           \* what fatRead has copied to the caller's buffer

storage == <<disk, fat>>
caches == <<fatTable, rootDir>>
args == <<op, path, isDirectory, text>>
vars == <<disk, fat, fatTable, rootDir, dataEntries, fp, op, path,
          isDirectory, text, ret, pc, dir, depth, cluster, i, out>>

(***************************************************************************)
(* Units, names and slots                                                  *)
(***************************************************************************)

Zero == [kind |-> "entry", name |-> <<>>, attr |-> "none",
         cluster |-> 0, size |-> 0]
NoText == [id |-> 0, len |-> 0]
Junk == [kind |-> "text", text |-> NoText, unit |-> 0]
Piece(t, k) == IF k <= t.len THEN [kind |-> "text", text |-> t, unit |-> k]
                             ELSE Junk
Nulls == [s \in DirSlots |-> Zero]
NoPath == [abs |-> FALSE, names |-> <<>>]

\* strcmp increments its index before the first comparison: a name compares
\* by what follows its first character.
Rest(n) == IF n = <<>> THEN <<>> ELSE Tail(n)
SameName(m, n) == Rest(m) = Rest(n)

\* The name before the first c, and what follows the first ".".
Before(n, c) == SubSeq(n, 1, Cardinality({k \in DOMAIN n : \A j \in 1..k : n[j] # c}))
Extension(n) == SubSeq(n, Len(Before(n, ".")) + 2, Len(n))
Cut(n, l) == SubSeq(n, 1, IF Len(n) < l THEN Len(n) ELSE l)

\* What reads back of a name that fatCreate stores: a stem and an extension, cut to
\* their fields, where a blank ends either.  A name that is all extension (".x")
\* is stored with a blank stem; it counts as blank here, though fatOpen's scans
\* would find it by its extension.
StoredMutant(n) == n
Stored(n) ==
  LET stem == Before(Cut(Before(n, "."), StemLength), " ")
      ext == Before(Cut(Extension(n), ExtLength), " ")
  IN  IF stem = <<>> \/ ext = <<>> THEN stem ELSE stem \o <<".">> \o ext

\* The copy of the stem runs past tempName[].
LongStem(n) == Len(Before(n, ".")) > StemLength

\* The name of an entry runs past path[] when it is put together there, or its
\* extension fills ext[], which strcat then reads past its end.
Overlong(u) ==
  u.kind = "entry" /\ (Len(u.name) > NameLength \/ Len(Extension(u.name)) >= ExtLength)

\* file_name begins with NUL or with a space: both read as "no file here".  NUL only
\* in an entry nothing was stored in: fatCreate fills a name up with spaces.
FreeSlot(u) == u.kind = "entry" /\ u.name = <<>>
NulSlot(u) == FreeSlot(u) /\ u.attr = "none"

\* The scans of the root directory and of writeFileLength: an empty slot leaves
\* the tail of the slot before it in path[], which did not match.
RootMatch(u, n) == u.kind = "entry" /\ u.name # <<>> /\ SameName(u.name, n)

\* The scans of a subdirectory clear p[] first, so that an empty slot has the
\* empty tail.
DirMatch(u, n) == u.kind = "entry" /\ SameName(u.name, n)

\* Where a scan stops: at the first member of S, or nowhere.
Scan(S) == {s \in S : \A x \in S : s <= x}

\* The scan of entries that ends at stop comes by an overlong name.
Passes(entries, stop) ==
  \E s \in DOMAIN entries : Overlong(entries[s]) /\ \A x \in stop : s <= x

(***************************************************************************)
(* The disk                                                                *)
(***************************************************************************)

ClusterBase(c) == (c - 2) * DirSize
DirBase(c) == IF c = 0 THEN -RootSize ELSE ClusterBase(c)

\* For cluster 0 only RootRead units are copied; the rest of the destination
\* keeps what it held.
readFromCluster(d, c, old) ==
  [s \in DirSlots |-> IF c = 0 /\ s > RootRead THEN old[s] ELSE d[DirBase(c) + s]]

Overwrite(d, base, data) ==
  [a \in Addr |-> IF a - base \in DOMAIN data THEN data[a - base] ELSE d[a]]

writeToClusterMutant(d, c, data) == Overwrite(d, ClusterBase(c - 1), data)
writeToCluster(d, c, data) == Overwrite(d, ClusterBase(c), data)
writeDataEntriesMutant(d, c, entries) == d
writeDataEntries(d, c, entries) == Overwrite(d, DirBase(c), entries)

LoadRootMutant(d) == [s \in 1..(RootSize - 1) |-> d[s - RootSize]]
LoadRoot(d) == [s \in Slots |-> d[s - RootSize]]
PutRootMutant(d, root) == Overwrite(d, 1 - RootSize, root)
PutRoot(d, root) == Overwrite(d, -RootSize, root)

unallocated(t) == {c \in Clusters : t[c] = 0}

\* sectors[k] as it is passed to writeToCluster with the length of the whole
\* text: t.len units from the start of the k-th cluster's worth on.
SectorMutant(t, k) == [u \in 1..(t.len - 1) |-> Piece(t, k * DirSize + u)]
Sector(t, k) == [u \in 1..t.len |-> Piece(t, k * DirSize + u)]
ClearAndWriteMutant(d, c, t, k) ==
  writeToCluster(writeToCluster(d, c, Sector(t, k)), c, Nulls)
ClearAndWrite(d, c, t, k) ==
  writeToCluster(writeToCluster(d, c, Nulls), c, Sector(t, k))

clustersNeeded(t) == (t.len \div DirSize) + 1

\* Tail of tempEntries[] in writeFileLength when the parent is the root: never
\* initialised, it holds what writeRootDirectory's buffers left on the stack,
\* entries of the root, whole or cut in two, or zeros.
Residue == IF fp.parent = 0
           THEN [Window -> {Zero, Junk} \cup {rootDir[s] : s \in Slots}]
           ELSE {Nulls}

WithLengthMutant(entries, rde, size) ==
  [s \in DirSlots |-> IF FreeSlot(entries[s]) \/ entries[s].kind = "text" THEN entries[s]
                      ELSE [entries[s] EXCEPT !.size = size]]
WithLength(entries, rde, size) ==
  LET found == Scan({s \in DirSlots : RootMatch(entries[s], rde.name)})
  IN  [s \in DirSlots |-> IF s \in found THEN [entries[s] EXCEPT !.size = size]
                                        ELSE entries[s]]

writeFileLength(d, file, size, residue) ==
  writeDataEntries(d, file.parent,
    WithLength(readFromCluster(d, file.parent, residue), file.rde, size))

(***************************************************************************)
(* Calls and returns                                                       *)
(***************************************************************************)

Begin(o, p, isDir, t) ==
  /\ pc = "idle"
  /\ op' = o /\ path' = p /\ isDirectory' = isDir /\ text' = t
  /\ out' = <<>>

Return(r) ==
  /\ pc' = "idle" /\ ret' = r
  /\ depth' = 0 /\ cluster' = 0 /\ i' = 0

\* A wild or uninitialised pointer is dereferenced, or an array is left: nothing is
\* said of what the kernel does from there on.
Fault == pc' = "fault" /\ UNCHANGED <<ret, depth, cluster, i>>

initFatStructs == fatTable' = fat /\ rootDir' = LoadRoot(disk)

writeFatTableMutant == UNCHANGED fat
\* Its loop goes twice as far as the FAT is long and runs past retBuff[], which lies
\* right below buffer[] on the stack: what is stored there has been copied out of
\* buffer[] before, and the copy to disk[] takes the first half only.
writeFatTable == fat' = fatTable'
writeRootDirectoryMutant(d) == disk' = d
writeRootDirectory(d) == disk' = PutRoot(d, rootDir')

\* A command's struct file is a local of its own, filled only by success.
NoFile == [parent |-> 0, rde |-> Zero, start |-> 0]

\* Both functions leave the disk alone when they fail.
Fail(r) == Return(r) /\ UNCHANGED <<storage, dir>> /\ fp' = NoFile

Handle(parent, rde) == [parent |-> parent, rde |-> rde, start |-> rde.cluster]

\* Index in placementFile[] of the last component, counted from 1: the one before
\* the first empty one.
subDirectIndex(p) ==
  Cardinality({k \in DOMAIN p.names : \A j \in 1..k : p.names[j] # <<>>})

\* The components do not fit into placementFile[], or leave no row empty: where the
\* scan for one assigns subDirectIndex.
Overruns(p) ==
  \/ Len(p.names) > MaxRows \/ subDirectIndex(p) = MaxRows
  \/ \E k \in DOMAIN p.names : Len(p.names[k]) > NameLength

\* The name a new entry is made from: the last component, or all of a path of one, as
\* the caller wrote it, slash included.
NewName(p) ==
  IF Len(p.names) > 1 THEN p.names[subDirectIndex(p)]
  ELSE IF p.abs THEN <<"/">> \o p.names[1] ELSE p.names[1]
StoredName(p) == Stored(NewName(p))

\* Where the scans of a directory stop: fatOpen's at the name, fatCreate's at the
\* name or, where the new entry may go, at the first free slot.
FoundInRoot(root, n) == Scan({s \in Slots : RootMatch(root[s], n)})
FoundInDir(entries, n) == Scan({s \in DirSlots : DirMatch(entries[s], n)})
PlaceInRootMutant(root, n) ==
  Scan({s \in 1..(RootSize - 1) : FreeSlot(root[s]) \/ RootMatch(root[s], n)})
PlaceInRoot(root, n) ==
  Scan({s \in Slots : FreeSlot(root[s]) \/ RootMatch(root[s], n)})
PlaceInDir(entries, n) ==
  Scan({s \in DirSlots : FreeSlot(entries[s]) \/ DirMatch(entries[s], n)})

\* What fits nowhere: components, the name of a new entry, or one that the scan of
\* the root directory comes by.  The call may go wild, or come to no harm.
ScanAstray(o, p, isDir) ==
  LET root == LoadRoot(disk)
      creates == o = "fatCreate" /\ Len(p.names) = 1
      stop == IF creates THEN PlaceInRoot(root, p.names[1]) ELSE FoundInRoot(root, p.names[1])
  IN  /\ Begin(o, p, isDir, NoText)
      /\ \/ Overruns(p) \/ Passes(root, stop)
         \/ creates /\ LongStem(NewName(p)) /\ \E s \in stop : FreeSlot(root[s])
      /\ initFatStructs
      /\ Fault /\ dir' = 0 /\ fp' = NoFile
      /\ UNCHANGED <<storage, dataEntries>>

\* The first component of a longer path, looked for in the root directory.
StartWalk(p) ==
  LET root == LoadRoot(disk)
      found == FoundInRoot(root, p.names[1])
  IN  /\ Len(p.names) > 1
      /\ initFatStructs
      /\ \/ found = {} /\ Fail(1)
         \/ \E s \in found :
              /\ pc' = "walk" /\ dir' = root[s].cluster /\ depth' = 2
              /\ fp' = NoFile
              /\ UNCHANGED <<storage, ret, cluster, i>>
      /\ UNCHANGED dataEntries

Descend(c) ==
  /\ pc' = "walk" /\ dir' = c /\ depth' = depth + 1
  /\ UNCHANGED <<storage, fp, ret, cluster, i>>

\* The same below the root, or a directory that lies behind the disk.
WalkAstray ==
  LET entries == readFromCluster(disk, dir, dataEntries)
      name == path.names[depth]
      creates == op = "fatCreate" /\ depth = subDirectIndex(path)
      stop == IF creates THEN PlaceInDir(entries, name) ELSE FoundInDir(entries, name)
  IN  /\ pc = "walk" /\ depth <= subDirectIndex(path)
      /\ \/ dir >= DiskClusters \/ Passes(entries, stop)
         \/ creates /\ LongStem(name) /\ \E s \in stop : FreeSlot(entries[s])
      /\ Fault
      /\ UNCHANGED <<storage, caches, dataEntries, fp, args, dir, out>>

(***************************************************************************)
(* fatOpen                                                                 *)
(***************************************************************************)

\* A path of one component: the root directory is searched.
fatOpenRoot(p) ==
  LET root == LoadRoot(disk)
      found == FoundInRoot(root, p.names[1])
  IN  /\ Begin("fatOpen", p, FALSE, NoText)
      /\ Len(p.names) = 1
      /\ initFatStructs
      /\ \/ found = {} /\ Fail(1)
         \/ \E s \in found :
              /\ fp' = Handle(0, root[s]) /\ dir' = 0
              /\ writeFatTable /\ writeRootDirectory(disk)
              /\ Return(0)
      /\ UNCHANGED dataEntries

fatOpenPath(p) == Begin("fatOpen", p, FALSE, NoText) /\ StartWalk(p)

\* One round of the loop over the components below the root.  Whatever entry
\* has the component's name is taken for a directory.
fatOpenStep ==
  LET entries == readFromCluster(disk, dir, dataEntries)
      found == FoundInDir(entries, path.names[depth])
  IN  /\ pc = "walk" /\ op = "fatOpen"
      /\ \/ /\ depth > subDirectIndex(path)
            /\ Fail(2) /\ UNCHANGED <<dataEntries, caches>>
         \/ /\ depth <= subDirectIndex(path) /\ dir < DiskClusters
            /\ dataEntries' = [s \in Window |-> entries[s]]
            /\ UNCHANGED caches
            /\ \/ found = {} /\ Fail(2)
               \/ \E s \in found :
                    \/ /\ depth = subDirectIndex(path)
                       /\ fp' = Handle(dir, entries[s]) /\ UNCHANGED dir
                       /\ writeFatTable /\ writeRootDirectory(disk)
                       /\ Return(0)
                    \/ /\ depth < subDirectIndex(path)
                       /\ Descend(entries[s].cluster)
      /\ UNCHANGED <<args, out>>

(***************************************************************************)
(* fatCreate                                                               *)
(***************************************************************************)

\* The cluster of a new entry and the FAT it leaves: the first free cluster, or
\* when there is none the number the slot already held.
NewClusterMutant(t, old) == {old}
NewCluster(t, old) == IF unallocated(t) = {} THEN {old} ELSE Scan(unallocated(t))
TakenMutant(t, c) == t
TakenSelfMutant(t, c) == IF t[c] = 0 THEN [t EXCEPT ![c] = c] ELSE t
Taken(t, c) == IF t[c] = 0 THEN [t EXCEPT ![c] = EOC] ELSE t

NewEntry(name, isDir, c) ==
  [kind |-> "entry", name |-> name, attr |-> IF isDir THEN "dir" ELSE "file",
   cluster |-> c, size |-> 0]

fatCreateRoot(p, isDir) ==
  LET root == LoadRoot(disk)
      stop == PlaceInRoot(root, p.names[1])
  IN  /\ Begin("fatCreate", p, isDir, NoText)
      /\ Len(p.names) = 1
      /\ \/ /\ stop = {}          \* pointer was never assigned
            /\ initFatStructs
            /\ Fault /\ UNCHANGED storage
         \/ \E s \in stop :
              /\ ~FreeSlot(root[s])
              /\ initFatStructs
              /\ Return(1) /\ UNCHANGED storage
         \/ \E s \in stop :
              /\ FreeSlot(root[s])
              /\ \E c \in NewCluster(fat, root[s].cluster) :
                   /\ fatTable' = Taken(fat, c)
                   /\ rootDir' = [root EXCEPT ![s] = NewEntry(StoredName(p), isDir, c)]
              /\ writeFatTable /\ writeRootDirectory(disk)
              /\ Return(0)
      /\ dir' = 0 /\ fp' = NoFile
      /\ UNCHANGED dataEntries

fatCreatePath(p, isDir) == Begin("fatCreate", p, isDir, NoText) /\ StartWalk(p)

\* One round of the loop below the root; in the last directory the scan stops
\* at the first free slot or at the name.
fatCreateStep ==
  LET entries == readFromCluster(disk, dir, dataEntries)
      name == path.names[depth]
      atEnd == depth = subDirectIndex(path)
      stop == IF atEnd THEN PlaceInDir(entries, name) ELSE FoundInDir(entries, name)
  IN  /\ pc = "walk" /\ op = "fatCreate"
      /\ \/ /\ depth > subDirectIndex(path)
            /\ Fail(4) /\ UNCHANGED <<dataEntries, caches>>
         \/ /\ depth <= subDirectIndex(path) /\ dir < DiskClusters
            /\ dataEntries' = [s \in Window |-> entries[s]]
            /\ \/ stop = {} /\ Fail(2) /\ UNCHANGED caches
               \/ \E s \in stop :
                    /\ UNCHANGED caches
                    /\ \/ atEnd /\ ~FreeSlot(entries[s]) /\ Fail(3)
                       \/ ~atEnd /\ Descend(entries[s].cluster)
               \/ \E s \in stop :
                    /\ atEnd /\ FreeSlot(entries[s])
                    /\ UNCHANGED <<rootDir, fp, dir>>
                    /\ \E c \in NewCluster(fatTable, entries[s].cluster) :
                         /\ fatTable' = Taken(fatTable, c)
                         /\ writeRootDirectory(writeDataEntries(disk, dir,
                              [entries EXCEPT ![s] = NewEntry(StoredName(path), isDirectory, c)]))
                    /\ writeFatTable
                    /\ Return(0)
      /\ UNCHANGED <<args, out>>

(***************************************************************************)
(* fatWrite                                                                *)
(***************************************************************************)

\* Only executeCommand calls it, on a handle fatOpen has just filled and whose
\* attribute is 0x20.
fatWrite(t) ==
  /\ op = "fatOpen" /\ ret = 0 /\ fp.rde.attr = "file"
  /\ Begin("fatWrite", path, FALSE, t)
  /\ initFatStructs
  /\ pc' = "free" /\ cluster' = fp.start
  /\ UNCHANGED <<storage, dataEntries, fp, ret, dir, depth, i>>

\* The clusters of the old chain are cleared and freed, all but the last.
FreeClusterMutant ==
  /\ pc = "free" /\ cluster < DiskClusters /\ fatTable[cluster] # EOC
  /\ disk' = writeToCluster(disk, cluster, Nulls)
  /\ fatTable' = [fatTable EXCEPT ![cluster] = 0]
  /\ UNCHANGED <<fat, rootDir, dataEntries, fp, args, ret, pc, dir, depth, cluster, i, out>>
FreeCluster ==
  /\ pc = "free" /\ cluster < DiskClusters /\ fatTable[cluster] # EOC
  /\ disk' = writeToCluster(disk, cluster, Nulls)
  /\ fatTable' = [fatTable EXCEPT ![cluster] = 0]
  /\ cluster' = fatTable[cluster]
  /\ UNCHANGED <<fat, rootDir, dataEntries, fp, args, ret, pc, dir, depth, i, out>>

\* The end of fatWrite: writeFileLength, writeFatTable, initFatStructs and
\* writeRootDirectory, which puts back the root initFatStructs has just read.
Finish(d, file, t) ==
  /\ fp' = file
  /\ fatTable' = t /\ writeFatTable
  /\ \E g \in Residue :
       LET e == writeFileLength(d, file, text.len, g)
       IN  rootDir' = LoadRoot(e) /\ writeRootDirectory(e)
  /\ Return(0)
  /\ UNCHANGED <<dataEntries, args, dir, out>>

Moved(c) == [fp EXCEPT !.start = c, !.rde.cluster = c]

Fits == ClusterBase(cluster) + text.len <= DiskEnd

WriteSingle ==
  /\ pc = "free" /\ fatTable[cluster] = EOC /\ clustersNeeded(text) = 1
  /\ cluster < DiskClusters
  /\ Finish(ClearAndWrite(disk, cluster, text, 0), Moved(cluster),
            [fatTable EXCEPT ![cluster] = EOC])

\* Each cluster but the last is linked to the first free one before its own
\* FAT entry is known to be taken.
WriteLinked ==
  /\ \/ pc = "free" /\ fatTable[cluster] = EOC /\ clustersNeeded(text) > 1
     \/ pc = "place" /\ i < clustersNeeded(text) - 1
  /\ Fits
  /\ \E next \in Scan(unallocated(fatTable)) :
       /\ fatTable' = [fatTable EXCEPT ![cluster] = next]
       /\ cluster' = next
  /\ disk' = ClearAndWrite(disk, cluster, text, i)
  /\ fp' = IF i = 0 THEN Moved(cluster) ELSE fp
  /\ pc' = "place" /\ i' = i + 1
  /\ UNCHANGED <<fat, rootDir, dataEntries, args, ret, dir, depth, out>>

WriteLast ==
  /\ pc = "place" /\ i = clustersNeeded(text) - 1
  /\ Fits
  /\ Finish(ClearAndWrite(disk, cluster, text, i), fp,
            [fatTable EXCEPT ![cluster] = EOC])

\* No free cluster (index -1 into fatTablePointers) or a copy that runs past
\* the end of disk[].
WriteWild ==
  /\ \/ pc = "free" /\ fatTable[cluster] = EOC /\ clustersNeeded(text) > 1
     \/ pc = "place"
  /\ \/ ~Fits
     \/ i < clustersNeeded(text) - 1 /\ unallocated(fatTable) = {}
  /\ Fault
  /\ UNCHANGED <<storage, caches, dataEntries, fp, args, dir, out>>

\* writeFileLength comes by an overlong name on its way to the entry.
LengthAstray ==
  LET entries == readFromCluster(disk, fp.parent, Nulls)
  IN  /\ \/ pc = "free" /\ fatTable[cluster] = EOC /\ clustersNeeded(text) = 1
         \/ pc = "place" /\ i = clustersNeeded(text) - 1
      /\ Passes(entries, Scan({s \in DirSlots : RootMatch(entries[s], fp.rde.name)}))
      /\ Fault
      /\ UNCHANGED <<storage, caches, dataEntries, fp, args, dir, out>>

(***************************************************************************)
(* fatRead                                                                 *)
(***************************************************************************)

\* cat reads what is not a directory, as many units as the entry's size.
fatRead ==
  /\ op = "fatOpen" /\ ret = 0 /\ fp.rde.attr # "dir"
  /\ Begin("fatRead", path, FALSE, NoText)
  /\ initFatStructs
  /\ pc' = "read" /\ cluster' = fp.start
  /\ UNCHANGED <<storage, dataEntries, fp, ret, dir, depth, i>>

ReadData == readFromCluster(disk, cluster, [s \in DirSlots |-> Junk])
Wanted == fp.rde.size - Len(out)

\* A file of one cluster: the loop runs to the length asked for, past data[].
ReadSingle ==
  /\ pc = "read" /\ i = 0 /\ cluster < DiskClusters /\ fatTable[cluster] = EOC
  /\ out' = [k \in 1..fp.rde.size |-> IF k <= DirSize THEN ReadData[k] ELSE Junk]
  /\ Return(1)
  /\ UNCHANGED <<storage, caches, dataEntries, fp, args, dir>>

\* A cluster of a chain: copied whole, or as much of it as is still wanted.
ReadLinkedMutant ==
  /\ pc = "read" /\ cluster < DiskClusters /\ (i > 0 \/ fatTable[cluster] # EOC)
  /\ out' = out \o [k \in 1..(IF Wanted < DirSize THEN Wanted ELSE DirSize)
                      |-> ReadData[k]]
  /\ IF Wanted < DirSize \/ fatTable[cluster] = EOC
     THEN Return(1)
     ELSE /\ cluster' = cluster + 1 /\ i' = i + 1
          /\ UNCHANGED <<pc, ret, depth>>
  /\ UNCHANGED <<storage, caches, dataEntries, fp, args, dir>>
ReadLinked ==
  /\ pc = "read" /\ cluster < DiskClusters /\ (i > 0 \/ fatTable[cluster] # EOC)
  /\ out' = out \o [k \in 1..(IF Wanted < DirSize THEN Wanted ELSE DirSize)
                      |-> ReadData[k]]
  /\ IF Wanted < DirSize \/ fatTable[cluster] = EOC
     THEN Return(1)
     ELSE /\ cluster' = fatTable[cluster] /\ i' = i + 1
          /\ UNCHANGED <<pc, ret, depth>>
  /\ UNCHANGED <<storage, caches, dataEntries, fp, args, dir>>

\* A cluster that is read, or cleared, behind the end of disk[].
ClusterAstray ==
  /\ pc \in {"free", "read"} /\ cluster >= DiskClusters
  /\ Fault
  /\ UNCHANGED <<storage, caches, dataEntries, fp, args, dir, out>>

(***************************************************************************)
(* The specification                                                       *)
(***************************************************************************)

\* After initFat and initFatStructs.
Init ==
  /\ \E m \in Images : disk = m.disk /\ fat = m.fat
  /\ fatTable = fat /\ rootDir = LoadRoot(disk)
  /\ dataEntries = [s \in Window |-> Zero]
  /\ fp = NoFile
  /\ op = "none" /\ path = NoPath /\ isDirectory = FALSE /\ text = NoText
  /\ ret = 0 /\ pc = "idle"
  /\ dir = 0 /\ depth = 0 /\ cluster = 0 /\ i = 0
  /\ out = <<>>

Call ==
  \/ \E p \in Paths :
       fatOpenRoot(p) \/ fatOpenPath(p) \/ ScanAstray("fatOpen", p, FALSE)
  \/ \E p \in Paths, isDir \in BOOLEAN :
       fatCreateRoot(p, isDir) \/ fatCreatePath(p, isDir) \/ ScanAstray("fatCreate", p, isDir)
  \/ \E t \in Texts : fatWrite(t)
  \/ fatRead

Step ==
  \/ fatOpenStep \/ fatCreateStep
  \/ FreeCluster \/ WriteSingle \/ WriteLinked \/ WriteLast \/ WriteWild
  \/ ReadSingle \/ ReadLinked
  \/ WalkAstray \/ LengthAstray \/ ClusterAstray

Next == Call \/ Step

\* One CPU runs with interrupts never enabled and the calls never block: a call
\* that can take its next step takes it.
Spec == Init /\ [][Next]_vars /\ WF_vars(Step)
=============================================================================
