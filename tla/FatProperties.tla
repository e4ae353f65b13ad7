--------------------------- MODULE FatProperties ---------------------------
(***************************************************************************)
(* What src/fat.c has to keep true of the disk, stated over module Fat.    *)
(***************************************************************************)
EXTENDS Fat

Idle == pc = "idle"
Returned(o, r) == Idle /\ op = o /\ ret = r

\* Every variable holds a value of the C object it stands for: entries on the
\* disk and in the caches, FAT entries within the table, a program counter.
TypeOK ==
  /\ disk \in [Addr -> Unit] /\ fat \in [Clusters -> FatValue]
  /\ fatTable \in [Clusters -> FatValue] /\ rootDir \in [Slots -> Unit]
  /\ dataEntries \in [Window -> Unit]
  /\ fp \in [parent: Clusters, rde: Entry, start: Clusters]
  /\ op \in {"none", "fatOpen", "fatCreate", "fatWrite", "fatRead"}
  /\ path \in Path /\ isDirectory \in BOOLEAN
  /\ text \in [id: Nat, len: Nat]
  /\ ret \in 0..5
  /\ pc \in {"idle", "walk", "free", "place", "read", "fault"}
  /\ dir \in Clusters /\ depth \in Nat /\ cluster \in Clusters /\ i \in Nat
  /\ out \in Seq(Unit)

\* Between calls the cached FAT and root directory are what the disk holds:
\* ls lists rootDirectoryPointers without reloading it (command.c:96).
CachesAreTheDisk == Idle => fatTable = fat /\ rootDir = LoadRoot(disk)

DotNames == {<<".">>, <<".", ".">>}

\* Root slots that writeFileLength fills from uninitialised memory are left out.
Kept == {a \in Addr : a + RootSize \notin Window}
Owns(u) == u.kind = "entry" /\ u.cluster # 0 /\ (u.attr = "dir" => u.name \notin DotNames)
Owner(a) == Owns(disk[a])

\* No two entries own the same cluster, and the cluster an entry names is
\* allocated: what one file's write stores is never another file's.
ClustersOwnedOnce ==
  \A a \in Kept : Owner(a) =>
    /\ fat[disk[a].cluster] # 0
    /\ \A b \in Kept : Owner(b) /\ disk[b].cluster = disk[a].cluster => a = b

\* Every allocated cluster is some entry's or the next of another cluster.
NoClusterLost ==
  Idle => \A c \in Clusters \ {0, 1} : fat[c] # 0 =>
    \/ \E a \in Addr : Owner(a) /\ disk[a].cluster = c
    \/ \E x \in Clusters : fat[x] = c

Holds(c, t) == \A k \in 1..t.len : disk[ClusterBase(c) + k] = Piece(t, k)

\* A file's entry and its cluster agree: a file of size n has one whole text of
\* length n in its cluster, whatever calls came before.
FilesIntact ==
  Idle => \A a \in Kept :
    LET e == disk[a]
    IN  e.kind = "entry" /\ e.attr = "file" /\ e.size > 0 =>
          \E t \in {disk[ClusterBase(e.cluster) + 1].text} :
             t.len = e.size /\ Holds(e.cluster, t)

\* The slots of directory d, and the one a lookup of n finds first.
Found(d, n) == Scan({s \in DirSlots : RootMatch(disk[DirBase(d) + s], n)})

\* When fatCreate returns 0, looking the path up finds an entry with exactly
\* that name and kind, of size 0, with a cluster nobody else has.
CreatedIsThere ==
  Returned("fatCreate", 0) =>
    \E s \in Found(dir, path.names[Len(path.names)]) :
      LET e == disk[DirBase(dir) + s]
      IN  /\ e.name = path.names[Len(path.names)]
          /\ e.attr = (IF isDirectory THEN "dir" ELSE "file")
          /\ e.size = 0 /\ e.cluster # 0 /\ fat[e.cluster] = EOC

\* When fatWrite returns, the entry of the file it was given has the length and
\* the cluster of the text written.
WriteStored ==
  Returned("fatWrite", 0) =>
    /\ Holds(fp.start, text)
    /\ \E s \in Found(fp.parent, fp.rde.name) :
         LET e == disk[DirBase(fp.parent) + s]
         IN  e.size = text.len /\ e.cluster = fp.start

\* fatRead copies one whole text: the one last written, in order.
ReadIsWhole ==
  Returned("fatRead", 1) /\ fp.rde.size > 0 =>
    /\ Len(out) = fp.rde.size
    /\ \E t \in {out[1].text} : t.len = Len(out) /\ \A k \in 1..t.len : out[k] = Piece(t, k)

\* No step makes an entry vanish or changes its name, kind or cluster.
EntriesKept ==
  [][\A a \in Kept : disk[a].kind = "entry" /\ disk[a].attr # "none" =>
       /\ disk'[a].kind = "entry"
       /\ \A f \in {"name", "attr", "cluster"} : disk'[a][f] = disk[a][f]]_vars

\* A step of fatWrite touches nothing but the clusters of its file and the size
\* in its entry.
WriteIsolated ==
  [][op' = "fatWrite" => \A a \in Kept : disk'[a] # disk[a] =>
       \/ a - ClusterBase(cluster) \in DirSlots
       \/ /\ a - DirBase(fp.parent) \in DirSlots
          /\ disk[a].name = fp.rde.name
          /\ disk'[a] = [disk[a] EXCEPT !.size = text.len]]_vars

\* A path, a new name or an entry that does not fit the code's arrays; a cluster that
\* lies behind disk[].
Unfit ==
  \/ Overruns(path) \/ (op = "fatCreate" /\ LongStem(NewName(path)))
  \/ \E a \in Addr : Overlong(disk[a])
  \/ \E s \in Window : Overlong(dataEntries[s])
OffDisk == dir >= DiskClusters \/ cluster >= DiskClusters

\* With texts of less than a cluster, the kernel goes wild in fatCreate on a root
\* directory with no free slot, and else only where the code's arrays end.
WildOnlyAtLimits ==
  pc = "fault" => \/ op = "fatCreate" /\ \A s \in Slots : ~FreeSlot(rootDir[s])
                  \/ Unfit \/ OffDisk

\* An entry that was given no cluster appears only once the FAT is full, and one that was
\* given a cluster behind disk[] once the disk is.
Clusterless(u) ==
  /\ u.kind = "entry" /\ u.attr # "none" /\ u.name \notin DotNames
  /\ u.cluster = 0 \/ u.cluster >= DiskClusters
Deserved(u, t) ==
  Clusterless(u) => \A c \in unallocated(t) : u.cluster # 0 /\ c >= DiskClusters
ClusterlessOnlyWhenFull == \A a \in Kept : Deserved(disk[a], fat)

\* Following the FAT from any cluster comes to an end: no clusters lead only to one
\* another.  The two reserved entries, which stop every walk that has strayed to
\* cluster 0, stay as they are.
ChainsEnd ==
  /\ fat[0] = EOC /\ fat[1] = EOC
  /\ \A S \in SUBSET Clusters : S # {} => \E c \in S : fat[c] \notin S

\* No call with a text of less than a cluster makes a chain turn back, whatever
\* longer texts have left.
ShortTextsKeepChains ==
  [][ChainsEnd /\ clustersNeeded(text') = 1 => ChainsEnd']_vars

\* Every call returns, unless a wild pointer ends it: FAT chains that end are
\* followed and freed to their end.
CallsReturn == pc # "idle" /\ ChainsEnd ~> pc \in {"idle", "fault"}

(***************************************************************************)
(* When no two entries own one cluster: texts of less than a cluster, as   *)
(* the shell's line holds, an image whose entries name allocated clusters, *)
(* each its own, and no file written over that has more clusters than one. *)
(***************************************************************************)

ShortTexts == \A t \in Texts : clustersNeeded(t) = 1

\* A file that is written has one cluster: of a longer one fatWrite frees the first
\* and leaves its entry with it, as StartIsInUse below shows.
SingleWrites == pc = "free" => fatTable[cluster] = EOC

\* An entry's cluster is allocated in t.
Backed(u, t) == u.kind = "entry" => t[u.cluster] # 0

Distinct(d) ==
  \A a, b \in Kept : Owns(d[a]) /\ Owns(d[b]) /\ d[a].cluster = d[b].cluster => a = b

SoundImages ==
  \A m \in Images : /\ \A a \in Addr : Backed(m.disk[a], m.fat)
                    /\ Distinct(m.disk)

\* The image names no cluster 0, and none behind the disk, where it had one to give.
RoomyImages == \A m \in Images : \A a \in Kept : Deserved(m.disk[a], m.fat)

(***************************************************************************)
(* Volumes and callers in order: what fatOpen and fatCreate take for       *)
(* granted and do not look at.                                             *)
(***************************************************************************)

IsFile(u) == u.kind = "entry" /\ u.attr = "file"
IsDir(u) == u.kind = "entry" /\ u.attr = "dir" /\ u.name \notin DotNames
Used(u) == u.kind = "entry" /\ u.name # <<>>

\* An entry without a name is no file's, on the card and in the paths.
Vacant(u) == FreeSlot(u) => u.attr = "none" /\ u.cluster = 0
BlankImages == \A m \in Images : \A a \in Addr : Vacant(m.disk[a])
NamedPaths == \A p \in Paths : p.names[1] # <<>> /\ StoredName(p) # <<>>

\* Paths as the shell builds them: no component is empty, the last is not a dot name
\* and is stored as it stands, an 8.3 name without a slash in front.
PlainPaths ==
  \A p \in Paths : LET last == p.names[Len(p.names)]
                   IN  /\ \A k \in DOMAIN p.names : p.names[k] # <<>>
                       /\ last \notin DotNames /\ Stored(last) = last
                       /\ Len(p.names) = 1 => ~p.abs

\* The root directory has room for clusters 0 and 1 behind the entries that
\* writeFileLength reads: 512 entries, clusters of 64 units.
LongRoot == 3 * DirSize <= RootSize

\* The cluster of a file holds no entries, and is no directory's.
Bare(d, c) == \A s \in DirSlots : ~Used(d[ClusterBase(c) + s])
FileApart(u, d) ==
  IsFile(u) => /\ u.cluster >= 2 /\ Bare(d, u.cluster)
               /\ \A a \in Addr : IsDir(d[a]) => d[a].cluster # u.cluster

TidyVolume(d, t) ==
  /\ t[1] = EOC
  /\ \A a \in Addr : FileApart(d[a], d)
  /\ \A c \in Clusters : t[c] = 0 => Bare(d, c)
TidyImages == \A m \in Images : TidyVolume(m.disk, m.fat)

\* Every file of the image that is not empty holds one text of its length.
WholeImages ==
  \A m \in Images : \A a \in Kept :
    LET e == m.disk[a]
    IN  IsFile(e) /\ e.size > 0 =>
          \E t \in {m.disk[ClusterBase(e.cluster) + 1].text} :
            /\ m.fat[e.cluster] = EOC
            /\ t \in [id: Nat, len: Nat] /\ t.len = e.size /\ t.len <= DirSize
            /\ \A k \in 1..t.len : m.disk[ClusterBase(e.cluster) + k] = Piece(t, k)

\* The text x of the length of entry u lies, in t and d, along the chain of u: the n
\* clusters of q.
Spread(u, d, t, n, q, x) ==
  /\ q[1] = u.cluster
  /\ \A k \in 1..n : q[k] >= 2 /\ t[q[k]] = IF k = n THEN EOC ELSE q[k + 1]
  /\ x \in [id: Nat, len: Nat] /\ x.len = u.size /\ x.len <= n * DirSize
  /\ \A k \in 1..n, s \in DirSlots :
       LET m == (k - 1) * DirSize + s
       IN  m <= x.len => d[ClusterBase(q[k]) + s] = Piece(x, m)

\* No file that fatWrite may be given has one of them.
Apart(d, n, q) == \A k \in 1..n, a \in Kept : IsFile(d[a]) => d[a].cluster # q[k]

\* What is neither a file of attribute 0x20 nor a directory can be read all the same: it
\* is empty, or holds one text in clusters that no write gets at.
Sealed(u, d, t) ==
  u.kind = "entry" /\ u.attr = "none" /\ u.size > 0 =>
    \E n \in 1..FatSize : \E q \in [1..n -> Clusters] :
      \E x \in {d[ClusterBase(u.cluster) + 1].text} :
        Spread(u, d, t, n, q, x) /\ Apart(d, n, q)
SealedImages == \A m \in Images : \A a \in Kept : Sealed(m.disk[a], m.disk, m.fat)

\* An allocated cluster is an entry's or the next of another cluster.
LostNone(d, t) ==
  \A c \in Clusters \ {0, 1} : t[c] # 0 =>
    \/ \E a \in Kept : Owns(d[a]) /\ d[a].cluster = c
    \/ \E x \in Clusters : t[x] = c
LostImages == \A m \in Images : LostNone(m.disk, m.fat)

\* Directories are filled from the front, no used slot lies behind a free one, and
\* free clusters are cleared.
Packed(d) ==
  \A c \in Clusters \ {1}, x, s \in DirSlots :
    /\ x < s /\ (c = 0 => s <= RootRead)
    /\ FreeSlot(d[DirBase(c) + x])
    => ~Used(d[DirBase(c) + s])
PackedImages == \A m \in Images : Packed(m.disk)

Clean(d, t) ==
  \A c \in Clusters \ {0, 1} : t[c] = 0 => \A s \in DirSlots : d[ClusterBase(c) + s] = Zero
CleanImages == \A m \in Images : Clean(m.disk, m.fat)

\* Walks go through directories, no entry was made on a full volume and no file of
\* more than a cluster is written over.
WellBehaved ==
  /\ SingleWrites
  /\ pc = "walk" => dir = 0 \/ \E a \in Addr : IsDir(disk[a]) /\ disk[a].cluster = dir
  /\ \A a \in Addr : IsFile(disk[a]) \/ IsDir(disk[a]) => disk[a].cluster # 0

\* What the root directory shows behind the entries that are read as a cluster are
\* copies of those, as writeFileLength leaves them.
RootShort ==
  \A s \in Slots : s > RootRead /\ Used(disk[s - RootSize]) =>
    \E x \in 1..RootRead :
      LET u == disk[x - RootSize]
      IN  u.kind = "entry" /\ u.name = disk[s - RootSize].name

\* The volume is used in order: paths lead through directories and never back to the
\* root, every file and directory got its cluster, and the root directory shows no
\* others behind the entries that readFromCluster copies (fat.c:764).
Orderly == WellBehaved /\ RootShort /\ (pc = "walk" => dir >= 2)

(***************************************************************************)
(* What comments of src/fat.c say and the code does not keep               *)
(***************************************************************************)

\* "Return 0 if file has been found and opened." (fat.c:158): the file opened is
\* the one named.
OpenFindsFile ==
  Returned("fatOpen", 0) => fp.rde.name = path.names[subDirectIndex(path)]

\* "cluster is the file's starting cluster" (fat.c:662): it is not a free one.
StartIsInUse == Returned("fatOpen", 0) /\ fp.rde.size > 0 => fat[fp.start] # 0
=============================================================================
