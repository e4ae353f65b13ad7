--------------------------- MODULE FatRefinement ---------------------------
(***************************************************************************)
(* Module Fat implements FileStore as long as neither a directory nor the  *)
(* FAT runs out: a file is told from another by the components of its      *)
(* path, each without its first character, which strcmp skips.             *)
(***************************************************************************)
EXTENDS FatProperties

LastName(p) == p.names[Len(p.names)]
Key(p) == [k \in DOMAIN p.names |-> Rest(p.names[k])]

\* The addresses, one or none, that a lookup of n in directory c of disk d ends at.
FoundOn(d, c, n) == Scan({s \in DirSlots : RootMatch(d[DirBase(c) + s], n)})
SlotsOn(d, c, n) == {DirBase(c) + s : s \in FoundOn(d, c, n)}

\* Where the entry at p is: the components before the last lead to its directory.
EntryOn(d, p) ==
  LET At[n \in 1..Len(p.names)] ==
        IF n = 1 THEN SlotsOn(d, 0, p.names[1])
        ELSE UNION {SlotsOn(d, d[a].cluster, p.names[n]) : a \in At[n - 1]}
  IN  At[Len(p.names)]
EntryAt(p) == EntryOn(disk, p)

\* The text whose first unit begins the entry's cluster, if the entry has a length.
TextOn(d, e) == IF e.size = 0 THEN NoText ELSE d[ClusterBase(e.cluster) + 1].text

Keys == {Key(p) : p \in Paths}
PathTo == [k \in Keys |-> CHOOSE p \in Paths : Key(p) = k]
Contents ==
  Texts \cup UNION {{u.text : u \in {m.disk[a] : a \in {a \in Addr : m.disk[a].kind = "text"}}} :
                      m \in Images}

\* The file whose entry is at the address in found.
Absent == [kind |-> "absent", text |-> NoText]
FileIn(d, found) ==
  IF found = {} THEN Absent
  ELSE LET e == d[CHOOSE a \in found : TRUE] IN [kind |-> e.attr, text |-> TextOn(d, e)]
FileOn(d, k) == FileIn(d, EntryOn(d, PathTo[k]))

Answer ==
  IF ~Idle \/ op = "none" THEN [call |-> "none"]
  ELSE [call |-> op, key |-> Key(path),
        ok |-> ret = (IF op = "fatRead" THEN 1 ELSE 0),
        text |-> IF out = <<>> THEN NoText ELSE out[1].text]

Store == INSTANCE FileStore WITH
  Texts <- Contents, files <- [k \in Keys |-> FileOn(disk, k)], reply <- Answer

\* Every call of fat.c answers, and changes the files, as one step of FileStore
\* does; the steps it takes on the way to that one show nothing.
ImplementsFileStore == Store!Spec

(***************************************************************************)
(* When nothing runs out                                                   *)
(***************************************************************************)

\* w leads along p through directories, from the root to the one of its last component.
Way(d, p, w) ==
  /\ w \in [1..Len(p.names) -> Clusters] /\ w[1] = 0
  /\ \A j \in 1..(Len(p.names) - 1) :
       /\ w[j + 1] >= 2
       /\ \E a \in SlotsOn(d, w[j], p.names[j]) : IsDir(d[a]) /\ d[a].cluster = w[j + 1]
WayThere(d, p) == \E w \in [1..Len(p.names) -> Clusters] : Way(d, p, w)

\* The directories that paths go through are there, and have no length.
Flat(d) == \A a \in Kept : d[a].kind = "entry" /\ d[a].attr = "dir" => d[a].size = 0
LeadingImages == \A m \in Images : Flat(m.disk) /\ \A p \in Paths : WayThere(m.disk, p)

\* A component of one character is found at ".".
LongComponents == \A p \in Paths : \A k \in DOMAIN p.names : Len(p.names[k]) > 1

\* fatCreate has not found its directory full, and the volume is used in order.
NothingRunsOut == Orderly /\ ~Returned("fatCreate", 2)
=============================================================================
