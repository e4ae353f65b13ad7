-------------------------- MODULE ShellProperties --------------------------
(***************************************************************************)
(* What a user of the shell may rely on, stated over module Shell.         *)
(***************************************************************************)
EXTENDS Shell

\* From the second line on, the arguments of a command are the words of the line
\* just read: nothing of an earlier line or command is left in buffer[], which
\* inputToBuffer does not terminate, or in parseArguments, which bufferToArgs does
\* not clear.
ArgsAreTheLine ==
  at = "run" /\ pc = "idle" => AreWords(parseArguments, line)

\* The kernel goes wild only on a line that fills the buffer, on one with more
\* blanks than there are arguments, on a full root directory, on names and paths that
\* do not fit the arrays of fat.c, behind the end of the disk, and where mkdir has
\* opened another entry than the directory it made: the root, for an entry without
\* a cluster, or the entry that has the name which the new one was not stored with.
WildOnlyBeyondLimits ==
  pc = "fault" =>
    \/ Unterminated(buffer) \/ numberArguments(buffer) >= NumArgs
    \/ op = "fatCreate" /\ \A s \in Slots : ~FreeSlot(rootDir[s])
    \/ Unfit \/ OffDisk \/ fp.rde.cluster >= DiskClusters
    \/ at = "dots" /\ (fp.rde.cluster = 0 \/ StoredName(path) # LastName(path))

Reading == {"cd", "cat", "read", "ls"}

\* cd, cat and ls leave the disk as it is, although every successful fatOpen
\* writes the FAT and the root directory back.
ReadersLeaveDisk ==
  [][{at, at'} \cap Reading # {} => storage' = storage]_shellVars

\* mkdir has put "." and ".." into the root directory: it takes cluster 0, that of an
\* entry made when the FAT was full, for its new directory.
RootDotted ==
  \E s \in Slots : LET u == disk[s - RootSize] IN u.kind = "entry" /\ u.name \in DotNames

\* The root directory has entries beyond those writeFileLength reads, which the
\* write of a file of the root replaces by what its buffer held.
RootOverflows == \E s \in (RootRead + 1)..RootSize : rootDir[s] # Zero

Short(p) == \E k \in DOMAIN p.names : Len(p.names[k]) <= 1

\* The entry that fatCreate has just made, if it stored the name as it was given, is
\* there for fatOpen and is the one it finds; mkdir then writes into its cluster and
\* nowhere else, and adds the dot entries to what the cluster held.
MkdirMakesDots ==
  [][at = "dots" /\ pc = "idle" /\ at' = "prompt"
     /\ ~Short(path) /\ StoredName(path) = LastName(path) =>
       /\ ret = 0
       /\ fp.rde.name = LastName(path) /\ fp.rde.attr = "dir" /\ fp.rde.size = 0
       /\ fp.rde.cluster # 0 =>
            /\ \A a \in Addr : disk'[a] # disk[a] =>
                 a - ClusterBase(fp.rde.cluster) \in DirSlots /\ disk[a] = Zero
            /\ \A n \in DotNames : \E s \in DirSlots :
                 disk'[ClusterBase(fp.rde.cluster) + s] = [Zero EXCEPT !.name = n, !.attr = "dir"]
    ]_shellVars

Leads ==
  LET p == pathToFileName(workingDirectory)
  IN  \/ workingDirectory = <<Slash>> \/ Short(p)
      \/ \E a \in EntryAt(p) : disk[a].attr = "dir"

\* cd goes to a path that leads to a directory, and whatever is made and written
\* after it the path still does; but a root directory with too many entries may lose
\* one, and a component of one character may have been taken for ".".
WorkingDirectoryLeads ==
  [][(Leads \/ workingDirectory' # workingDirectory) /\ ~RootDotted' /\ ~RootOverflows
       => Leads']_shellVars

\* ls without a path lists the root directory from the cache: it shows what is on
\* the disk all the same.
LsShowsTheDisk ==
  [][Running(Ls) /\ atRoot /\ at' = "listed" /\ ~RootDotted =>
       listing' = Shown({disk[s - RootSize] : s \in Slots})]_shellVars

\* No command spoils a file it was not given: every file holds one whole text.
ShellKeepsFiles == ~RootDotted => FilesIntact

\* Every line brings the prompt back, unless the kernel goes wild.
PromptReturns == at \notin {"boot", "prompt"} ~> at = "prompt" \/ pc = "fault"

(***************************************************************************)
(* What is typed, and what an argument spells: lines are runs of           *)
(* characters and separators, and the names mkdir stores are names.        *)
(***************************************************************************)

TypedInput ==
  Lines \subseteq Seq(Name \ {NUL}) /\ Leftovers \subseteq [1..LineLength -> Name]

TypedTexts ==
  /\ EmptyText \in [id: Nat, len: Nat]
  /\ \A arg \in Seq(Name) : TextFor(arg) \in [id: Nat, len: Nat]

ShortArguments ==
  clustersNeeded(EmptyText) = 1 /\ \A arg \in Seq(Name) : clustersNeeded(TextFor(arg)) = 1

\* touch and mkdir are given a name, and what they have made has that name, which is no
\* dot name: "touch" alone makes an entry without one, "touch" with a stem of nine
\* characters one that is cut, and "mkdir d/." an entry of which nobody is the owner.
NamesGiven ==
  /\ op = "fatCreate" => path.names[1] # <<>> /\ StoredName(path) # <<>>
  /\ Returned("fatCreate", 0) =>
       path.names[subDirectIndex(path)] \notin DotNames /\ StoredName(path) = NewName(path)
=============================================================================
