------------------------------- MODULE Shell -------------------------------
(***************************************************************************)
(* The shell: kernel_main's loop over the lines of module Parser and the   *)
(* commands of src/command.c, each a sequence of calls of module Fat with  *)
(* the code of its own between them.                                       *)
(***************************************************************************)
EXTENDS FatRefinement, Parser

CONSTANTS
  TextFor(_),  \* the text of module Fat that an argument spells
  EmptyText    \* the text of no characters, its NUL alone

VARIABLES
  workingDirectory,  \* the argument cd was given, "/" at first
  at,                \* where kernel_main and the command it runs are
  listing            \* the entries the last ls printed

terminal == <<input, line, buffer, parseArguments>>
shell == <<terminal, workingDirectory, at, listing>>
shellVars == <<vars, shell>>

Touch == <<"t", "o", "u", "c", "h">>
Ls == <<"l", "s">>
Cd == <<"c", "d">>
Pwd == <<"p", "w", "d">>
Cat == <<"c", "a", "t">>
Mkdir == <<"m", "k", "d", "i", "r">>
Help == <<"h", "e", "l", "p">>
Echo == <<"e", "c", "h", "o">>
commandList == {Touch, Ls, Cd, Pwd, Cat, Mkdir, Help, Echo}

\* Found by strcmp, which skips the first character; the two empty places of the
\* list are found by a command of at most one character and lead to "not found".
Command == {c \in commandList : SameName(c, Chars(parseArguments[1]))}

Argument(j) == parseArguments[j + 1]
PathArgument(j) == pathToFileName(Argument(j))
redirection == \E j \in 1..NumArgs : StartsWith(parseArguments[j], Greater)

\* The end of a command: executeCommand clears the arguments, kernel_main the buffer,
\* and the command's locals are gone.
Prompt ==
  /\ at' = "prompt"
  /\ initParseArguments /\ buffer' = nullCharArray(buffer) /\ line' = <<>>
  /\ listing' = {}
  /\ fp' = NoFile /\ out' = <<>> /\ ret' = 0 /\ dir' = 0
  /\ op' = "none" /\ path' = NoPath /\ isDirectory' = FALSE /\ text' = NoText
  /\ UNCHANGED <<fat, caches, dataEntries, pc, depth, cluster, i, input>>

Goes(to) == at' = to /\ UNCHANGED <<terminal, workingDirectory, listing>>
Wild == Fault /\ UNCHANGED <<storage, caches, dataEntries, fp, args, dir, out>>

fatOpen(p) == fatOpenRoot(p) \/ fatOpenPath(p) \/ ScanAstray("fatOpen", p, FALSE)
fatCreate(p, isDir) ==
  fatCreateRoot(p, isDir) \/ fatCreatePath(p, isDir) \/ ScanAstray("fatCreate", p, isDir)

(***************************************************************************)
(* kernel_main                                                             *)
(***************************************************************************)

\* inputToBuffer waits for a line, unless one too long has left some of it.
\* A parse out of bounds, or of what lies behind the buffer, may do anything.
ReadLine ==
  /\ at \in {"boot", "prompt"} /\ pc = "idle"
  /\ \/ input = <<>> /\ \E l \in Lines : inputToBuffer(Append(l, Newline))
     \/ input # <<>> /\ inputToBuffer(input)
  /\ at' = IF at = "boot" THEN "first" ELSE "run"
  /\ \/ /\ ~Scanned(buffer', parseArguments).wild
        /\ bufferToArgs(buffer') /\ UNCHANGED vars
     \/ /\ Scanned(buffer', parseArguments).wild \/ Unterminated(buffer')
        /\ Wild /\ UNCHANGED parseArguments
  /\ UNCHANGED <<workingDirectory, listing>>

Running(c) == at \in {"first", "run"} /\ pc = "idle" /\ c \in Command
Back(from) == at = from /\ pc = "idle"

\* pwd and help print; a line may name no command.
PrintOnly ==
  /\ at \in {"first", "run"} /\ pc = "idle"
  /\ Command \subseteq {Pwd, Help} \/ (Echo \in Command /\ ~redirection)
  /\ Prompt /\ UNCHANGED <<disk, workingDirectory>>

(***************************************************************************)
(* touch, cd, cat and ls                                                   *)
(***************************************************************************)

touch == Running(Touch) /\ fatCreate(PathArgument(1), FALSE) /\ Goes("touch")

\* Nothing is left to do after touch, ls or the last call of cat and of echo.
Finished ==
  /\ \E c \in {"touch", "listed", "read", "written"} : Back(c)
  /\ Prompt /\ UNCHANGED <<disk, workingDirectory>>

cdRoot ==
  /\ Running(Cd) /\ Argument(1) = <<>>
  /\ workingDirectory' = <<Slash>>
  /\ Prompt /\ UNCHANGED disk
cd == Running(Cd) /\ Argument(1) # <<>> /\ fatOpen(PathArgument(1)) /\ Goes("cd")

\* The path is kept as it was typed, and is looked up from the root.
ChangedMutant == Argument(1)
Changed == IF ret = 0 /\ fp.rde.attr = "dir" THEN Argument(1) ELSE workingDirectory
cdOpened ==
  /\ Back("cd")
  /\ workingDirectory' = Changed
  /\ Prompt /\ UNCHANGED disk

cat == Running(Cat) /\ fatOpen(PathArgument(1)) /\ Goes("cat")
catOpenedMutant == Back("cat") /\ ret = 0 /\ fp.rde.attr # "dir" /\ fatRead /\ Goes("read")
catOpened ==
  /\ Back("cat")
  /\ \/ ret = 0 /\ fp.rde.attr # "dir" /\ fatRead /\ Goes("read")
     \/ /\ ret # 0 \/ fp.rde.attr = "dir"
        /\ Prompt /\ UNCHANGED <<disk, workingDirectory>>

\* The files and directories among units; what ls prints of others is left out.
Shown(units) == {u \in units : u.kind = "entry" /\ u.name # <<>> /\ u.attr \in {"file", "dir"}}

Prints(entries) ==
  at' = "listed" /\ listing' = entries /\ UNCHANGED <<terminal, workingDirectory>>

\* The root directory is listed from the cache, and so is any working directory
\* of one character.
atRoot == SameName(Slash, Chars(workingDirectory)) /\ Argument(1) = <<>>
lsRoot ==
  /\ Running(Ls) /\ atRoot
  /\ Prints(Shown({rootDir[s] : s \in Slots})) /\ UNCHANGED vars
ls ==
  /\ Running(Ls) /\ ~atRoot
  /\ fatOpen(IF Argument(1) = <<>> THEN pathToFileName(workingDirectory) ELSE PathArgument(1))
  /\ Goes("ls")

\* Of the root directory, which ".." opens as cluster 0, readFromCluster copies
\* RootRead entries into an array on the stack that was never initialised.
Garbage(c) == IF c = 0 THEN [Window -> {Zero, Junk} \cup {rootDir[s] : s \in Slots}]
              ELSE {Nulls}
lsOpened ==
  /\ Back("ls")
  /\ \/ (ret # 0 \/ fp.rde.attr = "none") /\ Prints({})
     \/ ret = 0 /\ fp.rde.attr = "file" /\ Prints({fp.rde})
     \/ /\ ret = 0 /\ fp.rde.attr = "dir" /\ fp.start < DiskClusters
        /\ \E g \in Garbage(fp.start) :
             LET entries == readFromCluster(disk, fp.start, g)
             IN  Prints(Shown({entries[s] : s \in DirSlots}))
  /\ UNCHANGED vars

\* An overlong name is put together for the list, or the directory lies behind disk[].
lsAstray ==
  /\ \/ Running(Ls) /\ atRoot /\ \E s \in Slots : Overlong(rootDir[s])
     \/ /\ Back("ls") /\ ret = 0 /\ fp.rde.attr \in {"file", "dir"}
        /\ LET entries == readFromCluster(disk, fp.start, Nulls)
           IN  IF fp.rde.attr = "file" THEN Overlong(fp.rde)
               ELSE fp.start >= DiskClusters \/ \E s \in DirSlots : Overlong(entries[s])
  /\ Wild /\ UNCHANGED shell

(***************************************************************************)
(* mkdir                                                                   *)
(***************************************************************************)

mkdirNothing ==
  /\ Running(Mkdir) /\ Argument(1) = <<>>
  /\ Prompt /\ UNCHANGED <<disk, workingDirectory>>
mkdir ==
  /\ Running(Mkdir) /\ Argument(1) # <<>>
  /\ fatCreate(PathArgument(1), TRUE) /\ Goes("mkdir")

mkdirCreated ==
  /\ Back("mkdir")
  /\ \/ ret = 0 /\ fatOpen(PathArgument(1)) /\ Goes("dots")
     \/ ret # 0 /\ Prompt /\ UNCHANGED <<disk, workingDirectory>>

\* The first two slots from the first that begins with NUL on become "." and "..";
\* whatever cluster they name they keep.
DottedMutant(entries, s, c) ==
  [entries EXCEPT ![s] = [Zero EXCEPT !.name = <<".", ".">>, !.attr = "dir", !.cluster = c]]
Dotted(entries, s, c) ==
  LET Become(u, n) == [(IF u.kind = "entry" THEN u ELSE [Zero EXCEPT !.cluster = c])
                         EXCEPT !.name = n, !.attr = "dir"]
  IN  [entries EXCEPT ![s] = Become(@, <<".">>), ![s + 1] = Become(@, <<".", ".">>)]

mkdirOpened ==
  /\ Back("dots")
  /\ \/ /\ ret # 0
        /\ Prompt /\ UNCHANGED <<disk, workingDirectory>>
     \/ /\ ret = 0 /\ fp.rde.cluster >= DiskClusters
        /\ Wild /\ UNCHANGED shell
     \/ /\ ret = 0 /\ fp.rde.cluster < DiskClusters
        /\ \E g \in Garbage(fp.rde.cluster), c \in Clusters :
             LET entries == readFromCluster(disk, fp.rde.cluster, g)
                 first == Scan({s \in DirSlots : NulSlot(entries[s])})
             IN  \/ /\ \E s \in first : s < DirSize /\
                         disk' = writeDataEntries(disk, fp.rde.cluster, Dotted(entries, s, c))
                    /\ Prompt /\ UNCHANGED workingDirectory
                 \/ /\ ~\E s \in first : s < DirSize
                    /\ Wild /\ UNCHANGED shell

(***************************************************************************)
(* echo                                                                    *)
(***************************************************************************)

\* What follows a ">" is not looked at: the file is the third argument.
echo ==
  /\ Running(Echo) /\ redirection
  /\ fatOpen(PathArgument(3)) /\ Goes("echo")

\* The copy of the text lies in an array on the stack, which echo fills only if its
\* first byte, never initialised, is not NUL.
Copies(arg) ==
  IF arg = <<>> THEN Texts ELSE {TextFor(arg), EmptyText}

echoOpened ==
  /\ Back("echo")
  /\ \/ /\ ret = 0 /\ fp.rde.attr = "file"
        /\ \E t \in Copies(Argument(1)) : fatWrite(t)
        /\ Goes("written")
     \/ /\ ret # 0 \/ fp.rde.attr # "file"
        /\ Prompt /\ UNCHANGED <<disk, workingDirectory>>

(***************************************************************************)
(* The specification                                                       *)
(***************************************************************************)

ShellInit ==
  /\ Init
  /\ input = <<>> /\ line = <<>> /\ buffer \in Leftovers
  /\ parseArguments = NoArguments
  /\ workingDirectory = <<Slash>> /\ at = "boot" /\ listing = {}

Commands ==
  \/ PrintOnly \/ Finished
  \/ touch \/ cdRoot \/ cd \/ cdOpened \/ cat \/ catOpened \/ lsRoot \/ ls \/ lsOpened \/ lsAstray
  \/ mkdirNothing \/ mkdir \/ mkdirCreated \/ mkdirOpened \/ echo \/ echoOpened

FatStep == Step /\ UNCHANGED shell

ShellNext == ReadLine \/ Commands \/ FatStep

\* The user need not type; what was typed is worked off.
ShellSpec ==
  ShellInit /\ [][ShellNext]_shellVars /\ WF_shellVars(Commands) /\ WF_shellVars(FatStep)
=============================================================================
