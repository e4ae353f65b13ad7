# A verification of Pios

Pios is a bare-metal kernel for the Raspberry Pi 3 (AArch64). It brings up a serial port, reads a FAT16 volume from
the SD card into an array in memory (`disk[]`), and runs a shell over it: `touch`, `ls`, `cd`, `pwd`, `cat`, `mkdir`,
`help`, `echo` with `>`. This directory holds TLA+ models of it, TLC configurations that check them on small instances,
and proofs, checked by TLAPS, of what holds for every instance.

## The system

| Component | State | Operations | Talks to |
|---|---|---|---|
| FAT16 filesystem, `fat.c` | `disk[]`; caches `fatTablePointers`, `rootDirectoryPointers`; window `dataEntries` | `initFat`, `initFatStructs`, `fatOpen`, `fatCreate`, `fatRead`, `fatWrite`, `readFromCluster`, `writeDataEntries` | SD driver at boot only: nothing is ever written back to the card |
| Shell, `command.c`, `kernel_main.c`, `environment.c` | `workingDirectory`, one `struct file` per command | `executeCommand` and one function per command | filesystem by call; `ls` and `mkdir` read and write its caches and clusters directly |
| Parser, `parse.c` | `parseArguments[50][100]`, a line of 100 bytes | `inputToBuffer`, `bufferToArgs`, `initParseArguments` | serial port, shell |
| SD driver, `sd.c` | `sd_scr`, `sd_ocr`, `sd_rca`, `sd_err`, `sd_hv`; controller registers | `sd_init`, `sd_cmd`, `sd_int`, `sd_status`, `sd_readblock`, `sd_clk` | card controller, which answers or raises an error at any time; delays |
| Timer, `delays.c`, `delay.c` | free-running counters | `wait_msec`, `get_system_timer`, `wait_msec_st`, `delay` | hardware |
| Page allocator, `page.c`, and `list.c` | doubly linked lists through `physical_page_array` | `init_pfa_list`, `allocate_physical_pages`, `free_physical_pages`, `listAdd`, `listRemove` | nothing: not called by the kernel |
| MMU set-up, `mmusetup.S` | `mmu_lock`, `mmu_init`, the tables | `mmu_on` | the other CPUs |
| Output, `rprintf.c`; `serial.c`; `boot.s` | none kept between calls | `esp_printf`, `putc`, `getc`, `_start` | hardware |

The kernel runs on one core with interrupts never enabled, so the shell and the filesystem are sequential. What is hard
in them is not interleaving but two copies of the same data (disk and caches) written and reloaded in a fixed order by
each call, several steps of one call that leave the disk between states, limits (clusters, root slots, 32 of 64
entries read, arrays that names and paths are copied to without a look at their length), and long sequences of calls. Concurrency is in `mmusetup.S` (several CPUs) and between the driver and
the SD controller, or the code and a running counter (`sd.c`, `delays.c`).

What should make each part correct:

* Filesystem: a cluster has one owner and no allocated cluster is lost; an entry's size and cluster describe what is
  stored; a call changes only what it is asked to; what is created can be found, what is written can be read; the
  caches are the disk between calls; every call returns.
* Shell: a command's arguments are the words of its line; commands keep the filesystem's obligations; `mkdir` leaves a
  directory with its dot entries; `ls` shows the disk; the working directory leads somewhere; the prompt comes back.
* SD driver: a late answer is never taken for the next command's; a read that succeeds has read the blocks asked for; a
  successful `sd_init` leaves card and driver agreed; every call returns.
* Timer: a wait lasts as long as it was asked to. Pages: a page is free or held, once. List: order and back links.
* MMU: one CPU builds the tables and none uses them before they are built; the lock is released.

## Modules

| Module | What it holds |
|---|---|
| `Fat` | state, actions and specification of `fat.c`, and plausible faulty variants (`...Mutant`) of some definitions |
| `FatProperties` | type invariant, safety, action and liveness properties of `Fat`; the conditions on volumes and callers that theorems name |
| `FileStore` | what `fat.c` promises: a set of files under keys, and calls that each read or change one of them |
| `FatRefinement` | `Fat` as an implementation of `FileStore` |
| `FatProofs` | types, coherent caches, chains that end; no two entries own one cluster; where calls go wild and entries without a cluster come from, for every value of the constants |
| `FatFiles` | entries and files: written where they belong, kept, found, read back whole, none of their clusters lost |
| `FatStore` | the refinement of `FileStore`: each call does to the file its path names what the store's does, and to no other |
| `FatImages` | names, texts and a builder of disk contents for the instances |
| `MCFatNames`, `MCFatFull`, `MCFatChain`, `MCFatComments` | the instances, one per question |
| `Parser` | `parse.c`: lines, buffer and arguments, and what the arguments of a line should be (`AreWords`) |
| `Shell` | `kernel_main`'s loop and the commands, over `Parser` and `Fat` |
| `ShellProperties`, `MCShell` | what a user of the shell may rely on, and the instance |
| `ShellProofs` | the shell's types; arguments are words, readers leave the disk, `ls` shows it, for any lines and sizes; the theorems about files carried over the shell: files stay whole, `mkdir` opens what it made, the working directory stays one, wild pointers are at the limits |
| `Sd` | the SD driver and `initFat`'s use of it, beside a controller and a card |
| `SdProperties`, `MCSd` | what `initFat` may rely on, and the cards |
| `SdProofs` | answers are never mixed up, late errors stay, cards are ready and reads whole, for any bounds and reads |
| `Timer` | `get_system_timer`, `wait_msec_st` and `delay`, with their property |
| `TimerProofs` | the waits last long enough, for words of any size |
| `Pages`, `PagePool` | the page allocator link by link, and what it promises: pages are free or on one list held |
| `List`, `MemoryProperties` | the linked list; the properties and the instance of both |
| `Chains` | the cells that a chain of pointers leads through, for both |
| `MemoryProofs` | the page lists are a pool linked both ways and the list keeps its order, for any number of cells |
| `MmuLock` | `mmu_on` on any number of CPUs, with its properties |
| `OneTimeInit` | what `mmu_on` promises: tables built once, finished once begun, used only when complete |
| `MmuLockProofs` | mutual exclusion, no lost wake-up, tables complete before use, for any set of CPUs |

`Shell` composes `Parser` and `Fat`: a command is a sequence of `Fat`'s calls with the shell's own steps between them.
`Sd` meets the rest only in `initFat`, whose result is `Fat`'s initial disk; `MmuLock`, `Timer` and the memory modules
share no state with anything in the code and are not composed, but for `Pages` and `List`, which one instance runs side
by side.

## The filesystem model

### State

| Code | Model |
|---|---|
| `disk[]` | `fat` for the first FAT; `disk`, a line of 32-byte units, for root directory and data clusters. Address 0 is the last unit of the root directory and 1 the first of cluster 2, so that the wrong address a cluster number below 2 gives falls where it falls in the array: in the root directory. The FAT has 8192 entries, and `disk[]` ends with cluster 8168; the model's line has room for all clusters, and what lies from `DiskClusters` on (beyond `DiskEnd`) is behind the array |
| `fatTablePointers`, `rootDirectoryPointers` | `fatTable`, `rootDir` |
| `dataEntries[64]` | `dataEntries`, for the slots past the 32 that a read of the root directory fills: the only ones that outlive the next read |
| `struct file` of the command | `fp`: directory, directory entry, first cluster |
| arguments and position of the call in progress | `op`, `path`, `isDirectory`, `text`, `pc`, `dir`, `depth`, `cluster`, `i`, `out`, `ret` |

A unit holds a directory entry (name, attribute, cluster, size) or one piece of a text. A text is an identity and a
length; its length, and an entry's size, count units. A text that fills a cluster to the last unit keeps the boundary
of the code: `clustersNeeded` is 2 for it. A name is a sequence of characters, the dot and the extension included,
upper-cased and padded in the code and compared after both; the comparison skips the first character as `strcmp` does.
What `fatCreate` stores of a name is `Stored`: the part before the first dot cut to `StemLength` (8) characters, and what
follows the dot cut to `ExtLength` (3), each up to a blank. An entry marked as deleted is one to this code, and so it is
in the model: a name with another first character. Long-name entries, and text read as entries, are units of kind `text`,
which no scan matches. An attribute is `file` (0x20), `dir` (0x10) or `none` (any other). A slot whose name reads as empty
is free (`FreeSlot`); `mkdir` looks for one that begins with NUL (`NulSlot`), which is one that nothing was ever stored in, as
`fatCreate` fills names up with spaces.

### Actions

Every call is a `Begin` action and, where the code loops over components or clusters, one action per round:
`fatOpenRoot`, `fatOpenPath` and `fatOpenStep`; `fatCreateRoot`, `fatCreatePath` and `fatCreateStep`; `fatWrite`,
`FreeCluster`, then `WriteSingle`, or `WriteLinked` and `WriteLast`; `fatRead`, then `ReadSingle` or `ReadLinked`. A
round includes all it calls: the last one of `fatWrite` (`Finish`) also runs `writeFileLength`, `writeFatTable`,
`initFatStructs` and `writeRootDirectory`. `fatWrite` and `fatRead` are called only as `executeCommand` and `cat` call
them: on a handle just opened, with the attribute tested.

A pointer that was never assigned, an index of -1 and a copy past the end of `disk[]` lead to `pc = "fault"`, after
which nothing is said. The arrays that names and paths go through are checked nowhere in the code. Where one is left, the
model lets the call go on, as it does if what lies behind the array is not in use, or lets it go astray, to `fault`:

* `ScanAstray`, a call at its start: a component longer than a row of `placementFile[20][11]`, more components than rows,
  or as many, when no row is empty and `subDirectIndex` stays unassigned (`Overruns`); a new name whose stem is longer than
  `tempName[8]` (`LongStem`); a scan that comes by an entry whose name does not fit `path[11]`, or whose extension fills
  `ext[3]` and leaves it without a NUL (`Overlong`, `Passes`). `hi.txt` is such a name: any scan that gets to it, that of
  `ls` too (`lsAstray`), may go wild.
* `WalkAstray`, a round below the root: the same, or a directory behind the end of `disk[]`.
* `LengthAstray`, `writeFileLength` on its way to the entry; `ClusterAstray`, a read or a write behind `disk[]`.

A call that goes on after an overrun has stored the name that fits (`Stored`), so that a directory `mkdir` made with a
stem of nine characters is not found by the `fatOpen` that follows (`MkdirMakesDots` says for which names it is).

`writeFatTable` overruns an array on every call: its loop runs to twice the length of `retBuff[]`, and reads twice that of
`buffer[]`. With the `-O0` of the Makefile `retBuff[]` lies right below `buffer[]`, what the loop writes there it has read
before, and only the first half of `retBuff[]` is copied to `disk[]`: in that build it is the copy it was meant to be, and
is modelled as one (`fat' = fatTable'`). Another layout of the stack is not covered.

A name that is all extension (`.x`) is stored with a blank stem; the model takes its slot for free, where `fatOpen` would
still match the extension. Uninitialised memory is a choice: `Residue` lets the unread half of `writeFileLength`'s buffer
hold zeros, fragments, or any entry of the root directory, which the functions called before it leave on the stack.

### Assumptions on the constants

A FAT entry is a cluster number below `FatSize` or the end mark. `LimitAssumption`: `DiskClusters` is at most `FatSize`, and
the lengths of the code's arrays (`MaxRows`, `NameLength`, `StemLength`, `ExtLength`: 20, 10, 8 and 3) are above 0 or 1.
`SizeAssumption`: `RootRead <= DirSize` and `2 * DirSize <= RootSize` (32, 64 and 512 in
`rootfs.img`); entries 0 and 1 of the FAT are end marks. The images a run starts from leave slot 1 of the root
directory taken: it is the volume label in an image made by `mkfs` (an empty first slot would be matched against the
uninitialised path buffer). TLC evaluates the assumptions on every run.

### Fairness

`WF_vars(Step)`: a call in progress goes on. One core runs, interrupts are never enabled, and nothing in `fat.c` waits
for a device, so a call that can take its next step takes it. No fairness is put on `Call`: nobody has to type.

### Refinement

`FatRefinement` maps a state of `Fat` to `FileStore`: the key of a file is the components of its path, each without the
first character; its contents are found by walking from the root directory, along the entries on the disk; the reply is
there when a call has returned. A call is a stutter until the step that returns, and that step is the abstract one. It
holds where nothing runs out (`NothingRunsOut`), which is what `FileStore` promises, and for paths whose last component
is stored as it stands (`PlainPaths`: an 8.3 name, no dot name); a call that goes astray never answers, which the store
allows. `fat_names` checks it on one volume, `FatIsAFileStore` proves it for all.

## The shell model

The unit of a line is a token: a separator (blank, quote, slash, `>`) or a run of other characters, so that a buffer of
eleven cells stands for the 100 characters and a limit is met token by token. `ReadLine` is `inputToBuffer` and
`bufferToArgs`; a line that fills the buffer leaves its newline for the next read, as in the code. A command is found as
`strcmp` finds it, without the first character. Then one action per call of `fat.c`, and one for what the command does
when the call is back: `cd`, `cdOpened`; `mkdir`, `mkdirCreated`, `mkdirOpened`; and so on. `Prompt` is the end of each:
arguments and buffer cleared, locals gone. `FatStep` lets a call of `Fat` go on.

Uninitialised memory is a choice here too: `buffer[]` before the first line (`Leftovers`), the array `echo` copies the
text to (`Copies`: the text is stored, or what the array held, depending on a byte never set), the part of the root
directory's copy that `readFromCluster` does not fill (`Garbage`). An index past the rows of `parseArguments` or the
slots of a directory, a buffer with no NUL, a name of the list that does not fit (`lsAstray`) and a directory behind
`disk[]` may lead to `pc = "fault"`. `pathToFileName` gives all components in full; whether they fit is asked where
`fatOpen` and `fatCreate` are called (`ScanAstray`). Upper-casing and what is printed
are left out, except for the set of entries `ls` shows.

Fairness: `Commands` and `FatStep`, for the reason given above. `ReadLine` has none: nobody has to type.

## The SD model

`at` and `phase` are where the driver is: the command it sends, and whether it waits for `CMD_INHIBIT`, for an interrupt
or for data, or looks at the result. The loops of `sd_status` and `sd_int` are steps that count `cnt` down, and test it
as the code does: what comes on the last round is late. `sd_cmd`'s call of itself for `APP_CMD` is `app`. Between any two
steps the controller may report the answer of a command in flight (`CardAnswers`) or a block (`DataComes`), or an error
or a time-out in their place; it may also do nothing. An answer carries the command it belongs to (`from`), which the
driver cannot see and the properties can.

The card is not under `src/`. It obeys a command in the states the SD protocol allows it in and is one of `Kinds`: it
counts in blocks or in bytes, has the wide bus or not, `SET_BLOCKCNT` or not. One more kind, `odd`, has a bit in its SCR
that the driver takes for a flag of its own. Left out: pins, the clock's divider, the error bits of answers that
`sd_cmd` hands on and nobody looks at.

Fairness: the driver runs on (`WF_sdVars(Driver)`); the card owes nothing. With `WholeScr`, both words of the SCR are in
the FIFO when `READ_RDY` is raised; without it the driver may wait for the second one for ever (`sd_scr`).

## The timer and memory models

`Timer` counts between any two register reads. Its one assumption is that a call of `get_system_timer` lasts less than
the low word takes to go round (71 minutes): a second change of the high word after the repeated read would go
unnoticed. `delay` reads the low word only and reckons in 32 bits.

In `Pages` a call is one step over `next` and `prev`. An allocation that reaches the first page follows its null `prev` and
goes wild: the first page cannot be had. The callers free what they hold and once. In `List`, the head pointer is the cell
that `listAdd` takes it for, with a `next` and no `prev`.

## The MMU model

`mmu_lock`, `mmu_init` and the tables are in memory; each CPU has a store buffer (`buffer`) that drains one word at a
time in any order, an exclusive monitor and an event register. An instruction that matters is an action: `Sevl`, `Wfe`,
`Ldaxr`, `Stxr`, `Check`, `Zero`, `ProgramTable0`, `ProgramTable1`, `InitDone`, `Verify`, `Enable`, `Release`. A store
to the lock disarms every monitor and sets the event of each CPU that had one, as the architecture says; a monitor may
also be lost for no reason, `MaxLosses` times. `STLR` waits for the buffer to drain; `LDAXR` lets no later read go
before it, which the order of the actions expresses. Assumed, and nothing in the code brings it about: the lock word is
coherent between the CPU that does the `STLR` with its MMU and data cache on and those that read the lock with theirs
off; a core on which it is not may keep the release in its cache, and the others waiting. Every CPU calls `mmu_on` once. `Verify` sends a CPU of
`unsupported` into `B.NE .`. The bits of descriptors and system registers are left out, and the walker of a CPU sees
that CPU's own stores (the code has no `DSB`; see the hazards).

Fairness: each CPU runs, each store drains. Strong fairness is not needed: a CPU takes the lock once, so that the
others cannot take it for ever.

## The runs

Passing runs:

| Run | Instance | What it shows |
|---|---|---|
| `fat_names` | 6 clusters of 4 units, names that agree or differ in the first character or after it, texts of 1 and 2 units, a read-only file of two clusters out of order | `TypeOK`; the volume is used in order (`Orderly`, under which the theorems about files hold); a cluster has one owner and none is lost (`ClustersOwnedOnce`, `NoClusterLost`); a file's size and contents agree (`FilesIntact`); what `fatCreate` made is there, what `fatWrite` was given is stored, what `fatRead` copies is one whole text (`CreatedIsThere`, `WriteStored`, `ReadIsWhole`); no step changes another entry or file (`EntriesKept`, `WriteIsolated`); it is a `FileStore` |
| `fat_full` | one free cluster on the disk and one behind its end, one free root slot, a deleted entry, odd paths, a stem, an extension and a path too long, a text of two units | clusters owned once when everything runs out; a call goes wild only in `fatCreate` on a full root, where an array ends, or behind the disk (`WildOnlyAtLimits`); an entry without a cluster appears only when the FAT is full, and one with a cluster behind `disk[]` only when the disk is (`ClusterlessOnlyWhenFull`) |
| `fat_chain` | a file of three scattered clusters, texts of less than one cluster and of three | caches coherent through chains freed, cut short, rebuilt and spilled over (`CachesAreTheDisk`); a short text never makes a chain turn back, whatever longer ones have left (`ShortTextsKeepChains`); a call that finds chains that end returns (`CallsReturn`) |
| `shell` | 18 lines over a directory and a file, with quotes, blanks beyond the arguments, more tokens than the buffer, names too long for their fields | `ArgsAreTheLine`, `ReadersLeaveDisk`, `LsShowsTheDisk`, `MkdirMakesDots`, `WorkingDirectoryLeads`, `ShellKeepsFiles`; the kernel goes wild only beyond its limits (`WildOnlyBeyondLimits`); the prompt comes back (`PromptReturns`) |
| `sd` | nine kinds of card, loops of two and three rounds, reads of one and two blocks | `AnswersAreOwn`, `InitLeavesCardReady`, `ReadIsTheBlocks`, `LateErrorIsFinal`; every call returns (`InitFatReturns`) |
| `memory` | five pages, a list of three elements | pages are free or held as a pool would have them (`ImplementsPagePool`); `prev` is the inverse of `next` (`BackwardsToo`); a list keeps its order (`ListKeepsOrder`) |
| `timer` | words of four ticks, waits of up to three | `LongEnough` |
| `mmu_lock` | three CPUs, two lost monitors, any set without the configuration | one CPU inside; no lost wake-up; tables complete before use; everyone returns; it is a `OneTimeInit`; `IndInv`, the invariant the proofs use |

Runs that find a disagreement between a comment and the code:

| Run | Comment | What happens |
|---|---|---|
| `fat_wrong_file` | "Return 0 if file has been found and opened." | a file with another first character is opened |
| `fat_dot_dot` | "Return 0 if file has been created." | an entry made through `..` in the root is written to the disk and then overwritten by the cached root; its cluster stays taken |
| `fat_stale_start` | "cluster is the file's starting cluster" | a chain written short leaves the entry naming its old first cluster, now free |
| `sd_scr` | "if(r!=2) return SD_TIMEOUT;" | the counter of the wait before it never runs down: without the second word of the SCR `sd_init` spins for ever |

Met while modelling, in the model and without a run of their own:

* `fatCreate("/x")` stores the slash as the first character of the name (`StoredName`); `mkdir /x` may then open, and
  dot, another entry whose name agrees after the first character.
* Writing a file of the root directory replaces root entries 33 to 64 by an uninitialised buffer (`Residue`):
  `EntriesKept` and `WorkingDirectoryLeads` leave them out.
* `mkdir` when the FAT is full makes an entry with cluster 0 and then writes its dot entries into the root directory
  (`RootDotted`). A component of one character is found at `.`; a working directory of one character is listed as the root.
* A name longer than 8.3 overruns the stack and is stored cut, so that it is not found again; 20 components overrun it
  too, or leave `subDirectIndex` unassigned; an extension of three characters is read past its end; clusters from 8169 on
  are handed out and lie behind `disk[]`; `writeFatTable` leaves its array on every call (see Actions).
* After a failed `sd_init`, which `initFat` does not look at, the reads go on in bytes (the condition of `ReadIsTheBlocks`).
* A component of a path is entered whatever its attribute: a file's text is read as a directory.
* With a full root directory `fatCreate` stores through an unassigned pointer (`WildOnlyAtLimits` says that, but for the
  overruns above, this is the only way a call with a short text goes wild).
* For a text of several clusters, each part is copied with the length of the whole, over the next clusters; the next
  free cluster is looked for before the current one is marked, so that it can be handed out twice. The shell's line of
  100 characters never gets there; `fat_chain` does, and claims no more than caches, and returns from chains that end.

### Bounds, and why they are enough

Clusters hold 2 to 4 units, and a read of the root returns 1 to 3 of them: enough for a slot inside and outside the part that is read, and
a text shorter than, equal to and longer than a cluster. The root has as many slots as
`writeFileLength` and a walk through cluster 0 reach (three clusters' worth in `fat_names`, the least `LongRoot` allows). Six clusters let a chain of three be freed and rebuilt; one free slot, one free cluster on the disk and one behind it let
each run out before the others. Paths have one to three components: one, a directory's, and one more through `..` or a file; one of four is as many as `MaxRows`. Names fit a stem of two and an extension of one character, or are one character longer.
The state spaces are finite without a bound on the number of calls: any sequence of them is covered. Three CPUs are the
least with one inside, one asleep and one about to try. The shell's buffer holds eleven tokens and there are five
arguments, so that lines below, at and beyond both limits are among the 18; one free cluster lets `mkdir` find the FAT full.
Two rounds of the driver's loops are the least with one that is in time and one that is late; three `ACMD41` let the card
be ready at once, later, and on the last; two blocks tell a read by count, by stop and block by block apart. Five pages
let two lists of different lengths be held beside the kept page and a free one; three elements give an inner one. Words of
four ticks and a count of sixteen go past the end of the low word at every read, and more than once in a wait.
`CHECK_DEADLOCK FALSE` stands where the system may stop: in a
fault, on a spinning CPU, when every CPU has returned, when `initFat` is
through, when the pages go wild, or where the instance bounds the timer's count (`MaxCount`).

## What is proved

For every value of the constants, from `SizeAssumption`, `InputAssumption` and `ImageAssumption` (named in `Fat`),
`LimitAssumption` (there too), `ParserAssumption`, `LossAssumption` (in `MmuLock`), `SdAssumption`, `TimerAssumption`, `PagesAssumption` and
`ListAssumption`, and from the hypotheses that a theorem names:

* `TypeCorrect` (`FatProofs`): `Spec => []TypeOK`. `TypeInv` adds that a walk stands at a component, for the index
  into the path. The disk's part rests on `ClusterOnDisk`: the units of every cluster number, 0 and 1 included, lie on
  the disk.
* `CachesCoherent` (`FatProofs`): `Spec => []CachesAreTheDisk`. Inductive form: the caches agree unless `fatWrite` is
  at work (`CacheInv`); each way a call ends writes the caches back or has just loaded them (`WriteBackCaches`,
  `FreshCaches`).
* `ChainsKept` (`FatProofs`): `Spec => ShortTextsKeepChains`, for every FAT. `ChainInv`: the cached FAT is the one on
  the disk with clusters freed at most. A short text points no cluster at another, so that a set of clusters that led
  only to one another would have been there before.
* `OwnedOnce` (`FatProofs`): `Spec /\ []SingleWrites => []ClustersOwnedOnce` under `ShortTexts` and `SoundImages`: the
  image may have files of any number of clusters, as the `alan.txt` of `rootfs.img` is, but none of them is written
  over. `OwnershipInv` says that the FAT only grows, that whatever can become an entry again (the disk, the window, the caller's handle)
  names allocated clusters, and that no call ever has more than one cluster to free. New entries are `PlaceSound`,
  wherever they land; writes are `ReplacedSound` (units blanked or filled with text) and `FileLengthSound` (the
  directory put back with one size changed, the unread part of the root with anything it may hold).
* `WildAtLimits` (`ShortTexts` only): `Spec => []WildOnlyAtLimits`. `ShortInv`: with short texts no call is ever at a place
  where it asks for a second cluster or writes past a cluster's end; a scan stops where `PlaceInRoot` says (`ScanStops`).
  `ClusterlessWhenFull`: `Spec /\ []SingleWrites => []ClusterlessOnlyWhenFull`, with `SoundImages` and `RoomyImages`.
* `WriteStaysHome` (`FatFiles`): `Spec /\ []SingleWrites => WriteIsolated`. `fatWrite` gets a handle, and `writeFileLength` looks the
  entry up again by name, to the first character: `OpenInv` says that what it finds is the entry `fatOpen` found
  (`OwnEntry`), also when the cached root and the part of it that is read differ. Hypotheses more: no entry without a
  name is a file's (`BlankImages`), the first component of a path has one (`NamedPaths`), and the root directory is
  three clusters long at least (`LongRoot`), or a walk through cluster 0 would see the first data cluster as part of it.
* `EntriesStay` (`FatFiles`): `Spec /\ []WellBehaved => EntriesKept`. `TidyInv`: the cluster of a file holds no
  entries and is no directory's, and a free one holds none, so that a text never lands on an entry, nor an entry on a
  text.
* `FilesStayIntact`, `WritesAreStored`, `NewFilesAreThere`, `NothingLost`, `ReadsGetTheText` (`FatFiles`): under
  `[]Orderly`, the properties of `fat_names` about contents, for every volume, path and sequence of calls. `FilesInv`
  is `OwnershipInv`, `OpenInv`, `TidyInv`, that the caller's handle is the very entry on the disk (`HeldInv`), and
  that files are whole (`DiskWhole`). A new file is one step (`CreatedWhole`), a written one another (`WrittenWhole`),
  in which the other files stay because `OwnedOnce` and `TidyInv` keep their clusters apart. `WalkInv` adds that a
  walk is along a path of `Paths`, and `PlainPaths` that the path has no empty component and ends in an 8.3 name, which is
  stored as it stands; `LostInv` that a cluster
  is taken in the step that stores its entry; `ReadInv` that a read in its round i is in cluster i + 1 of a chain of
  any length along which a text lies (`Spread`), and has copied the first i clusters of it. The texts longer than a
  cluster are those of read-only files, which no call writes: `SealedInv` says that no write gets at their chains.
* `FatIsAFileStore` (`FatStore`): `Spec /\ []NothingRunsOut => ImplementsFileStore`, the refinement of `FileStore`, for
  every volume, any calls, and every set of paths whose last component is an 8.3 name. They may be of any length: those
  that overrun an array may go wild, and where they do not the answer is the store's. `StoreInv` joins `FilesInv`, `SealedInv` and `ReadInv`
  of `FatFiles` to what keeps a file where its path leads. Directories are filled from the front (`Packed`), so that a
  lookup once begun at a slot ends there for good: entries are only put behind the others (`PutPacked`). A way of
  directories, one per component, lies along every path (`AllThere`), and no step leaves it, since entries keep name,
  kind and cluster; a walk in progress is on it (`Tracked`), and a handle is the entry its path leads to (`HandleInv`).
  Two paths with one key lead to one entry, as `strcmp` sees the same components; two with different keys lead to
  different ones, as a cluster has one owner, so that two ways that part never meet again. Then a write, a new entry or
  a changed size is one at one key, and the text at every other key stays because its cluster belongs to somebody else.
* `ShellTypesHold`, `ReadersWriteNothing`, `LsShowsRoot`, `ArgsAreWords` (`ShellProofs`), under `TypedInput` (lines
  and leftovers are made of names) and `TypedTexts` (what `echo` stores is a text). Types go through the loops of
  `inputToBuffer`, `bufferToArgs` and `pathToFileName`: a loop of n rounds has a result after each (`LoopExists`), of
  which whatever each round keeps is true (`LoopKeeps`). `DiskInv`: between calls the caches are the disk's unless
  `mkdir` has dotted the root, and `cd`, `cat` and `ls` are never further than a walk or a read; what a walk writes
  back is then what it read (`WriteBackSame`). For `ArgsAreWords`, the loop invariant `Parsed`: after k tokens, the
  quotes are open if an odd number was read, the row is one more than the blanks read outside quotes, and each row
  holds the cells of its word up to k; `PromptInv` has the rest, that each line is read into a buffer and arguments
  just cleared.
* `FilesKeptByShell`, `WildBeyondLimits`, `DotsMade`, `WorkingDirectoryStays` (`ShellProofs`): the properties of `shell`
  about files, for any lines, sizes and images, under `[]InOrder`. The shell's steps are `Fat`'s but for two of `mkdir`,
  which writes the two dot entries into a cluster of its own accord: that keeps `FilesInv` because the cluster is that of
  the directory just made, and blank (`MadeIsNewDir`, `DotsFiles`). So the heart is that `fatOpen` of a path, right after `fatCreate` of it, finds
  the new entry and not another of a like name. `fatCreate` looks for the name in the whole directory, and puts the
  entry in the first free slot; `fatOpen` stops at the first slot that matches; hence directories filled from the front
  (`Packed`) and free clusters that are blank (`Clean`), which all steps keep (`PutPacked`, `WrittenPacked`). `WalkInv`
  says that a walk is where its path leads (`Walking`, a chain of directories, one per component), `OpenedInv` and
  `MadeInv` what a returned call has found or made, `DotsInv` that `mkdir` opens the path it created, whose name was stored as it was given (`NamesGiven`; without it `fatOpen`
  fails or finds another). Within the limits of the line, what is left to go wild is then `fatCreate` on a full root
  directory, what does not fit the arrays of `fat.c`, and a cluster behind `disk[]`. For
  `WorkingDirectoryStays`, the path `cd` kept is led along by entries that every later step leaves where a scan finds
  them first, since an entry is only put in a slot behind them.
* `MutualExclusion`, `SleepersAreWoken`, `TablesAreReady` (`MmuLockProofs`). `LockInv`: an armed monitor means that
  the lock is as it was read, and a lost one that an event is pending. `BuildInv`: what a CPU has stored at each step,
  that only the CPU inside has stores on their way, and that after the first release both tables are in memory.
  Together they are `IndInv` (`InvariantHolds`).
* `BuiltOnceForAll` (`MmuLockProofs`): `Spec => Once!Safety`, the refinement of `OneTimeInit` but for its fairness,
  for any number of CPUs. It needs one invariant more, `SetByBuilder`: whoever sees `mmu_init` set, some CPU is past
  the building; so the CPU at the check reads off `mmu_init` the stage the tables are in (`CheckFindsStage`).
* `AnswersNeverMixed`, `LateErrorsStay` (`SdProofs`). `SdInv`: one command at most is in flight, and while `sd_int`
  waits, it is the one waited for, and so is the last one answered, as nothing goes out under `CMD_INHIBIT` and what
  was pending is cleared first; nearly every step is `Elsewhere`, out of `sd_int` and sending nothing. `Stuck` is
  closed under every step: a read that begins with an error pending returns 0 before it clears anything.
* `CardIsReady`, `ReadsAreWhole` (`SdProofs`). `WireInv` adds to `SdInv` which commands and waits go together, and
  where nothing is in flight. `CardInv`: while `sd_init` runs, what the driver knows of the card (unit, address, SCR)
  and what state and width card and bus have, by the command `sd_init` is at. `BlockInv`: the buffer holds the blocks
  up to `c`, a command of a read has no data or those that are left (`Left`) on the way, and none is on its way when a
  read is sent.
* `PagesLinkBack`, `PagesArePool`, `ListOrdered` (`MemoryProofs`), for any number of pages and elements. `PagesInv`:
  the free list and the lists held are chains of `next` that share no page and hold every page (`Shares`), each linked
  back by `prev`. A call is a sequence of `ppageAdd` and `ppageRemove`, one page each, and what one does to the chains
  is a lemma (`AddShares`); a chain ends within as many steps as there are pages, since none is on it twice.
  `ListInv`: the elements linked are a sequence.
* `WaitsLastLongEnough` (`TimerProofs`). `TimerInv` says what `get_system_timer` has in hand at each of its reads:
  before the check, the low word of a moment whose high word is not below the one read; after it, the count of a
  moment of the call. The high word changes once at most in a call (`HighMonotone`), so the repeated read needs no
  check. For `delay`, a low word that has grown by d was read d ticks later at least (`LowWordGrown`).

What the hypotheses are for. TLC evaluates those on images and inputs, by `ASSUME` in `MCFatNames`, `MCFatFull` and
`MCShell` (but for `TypedTexts` and `ShortArguments`, which speak of all sequences), and checks `Orderly` as an invariant
of `fat_names`.

* `ShortTexts`: a longer text spills over the clusters that follow. The shell's line of 100 characters fits a cluster.
* `SoundImages`, `TidyImages`, `LostImages`, `BlankImages`: entries name allocated clusters of their own, no file's cluster
  holds entries, no cluster is lost, slots without a name are empty: a volume as `mkfs`, `mcopy` and the kernel itself
  leave it, with files of any number of clusters, as the Makefile's `rootfs.img` has.
* `SingleWrites`: `echo` never writes over a file of more than one cluster. That leaves its entry with a free cluster
  (`fat_stale_start`), which `fatCreate` then gives to another; the properties do not survive it.
* `WholeImages`, for the theorems about contents: a file of attribute 0x20 that is not empty holds one text in one
  cluster. This leaves out an image with a longer writable file, the Makefile's among them. By `SealedImages` a read-only
  file may have any number of clusters, but none that a file of attribute 0x20 owns too.
* `PackedImages`, `CleanImages`: directories are filled from the front, and a cluster that is free holds no old entries.
  The kernel deletes nothing and keeps both; an image on which files were deleted before may have holes in a directory or
  old entries in a free cluster, and there `mkdir` may open another entry than the one it made.
* `LeadingImages`, `LongComponents`: the directories that paths go through are on the card, each is reached through
  directories alone, and a component has two characters at least, as one of one character is found at `.`. A directory
  that is made later is a file of the store like another, but paths through it are left to `ShellProofs`.
* `NothingRunsOut` is `Orderly` and that no `fatCreate` has found its directory full, for which the store has no answer.
* `ShortArguments`: an argument, and what `echo`'s array may hold instead, is shorter than a cluster, as 100 characters are.
* `InOrder` is `Orderly` and `NamesGiven`: `touch` and `mkdir` are given a name, not `.` or `..`, and one that `fatCreate`
  stores as given. `touch` alone makes an entry without a name, `mkdir d/.` one that is nobody's, and `mkdir` of a name
  that is cut a directory without dot entries, or writes them to another. It is a condition on what is typed and on
  room in FAT and root; within it, lines may be of any length and fail in any way.
* `NamedPaths`: a path has a first component, and what is stored of its last is not empty. `PlainPaths` is above.
* `WellBehaved` (`SingleWrites` is part of it) and `Orderly` are about behaviours, for what the code does not look at: a walk enters files; `..` of a
  directory of the root is cluster 0, where an entry is lost (`fat_dot_dot`); an entry made on a full FAT has cluster
  0; and `writeFileLength` reads 32 entries of the root, so that a file beyond them has its size written to nobody
  (`RootShort`). `fat_full`, `fat_dot_dot` and `shell` are the runs where these do happen.

Induction over numbers, for loops and chains, is `SetInduction`: the library's induction theorems take an operator,
but that `<` is well-founded on the naturals does not, and the statement becomes a set of numbers.

Only model-checked:

* the shell on a volume that is not in order: `shell` includes it, for the four properties proved under `InOrder`;
* contents of files longer than a cluster once they are written, and what happens on a volume that is not used in
  order;
* liveness (`CallsReturn`, `PromptReturns`, `InitFatReturns`, `EveryoneReturns`), which is beyond the prover.

## Not modelled, and what could follow

* `wait_msec` waits on one 64-bit register and `wait_cycles` counts instructions; `longestBufferLength` is called by nobody.
* `serial.c` (polled registers, no state), `boot.s` and `kernel.ld` (straight-line), the build files and sample files.
* `rprintf.c` formats numbers and strings and keeps nothing that another call reads; no property here is about wording.
* `initFat`'s arithmetic on the boot sector is replaced by its result, the disk it leaves; whether that disk was read is
  `Sd`'s question.
* A page list freed twice ties the free list into a ring, and an allocation of no pages returns an uninitialised pointer:
  both break the caller's side, and the kernel has no caller.

## Running

`tlc -config MCFatNames.cfg MCFatNames`, and so on for each row of `PROJECT.json` (three minutes each at most), and
`tlapm` on `FatProofs.tla`, `FatFiles.tla`, `FatStore.tla`, `ShellProofs.tla`, `MmuLockProofs.tla`, `SdProofs.tla`,
`TimerProofs.tla` and `MemoryProofs.tla`: minutes each, the longest for `ShellProofs`, `FatProofs` and `FatFiles`.
