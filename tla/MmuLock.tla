------------------------------ MODULE MmuLock ------------------------------
(***************************************************************************)
(* mmu_on of src/mmusetup.S: every CPU calls it once; the first to take    *)
(* mmu_lock builds the translation tables, the others find mmu_init set,   *)
(* and each turns its own MMU on.                                          *)
(*                                                                         *)
(* Two things of the architecture matter.  A CPU that reads the lock by    *)
(* LDAXR arms its monitor; a store to the lock by another CPU disarms it,  *)
(* which makes a later STXR fail and sets the CPU's event register, for    *)
(* which WFE waits.  And a CPU's other stores reach memory some time later *)
(* and in any order, but all before what STLR stores.                      *)
(*                                                                         *)
(* Assumed: the word of the lock is coherent between the CPU that releases *)
(* it, with its MMU and data cache on, and those that wait for it with     *)
(* theirs off.  The code does nothing to bring it about.                   *)
(***************************************************************************)
EXTENDS Naturals

CONSTANTS
  Cpus,
  MaxLosses   \* how often monitors are lost for reasons of the hardware's own

ASSUME LossAssumption == MaxLosses \in Nat

Tables == {"table0", "table1"}
Words == Tables \cup {"init"}
Contents == {"junk", "zero", "set"}  \* of mmu_init, zero and INITIALISED
Unwritten == "unwritten"             \* no store of the word is on its way

VARIABLES
  lock,         \* mmu_lock
  memory,       \* mmu_init and the tables at 0x200000 and 0x201000
  buffer,       \* each CPU's stores on their way to memory
  monitor,      \* each CPU's exclusive monitor of mmu_lock
  event,        \* each CPU's event register
  on,           \* CPUs whose MMU is on
  unsupported,  \* CPUs whose tcr_el1 does not read back
  losses,
  pc

vars == <<lock, memory, buffer, monitor, event, on, unsupported, losses, pc>>
bus == <<lock, monitor, event, losses>>
ram == <<memory, buffer>>

Outside == {"start", "wfe", "ldaxr", "stxr", "done"}
Building == {"zero", "table0", "table1", "init"}
Built == {"end", "stuck", "sctlr", "release"}
Inside == {"check"} \cup Building \cup Built

Nothing == [w \in Words |-> Unwritten]

\* A CPU sees its own stores before memory has them.
Sees(c, w) == IF buffer[c][w] = Unwritten THEN memory[w] ELSE buffer[c][w]

Goto(c, from, to) == pc[c] = from /\ pc' = [pc EXCEPT ![c] = to]
Goes(c, from, to) == Goto(c, from, to) /\ UNCHANGED <<on, unsupported>>

\* A store to the lock disarms every monitor and wakes the CPUs that had one.
StoreLock(c, v) ==
  /\ lock' = v
  /\ monitor' = [d \in Cpus |-> FALSE]
  /\ event' = [d \in Cpus |-> event[d] \/ (monitor[d] /\ d # c)]
  /\ UNCHANGED losses

(***************************************************************************)
(* Taking the lock                                                         *)
(***************************************************************************)

\* SEVL, for the first WFE not to sleep.
SevlMutant(c) ==
  Goes(c, "start", "wfe") /\ UNCHANGED <<ram, bus>>
Sevl(c) ==
  /\ Goes(c, "start", "wfe")
  /\ event' = [event EXCEPT ![c] = TRUE]
  /\ UNCHANGED <<ram, lock, monitor, losses>>

Wfe(c) ==
  /\ event[c]
  /\ Goes(c, "wfe", "ldaxr")
  /\ event' = [event EXCEPT ![c] = FALSE]
  /\ UNCHANGED <<ram, lock, monitor, losses>>

LdaxrMutant(c) ==
  /\ Goes(c, "ldaxr", "stxr")
  /\ monitor' = [monitor EXCEPT ![c] = TRUE]
  /\ UNCHANGED <<ram, lock, event, losses>>
Ldaxr(c) ==
  /\ \/ lock = 0 /\ Goes(c, "ldaxr", "stxr")
     \/ lock # 0 /\ Goes(c, "ldaxr", "wfe")
  /\ monitor' = [monitor EXCEPT ![c] = TRUE]
  /\ UNCHANGED <<ram, lock, event, losses>>

StxrMutant(c) ==
  Goes(c, "stxr", "check") /\ StoreLock(c, 1) /\ UNCHANGED ram
Stxr(c) ==
  /\ \/ monitor[c] /\ Goes(c, "stxr", "check") /\ StoreLock(c, 1)
     \/ ~monitor[c] /\ Goes(c, "stxr", "wfe") /\ UNCHANGED bus
  /\ UNCHANGED ram

(***************************************************************************)
(* Inside                                                                  *)
(***************************************************************************)

CheckMutant(c) ==
  /\ \/ Sees(c, "init") = "set" /\ Goes(c, "check", "done")
     \/ Sees(c, "init") # "set" /\ Goes(c, "check", "zero")
  /\ UNCHANGED <<ram, bus>>
Check(c) ==
  /\ \/ Sees(c, "init") = "set" /\ Goes(c, "check", "end")
     \/ Sees(c, "init") # "set" /\ Goes(c, "check", "zero")
  /\ UNCHANGED <<ram, bus>>

\* zero_out_tables.
Zero(c) ==
  /\ Goes(c, "zero", "table0")
  /\ buffer' = [buffer EXCEPT ![c] = [w \in Words |->
                  IF w \in Tables THEN "zero" ELSE buffer[c][w]]]
  /\ UNCHANGED <<memory, bus>>

\* One entry written into a table: the others are what they were.
Program(c, w) ==
  buffer' = [buffer EXCEPT ![c][w] = IF Sees(c, w) = "zero" THEN "set" ELSE "junk"]

ProgramTable0(c) == Goes(c, "table0", "table1") /\ Program(c, "table0") /\ UNCHANGED <<memory, bus>>
ProgramTable1(c) == Goes(c, "table1", "init") /\ Program(c, "table1") /\ UNCHANGED <<memory, bus>>

InitDone(c) ==
  /\ Goes(c, "init", "end")
  /\ buffer' = [buffer EXCEPT ![c]["init"] = "set"]
  /\ UNCHANGED <<memory, bus>>

\* The registers of this CPU, up to "B.NE .", a branch to itself.
Verify(c) ==
  /\ \/ c \in unsupported /\ Goes(c, "end", "stuck")
     \/ c \notin unsupported /\ Goes(c, "end", "sctlr")
  /\ UNCHANGED <<ram, bus>>

Enable(c) ==
  /\ Goto(c, "sctlr", "release")
  /\ on' = on \cup {c}
  /\ UNCHANGED <<ram, bus, unsupported>>

\* STLR waits for the stores before it; the waiters see what it stores (see above).
ReleaseMutant(c) ==
  Goes(c, "release", "done") /\ StoreLock(c, 0) /\ UNCHANGED ram
Release(c) ==
  /\ buffer[c] = Nothing
  /\ Goes(c, "release", "done")
  /\ StoreLock(c, 0)
  /\ UNCHANGED ram

(***************************************************************************)
(* The hardware                                                            *)
(***************************************************************************)

\* A store reaches memory.
Drain(c, w) ==
  /\ buffer[c][w] # Unwritten
  /\ memory' = [memory EXCEPT ![w] = buffer[c][w]]
  /\ buffer' = [buffer EXCEPT ![c][w] = Unwritten]
  /\ UNCHANGED <<bus, on, unsupported, pc>>

\* A monitor is disarmed with no store to the lock; that too is an event.
LoseMonitor(c) ==
  /\ monitor[c] /\ losses < MaxLosses
  /\ monitor' = [monitor EXCEPT ![c] = FALSE]
  /\ event' = [event EXCEPT ![c] = TRUE]
  /\ losses' = losses + 1
  /\ UNCHANGED <<lock, ram, on, unsupported, pc>>

Init ==
  /\ lock = 0
  /\ memory = [w \in Words |-> IF w = "init" THEN "zero" ELSE "junk"]
  /\ buffer = [c \in Cpus |-> Nothing]
  /\ monitor = [c \in Cpus |-> FALSE]
  /\ event \in [Cpus -> BOOLEAN]
  /\ on = {} /\ unsupported \in SUBSET Cpus
  /\ losses = 0
  /\ pc = [c \in Cpus |-> "start"]

Run(c) ==
  \/ Sevl(c) \/ Wfe(c) \/ Ldaxr(c) \/ Stxr(c)
  \/ Check(c) \/ Zero(c) \/ ProgramTable0(c) \/ ProgramTable1(c) \/ InitDone(c)
  \/ Verify(c) \/ Enable(c) \/ Release(c)

Next ==
  \/ \E c \in Cpus : Run(c)
  \/ \E c \in Cpus, w \in Words : Drain(c, w)
  \/ \E c \in Cpus : LoseMonitor(c)

\* Each CPU runs on its own clock, and every store reaches memory in the end.
Spec ==
  /\ Init /\ [][Next]_vars
  /\ \A c \in Cpus : WF_vars(Run(c)) /\ \A w \in Words : WF_vars(Drain(c, w))

(***************************************************************************)
(* Properties                                                              *)
(***************************************************************************)

TypeOK ==
  /\ lock \in {0, 1} /\ memory \in [Words -> Contents]
  /\ buffer \in [Cpus -> [Words -> Contents \cup {Unwritten}]]
  /\ monitor \in [Cpus -> BOOLEAN] /\ event \in [Cpus -> BOOLEAN]
  /\ on \subseteq Cpus /\ unsupported \subseteq Cpus /\ losses \in 0..MaxLosses
  /\ pc \in [Cpus -> Outside \cup Inside]

\* "lock to ensure only 1 CPU runs init" (mmusetup.S:41): two CPUs are never
\* between the STXR that succeeded and the STLR.
OneInside == \A c, d \in Cpus : pc[c] \in Inside /\ pc[d] \in Inside => c = d

\* A CPU that sleeps in WFE has an event to come: it watches the lock, and the
\* lock is taken.
NoLostWakeup ==
  \A c \in Cpus : pc[c] = "wfe" /\ ~event[c] => monitor[c] /\ lock = 1

\* A CPU whose MMU is on finds both tables complete, now and ever after.
TablesReady == \A c \in on : \A w \in Tables : Sees(c, w) = "set"

\* If every CPU has the configuration, every CPU returns.
EveryoneReturns == unsupported = {} ~> \A c \in Cpus : pc[c] = "done"

\* The lock is taken exactly while a CPU is inside, and an armed monitor means
\* that the lock is as the CPU read it.
LockInv ==
  /\ OneInside
  /\ lock = 1 <=> \E c \in Cpus : pc[c] \in Inside
  /\ \A c \in Cpus : pc[c] = "stxr" => IF monitor[c] THEN lock = 0 ELSE event[c]
  /\ NoLostWakeup

\* What a CPU has stored at each of its steps.
Progress(c) ==
  /\ pc[c] \in Outside \cup {"check", "zero"} => buffer[c] = Nothing
  /\ pc[c] = "table0" => Sees(c, "table0") = "zero" /\ Sees(c, "table1") = "zero"
  /\ pc[c] = "table1" => Sees(c, "table0") = "set" /\ Sees(c, "table1") = "zero"
  /\ pc[c] = "init" => Sees(c, "table0") = "set" /\ Sees(c, "table1") = "set"
  /\ pc[c] \in Building => Sees(c, "init") # "set"
  /\ pc[c] \in Built => \A w \in Words : Sees(c, w) = "set"

\* Once a CPU has left, the tables are in memory and nobody builds them again.
InMemory == \A w \in Words : memory[w] = "set"
LeftBuilt ==
  (\E c \in Cpus : pc[c] = "done") => InMemory /\ \A c \in Cpus : pc[c] \notin Building

\* mmu_init may reach memory before the tables, but not when nobody is inside.
InitIsTrue ==
  memory["init"] = "set" =>
    InMemory \/ \E c \in Cpus : pc[c] \in Inside /\ buffer[c] # Nothing

BuildInv ==
  /\ \A c \in Cpus : Progress(c)
  /\ LeftBuilt /\ InitIsTrue
  /\ \A c \in on : pc[c] \in {"release", "done"}

\* The tables are being built, or some CPU has been through with them, or neither.
Stage ==
  IF \E c \in Cpus : pc[c] \in Building THEN "building"
  ELSE IF \E c \in Cpus : pc[c] \in Built \cup {"done"} THEN "built" ELSE "unbuilt"
Once == INSTANCE OneTimeInit WITH stage <- Stage

\* Whoever calls mmu_on, the tables go from unbuilt to built once and for all
\* ("whether init has been run", mmusetup.S:44), and a CPU that builds them comes
\* to the end even if its own configuration then fails.
ImplementsOneTimeInit == Once!Spec

\* What every step keeps, types included.
IndInv == TypeOK /\ LockInv /\ BuildInv
=============================================================================
