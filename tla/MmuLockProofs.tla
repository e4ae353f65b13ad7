--------------------------- MODULE MmuLockProofs ---------------------------
(* Invariants of module MmuLock for any set of CPUs.                          *)
EXTENDS MmuLock, TLAPS

(***************************************************************************)
(* Types                                                                   *)
(***************************************************************************)

LEMMA InitTypes == Init => TypeOK
<1> SUFFICES ASSUME Init PROVE TypeOK
  OBVIOUS
<1>1. memory \in [Words -> Contents]  BY DEF Init, Contents
<1>2. Nothing \in [Words -> Contents \cup {Unwritten}]  BY DEF Nothing
<1>3. buffer \in [Cpus -> [Words -> Contents \cup {Unwritten}]]  BY <1>2 DEF Init
<1>4. monitor \in [Cpus -> BOOLEAN] /\ event \in [Cpus -> BOOLEAN]  BY Zenon DEF Init
<1>5. lock \in {0, 1} /\ on \subseteq Cpus /\ unsupported \subseteq Cpus /\ losses \in 0..MaxLosses
  BY LossAssumption DEF Init
<1>6. pc \in [Cpus -> Outside \cup Inside]  BY DEF Init, Outside
<1> QED  BY <1>1, <1>3, <1>4, <1>5, <1>6 DEF TypeOK

\* What a CPU sees of a word is a content.
LEMMA SeesType ==
  ASSUME TypeOK, NEW c \in Cpus, NEW w \in Words
  PROVE  Sees(c, w) \in Contents
BY DEF TypeOK, Sees

LEMMA StoreTypes ==
  ASSUME TypeOK, NEW c, NEW v \in {0, 1}, StoreLock(c, v)
  PROVE  /\ lock' \in {0, 1} /\ losses' \in 0..MaxLosses
         /\ monitor' \in [Cpus -> BOOLEAN] /\ event' \in [Cpus -> BOOLEAN]
<1>1. monitor' \in [Cpus -> BOOLEAN] /\ event' \in [Cpus -> BOOLEAN]
  BY Zenon DEF StoreLock, TypeOK
<1> QED  BY <1>1 DEF StoreLock, TypeOK

LEMMA EventTypes ==
  ASSUME TypeOK, NEW c \in Cpus
  PROVE  /\ [monitor EXCEPT ![c] = TRUE] \in [Cpus -> BOOLEAN]
         /\ [monitor EXCEPT ![c] = FALSE] \in [Cpus -> BOOLEAN]
         /\ [event EXCEPT ![c] = TRUE] \in [Cpus -> BOOLEAN]
         /\ [event EXCEPT ![c] = FALSE] \in [Cpus -> BOOLEAN]
BY DEF TypeOK

LEMMA NextTypes == TypeOK /\ [Next]_vars => TypeOK'
<1> SUFFICES ASSUME TypeOK, [Next]_vars PROVE TypeOK'
  OBVIOUS
<1> USE DEF Goes, Goto, Outside, Inside, Building, Built, bus, ram
<1>1. ASSUME NEW c \in Cpus, Sevl(c) \/ Wfe(c) \/ Ldaxr(c) PROVE TypeOK'
  <2>1. monitor' \in [Cpus -> BOOLEAN] /\ event' \in [Cpus -> BOOLEAN]
    <3>1. monitor' = monitor \/ monitor' = [monitor EXCEPT ![c] = TRUE]
      BY <1>1 DEF Sevl, Wfe, Ldaxr
    <3>2. \/ event' = event \/ event' = [event EXCEPT ![c] = TRUE]
          \/ event' = [event EXCEPT ![c] = FALSE]
      BY <1>1 DEF Sevl, Wfe, Ldaxr
    <3> QED  BY <3>1, <3>2, EventTypes, Zenon DEF TypeOK
  <2>2. pc' \in [Cpus -> Outside \cup Inside]
    BY <1>1 DEF Sevl, Wfe, Ldaxr, TypeOK
  <2>3. UNCHANGED <<lock, memory, buffer, on, unsupported, losses>>
    BY <1>1 DEF Sevl, Wfe, Ldaxr
  <2> QED  BY <2>1, <2>2, <2>3 DEF TypeOK
<1>2. ASSUME NEW c \in Cpus, Stxr(c) PROVE TypeOK'
  <2>1. CASE StoreLock(c, 1)  BY <1>2, <2>1, StoreTypes DEF Stxr, TypeOK
  <2>2. CASE UNCHANGED bus  BY <1>2, <2>2 DEF Stxr, TypeOK
  <2> QED  BY <1>2, <2>1, <2>2 DEF Stxr
<1>3. ASSUME NEW c \in Cpus, Check(c) \/ Verify(c) PROVE TypeOK'
  BY <1>3 DEF Check, Verify, TypeOK
<1>4. ASSUME NEW c \in Cpus, Zero(c) PROVE TypeOK'
  <2> DEFINE z == [w \in Words |-> IF w \in Tables THEN "zero" ELSE buffer[c][w]]
  <2>1. z \in [Words -> Contents \cup {Unwritten}]  BY DEF TypeOK, Contents
  <2>2. buffer' = [buffer EXCEPT ![c] = z]  BY <1>4 DEF Zero
  <2> HIDE DEF z
  <2>3. buffer' \in [Cpus -> [Words -> Contents \cup {Unwritten}]]  BY <2>1, <2>2 DEF TypeOK
  <2> QED  BY <1>4, <2>3 DEF Zero, TypeOK
<1>5. ASSUME NEW c \in Cpus, ProgramTable0(c) \/ ProgramTable1(c) PROVE TypeOK'
  <2>1. PICK w \in Words : Program(c, w)
    BY <1>5 DEF ProgramTable0, ProgramTable1, Words, Tables
  <2>2. PICK v \in Contents : buffer' = [buffer EXCEPT ![c][w] = v]
    BY <2>1 DEF Program, Contents
  <2>3. buffer' \in [Cpus -> [Words -> Contents \cup {Unwritten}]]  BY <2>2 DEF TypeOK
  <2> QED  BY <1>5, <2>3 DEF ProgramTable0, ProgramTable1, TypeOK
<1>6. ASSUME NEW c \in Cpus, InitDone(c) PROVE TypeOK'
  BY <1>6 DEF InitDone, TypeOK, Contents, Words
<1>7. ASSUME NEW c \in Cpus, Enable(c) PROVE TypeOK'
  BY <1>7 DEF Enable, TypeOK
<1>8. ASSUME NEW c \in Cpus, Release(c) PROVE TypeOK'
  BY <1>8, StoreTypes DEF Release, TypeOK
<1>9. ASSUME NEW c \in Cpus, NEW w \in Words, Drain(c, w) PROVE TypeOK'
  BY <1>9 DEF Drain, TypeOK
<1>10. ASSUME NEW c \in Cpus, LoseMonitor(c) PROVE TypeOK'
  BY <1>10, EventTypes, LossAssumption DEF LoseMonitor, TypeOK
<1>11. CASE UNCHANGED vars  BY <1>11 DEF vars, TypeOK
<1> QED
  BY <1>1, <1>2, <1>3, <1>4, <1>5, <1>6, <1>7, <1>8, <1>9, <1>10, <1>11 DEF Next, Run

\* Memory, store buffers, monitors and program counters keep their types.
THEOREM TypeCorrect == Spec => []TypeOK
BY InitTypes, NextTypes, PTL DEF Spec

(***************************************************************************)
(* The lock                                                                *)
(***************************************************************************)

LEMMA InitLock == Init => LockInv
BY DEF Init, LockInv, OneInside, NoLostWakeup, Inside, Building, Built

\* A CPU that changes neither the lock nor the monitors, and stays inside.
LEMMA InsideStep ==
  ASSUME TypeOK, LockInv, NEW c \in Cpus, UNCHANGED bus,
         NEW from \in Inside, NEW to \in Inside, Goto(c, from, to)
  PROVE  LockInv'
BY DEF TypeOK, LockInv, OneInside, NoLostWakeup, Goto, bus, Inside, Building, Built

LEMMA NextLock == TypeOK /\ LockInv /\ [Next]_vars => LockInv'
<1> SUFFICES ASSUME TypeOK, LockInv, [Next]_vars PROVE LockInv'
  OBVIOUS
<1> USE DEF Goes, Goto, Inside, Building, Built
<1>1. ASSUME NEW c \in Cpus, Sevl(c) PROVE LockInv'
  BY <1>1 DEF Sevl, TypeOK, LockInv, OneInside, NoLostWakeup
<1>2. ASSUME NEW c \in Cpus, Wfe(c) PROVE LockInv'
  BY <1>2 DEF Wfe, TypeOK, LockInv, OneInside, NoLostWakeup
<1>3. ASSUME NEW c \in Cpus, Ldaxr(c) PROVE LockInv'
  BY <1>3 DEF Ldaxr, TypeOK, LockInv, OneInside, NoLostWakeup
<1>4. ASSUME NEW c \in Cpus, Stxr(c) PROVE LockInv'
  <2>1. CASE monitor[c] /\ Goes(c, "stxr", "check") /\ StoreLock(c, 1)
    <3>1. lock = 0 /\ \A d \in Cpus : pc[d] \notin Inside
      BY <2>1 DEF LockInv
    <3>2. OneInside' /\ lock' = 1 /\ pc'[c] = "check"
      BY <2>1, <3>1 DEF OneInside, StoreLock, TypeOK
    <3>3. \A d \in Cpus : pc'[d] = "stxr" => ~monitor'[d] /\ event'[d]
      BY <2>1 DEF LockInv, StoreLock, TypeOK
    <3>4. NoLostWakeup'
      BY <2>1, <3>1 DEF LockInv, NoLostWakeup, StoreLock, TypeOK
    <3> QED  BY <3>2, <3>3, <3>4 DEF LockInv
  <2>2. CASE ~monitor[c] /\ Goes(c, "stxr", "wfe") /\ UNCHANGED bus
    BY <2>2 DEF bus, TypeOK, LockInv, OneInside, NoLostWakeup
  <2> QED  BY <1>4, <2>1, <2>2 DEF Stxr
<1>5. ASSUME NEW c \in Cpus, Check(c) \/ Zero(c) \/ ProgramTable0(c) \/ ProgramTable1(c)
                             \/ InitDone(c) \/ Verify(c) \/ Enable(c)
      PROVE  LockInv'
  <2>1. PICK from \in Inside, to \in Inside : Goto(c, from, to)
    BY <1>5 DEF Check, Zero, ProgramTable0, ProgramTable1, InitDone, Verify, Enable
  <2>2. UNCHANGED bus
    BY <1>5 DEF Check, Zero, ProgramTable0, ProgramTable1, InitDone, Verify, Enable
  <2> QED  BY <2>1, <2>2, InsideStep
<1>6. ASSUME NEW c \in Cpus, Release(c) PROVE LockInv'
  <2>1. \A d \in Cpus : d # c => pc[d] \notin Inside
    BY <1>6 DEF Release, LockInv, OneInside
  <2>2. \A d \in Cpus : pc'[d] \notin Inside
    BY <1>6, <2>1 DEF Release, TypeOK
  <2>3. lock' = 0  BY <1>6 DEF Release, StoreLock
  <2>4. \A d \in Cpus : pc'[d] = "stxr" => ~monitor'[d] /\ event'[d]
    BY <1>6 DEF Release, LockInv, StoreLock, TypeOK
  <2>5. NoLostWakeup'
    BY <1>6 DEF Release, LockInv, NoLostWakeup, StoreLock, TypeOK
  <2> QED  BY <2>2, <2>3, <2>4, <2>5 DEF LockInv, OneInside
<1>7. ASSUME NEW c \in Cpus, NEW w \in Words, Drain(c, w) PROVE LockInv'
  BY <1>7 DEF Drain, bus, LockInv, OneInside, NoLostWakeup
<1>8. ASSUME NEW c \in Cpus, LoseMonitor(c) PROVE LockInv'
  BY <1>8 DEF LoseMonitor, TypeOK, LockInv, OneInside, NoLostWakeup
<1>9. CASE UNCHANGED vars  BY <1>9 DEF vars, LockInv, OneInside, NoLostWakeup
<1> QED
  BY <1>1, <1>2, <1>3, <1>4, <1>5, <1>6, <1>7, <1>8, <1>9 DEF Next, Run

\* The lock and its monitors, for any number of CPUs.
LEMMA LockHolds == Spec => []LockInv
BY InitTypes, NextTypes, InitLock, NextLock, PTL DEF Spec

\* However many CPUs call mmu_on and whatever monitors the hardware loses, at most
\* one is between taking mmu_lock and releasing it (mmusetup.S:57-142).
THEOREM MutualExclusion == Spec => []OneInside
<1>1. LockInv => OneInside  BY DEF LockInv
<1> QED  BY <1>1, LockHolds, PTL

\* No CPU sleeps in WFE on a lock that is free or that it does not watch: the store
\* that frees the lock wakes it (mmusetup.S:59).
THEOREM SleepersAreWoken == Spec => []NoLostWakeup
<1>1. LockInv => NoLostWakeup  BY DEF LockInv
<1> QED  BY <1>1, LockHolds, PTL

(***************************************************************************)
(* The tables                                                              *)
(***************************************************************************)

LEMMA InitBuild == Init => BuildInv
<1> SUFFICES ASSUME Init PROVE BuildInv
  OBVIOUS
<1>1. \A c \in Cpus : Progress(c)
  BY DEF Init, Progress, Building, Built
<1>2. "init" \in Words /\ memory["init"] = "zero"  BY DEF Init, Words
<1> QED  BY <1>1, <1>2 DEF Init, BuildInv, LeftBuilt, InitIsTrue

\* A CPU whose stores have all reached memory sees what is there.
LEMMA SeesMemory ==
  ASSUME NEW c, buffer[c] = Nothing, NEW w \in Words
  PROVE  Sees(c, w) = memory[w]
BY DEF Sees, Nothing

\* The CPU inside is alone with its stores: all others have none.
LEMMA OthersHaveNone ==
  ASSUME TypeOK, LockInv, BuildInv, NEW c \in Cpus, pc[c] \in Inside, NEW d \in Cpus, d # c
  PROVE  buffer[d] = Nothing /\ pc[d] \in Outside
BY DEF TypeOK, LockInv, OneInside, BuildInv, Progress

\* A CPU that neither moves nor stores keeps what it has stored, when memory does.
LEMMA OthersProgress ==
  ASSUME NEW d, Progress(d), pc'[d] = pc[d], buffer'[d] = buffer[d], memory' = memory
  PROVE  Progress(d)'
<1>1. \A w : Sees(d, w)' = Sees(d, w)  BY DEF Sees
<1> QED  BY <1>1 DEF Progress

\* A step that moves one CPU outside or to the check, or past the tables.
LEMMA QuietStep ==
  ASSUME TypeOK, BuildInv, NEW c \in Cpus, UNCHANGED ram, UNCHANGED on,
         NEW from, NEW to, Goto(c, from, to),
         \/ /\ from \in {"start", "wfe", "ldaxr", "stxr"}
            /\ to \in {"wfe", "ldaxr", "stxr", "check"}
         \/ from = "end" /\ to \in {"stuck", "sctlr"}
  PROVE  BuildInv'
<1>1. /\ \A d \in Cpus : d # c => pc'[d] = pc[d]
      /\ pc[c] = from /\ pc'[c] = to
      /\ buffer' = buffer /\ memory' = memory /\ on' = on
  BY DEF Goto, TypeOK, ram
<1>2. Progress(c)'
  <2>1. \A w : Sees(c, w)' = Sees(c, w)  BY <1>1 DEF Sees
  <2> QED  BY <1>1, <2>1 DEF BuildInv, Progress, Outside, Building, Built
<1>3. \A d \in Cpus : Progress(d)'
  BY <1>1, <1>2, OthersProgress DEF BuildInv
<1>4. LeftBuilt'
  BY <1>1 DEF BuildInv, LeftBuilt, InMemory, Building
<1>5. InitIsTrue'
  <2>1. \A d \in Cpus : pc[d] \in Inside /\ buffer[d] # Nothing => pc'[d] \in Inside
    BY <1>1 DEF BuildInv, Progress, Inside, Building, Built
  <2> QED  BY <1>1, <2>1 DEF BuildInv, InitIsTrue, InMemory
<1>6. \A d \in on' : pc'[d] \in {"release", "done"}
  BY <1>1 DEF BuildInv, TypeOK
<1> QED  BY <1>3, <1>4, <1>5, <1>6 DEF BuildInv

\* What the CPU inside finds of mmu_init decides whether the tables are built.
LEMMA InitMeansBuilt ==
  ASSUME TypeOK, LockInv, BuildInv, NEW c \in Cpus, pc[c] = "check"
  PROVE  /\ \A d \in Cpus : buffer[d] = Nothing
         /\ Sees(c, "init") = "set" <=> InMemory
<1>1. buffer[c] = Nothing  BY DEF BuildInv, Progress
<1>2. "init" \in Words  BY DEF Words
<1>3. Sees(c, "init") = memory["init"]  BY <1>1, <1>2, SeesMemory
<1>4. \A d \in Cpus : buffer[d] = Nothing
  BY <1>1, OthersHaveNone DEF Inside
<1> QED  BY <1>2, <1>3, <1>4 DEF BuildInv, InitIsTrue, InMemory

LEMMA CheckBuild ==
  ASSUME TypeOK, LockInv, BuildInv, NEW c \in Cpus, Check(c)
  PROVE  BuildInv'
<1> USE DEF Goes, Goto
<1>1. /\ pc[c] = "check" /\ (Sees(c, "init") = "set" <=> InMemory)
      /\ \A d \in Cpus : buffer[d] = Nothing
  BY InitMeansBuilt DEF Check
<1>2. /\ \A d \in Cpus : d # c => pc'[d] = pc[d]
      /\ buffer' = buffer /\ memory' = memory /\ on' = on
      /\ pc'[c] = IF InMemory THEN "end" ELSE "zero"
  BY <1>1 DEF Check, TypeOK, ram
<1>3. \A w \in Words : Sees(c, w)' = memory[w]
  <2>1. buffer[c] = Nothing  BY <1>1
  <2> QED  BY <1>2, <2>1 DEF Sees, Nothing
<1>4. Progress(c)'
  <2>1. "init" \in Words  BY DEF Words
  <2>2. CASE InMemory
    BY <1>2, <1>3, <2>2 DEF Progress, InMemory, Outside, Building, Built
  <2>3. CASE ~InMemory
    <3>1. Sees(c, "init")' # "set"  BY <1>1, <1>2, <2>3 DEF Sees
    <3> QED  BY <1>1, <1>2, <2>3, <3>1 DEF Progress, Outside, Building, Built
  <2> QED  BY <2>2, <2>3
<1>5. \A d \in Cpus : Progress(d)'
  BY <1>2, <1>4, OthersProgress DEF BuildInv
<1>6. LeftBuilt'
  BY <1>2 DEF BuildInv, LeftBuilt, InMemory, Building
<1>7. InitIsTrue'  BY <1>1, <1>2 DEF BuildInv, InitIsTrue, InMemory
<1>8. \A d \in on' : pc'[d] \in {"release", "done"}
  BY <1>1, <1>2 DEF BuildInv, TypeOK
<1> QED  BY <1>5, <1>6, <1>7, <1>8 DEF BuildInv

\* A CPU that builds moves on with stores of its own.
LEMMA BuildStep ==
  ASSUME TypeOK, LockInv, BuildInv, NEW c \in Cpus,
         Zero(c) \/ ProgramTable0(c) \/ ProgramTable1(c) \/ InitDone(c)
  PROVE  BuildInv'
<1> USE DEF Goes, Goto
<1>1. /\ \A d \in Cpus : d # c => pc'[d] = pc[d] /\ buffer'[d] = buffer[d]
      /\ memory' = memory /\ on' = on
      /\ pc[c] \in Building /\ pc'[c] \in {"table0", "table1", "init", "end"}
  BY DEF Zero, ProgramTable0, ProgramTable1, InitDone, Program, TypeOK, Building
<1>2. Words = {"table0", "table1", "init"} /\ Tables = {"table0", "table1"}
  BY DEF Words, Tables
<1>3. Progress(c)  BY DEF BuildInv
<1>4. Progress(c)'
  <2>1. CASE Zero(c)
    <3>1. /\ pc'[c] = "table0" /\ buffer'[c]["table0"] = "zero" /\ buffer'[c]["table1"] = "zero"
          /\ buffer'[c]["init"] = buffer[c]["init"] /\ pc[c] = "zero"
      BY <1>2, <2>1 DEF Zero, TypeOK
    <3>2. Sees(c, "init")' = Sees(c, "init")  BY <1>1, <3>1 DEF Sees
    <3> QED
      BY <1>3, <3>1, <3>2 DEF Progress, Sees, Unwritten, Outside, Building, Built
  <2>2. CASE ProgramTable0(c)
    <3>1. /\ pc[c] = "table0" /\ pc'[c] = "table1" /\ buffer'[c]["table0"] = "set"
          /\ buffer'[c]["table1"] = buffer[c]["table1"]
          /\ buffer'[c]["init"] = buffer[c]["init"]
      BY <1>2, <1>3, <2>2 DEF ProgramTable0, Program, TypeOK, Progress
    <3>2. Sees(c, "init")' = Sees(c, "init") /\ Sees(c, "table1")' = Sees(c, "table1")
      BY <1>1, <3>1 DEF Sees
    <3> QED
      BY <1>3, <3>1, <3>2 DEF Progress, Sees, Unwritten, Outside, Building, Built
  <2>3. CASE ProgramTable1(c)
    <3>1. /\ pc[c] = "table1" /\ pc'[c] = "init" /\ buffer'[c]["table1"] = "set"
          /\ buffer'[c]["table0"] = buffer[c]["table0"]
          /\ buffer'[c]["init"] = buffer[c]["init"]
      BY <1>2, <1>3, <2>3 DEF ProgramTable1, Program, TypeOK, Progress
    <3>2. Sees(c, "init")' = Sees(c, "init") /\ Sees(c, "table0")' = Sees(c, "table0")
      BY <1>1, <3>1 DEF Sees
    <3> QED
      BY <1>3, <3>1, <3>2 DEF Progress, Sees, Unwritten, Outside, Building, Built
  <2>4. CASE InitDone(c)
    <3>1. /\ pc[c] = "init" /\ pc'[c] = "end" /\ buffer'[c]["init"] = "set"
          /\ buffer'[c]["table0"] = buffer[c]["table0"]
          /\ buffer'[c]["table1"] = buffer[c]["table1"]
      BY <1>2, <2>4 DEF InitDone, TypeOK
    <3>2. Sees(c, "table0")' = Sees(c, "table0") /\ Sees(c, "table1")' = Sees(c, "table1")
      BY <1>1, <3>1 DEF Sees
    <3>3. Sees(c, "init")' = "set"  BY <3>1 DEF Sees, Unwritten
    <3> QED
      BY <1>2, <1>3, <3>1, <3>2, <3>3 DEF Progress, Outside, Building, Built
  <2> QED  BY <2>1, <2>2, <2>3, <2>4
<1>5. \A d \in Cpus : Progress(d)'
  BY <1>1, <1>4, OthersProgress DEF BuildInv
<1>6. LeftBuilt'
  <2>1. \A d \in Cpus : pc[d] # "done"  BY <1>1 DEF BuildInv, LeftBuilt
  <2>2. \A d \in Cpus : pc'[d] # "done"  BY <1>1, <2>1
  <2> QED  BY <2>2 DEF LeftBuilt
<1>7. InitIsTrue'
  <2>1. memory["init"] = "set" => pc'[c] \in Inside /\ buffer'[c] # Nothing
    <3>1. Sees(c, "init") # "set"  BY <1>1, <1>3 DEF Progress
    <3>2. memory["init"] = "set" => buffer[c]["init"] # Unwritten  BY <3>1 DEF Sees
    <3>3. buffer'[c]["init"] = buffer[c]["init"] \/ buffer'[c]["init"] = "set"
      BY <1>2 DEF Zero, ProgramTable0, ProgramTable1, InitDone, Program, TypeOK
    <3>4. memory["init"] = "set" => buffer'[c]["init"] # Unwritten
      BY <3>2, <3>3 DEF Unwritten
    <3> QED  BY <1>1, <1>2, <3>4 DEF Nothing, Inside, Building, Built
  <2> QED  BY <1>1, <2>1 DEF InitIsTrue
<1>8. \A d \in on' : pc'[d] \in {"release", "done"}
  BY <1>1 DEF BuildInv, TypeOK, Building
<1> QED  BY <1>5, <1>6, <1>7, <1>8 DEF BuildInv

\* The registers, the MMU and the release: the tables are seen, then in memory.
LEMMA EndStep ==
  ASSUME TypeOK, LockInv, BuildInv, NEW c \in Cpus, Enable(c) \/ Release(c)
  PROVE  BuildInv'
<1> USE DEF Goes, Goto
<1>1. /\ \A d \in Cpus : d # c => pc'[d] = pc[d]
      /\ buffer' = buffer /\ memory' = memory
      /\ pc[c] \in {"sctlr", "release"}
  BY DEF Enable, Release, TypeOK, ram
<1>2. \A w : Sees(c, w)' = Sees(c, w)  BY <1>1 DEF Sees
<1>3. Progress(c)  BY DEF BuildInv
<1>4. pc[c] \in Inside  BY <1>1 DEF Inside, Built
<1>5. \A w \in Words : Sees(c, w) = "set"  BY <1>1, <1>3 DEF Progress, Built
<1>6. \A d \in Cpus : d # c => pc[d] \notin Building /\ pc[d] \in Outside
  BY <1>4, OthersHaveNone DEF Outside, Building
<1>7. CASE Enable(c)
  <2>1. pc[c] = "sctlr" /\ pc'[c] = "release" /\ on' = on \cup {c}
    BY <1>7 DEF Enable, TypeOK
  <2>2. Progress(c)'
    BY <1>2, <1>5, <2>1 DEF Progress, Outside, Building, Built
  <2>3. \A d \in Cpus : Progress(d)'  BY <1>1, <2>2, OthersProgress DEF BuildInv
  <2>4. LeftBuilt'  BY <1>1, <2>1 DEF BuildInv, LeftBuilt, InMemory, Building
  <2>5. InitIsTrue'
    <3>1. \A d \in Cpus : pc[d] \in Inside => pc'[d] \in Inside
      BY <1>1, <2>1 DEF Inside, Built
    <3> QED  BY <1>1, <3>1 DEF BuildInv, InitIsTrue, InMemory
  <2>6. \A d \in on' : pc'[d] \in {"release", "done"}
    BY <1>1, <2>1 DEF BuildInv, TypeOK
  <2> QED  BY <2>3, <2>4, <2>5, <2>6 DEF BuildInv
<1>8. CASE Release(c)
  <2>1. buffer[c] = Nothing /\ pc'[c] = "done" /\ on' = on
    BY <1>8 DEF Release, TypeOK
  <2>2. InMemory'
    <3>1. InMemory  BY <1>5, <2>1, SeesMemory DEF InMemory
    <3> QED  BY <1>1, <3>1 DEF InMemory
  <2>3. Progress(c)'  BY <1>1, <2>1 DEF Progress, Outside, Building, Built
  <2>4. \A d \in Cpus : Progress(d)'  BY <1>1, <2>3, OthersProgress DEF BuildInv
  <2>5. LeftBuilt'  BY <1>1, <1>6, <2>1, <2>2 DEF LeftBuilt, Building
  <2>6. InitIsTrue'  BY <2>2 DEF InitIsTrue
  <2>7. \A d \in on' : pc'[d] \in {"release", "done"}
    BY <1>1, <2>1 DEF BuildInv, TypeOK
  <2> QED  BY <2>4, <2>5, <2>6, <2>7 DEF BuildInv
<1> QED  BY <1>7, <1>8

\* A store reaches memory: its CPU sees what it saw, and the others have none.
LEMMA DrainBuild ==
  ASSUME TypeOK, LockInv, BuildInv, NEW c \in Cpus, NEW w \in Words, Drain(c, w)
  PROVE  BuildInv'
<1>1. /\ \A d \in Cpus : d # c => buffer'[d] = buffer[d]
      /\ pc' = pc /\ on' = on
      /\ buffer[c][w] # Unwritten
      /\ \A x \in Words : memory'[x] = IF x = w THEN buffer[c][w] ELSE memory[x]
      /\ \A x \in Words : buffer'[c][x] = IF x = w THEN Unwritten ELSE buffer[c][x]
  BY DEF Drain, TypeOK
<1>2. \A x \in Words : Sees(c, x)' = Sees(c, x)  BY <1>1 DEF Sees
<1>3. buffer[c] # Nothing  BY <1>1 DEF Nothing
<1>4. Progress(c) /\ pc[c] \in Building \cup Built
  BY <1>3 DEF BuildInv, Progress, TypeOK, Outside, Inside
<1>5. pc[c] \in Inside  BY <1>4 DEF Inside
<1>6. \A d \in Cpus : d # c => buffer[d] = Nothing /\ pc[d] \in Outside
  BY <1>5, OthersHaveNone
<1>7. Progress(c)'
  <2>1. "table0" \in Words /\ "table1" \in Words /\ "init" \in Words  BY DEF Words, Tables
  <2>2. pc[c] = "zero" => buffer[c] = Nothing  BY <1>4 DEF Progress
  <2> QED  BY <1>1, <1>2, <1>3, <1>4, <2>1, <2>2 DEF Progress, Outside, Building, Built
<1>8. \A d \in Cpus : Progress(d)'
  <2>1. ASSUME NEW d \in Cpus, d # c PROVE Progress(d)'
    BY <1>1, <1>6, <2>1 DEF Progress, Outside, Building, Built
  <2> QED  BY <1>7, <2>1
<1>9. LeftBuilt'
  <2>1. (\E d \in Cpus : pc[d] = "done") => InMemory'
    <3> SUFFICES ASSUME \E d \in Cpus : pc[d] = "done" PROVE InMemory'
      OBVIOUS
    <3>1. InMemory /\ pc[c] \in Built  BY <1>4 DEF BuildInv, LeftBuilt
    <3>2. buffer[c][w] = "set"  BY <1>1, <1>4, <3>1 DEF Progress, Sees
    <3> QED  BY <1>1, <3>1, <3>2 DEF InMemory
  <2> QED  BY <1>1, <2>1 DEF BuildInv, LeftBuilt
<1>10. InitIsTrue'
  <2>1. CASE buffer'[c] # Nothing  BY <1>1, <1>5, <2>1 DEF InitIsTrue
  <2>2. CASE buffer'[c] = Nothing
    <3>1. \A x \in Words : memory'[x] = Sees(c, x)
      BY <1>2, <2>2 DEF Sees, Nothing
    <3>2. "init" \in Words  BY DEF Words
    <3>3. CASE pc[c] \in Building  BY <1>4, <3>1, <3>2, <3>3 DEF Progress, InitIsTrue
    <3>4. CASE pc[c] \in Built  BY <1>4, <3>1, <3>4 DEF Progress, InitIsTrue, InMemory
    <3> QED  BY <1>4, <3>3, <3>4
  <2> QED  BY <2>1, <2>2
<1> QED  BY <1>1, <1>8, <1>9, <1>10 DEF BuildInv

LEMMA NextBuild == TypeOK /\ LockInv /\ BuildInv /\ [Next]_vars => BuildInv'
<1> SUFFICES ASSUME TypeOK, LockInv, BuildInv, [Next]_vars PROVE BuildInv'
  OBVIOUS
<1>1. ASSUME NEW c \in Cpus, Sevl(c) \/ Wfe(c) \/ Ldaxr(c) \/ Stxr(c) \/ Verify(c)
      PROVE  BuildInv'
  <2>1. PICK from, to :
          /\ Goto(c, from, to)
          /\ \/ /\ from \in {"start", "wfe", "ldaxr", "stxr"}
                /\ to \in {"wfe", "ldaxr", "stxr", "check"}
             \/ from = "end" /\ to \in {"stuck", "sctlr"}
    BY <1>1 DEF Sevl, Wfe, Ldaxr, Stxr, Verify, Goes
  <2>2. UNCHANGED ram /\ UNCHANGED on
    BY <1>1 DEF Sevl, Wfe, Ldaxr, Stxr, Verify, Goes
  <2> QED  BY <2>1, <2>2, QuietStep
<1>2. ASSUME NEW c \in Cpus, Check(c) PROVE BuildInv'  BY <1>2, CheckBuild
<1>3. ASSUME NEW c \in Cpus, Zero(c) \/ ProgramTable0(c) \/ ProgramTable1(c) \/ InitDone(c)
      PROVE  BuildInv'
  BY <1>3, BuildStep
<1>4. ASSUME NEW c \in Cpus, Enable(c) \/ Release(c) PROVE BuildInv'  BY <1>4, EndStep
<1>5. ASSUME NEW c \in Cpus, NEW w \in Words, Drain(c, w) PROVE BuildInv'
  BY <1>5, DrainBuild
<1>6. ASSUME UNCHANGED <<memory, buffer, pc, on>> PROVE BuildInv'
  <2>1. \A d \in Cpus : Progress(d)'  BY <1>6, OthersProgress DEF BuildInv
  <2> QED  BY <1>6, <2>1 DEF BuildInv, LeftBuilt, InitIsTrue, InMemory
<1>7. ASSUME NEW c \in Cpus, LoseMonitor(c) PROVE BuildInv'
  BY <1>6, <1>7 DEF LoseMonitor, ram
<1>8. CASE UNCHANGED vars  BY <1>6, <1>8 DEF vars
<1> QED  BY <1>1, <1>2, <1>3, <1>4, <1>5, <1>7, <1>8 DEF Next, Run

\* IndInv is inductive: which CPU is inside, what each has stored at its step and
\* what memory has of it (mmusetup.S:49-146), whatever the monitors do.
THEOREM InvariantHolds == Spec => []IndInv
<1>1. Init => IndInv  BY InitTypes, InitLock, InitBuild DEF IndInv
<1>2. IndInv /\ [Next]_vars => IndInv'  BY NextTypes, NextLock, NextBuild DEF IndInv
<1> QED  BY <1>1, <1>2, PTL DEF Spec

\* No CPU ever runs on tables half built: from the moment it turns its MMU on it
\* sees both complete, also while another CPU passes through mmu_on after it, and
\* although stores reach memory late and in any order (mmusetup.S:65-142).
THEOREM TablesAreReady == Spec => []TablesReady
<1>1. IndInv => TablesReady
  <2> SUFFICES ASSUME TypeOK, BuildInv, NEW c \in on, NEW w \in Tables
               PROVE  Sees(c, w) = "set"
    BY DEF IndInv, TablesReady
  <2>1. c \in Cpus /\ w \in Words  BY DEF TypeOK, Words
  <2>2. Progress(c) /\ pc[c] \in {"release", "done"}  BY <2>1 DEF BuildInv
  <2>3. CASE pc[c] = "release"  BY <2>1, <2>2, <2>3 DEF Progress, Built
  <2>4. CASE pc[c] = "done"
    <3>1. InMemory  BY <2>1, <2>4 DEF BuildInv, LeftBuilt
    <3>2. buffer[c] = Nothing  BY <2>2, <2>4 DEF Progress, Outside
    <3> QED  BY <2>1, <3>1, <3>2, SeesMemory DEF InMemory
  <2> QED  BY <2>2, <2>3, <2>4
<1> QED  BY <1>1, InvariantHolds, PTL

(***************************************************************************)
(* The tables are built once                                               *)
(***************************************************************************)

\* mmu_init, in memory or on its way, is set by a CPU that is past the building.
SetByBuilder ==
  \A c \in Cpus : Sees(c, "init") = "set" => \E d \in Cpus : pc[d] \in Built \cup {"done"}

BuiltOnceInv == IndInv /\ SetByBuilder

\* The CPU inside is the only one that builds or uses the tables.
LEMMA StageAlone ==
  ASSUME LockInv, NEW c \in Cpus, pc[c] \in Inside
  PROVE  /\ (\E d \in Cpus : pc[d] \in Building) <=> pc[c] \in Building
         /\ (\E d \in Cpus : pc[d] \in Built) <=> pc[c] \in Built
BY DEF LockInv, OneInside, Inside

\* A CPU at the check finds what the others have made of the tables.
LEMMA CheckFindsStage ==
  ASSUME BuiltOnceInv, NEW c \in Cpus, pc[c] = "check"
  PROVE  Stage = IF Sees(c, "init") = "set" THEN "built" ELSE "unbuilt"
<1>1. /\ ~ \E d \in Cpus : pc[d] \in Building
      /\ ~ \E d \in Cpus : pc[d] \in Built
  BY StageAlone DEF BuiltOnceInv, IndInv, Inside, Building, Built
<1>2. CASE Sees(c, "init") = "set"
  BY <1>1, <1>2 DEF BuiltOnceInv, IndInv, SetByBuilder, Stage
<1>3. CASE Sees(c, "init") # "set"
  <2>1. ~InMemory  BY <1>3, InitMeansBuilt DEF BuiltOnceInv, IndInv
  <2>2. ~ \E d \in Cpus : pc[d] = "done"  BY <2>1 DEF BuiltOnceInv, IndInv, BuildInv, LeftBuilt
  <2> QED  BY <1>1, <1>3, <2>2 DEF Stage
<1> QED  BY <1>2, <1>3

\* A step of a CPU that stays outside or enters leaves the tables as they are.
LEMMA OutsideStage ==
  ASSUME TypeOK, NEW c \in Cpus, NEW from, NEW to, Goto(c, from, to),
         from \notin Building \cup Built \cup {"done"},
         to \notin Building \cup Built \cup {"done"}
  PROVE  Stage' = Stage
<1>1. \A d \in Cpus : pc'[d] \in Building <=> pc[d] \in Building
  BY DEF Goto, TypeOK
<1>2. \A d \in Cpus : pc'[d] \in Built \cup {"done"} <=> pc[d] \in Built \cup {"done"}
  BY DEF Goto, TypeOK
<1> QED  BY <1>1, <1>2 DEF Stage

\* A step inside, from the check on.
LEMMA InsideStage ==
  ASSUME BuiltOnceInv, NEW c \in Cpus, NEW from \in Building \cup Built,
         NEW to \in Building \cup Built \cup {"done"}, Goto(c, from, to),
         to \in Building => from \in Building
  PROVE  /\ Stage = IF from \in Building THEN "building" ELSE "built"
         /\ Stage' = IF to \in Building THEN "building" ELSE "built"
<1>1. pc[c] = from /\ pc'[c] = to /\ \A d \in Cpus : d # c => pc'[d] = pc[d]
  BY DEF Goto, BuiltOnceInv, IndInv, TypeOK
<1>2. /\ (\E d \in Cpus : pc[d] \in Building) <=> from \in Building
      /\ (\E d \in Cpus : pc[d] \in Built) <=> from \in Built
  BY <1>1, StageAlone DEF BuiltOnceInv, IndInv, Inside
<1>3. Stage = IF from \in Building THEN "building" ELSE "built"
  BY <1>1, <1>2 DEF Stage
<1>4. \A d \in Cpus : d # c => pc[d] \notin Building
  BY <1>1 DEF BuiltOnceInv, IndInv, LockInv, OneInside, Inside
<1>5. (\E d \in Cpus : pc'[d] \in Building) <=> to \in Building
  BY <1>1, <1>4
<1>6. to \notin Building => \E d \in Cpus : pc'[d] \in Built \cup {"done"}
  BY <1>1
<1> QED  BY <1>3, <1>5, <1>6 DEF Stage

\* Once a CPU is past the building, some CPU is, for ever.
LEMMA PastBuilding ==
  ASSUME TypeOK, [Next]_vars, NEW d \in Cpus, pc[d] \in Built \cup {"done"}
  PROVE  pc'[d] \in Built \cup {"done"}
BY DEF Next, Run, vars, TypeOK, Built, Sevl, Wfe, Ldaxr, Stxr, Check, Zero, ProgramTable0,
       ProgramTable1, InitDone, Verify, Enable, Release, Drain, LoseMonitor, Goes, Goto

\* Who sees mmu_init set had somebody before him see it, or has just set it.
LEMMA InitSeen ==
  ASSUME TypeOK, [Next]_vars, NEW c \in Cpus, Sees(c, "init")' = "set"
  PROVE  (\E d \in Cpus : Sees(d, "init") = "set") \/ pc'[c] = "end"
<1> USE DEF Goes, Goto
<1>1. CASE UNCHANGED ram  BY <1>1 DEF ram, Sees
<1>2. ASSUME NEW d \in Cpus, Zero(d) \/ ProgramTable0(d) \/ ProgramTable1(d)
      PROVE  Sees(c, "init") = "set"
  <2>1. buffer'[c]["init"] = buffer[c]["init"] /\ memory' = memory
    BY <1>2 DEF Zero, ProgramTable0, ProgramTable1, Program, TypeOK, Words, Tables
  <2> QED  BY <2>1 DEF Sees
<1>3. ASSUME NEW d \in Cpus, InitDone(d) PROVE Sees(c, "init") = "set" \/ pc'[c] = "end"
  BY <1>3 DEF InitDone, TypeOK, Sees
<1>4. ASSUME NEW d \in Cpus, NEW w \in Words, Drain(d, w)
      PROVE  Sees(c, "init") = "set" \/ Sees(d, "init") = "set"
  BY <1>4 DEF Drain, TypeOK, Sees, Words
<1>5. ASSUME NEW d \in Cpus, Run(d) PROVE (\E e \in Cpus : Sees(e, "init") = "set") \/ pc'[c] = "end"
  BY <1>1, <1>2, <1>3, <1>5
  DEF Run, Sevl, Wfe, Ldaxr, Stxr, Check, Verify, Enable, Release
<1>6. ASSUME NEW d \in Cpus, LoseMonitor(d) PROVE \E e \in Cpus : Sees(e, "init") = "set"
  BY <1>6 DEF LoseMonitor, ram, Sees
<1>7. CASE UNCHANGED vars  BY <1>1, <1>7 DEF vars, ram
<1> QED  BY <1>4, <1>5, <1>6, <1>7 DEF Next

LEMMA InitBuiltOnce == Init => BuiltOnceInv
<1> SUFFICES ASSUME Init PROVE SetByBuilder
  BY InitTypes, InitLock, InitBuild DEF BuiltOnceInv, IndInv
<1>1. "init" \in Words  BY DEF Words
<1>2. \A c \in Cpus : Sees(c, "init") = "zero"  BY <1>1 DEF Init, Sees, Nothing
<1> QED  BY <1>2 DEF SetByBuilder

LEMMA NextBuiltOnce == BuiltOnceInv /\ [Next]_vars => BuiltOnceInv'
<1> SUFFICES ASSUME BuiltOnceInv, [Next]_vars PROVE SetByBuilder'
  BY NextTypes, NextLock, NextBuild DEF BuiltOnceInv, IndInv
<1> SUFFICES ASSUME NEW c \in Cpus, Sees(c, "init")' = "set"
             PROVE  \E d \in Cpus : pc'[d] \in Built \cup {"done"}
  BY DEF SetByBuilder
<1>1. CASE \E d \in Cpus : Sees(d, "init") = "set"
  <2>1. PICK d \in Cpus : pc[d] \in Built \cup {"done"}
    BY <1>1 DEF BuiltOnceInv, IndInv, SetByBuilder
  <2> QED  BY <2>1, PastBuilding DEF BuiltOnceInv, IndInv
<1>2. CASE pc'[c] = "end"  BY <1>2 DEF Built
<1> QED  BY <1>1, <1>2, InitSeen DEF BuiltOnceInv, IndInv

LEMMA StageStep == BuiltOnceInv /\ [Next]_vars => [Once!Next]_<<Stage, on>>
<1> SUFFICES ASSUME BuiltOnceInv, [Next]_vars PROVE [Once!Next]_<<Stage, on>>
  OBVIOUS
<1> USE DEF Goes
<1>0. TypeOK  BY DEF BuiltOnceInv, IndInv
<1>1. ASSUME NEW c \in Cpus, Sevl(c) \/ Wfe(c) \/ Ldaxr(c) \/ Stxr(c)
      PROVE  UNCHANGED <<Stage, on>>
  <2>1. PICK from \in {"start", "wfe", "ldaxr", "stxr"}, to \in {"wfe", "ldaxr", "stxr", "check"} :
          Goto(c, from, to)
    BY <1>1 DEF Sevl, Wfe, Ldaxr, Stxr
  <2>2. on' = on  BY <1>1 DEF Sevl, Wfe, Ldaxr, Stxr
  <2>3. Stage' = Stage  BY <1>0, <2>1, OutsideStage DEF Building, Built
  <2> QED  BY <2>2, <2>3
<1>2. ASSUME NEW c \in Cpus, Check(c) PROVE Once!Start \/ UNCHANGED <<Stage, on>>
  <2>1. pc[c] = "check" /\ on' = on  BY <1>2 DEF Check, Goto
  <2>2. pc'[c] \in {"zero", "end"} /\ \A d \in Cpus : d # c => pc'[d] = pc[d]
    BY <1>0, <1>2 DEF Check, Goto, TypeOK
  <2>3. \A d \in Cpus : d # c => pc[d] \notin Building
    BY <2>1 DEF BuiltOnceInv, IndInv, LockInv, OneInside, Inside
  <2>4. CASE Sees(c, "init") = "set"
    <3>1. Stage = "built"  BY <2>1, <2>4, CheckFindsStage
    <3>2. pc'[c] = "end"  BY <1>0, <1>2, <2>4 DEF Check, Goto, TypeOK
    <3>3. Stage' = "built"  BY <2>2, <2>3, <3>2 DEF Stage, Building, Built
    <3> QED  BY <2>1, <3>1, <3>3
  <2>5. CASE Sees(c, "init") # "set"
    <3>1. Stage = "unbuilt"  BY <2>1, <2>5, CheckFindsStage
    <3>2. pc'[c] = "zero"  BY <1>0, <1>2, <2>5 DEF Check, Goto, TypeOK
    <3>3. Stage' = "building"  BY <3>2 DEF Stage, Building
    <3> QED  BY <2>1, <3>1, <3>3 DEF Once!Start
  <2> QED  BY <2>4, <2>5
<1>3. ASSUME NEW c \in Cpus, Zero(c) \/ ProgramTable0(c) \/ ProgramTable1(c)
      PROVE  UNCHANGED <<Stage, on>>
  <2>1. PICK from \in Building, to \in Building : Goto(c, from, to)
    BY <1>3 DEF Zero, ProgramTable0, ProgramTable1, Building
  <2>2. on' = on  BY <1>3 DEF Zero, ProgramTable0, ProgramTable1
  <2>3. Stage' = Stage  BY <2>1, InsideStage
  <2> QED  BY <2>2, <2>3
<1>4. ASSUME NEW c \in Cpus, InitDone(c) PROVE Once!Finish
  <2>1. Goto(c, "init", "end") /\ on' = on  BY <1>4 DEF InitDone
  <2>2. Stage = "building" /\ Stage' = "built"  BY <2>1, InsideStage DEF Building, Built
  <2> QED  BY <2>1, <2>2 DEF Once!Finish
<1>5. ASSUME NEW c \in Cpus, Verify(c) \/ Release(c) PROVE UNCHANGED <<Stage, on>>
  <2>1. PICK from \in Built, to \in Built \cup {"done"} : Goto(c, from, to)
    BY <1>5 DEF Verify, Release, Built
  <2>2. on' = on  BY <1>5 DEF Verify, Release
  <2>3. from \notin Building /\ to \notin Building  BY DEF Building, Built
  <2>4. Stage' = Stage  BY <2>1, <2>3, InsideStage
  <2> QED  BY <2>2, <2>4
<1>6. ASSUME NEW c \in Cpus, Enable(c) PROVE Once!TurnOn(c)
  <2>1. Goto(c, "sctlr", "release") /\ on' = on \cup {c}  BY <1>6 DEF Enable
  <2>2. Stage = "built" /\ Stage' = "built"  BY <2>1, InsideStage DEF Building, Built
  <2> QED  BY <2>1, <2>2 DEF Once!TurnOn
<1>7. ASSUME UNCHANGED <<pc, on>> PROVE UNCHANGED <<Stage, on>>
  BY <1>7 DEF Stage
<1>8. ASSUME NEW c \in Cpus, NEW w \in Words, Drain(c, w) PROVE UNCHANGED <<Stage, on>>
  BY <1>7, <1>8 DEF Drain
<1>9. ASSUME NEW c \in Cpus, LoseMonitor(c) PROVE UNCHANGED <<Stage, on>>
  BY <1>7, <1>9 DEF LoseMonitor
<1>10. CASE UNCHANGED vars  BY <1>7, <1>10 DEF vars
<1> QED
  BY <1>1, <1>2, <1>3, <1>4, <1>5, <1>6, <1>8, <1>9, <1>10 DEF Next, Run, Once!Next

\* Any number of CPUs call mmu_on, in any order and with any delay of their
\* stores, and the tables are built once, by one of them, never again, and no
\* MMU is turned on before ("whether init has been run", mmusetup.S:44).
THEOREM BuiltOnceForAll == Spec => Once!Safety
<1>1. Init => Once!Init
  <2> SUFFICES ASSUME Init PROVE Stage = "unbuilt" /\ on = {}
    BY DEF Once!Init
  <2> QED  BY DEF Init, Stage, Building, Built
<1> QED  BY <1>1, InitBuiltOnce, NextBuiltOnce, StageStep, PTL DEF Spec, Once!Safety
=============================================================================
