---------------------------- MODULE OneTimeInit ----------------------------
(***************************************************************************)
(* What mmu_on promises the CPUs that call it: the tables are built once,  *)
(* by one of them, nobody builds them again, and no CPU runs on them       *)
(* before they are complete.                                               *)
(***************************************************************************)
CONSTANT Cpus

VARIABLES
  stage,   \* of the translation tables
  on       \* CPUs whose MMU is on

Start == stage = "unbuilt" /\ stage' = "building" /\ UNCHANGED on
Finish == stage = "building" /\ stage' = "built" /\ UNCHANGED on
TurnOn(c) == stage = "built" /\ on' = on \cup {c} /\ UNCHANGED stage

Init == stage = "unbuilt" /\ on = {}

Next == Start \/ Finish \/ \E c \in Cpus : TurnOn(c)

Safety == Init /\ [][Next]_<<stage, on>>

\* What is begun is finished; who comes to use it is the callers' affair.
Spec == Safety /\ WF_<<stage, on>>(Finish)
=============================================================================
