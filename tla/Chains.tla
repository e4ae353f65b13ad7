------------------------------- MODULE Chains -------------------------------
(* What a chain of pointers leads through. *)
EXTENDS Integers, FiniteSets

\* The cells from p on, when succ leads from each to the next, the last to null, and
\* they are not more than max + 1.
Chain(succ, p, max, null) ==
  LET Nth[n \in 0..max] ==
        IF n = 0 THEN p ELSE IF Nth[n - 1] = null THEN null ELSE succ[Nth[n - 1]]
      count == Cardinality({n \in 0..max : Nth[n] # null})
  IN  [n \in 1..count |-> Nth[n - 1]]
=============================================================================
