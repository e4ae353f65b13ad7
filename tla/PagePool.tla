------------------------------ MODULE PagePool ------------------------------
(***************************************************************************)
(* What the page allocator promises: pages are free or on one list held,   *)
(* and all but one of the free ones can be had.                            *)
(***************************************************************************)
CONSTANTS Pages, Kept

VARIABLES free, held

Allocate ==
  \E s \in SUBSET (free \ {Kept}) :
    /\ s # {}
    /\ free' = free \ s /\ held' = held \cup {s}
Free == \E s \in held : held' = held \ {s} /\ free' = free \cup s

Spec == free = Pages /\ held = {} /\ [][Allocate \/ Free]_<<free, held>>
=============================================================================
