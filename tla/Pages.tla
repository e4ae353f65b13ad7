------------------------------- MODULE Pages -------------------------------
(***************************************************************************)
(* The allocator of physical pages (src/page.c): one doubly linked list of *)
(* free pages, which starts at the first page for ever, and the lists of   *)
(* pages that callers hold.  A call is one step.                           *)
(***************************************************************************)
EXTENDS Chains, SequencesExt

CONSTANT NUMBERPAGES     \* 128

ASSUME PagesAssumption == NUMBERPAGES \in Nat \ {0}

NULL == -1
PageSet == 0..(NUMBERPAGES - 1)
free_pages_list == 0

VARIABLES
  next, prev,  \* of each page
  lists,       \* what allocate_physical_pages has returned and not got back
  wild         \* a null pointer has been followed

pageVars == <<next, prev, lists, wild>>
links == [next |-> next, prev |-> prev]

\* The pages from p on.
Walk(m, p) == Chain(m.next, p, NUMBERPAGES, NULL)
LastOf(m, head) == Last(Walk(m, head))

ppageAddMutant(m, head, new) == [m EXCEPT !.next[LastOf(m, head)] = new]
ppageAdd(m, head, new) ==
  [m EXCEPT !.next[LastOf(m, head)] = new, !.prev[new] = LastOf(m, head)]

\* The page before the last is found by the last one's prev: the head alone has none.
CanRemove(m, head) == m.prev[LastOf(m, head)] # NULL
ppageRemoveMutant(m, head) == [m EXCEPT !.prev[LastOf(m, head)] = NULL]
ppageRemove(m, head) ==
  LET it == m.prev[LastOf(m, head)]
  IN  [m EXCEPT !.prev[m.next[it]] = NULL, !.next[it] = NULL]

\* Every page but the first is added to the list that starts there.
init_pfa_list ==
  LET Built[n \in PageSet] ==
        IF n = 0 THEN [next |-> [p \in PageSet |-> NULL], prev |-> [p \in PageSet |-> NULL]]
        ELSE ppageAdd(Built[n - 1], free_pages_list, n)
  IN  Built[NUMBERPAGES - 1]

Becomes(m) == next' = m.next /\ prev' = m.prev

free_physical_pages(p) ==
  /\ Becomes(ppageAdd(links, free_pages_list, p))
  /\ lists' = lists \ {p} /\ UNCHANGED wild

\* The memory after n removals, the pages removed, and whether it came to that.
Removed(n) ==
  LET Loop[k \in 0..n] ==
        IF k = 0 THEN [m |-> links, pgs |-> <<>>, wild |-> FALSE]
        ELSE LET s == Loop[k - 1]
             IN  IF s.wild \/ ~CanRemove(s.m, free_pages_list) THEN [s EXCEPT !.wild = TRUE]
                 ELSE [s EXCEPT !.m = ppageRemove(@, free_pages_list),
                                !.pgs = Append(@, LastOf(s.m, free_pages_list))]
  IN  Loop[n]

\* The pages are taken from the end of the free list and linked in that order.
allocate_physical_pages(npages) ==
  LET s == Removed(npages)
      Linked[j \in 1..npages] ==
        IF j = 1 THEN s.m ELSE ppageAdd(Linked[j - 1], s.pgs[1], s.pgs[j])
  IN  \/ /\ ~s.wild
         /\ Becomes(Linked[npages])
         /\ lists' = lists \cup {s.pgs[1]} /\ UNCHANGED wild
      \/ s.wild /\ wild' = TRUE /\ UNCHANGED <<next, prev, lists>>

PagesInit ==
  /\ next = init_pfa_list.next /\ prev = init_pfa_list.prev
  /\ lists = {} /\ wild = FALSE

\* A caller frees a list it holds, and once.
PagesNext ==
  /\ ~wild
  /\ \/ \E npages \in 1..NUMBERPAGES : allocate_physical_pages(npages)
     \/ \E p \in lists : free_physical_pages(p)
=============================================================================
