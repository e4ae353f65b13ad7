-------------------------- MODULE MemoryProperties --------------------------
(* The page allocator and the linked list side by side, each with callers   *)
(* of its own, and what they promise.                                       *)
EXTENDS Pages, List

memoryVars == <<pageVars, element>>
MemoryInit == PagesInit /\ ListInit
MemoryNext ==
  \/ PagesNext /\ UNCHANGED element
  \/ ListNext /\ UNCHANGED pageVars
MemorySpec == MemoryInit /\ [][MemoryNext]_memoryVars

On(p) == ToSet(Walk(links, p))
Pool == INSTANCE PagePool WITH
  Pages <- PageSet, Kept <- free_pages_list, free <- On(free_pages_list),
  held <- {On(p) : p \in lists}

\* The chains of next that start at the free list and at the lists held share the
\* pages out, and a call moves them as a pool would: no page is lost or held twice.
ImplementsPagePool == Pool!Spec

\* Every page knows the one before it: prev, which ppageRemove goes back by, is
\* the inverse of next, although ppageAdd of a list sets it for the first page only.
BackwardsToo ==
  /\ \A p \in PageSet : next[p] # NULL => prev[next[p]] = p
  /\ \A p \in lists \cup {free_pages_list} : prev[p] = NULL

\* listAdd puts an element first and listRemove takes one out; the others stay in
\* their order, and what is off the list has neither next nor prev.
ListKeepsOrder ==
  [][LET old == OnList(element)  new == OnList(element')
     IN  /\ \/ \E e \in Elements : new = <<e>> \o old
            \/ \E n \in DOMAIN old : new = RemoveAt(old, n)
         /\ \A e \in Elements \ ToSet(new) :
              element'[e] = [next |-> NoElement, prev |-> NoElement]]_element
=============================================================================
