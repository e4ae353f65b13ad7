-------------------------------- MODULE List --------------------------------
(***************************************************************************)
(* The linked list of src/list.c.  A caller passes the address of its head *)
(* pointer, which listAdd takes for an element whose next it is.           *)
(***************************************************************************)
EXTENDS Chains, SequencesExt

CONSTANTS Elements, ListHead, NoElement

ASSUME ListAssumption ==
  /\ IsFiniteSet(Elements)
  /\ ListHead # NoElement /\ {ListHead, NoElement} \cap Elements = {}

VARIABLE element   \* next and prev of each element; of the head only next is there

Cells == Elements \cup {ListHead}

\* What is on the list, from the first on.
OnList(e) ==
  Chain([c \in Cells |-> e[c].next], e[ListHead].next, Cardinality(Elements), NoElement)

listAdd(new) ==
  LET it == ListHead
      after == element[it].next
      linked == [element EXCEPT ![new] = [next |-> after, prev |-> it], ![it].next = new]
  IN  element' = IF after = NoElement THEN linked ELSE [linked EXCEPT ![after].prev = new]

listRemoveMutant(b) ==
  element' = [element EXCEPT ![element[b].prev].next = element[b].next,
                             ![b] = [next |-> NoElement, prev |-> NoElement]]
listRemove(b) ==
  LET e == element[b]
      kept == IF e.next = NoElement THEN element ELSE [element EXCEPT ![e.next].prev = e.prev]
  IN  element' = [kept EXCEPT ![e.prev].next = e.next,
                              ![b] = [next |-> NoElement, prev |-> NoElement]]

ListInit == element = [c \in Cells |-> [next |-> NoElement, prev |-> NoElement]]
ListNext ==
  \/ \E new \in {c \in Elements : ~Contains(OnList(element), c)} : listAdd(new)
  \/ \E b \in {c \in Elements : Contains(OnList(element), c)} : listRemove(b)
=============================================================================
