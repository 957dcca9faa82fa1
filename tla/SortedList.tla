------------------------------- MODULE SortedList -----------------------------
(***************************************************************************)
(* src/c-project4/cp4-problem3.c: a singly-linked list of ints in order,   *)
(* with duplicates, that only grows.  Nothing is freed, so that malloc     *)
(* returns memory of zeros: the next that no one sets is NULL.             *)
(***************************************************************************)
EXTENDS Iteration, Sequences, SequencesExt

CONSTANTS Ints,
          MaxInts     \* how many arguments there are (a bound)

ASSUME IntsAssumption == Ints \subseteq Int

VARIABLES
    first,      \* list->head; elements are numbered as they are malloced, 0 is NULL
    elements,   \* list->elements
    nodes       \* the elements

sortedVars == <<first, elements, nodes>>

SortedInit ==
    /\ first = 0
    /\ elements = 0
    /\ nodes = <<>>

\* the elements from head on
Nodes ==
    LET next == [e \in 0 .. Len(nodes) |-> IF e = 0 THEN 0 ELSE nodes[e].next]
    IN  Walk(next, first, Len(nodes), 1 .. Len(nodes))

\* the element after which i belongs: those after it are not less
Before(i) ==
    LET chain == Nodes
    IN  chain[Max({k \in 1 .. Len(chain) : \A l \in 2 .. k : nodes[chain[l]].i < i})]

\* mutant of AddInt: the new element does not get the rest of the list
AddIntDropsRest(i) ==
    LET e == Len(nodes) + 1
        new(next) == [i |-> i, next |-> next]
    IN  /\ e <= MaxInts
        /\ elements' = elements + 1
        /\ IF first = 0 \/ nodes[first].i > i
           THEN first' = e /\ nodes' = Append(nodes, new(first))
           ELSE /\ nodes' = Append([nodes EXCEPT ![Before(i)].next = e], new(0))
                /\ UNCHANGED first

\* add_element
AddInt(i) ==
    LET e == Len(nodes) + 1
        new(next) == [i |-> i, next |-> next]
    IN  /\ e <= MaxInts
        /\ elements' = elements + 1
        /\ IF first = 0 \/ nodes[first].i > i
           THEN first' = e /\ nodes' = Append(nodes, new(first))
           ELSE /\ nodes' = Append([nodes EXCEPT ![Before(i)].next = e],
                                   new(nodes[Before(i)].next))
                /\ UNCHANGED first

SortedNext == \E i \in Ints : AddInt(i)

-----------------------------------------------------------------------------
Values == LET chain == Nodes IN [k \in 1 .. Len(chain) |-> nodes[chain[k]].i]

(***************************************************************************)
(* Adding an int loses nothing that was on the list, adds it once, and     *)
(* leaves the list in ascending order and as long as size says             *)
(* (add_element).                                                          *)
(***************************************************************************)
Ascends(values) == \A k \in 2 .. Len(values) : values[k - 1] <= values[k]

AddsOne ==
    /\ Ascends(Values') /\ Len(Values') = elements'
    /\ \E i \in Ints : \E k \in DOMAIN Values' : Values'[k] = i /\ RemoveAt(Values', k) = Values

StaysSorted == [][AddsOne]_sortedVars
==============================================================================
