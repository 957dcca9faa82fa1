------------------------------- MODULE OrderedList ----------------------------
(***************************************************************************)
(* src/c-project3/cp3-problem2.c: a doubly-linked list in the order of its *)
(* ints, and main, which calls it for each argument and prints it.  An     *)
(* element is malloced and never freed, its string is.  An element that    *)
(* the list has lost is as good as memory that was never used.             *)
(***************************************************************************)
EXTENDS Iteration, Sequences, FiniteSets, SequencesExt

CONSTANTS Keys, Strings, NoString,
          ElementSized,   \* the strings whose copies are as large as an element
          Elements,       \* addresses of elements (a bound)
          NULL,
          Wild            \* a pointer that was left over in memory

ASSUME ListAssumption ==
    /\ Keys \subseteq Int /\ ElementSized \subseteq Strings /\ NoString \notin Strings
    /\ Elements \subseteq Nat /\ IsFiniteSet(Elements)
    /\ NULL \notin Elements /\ Wild \notin Elements /\ NULL # Wild

VARIABLES
    memory,     \* head, the elements, and whether memory of their size was freed
    status,     \* "running", "ended" or, once a Wild pointer is followed, "undefined"
    answer,     \* what the last call returned
    noMemory,   \* malloc returned NULL in it
    asked       \* the int it was called with

listVars == <<memory, status, answer, noMemory, asked>>

Pointer == Elements \cup {NULL, Wild}

Element == [prev : Pointer, next : Pointer, i : Int, v : Strings \cup {NoString}]

Memory == [head : Pointer, heap : [Elements -> Element], freed : BOOLEAN]

Unused == [prev |-> NULL, next |-> NULL, i |-> 0, v |-> NoString]

ListInit ==
    /\ memory = [head |-> NULL, heap |-> [e \in Elements |-> Unused], freed |-> FALSE]
    /\ status = "running"
    /\ answer = 0 /\ noMemory = FALSE /\ asked = 0

-----------------------------------------------------------------------------
(* The list in memory m. *)

After(m) == [e \in Pointer |-> IF e \in Elements THEN m.heap[e].next ELSE e]

\* the elements from the head on, and the pointer at which they end
Chain(m) == Walk(After(m), m.head, Cardinality(Elements) + 1, Elements)
ChainEnd(m) == Iterate(After(m), m.head)[Cardinality(Elements)]

Has(m, i) == \E e \in Range(Chain(m)) : m.heap[e].i = i

\* the element at which the search for i stops
Find(m, i) == LET chain == Chain(m)
              IN  chain[Min({k \in 1 .. Len(chain) : m.heap[chain[k]].i = i})]

SetPrev(heap, e, p) == IF e = NULL THEN heap ELSE [heap EXCEPT ![e].prev = p]
SetNext(heap, e, n) == IF e = NULL THEN heap ELSE [heap EXCEPT ![e].next = n]

\* mutant of Delete: the next element keeps its prev
DeleteKeepsPrev(m, i) ==
    LET e == Find(m, i)
        next == m.heap[e].next
    IN  [head |-> IF m.heap[m.head].i = i THEN next ELSE m.head,
         heap |-> [SetNext(m.heap, m.heap[e].prev, next) EXCEPT ![e] = Unused],
         freed |-> m.freed \/ m.heap[e].v \in ElementSized]

\* delete_element, when it finds i
Delete(m, i) ==
    LET e == Find(m, i)
        next == m.heap[e].next
        prev == m.heap[e].prev
    IN  [head |-> IF m.heap[m.head].i = i THEN next ELSE m.head,
         heap |-> [SetNext(SetPrev(m.heap, next, prev), prev, next) EXCEPT ![e] = Unused],
         freed |-> m.freed \/ m.heap[e].v \in ElementSized]

\* mutant of Leftover: the heap is not new when the program starts
LeftoverAlways(m) == {NULL, Wild}

\* what malloc leaves in an element
Leftover(m) == IF m.freed THEN {NULL, Wild} ELSE {NULL}

\* the places on the list of the elements larger than i
Larger(m, i) == LET chain == Chain(m) IN {k \in 1 .. Len(chain) : m.heap[chain[k]].i > i}

\* mutant of Insert: a new head is not the prev of the old one
InsertHalf(m, e, new) ==
    LET chain == Chain(m)
        larger == Larger(m, new.i)
        after == chain[Min(larger)]
        before == chain[IF larger = {} THEN Len(chain) ELSE Min(larger) - 1]
        put(prev, next) == [m.heap EXCEPT ![e] = [prev |-> prev, next |-> next,
                                                  i |-> new.i, v |-> new.v]]
        list(head, heap) == [head |-> head, heap |-> heap, freed |-> m.freed]
    IN  CASE chain = <<>> -> list(e, put(new.prev, new.next))
          [] chain # <<>> /\ larger = {} ->
               list(m.head, SetNext(put(before, new.next), before, e))
          [] larger # {} /\ 1 \notin larger ->
               list(m.head, SetPrev(SetNext(put(before, after), before, e), after, e))
          [] OTHER -> list(e, put(new.prev, after))

(***************************************************************************)
(* add_element, when it finds no i.  Not every case sets both pointers of  *)
(* the new element.                                                        *)
(***************************************************************************)
Insert(m, e, new) ==
    LET chain == Chain(m)
        larger == Larger(m, new.i)
        after == chain[Min(larger)]
        before == chain[IF larger = {} THEN Len(chain) ELSE Min(larger) - 1]
        put(prev, next) == [m.heap EXCEPT ![e] = [prev |-> prev, next |-> next,
                                                  i |-> new.i, v |-> new.v]]
        list(head, heap) == [head |-> head, heap |-> heap, freed |-> m.freed]
    IN  CASE chain = <<>> -> list(e, put(new.prev, new.next))
          [] chain # <<>> /\ larger = {} ->
               list(m.head, SetNext(put(before, new.next), before, e))
          [] larger # {} /\ 1 \notin larger ->
               list(m.head, SetPrev(SetNext(put(before, after), before, e), after, e))
          [] OTHER -> list(e, SetPrev(put(new.prev, after), after, e))

-----------------------------------------------------------------------------
(* main: each call is followed by print_list, which walks all of the list. *)

\* what comes of the elements in m is anyone's guess
Undefined(m) ==
    /\ status' = "undefined"
    /\ memory' = [memory EXCEPT !.freed = m.freed]
    /\ UNCHANGED <<answer, noMemory>>

Return(m, result, failed) ==
    /\ status = "running"
    /\ IF ChainEnd(m) = NULL
       THEN memory' = m /\ answer' = result /\ noMemory' = failed /\ UNCHANGED status
       ELSE Undefined(m)

\* deleting i follows the prev of its element
Crashes(m, i) == Has(m, i) /\ m.heap[Find(m, i)].prev = Wild

AddNew(m, i, v, result) ==
    \E e \in {Min(Elements \ Range(Chain(m)))}, prev, next \in Leftover(m) :
        Return(Insert(m, e, [prev |-> prev, next |-> next, i |-> i, v |-> v]), result, FALSE)

AddElement(i, v) ==
    /\ status = "running"
    /\ Len(Chain(memory)) < Cardinality(Elements)
    /\ ~Has(memory, i) /\ AddNew(memory, i, v, 0)

\* an element with the same int is deleted first
OverwriteElement(i, v) ==
    /\ status = "running" /\ Has(memory, i)
    /\ IF Crashes(memory, i) THEN Undefined(memory) ELSE AddNew(Delete(memory, i), i, v, 1)

\* malloc returns NULL
AddFails == Return(memory, -1, TRUE)

\* malloc returns NULL in the second call of add_element: its result is ignored
OverwriteFails(i) ==
    /\ status = "running" /\ Has(memory, i)
    /\ IF Crashes(memory, i) THEN Undefined(memory) ELSE Return(Delete(memory, i), 1, TRUE)

DeleteElement(i) ==
    /\ status = "running"
    /\ CASE ~Has(memory, i) -> Return(memory, 0, FALSE)
         [] Has(memory, i) /\ Crashes(memory, i) -> Undefined(memory)
         [] OTHER -> Return(Delete(memory, i), 1, FALSE)

LookupElement(i) ==
    Return(memory, IF Has(memory, i) THEN memory.heap[Find(memory, i)].v ELSE NoString, FALSE)

UnknownCommand ==
    status = "running" /\ status' = "ended" /\ UNCHANGED <<memory, answer, noMemory>>

\* delete_list
DeleteList ==
    LET deleteHead == [m \in Memory |-> IF m.head = NULL THEN m ELSE Delete(m, m.heap[m.head].i)]
    IN  /\ status = "running"
        /\ IF memory.head # NULL /\ Crashes(memory, memory.heap[memory.head].i)
           THEN Undefined(memory)
           ELSE /\ status' = "ended"
                /\ memory' = Iterate(deleteHead, memory)[Cardinality(Elements)]
                /\ UNCHANGED answer /\ noMemory' = FALSE

\* a call of main's, with i
Call(i) ==
    \/ \E v \in Strings : AddElement(i, v) \/ OverwriteElement(i, v)
    \/ AddFails
    \/ OverwriteFails(i)
    \/ DeleteElement(i)
    \/ LookupElement(i)

ListNext ==
    \/ \E i \in Keys : Call(i) /\ asked' = IF status' = "running" THEN i ELSE asked
    \/ UNCHANGED asked /\ (UnknownCommand \/ DeleteList)

-----------------------------------------------------------------------------
(***************************************************************************)
(* After any sequence of calls prev leads back where next leads, the walk  *)
(* along next ends, nothing on it is deleted, and only the head's prev may *)
(* be what memory held before (add_element, delete_element).               *)
(***************************************************************************)
Linked ==
    LET chain == Chain(memory)
    IN  /\ ChainEnd(memory) = NULL
        /\ \A k \in 1 .. Len(chain) :
             LET element == memory.heap[chain[k]]
             IN  /\ element.v # NoString
                 /\ IF k > 1 THEN element.prev = chain[k - 1]
                    ELSE element.prev = NULL \/ (element.prev = Wild /\ memory.freed)

(***************************************************************************)
(* The program follows no pointer that it did not set until it has freed a *)
(* string as large as an element: from then on it may crash.               *)
(***************************************************************************)
CrashesOnlyOnReuse == status = "undefined" => memory.freed

\* print_list
Printed ==
    LET pair(e) == <<memory.heap[e].i, memory.heap[e].v>>
        pairs == [e \in Elements |-> pair(e)]
    IN  [k \in DOMAIN Chain(memory) |-> pairs[Chain(memory)[k]]]

Map == INSTANCE OrderedMap WITH printed <- Printed

(***************************************************************************)
(* As long as it runs, the list is a map that is printed in order, and     *)
(* every call returns what it should; a value is lost only when malloc     *)
(* fails (all of the functions).                                           *)
(***************************************************************************)
ImplementsMap == Map!Spec
==============================================================================
