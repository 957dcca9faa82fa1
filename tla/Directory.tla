-------------------------------- MODULE Directory -----------------------------
(***************************************************************************)
(* What the comments on the functions of src/c-project2/cp2-problem2.c     *)
(* promise: a set of at most Room employees, no two with the same name or  *)
(* the same id.                                                            *)
(***************************************************************************)
EXTENDS Integers, FiniteSets

CONSTANTS People,   \* whom add_employee may be asked to add
          Room

VARIABLES
    staff,      \* the employees
    request,    \* the last call
    returned    \* what it returned

directoryVars == <<staff, request, returned>>

SameName(p) == \E q \in staff : q.name = p.name
SameId(p) == \E q \in staff : q.id = p.id

Init == staff = {} /\ request = <<>> /\ returned = 0

Hire(p) ==
    /\ Cardinality(staff) < Room /\ ~SameName(p) /\ ~SameId(p)
    /\ staff' = staff \cup {p}
    /\ returned' = 0

\* -2 for an identical id "but not an identical name"
Refuse(p) ==
    /\ \/ returned' = -1 /\ SameName(p) /\ Cardinality(staff) < Room
       \/ returned' = -2 /\ SameId(p) /\ ~SameName(p) /\ Cardinality(staff) < Room
       \/ returned' = -3 /\ Cardinality(staff) = Room
    /\ UNCHANGED staff

Dismiss(id) ==
    /\ staff' = {q \in staff : q.id # id}
    /\ returned' = IF staff' = staff THEN -1 ELSE 0

\* the salary as it is: >= 0, and never the -1 of an employee who is not there
Ask(id) ==
    /\ \/ \E q \in staff : q.id = id /\ returned' = q.salary
       \/ (\A q \in staff : q.id # id) /\ returned' = -1
    /\ UNCHANGED staff

Next ==
    \E p \in People :
        \/ request' = <<"add_employee", p>> /\ (Hire(p) \/ Refuse(p))
        \/ request' = <<"remove_employee", p.id>> /\ Dismiss(p.id)
        \/ request' = <<"get_salary", p.id>> /\ Ask(p.id)

Spec == Init /\ [][Next]_directoryVars
==============================================================================
