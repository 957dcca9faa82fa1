-------------------------------- MODULE Exercises -----------------------------
(***************************************************************************)
(* The programs of the exercises, of which one at a time is run.           *)
(***************************************************************************)
EXTENDS OrderedList, SortedList, Employees, NumberNames

VARIABLE program

vars == <<program, listVars, sortedVars, employeesVars, namesVars>>

Init ==
    /\ program \in {"ordered list", "sorted list", "employees", "names"}
    /\ ListInit /\ SortedInit /\ EmployeesInit /\ NamesInit

Next ==
    /\ UNCHANGED program
    /\ \/ /\ program = "ordered list" /\ ListNext
          /\ UNCHANGED <<sortedVars, employeesVars, namesVars>>
       \/ /\ program = "sorted list" /\ SortedNext
          /\ UNCHANGED <<listVars, employeesVars, namesVars>>
       \/ /\ program = "employees" /\ EmployeesNext
          /\ UNCHANGED <<listVars, sortedVars, namesVars>>
       \/ /\ program = "names" /\ \E a \in Arguments : PrintName(a)
          /\ UNCHANGED <<listVars, sortedVars, employeesVars>>

Spec == Init /\ [][Next]_vars
==============================================================================
