-------------------------------- MODULE Employees -----------------------------
(***************************************************************************)
(* src/c-project2/cp2-problem2.c: employees in an array, and how many of   *)
(* its slots are in use.  Locations are left out.  What is in a slot after *)
(* the last one is outside of the array.                                   *)
(***************************************************************************)
EXTENDS Integers, FiniteSets, FiniteSetsExt

CONSTANTS Names, Ids, Salaries,
          Slots,    \* size_of_employee_list (a bound: 10 in the code)
          Width,    \* bits of an int (a bound: 32 in the code)
          Other,    \* what no one wrote as an employee
          TwoAtOnce \* whether someone may be asked for with the id of one employee
                    \* and the name of a later one

ASSUME EmployeesAssumption ==
    /\ Names # {} /\ Salaries # {}
    /\ Slots \in Nat \ {0} /\ Width \in Nat \ {0}
    /\ Salaries \subseteq 0 .. 2^Width - 1
    /\ TwoAtOnce \in BOOLEAN

VARIABLES
    employees,
    number_of_employees,
    request,    \* the last call
    returned    \* what it returned

employeesVars == <<employees, number_of_employees, request, returned>>

Person == [name : Names, id : Ids, salary : Salaries]

EmployeesInit ==
    /\ employees = [k \in 0 .. Slots - 1 |-> Other]
    /\ number_of_employees = 0
    /\ request = <<>> /\ returned = 0

InUse == 0 .. number_of_employees - 1

\* an unsigned int as an int
ToInt(n) == IF n < 2^(Width - 1) THEN n ELSE n - 2^Width

\* mutant of AddEmployee: the last slot is taken for one that is in use
AddEmployeeTooLate(p) ==
    LET clashes == {k \in InUse : employees[k].name = p.name \/ employees[k].id = p.id}
    IN  /\ returned' = CASE clashes # {} ->
                              IF employees[Min(clashes)].name = p.name THEN -1 ELSE -2
                         [] clashes = {} /\ number_of_employees = Slots -> -3
                         [] OTHER -> 0
        /\ IF returned' = 0
           THEN /\ employees' = [employees EXCEPT ![number_of_employees] = p]
                /\ number_of_employees' = number_of_employees + 1
           ELSE UNCHANGED <<employees, number_of_employees>>

\* the first slot with the name or the id decides which of them is reported
AddEmployee(p) ==
    LET clashes == {k \in InUse : employees[k].name = p.name \/ employees[k].id = p.id}
    IN  /\ returned' = CASE number_of_employees = Slots -> -3
                         [] number_of_employees < Slots /\ clashes # {} ->
                              IF employees[Min(clashes)].name = p.name THEN -1 ELSE -2
                         [] OTHER -> 0
        /\ IF returned' = 0
           THEN /\ employees' = [employees EXCEPT ![number_of_employees] = p]
                /\ number_of_employees' = number_of_employees + 1
           ELSE UNCHANGED <<employees, number_of_employees>>

With(id) == {k \in InUse : employees[k].id = id}

\* mutant of RemoveEmployee: the slots after it are moved from the one after the next
RemoveEmployeeShiftsTwo(id) ==
    IF With(id) = {} THEN returned' = -1 /\ UNCHANGED <<employees, number_of_employees>>
    ELSE /\ employees' = [k \in DOMAIN employees |->
                            IF k \in Min(With(id)) .. number_of_employees - 1
                            THEN IF k + 2 < Slots THEN employees[k + 2] ELSE Other
                            ELSE employees[k]]
         /\ number_of_employees' = number_of_employees - 1
         /\ returned' = 0

\* all slots in use after it move down, and so does the one after them
RemoveEmployee(id) ==
    IF With(id) = {} THEN returned' = -1 /\ UNCHANGED <<employees, number_of_employees>>
    ELSE /\ employees' = [k \in DOMAIN employees |->
                            IF k \in Min(With(id)) .. number_of_employees - 1
                            THEN IF k + 1 < Slots THEN employees[k + 1] ELSE Other
                            ELSE employees[k]]
         /\ number_of_employees' = number_of_employees - 1
         /\ returned' = 0

GetSalary(id) ==
    /\ returned' = IF With(id) = {} THEN -1 ELSE ToInt(employees[Min(With(id))].salary)
    /\ UNCHANGED <<employees, number_of_employees>>

ClashesWithTwo(p) ==
    \E k, l \in InUse : k < l /\ employees[k].id = p.id /\ employees[l].name = p.name

EmployeesNext ==
    \/ \E p \in Person : /\ TwoAtOnce \/ ~ClashesWithTwo(p)
                         /\ AddEmployee(p) /\ request' = <<"add_employee", p>>
    \/ \E id \in Ids : \/ RemoveEmployee(id) /\ request' = <<"remove_employee", id>>
                       \/ GetSalary(id) /\ request' = <<"get_salary", id>>

-----------------------------------------------------------------------------
(***************************************************************************)
(* However many are added and removed, the slots in use hold employees     *)
(* that were added, none twice by name or id: remove_employee, which reads *)
(* beyond the array when it is full, moves nothing else into use.          *)
(***************************************************************************)
NoneTwice ==
    /\ number_of_employees \in 0 .. Slots
    /\ \A k \in InUse : employees[k] \in Person
    /\ \A k, l \in InUse :
         employees[k].name = employees[l].name \/ employees[k].id = employees[l].id => k = l

\* every salary is an int
SalariesFit == \A salary \in Salaries : salary < 2^(Width - 1)

Staff == INSTANCE Directory
         WITH staff <- {employees[k] : k \in InUse}, People <- Person, Room <- Slots

(***************************************************************************)
(* The array is a set of employees, and every call returns what the        *)
(* comments on the functions say (add_employee, remove_employee,           *)
(* get_salary).  It is not so of someone who ClashesWithTwo, nor of        *)
(* salaries that do not fit.                                               *)
(***************************************************************************)
ImplementsDirectory == Staff!Spec
==============================================================================
