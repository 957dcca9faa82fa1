---------------------------- MODULE ExercisesProofs --------------------------
(***************************************************************************)
(* Theorems about the programs of the exercises, for every list of names,  *)
(* ids and salaries, every size of the array and every width of an int,    *)
(* for all lists of ints, however long they grow, and for the English name *)
(* of every int.                                                           *)
(***************************************************************************)
EXTENDS Exercises, IterationProofs, SequenceTheorems

-----------------------------------------------------------------------------
(* The employees. *)

LEMMA MinIsLeast ==
    ASSUME NEW S, S \subseteq Nat, S # {}
    PROVE  Min(S) \in S /\ \A x \in S : Min(S) <= x
<1>1. \E x \in S : \A y \in S : x <= y
  BY LeastExists
<1> QED BY <1>1 DEF Min

EmployeesInv == DOMAIN employees = 0 .. Slots - 1 /\ NoneTwice

Team == {employees[k] : k \in InUse}

(* Directory counts them with its own instance of Cardinality. *)
LEMMA SameCardinality == ASSUME NEW S PROVE Staff!Cardinality(S) = Cardinality(S)
BY Zenon DEF Cardinality, Staff!Cardinality

LEMMA TeamSize ==
    EmployeesInv => Staff!Cardinality({employees[k] : k \in InUse}) = number_of_employees
<1> SUFFICES ASSUME EmployeesInv PROVE Cardinality(Team) = number_of_employees
  BY SameCardinality, Zenon DEF Team
<1>1. number_of_employees \in Nat
  BY EmployeesAssumption DEF EmployeesInv, NoneTwice
<1>2. IsFiniteSet(InUse) /\ Cardinality(InUse) = number_of_employees
  BY <1>1, FS_Interval DEF InUse
<1> DEFINE f == [k \in InUse |-> employees[k]]
<1>3. f \in Bijection(InUse, Team)
  <2>1. \A k, l \in InUse : employees[k] = employees[l] => k = l
    BY DEF EmployeesInv, NoneTwice
  <2> QED BY <2>1 DEF Bijection, Injection, Surjection, IsInjective, Team
<1>4. ExistsBijection(InUse, Team)
  BY <1>3 DEF ExistsBijection
<1> QED BY <1>2, <1>4, FS_Bijection

LEMMA EmployeesInitHolds == EmployeesInit => EmployeesInv /\ Staff!Init
<1> SUFFICES ASSUME EmployeesInit PROVE EmployeesInv /\ Staff!Init
  OBVIOUS
<1>1. InUse = {}
  BY DEF InUse, EmployeesInit
<1> QED BY <1>1, EmployeesAssumption
        DEF EmployeesInit, EmployeesInv, NoneTwice, Staff!Init

LEMMA NoOneLeaves ==
    ASSUME EmployeesInv, UNCHANGED <<employees, number_of_employees>>
    PROVE  EmployeesInv' /\ Team' = Team
BY DEF EmployeesInv, NoneTwice, InUse, Team

(* A new employee takes the slot after the last one, unless there is a reason not to; it is
   the reason that is returned, if they do not clash with two. *)
LEMMA AddEmployeeHires ==
    ASSUME EmployeesInv, NEW p \in Person, AddEmployee(p)
    PROVE  EmployeesInv' /\ (ClashesWithTwo(p) \/ Staff!Hire(p) \/ Staff!Refuse(p))
<1> DEFINE clashes == {k \in InUse : employees[k].name = p.name \/ employees[k].id = p.id}
<1>1. /\ number_of_employees \in 0 .. Slots /\ Slots \in Nat
      /\ InUse \subseteq Nat
  BY EmployeesAssumption DEF EmployeesInv, NoneTwice, InUse
<1>2. CASE number_of_employees = Slots
  <2>1. returned' = -3 /\ UNCHANGED <<employees, number_of_employees>>
    BY <1>1, <1>2 DEF AddEmployee
  <2>2. Staff!Refuse(p)
    BY <1>2, <2>1, TeamSize, NoOneLeaves DEF Staff!Refuse, Team
  <2> QED BY <2>1, <2>2, NoOneLeaves
<1>3. CASE number_of_employees < Slots /\ clashes # {}
  <2>1. Min(clashes) \in clashes
    BY <1>1, <1>3, MinIsLeast
  <2>2. /\ returned' = IF employees[Min(clashes)].name = p.name THEN -1 ELSE -2
        /\ UNCHANGED <<employees, number_of_employees>>
    BY <1>1, <1>3 DEF AddEmployee
  <2>3. EmployeesInv' /\ Team' = Team /\ Staff!Cardinality(Team) < Slots
    BY <1>3, <2>2, TeamSize, NoOneLeaves DEF Team
  <2>4. CASE employees[Min(clashes)].name = p.name
    <3>1. returned' = -1 /\ Staff!SameName(p)
      BY <2>1, <2>2, <2>4 DEF Staff!SameName
    <3>2. Staff!Refuse(p)
      BY <2>3, <3>1 DEF Staff!Refuse, Team
    <3> QED BY <2>3, <3>2
  <2>5. CASE employees[Min(clashes)].name # p.name
    <3>1. returned' = -2 /\ employees[Min(clashes)].id = p.id
      BY <2>1, <2>2, <2>5
    <3>2. CASE \E l \in InUse : employees[l].name = p.name
      <4>1. PICK l \in InUse : employees[l].name = p.name
        BY <3>2
      <4>2. Min(clashes) <= l /\ Min(clashes) # l
        BY <1>1, <1>3, <2>5, <4>1, MinIsLeast
      <4>3. PICK k \in InUse : k = Min(clashes)
        BY <2>1
      <4>4. k \in Nat /\ l \in Nat /\ k <= l /\ k # l
        BY <1>1, <4>2, <4>3
      <4>5. ClashesWithTwo(p)
        BY <3>1, <4>1, <4>3, <4>4 DEF ClashesWithTwo
      <4> QED BY <2>3, <4>5
    <3>3. CASE ~\E l \in InUse : employees[l].name = p.name
      <4>1. Staff!SameId(p) /\ ~Staff!SameName(p)
        BY <2>1, <3>1, <3>3 DEF Staff!SameId, Staff!SameName
      <4>2. Staff!Refuse(p)
        BY <2>3, <3>1, <4>1 DEF Staff!Refuse, Team
      <4> QED BY <2>3, <4>2
    <3> QED BY <3>2, <3>3
  <2> QED BY <2>4, <2>5
<1>4. CASE number_of_employees < Slots /\ clashes = {}
  <2> DEFINE n == number_of_employees
  <2>1. /\ returned' = 0 /\ number_of_employees' = n + 1
        /\ employees' = [employees EXCEPT ![n] = p]
    BY <1>1, <1>4 DEF AddEmployee
  <2>2. n \in 0 .. Slots - 1 /\ InUse = 0 .. n - 1 /\ InUse' = InUse \cup {n} /\ n \notin InUse
    BY <1>1, <1>4, <2>1 DEF InUse
  <2>3. employees'[n] = p /\ \A k \in InUse : employees'[k] = employees[k]
    BY <1>1, <2>1, <2>2 DEF EmployeesInv
  <2>4. \A k \in InUse : employees[k].name # p.name /\ employees[k].id # p.id
    BY <1>4
  <2>5. EmployeesInv'
    BY <1>1, <2>1, <2>2, <2>3, <2>4 DEF EmployeesInv, NoneTwice
  <2>6. Team' = Team \cup {p} /\ ~Staff!SameName(p) /\ ~Staff!SameId(p)
    BY <2>2, <2>3, <2>4 DEF Team, Staff!SameName, Staff!SameId
  <2>7. Staff!Hire(p)
    BY <1>4, <2>1, <2>6, TeamSize DEF Staff!Hire, Team
  <2> QED BY <2>5, <2>7
<1> QED BY <1>1, <1>2, <1>3, <1>4

(* The employees after the one that leaves move down by one slot. *)
LEMMA RemoveEmployeeDismisses ==
    ASSUME EmployeesInv, NEW id \in Ids, RemoveEmployee(id)
    PROVE  EmployeesInv' /\ Staff!Dismiss(id)
<1>1. /\ number_of_employees \in 0 .. Slots /\ Slots \in Nat
      /\ InUse = 0 .. number_of_employees - 1 /\ With(id) \subseteq Nat
  BY EmployeesAssumption DEF EmployeesInv, NoneTwice, InUse, With
<1>2. CASE With(id) = {}
  <2>1. returned' = -1 /\ UNCHANGED <<employees, number_of_employees>>
    BY <1>2 DEF RemoveEmployee
  <2>2. {q \in Team : q.id # id} = Team
    BY <1>2 DEF Team, With
  <2> QED BY <2>1, <2>2 DEF EmployeesInv, NoneTwice, InUse, Team, Staff!Dismiss
<1>3. CASE With(id) # {}
  <2> DEFINE n == number_of_employees
  <2>1. PICK m \in InUse : m = Min(With(id)) /\ employees[m].id = id
    BY <1>1, <1>3, MinIsLeast DEF With
  <2>2. /\ returned' = 0 /\ number_of_employees' = n - 1
        /\ employees' = [k \in DOMAIN employees |->
                            IF k \in m .. n - 1
                            THEN IF k + 1 < Slots THEN employees[k + 1] ELSE Other
                            ELSE employees[k]]
    BY <1>3, <2>1 DEF RemoveEmployee
  <2>3. InUse' = 0 .. n - 2 /\ n - 1 \in InUse /\ m \in 0 .. n - 1
    BY <1>1, <2>1, <2>2 DEF InUse
  <2> DEFINE from(k) == IF k < m THEN k ELSE k + 1
  <2>4. \A k \in InUse' : from(k) \in InUse /\ from(k) # m
    BY <1>1, <2>1, <2>3
  <2>5. \A k \in InUse' : employees'[k] = employees[from(k)]
    <3> SUFFICES ASSUME NEW k \in 0 .. n - 2 PROVE employees'[k] = employees[from(k)]
      BY <2>3
    <3>1. k \in DOMAIN employees /\ k + 1 < Slots
      BY <1>1 DEF EmployeesInv
    <3> QED BY <1>1, <2>2, <2>3, <3>1
  <2>6. \A k, l \in InUse' : from(k) = from(l) => k = l
    BY <2>3
  <2>7. \A l \in InUse : l # m => \E k \in InUse' : from(k) = l
    <3> SUFFICES ASSUME NEW l \in InUse, l # m PROVE \E k \in 0 .. n - 2 : from(k) = l
      BY <2>3
    <3>1. CASE l < m
      BY <1>1, <2>3, <3>1
    <3>2. CASE l > m
      <4>1. l - 1 \in 0 .. n - 2 /\ from(l - 1) = l
        BY <1>1, <2>3, <3>2
      <4> QED BY <4>1
    <3> QED BY <1>1, <2>3, <3>1, <3>2
  <2>8. EmployeesInv'
    <3>1. DOMAIN employees' = 0 .. Slots - 1 /\ number_of_employees' \in 0 .. Slots
      BY <1>1, <2>2, <2>3 DEF EmployeesInv
    <3>2. \A k \in InUse' : employees'[k] \in Person
      BY <2>4, <2>5 DEF EmployeesInv, NoneTwice
    <3>3. ASSUME NEW k \in InUse', NEW l \in InUse',
                 \/ employees'[k].name = employees'[l].name
                 \/ employees'[k].id = employees'[l].id
          PROVE  k = l
      <4> HIDE DEF from
      <4>1. from(k) = from(l)
        BY <2>4, <2>5, <3>3 DEF EmployeesInv, NoneTwice
      <4> QED BY <2>6, <4>1
    <3> QED BY <3>1, <3>2, <3>3 DEF EmployeesInv, NoneTwice
  <2>9. Team' = {q \in Team : q.id # id}
    <3> HIDE DEF from
    <3>1. \A k \in InUse : employees[k].id = id => k = m
      BY <2>1 DEF EmployeesInv, NoneTwice
    <3>2. \A k \in InUse' : employees'[k] \in Team /\ employees'[k].id # id
      BY <2>4, <2>5, <3>1 DEF Team
    <3>3. \A l \in InUse : employees[l].id # id => employees[l] \in Team'
      BY <2>1, <2>5, <2>7 DEF Team
    <3> QED BY <3>2, <3>3 DEF Team
  <2>10. Team' # Team
    BY <2>1, <2>9 DEF Team
  <2> QED BY <2>2, <2>8, <2>9, <2>10 DEF Staff!Dismiss, Team
<1> QED BY <1>2, <1>3

(* Below 2^(Width - 1) a salary is told as it is. *)
LEMMA GetSalaryAsks ==
    ASSUME EmployeesInv, SalariesFit, NEW id \in Ids, GetSalary(id)
    PROVE  EmployeesInv' /\ Staff!Ask(id)
<1>1. EmployeesInv' /\ Team' = Team
  BY NoOneLeaves DEF GetSalary
<1>2. CASE With(id) = {}
  <2>1. returned' = -1 /\ \A q \in Team : q.id # id
    BY <1>2 DEF GetSalary, With, Team
  <2> QED BY <1>1, <2>1 DEF Staff!Ask, Team
<1>3. CASE With(id) # {}
  <2>1. Min(With(id)) \in With(id)
    <3>1. With(id) \subseteq Nat
      BY DEF With, InUse
    <3> QED BY <1>3, <3>1, MinIsLeast
  <2>2. returned' = ToInt(employees[Min(With(id))].salary)
    BY <1>3 DEF GetSalary
  <2>3. PICK k \in InUse : k = Min(With(id)) /\ employees[k].id = id
    BY <2>1 DEF With
  <2>4. ToInt(employees[k].salary) = employees[k].salary
    <3>1. employees[k].salary \in Salaries
      BY DEF EmployeesInv, NoneTwice, Person
    <3>2. employees[k].salary < 2^(Width - 1)
      BY <3>1 DEF SalariesFit
    <3> QED BY <3>2 DEF ToInt
  <2>5. \E q \in Team : q.id = id /\ returned' = q.salary
    BY <2>2, <2>3, <2>4 DEF Team
  <2> QED BY <1>1, <2>5 DEF Staff!Ask, Team
<1> QED BY <1>2, <1>3

LEMMA EmployeesStep ==
    ASSUME EmployeesInv, EmployeesNext
    PROVE  EmployeesInv' /\ (~TwoAtOnce /\ SalariesFit => Staff!Next)
<1>1. \A id \in Ids : \E p \in Person : p.id = id
  <2> SUFFICES ASSUME NEW id \in Ids PROVE \E p \in Person : p.id = id
    OBVIOUS
  <2>1. PICK name \in Names, salary \in Salaries : TRUE
    BY EmployeesAssumption
  <2>2. [name |-> name, id |-> id, salary |-> salary] \in Person
    BY DEF Person
  <2> QED BY <2>2
<1>2. ASSUME NEW p \in Person, TwoAtOnce \/ ~ClashesWithTwo(p), AddEmployee(p),
             request' = <<"add_employee", p>>
      PROVE  EmployeesInv' /\ (~TwoAtOnce => Staff!Next)
  BY <1>2, AddEmployeeHires DEF Staff!Next
<1>3. ASSUME NEW id \in Ids, RemoveEmployee(id), request' = <<"remove_employee", id>>
      PROVE  EmployeesInv' /\ Staff!Next
  BY <1>1, <1>3, RemoveEmployeeDismisses DEF Staff!Next
<1>4. ASSUME NEW id \in Ids, GetSalary(id), request' = <<"get_salary", id>>
      PROVE  EmployeesInv' /\ (SalariesFit => Staff!Next)
  <2>1. EmployeesInv'
    BY <1>4, NoOneLeaves DEF GetSalary
  <2>2. ASSUME SalariesFit PROVE Staff!Next
    BY <1>1, <1>4, <2>2, GetSalaryAsks DEF Staff!Next
  <2> QED BY <2>1, <2>2
<1> QED BY <1>2, <1>3, <1>4 DEF EmployeesNext

LEMMA EmployeesHold == Spec => []EmployeesInv
<1>1. Init => EmployeesInv
  BY EmployeesInitHolds DEF Init
<1>2. EmployeesInv /\ [Next]_vars => EmployeesInv'
  BY EmployeesStep, NoOneLeaves DEF Next, vars, employeesVars
<1> QED BY <1>1, <1>2, PTL DEF Spec

(* However many are added and removed, no slot in use holds anything but an employee
   that was added, and none holds one twice, by name or by id (cp2-problem2.c). *)
THEOREM NoEmployeeTwice == Spec => []NoneTwice
<1>1. EmployeesInv => NoneTwice
  BY DEF EmployeesInv
<1> QED BY <1>1, EmployeesHold, PTL

(* The array is a set of employees: every step of the program is one of Directory's, with
   the return value that the comment on its function promises, as long as nobody is asked for
   with the id of one employee and the name of a later one, and salaries are ints
   (cp2-problem2.c). *)
THEOREM EmployeesAreADirectory ==
    ~TwoAtOnce /\ SalariesFit => (Spec => ImplementsDirectory)
<1> SUFFICES ASSUME ~TwoAtOnce, SalariesFit PROVE Spec => ImplementsDirectory
  OBVIOUS
<1>1. Init => Staff!Init
  BY EmployeesInitHolds DEF Init
<1>2. EmployeesInv /\ [Next]_vars => [Staff!Next]_Staff!directoryVars
  <2> SUFFICES ASSUME EmployeesInv, [Next]_vars
               PROVE  [Staff!Next]_Staff!directoryVars
    OBVIOUS
  <2>1. CASE EmployeesNext
    BY <2>1, EmployeesStep
  <2>2. CASE UNCHANGED employeesVars
    <3>1. Team' = Team /\ request' = request /\ returned' = returned
      BY <2>2, NoOneLeaves DEF employeesVars
    <3> QED BY <3>1 DEF Staff!directoryVars, Team
  <2> QED BY <2>1, <2>2 DEF Next, vars
<1> QED BY <1>1, <1>2, EmployeesHold, PTL DEF Spec, ImplementsDirectory, Staff!Spec

-----------------------------------------------------------------------------
(* The ordered list. *)

(* next leads from the head of m along the elements of s to end, prev leads back, and the
   ints ascend; the head's prev may be what memory held. *)
IsList(m, n, s, end) ==
    /\ m \in Memory /\ n \in Nat /\ s \in [1 .. n -> Elements]
    /\ m.head = IF n = 0 THEN end ELSE s[1]
    /\ \A k \in 1 .. n :
         /\ m.heap[s[k]].next = IF k = n THEN end ELSE s[k + 1]
         /\ IF k > 1 THEN m.heap[s[k]].prev = s[k - 1]
            ELSE m.heap[s[k]].prev = NULL \/ (m.heap[s[k]].prev = Wild /\ m.freed)
         /\ m.heap[s[k]].v \in Strings
    /\ \A j, k \in 1 .. n : j < k => m.heap[s[j]].i < m.heap[s[k]].i

LEMMA ElementsApart ==
    ASSUME NEW m, NEW n, NEW s, NEW end, IsList(m, n, s, end)
    PROVE  \A j, k \in 1 .. n : s[j] = s[k] => j = k
<1>1. \A k \in 1 .. n : m.heap[s[k]].i \in Int
  BY DEF IsList, Memory, Element
<1>2. ASSUME NEW j \in 1 .. n, NEW k \in 1 .. n, s[j] = s[k], j < k PROVE FALSE
  <2>1. m.heap[s[j]].i < m.heap[s[k]].i
    BY <1>2 DEF IsList
  <2> QED BY <1>1, <1>2, <2>1
<1> QED BY <1>2 DEF IsList

LEMMA ListFits ==
    ASSUME NEW m, NEW n, NEW s, NEW end, IsList(m, n, s, end)
    PROVE  n <= Cardinality(Elements) /\ Cardinality(Elements) \in Nat
           /\ Cardinality(Range(s)) = n /\ Range(s) \subseteq Elements
<1>1. n \in Nat /\ s \in [1 .. n -> Elements]
  BY DEF IsList
<1>2. IsFiniteSet(1 .. n) /\ Cardinality(1 .. n) = n
  BY <1>1, FS_Interval
<1>3. Range(s) = {s[k] : k \in 1 .. n}
  BY <1>1 DEF Range
<1>4. s \in Bijection(1 .. n, Range(s))
  BY <1>1, <1>3, ElementsApart DEF Bijection, Injection, Surjection, IsInjective
<1>5. Cardinality(Range(s)) = n
  BY <1>2, <1>4, FS_Bijection DEF ExistsBijection
<1>6. Range(s) \subseteq Elements /\ IsFiniteSet(Elements)
  BY <1>1, <1>3, ListAssumption
<1> QED BY <1>5, <1>6, FS_Subset, FS_CardinalityType

LEMMA ChainIs ==
    ASSUME NEW m, NEW n, NEW s, NEW end \in {NULL, Wild}, IsList(m, n, s, end)
    PROVE  Chain(m) = s /\ ChainEnd(m) = end /\ Len(Chain(m)) = n /\ Chain(m) \in Seq(Elements)
<1>1. n \in Nat /\ s \in [1 .. n -> Elements] /\ end \notin Elements /\ end \in Pointer
  BY ListAssumption DEF IsList, Pointer
<1>2. Leads(After(m), m.head, n, s, end)
  <2>1. \A p \in Elements : After(m)[p] = m.heap[p].next
    BY DEF After, Pointer
  <2>2. After(m)[end] = end
    BY <1>1 DEF After
  <2>3. \A k \in 1 .. n : After(m)[s[k]] = IF k = n THEN end ELSE s[k + 1]
    BY <1>1, <2>1 DEF IsList
  <2> QED BY <2>2, <2>3 DEF Leads, IsList
<1>3. n \in 0 .. Cardinality(Elements) + 1 /\ Cardinality(Elements) \in Nat
      /\ ~(Cardinality(Elements) < n)
  BY <1>1, ListFits
<1>4. Chain(m) = s
  BY <1>1, <1>2, <1>3, WalkReads DEF Chain
<1>5. ChainEnd(m) = end
  BY <1>2, <1>3, <1>1, LeadsIterate DEF ChainEnd
<1>6. s \in Seq(Elements) /\ Len(s) = n
  BY <1>1
<1> QED BY <1>4, <1>5, <1>6

LEMMA FindIs ==
    ASSUME NEW m, NEW n, NEW s, NEW end \in {NULL, Wild}, IsList(m, n, s, end), NEW i
    PROVE  /\ Has(m, i) <=> \E k \in 1 .. n : m.heap[s[k]].i = i
           /\ \A k \in 1 .. n : m.heap[s[k]].i = i => Find(m, i) = s[k]
<1>1. Chain(m) = s /\ Len(s) = n /\ n \in Nat /\ s \in [1 .. n -> Elements]
  <2>1. Chain(m) = s /\ Len(Chain(m)) = n
    BY ChainIs
  <2> QED BY <2>1 DEF IsList
<1>2. Has(m, i) <=> \E k \in 1 .. n : m.heap[s[k]].i = i
  BY <1>1 DEF Has, Range
<1>3. ASSUME NEW k \in 1 .. n, m.heap[s[k]].i = i
      PROVE  Find(m, i) = s[k]
  <2> DEFINE at == {l \in 1 .. n : m.heap[s[l]].i = i}
  <2>1. ASSUME NEW l \in at PROVE l = k
    <3>1. m.heap[s[l]].i = m.heap[s[k]].i /\ m.heap[s[l]].i \in Int
      BY <1>1, <1>3 DEF IsList, Memory, Element
    <3>2. (l < k => m.heap[s[l]].i < m.heap[s[k]].i) /\ (k < l => m.heap[s[k]].i < m.heap[s[l]].i)
      BY DEF IsList
    <3> QED BY <1>1, <3>1, <3>2
  <2>2. k \in at /\ at \subseteq Nat
    BY <1>1, <1>3
  <2>3. Min(at) = k
    <3> HIDE DEF at
    <3> QED BY <2>1, <2>2, MinIsLeast
  <2>4. Find(m, i) = s[Min(at)]
    BY <1>1 DEF Find
  <2> QED BY <2>3, <2>4
<1> QED BY <1>2, <1>3

Without(s, n, j) == [k \in 1 .. n - 1 |-> IF k < j THEN s[k] ELSE s[k + 1]]

(* Deleting an element whose prev is set links its neighbours, and nothing else. *)
LEMMA DeleteShortens ==
    ASSUME NEW m, NEW n, NEW s, IsList(m, n, s, NULL), NEW j \in 1 .. n,
           NEW i, m.heap[s[j]].i = i, m.heap[s[j]].prev # Wild
    PROVE  /\ IsList(Delete(m, i), n - 1, Without(s, n, j), NULL)
           /\ \A k \in 1 .. n : k # j =>
                 /\ Delete(m, i).heap[s[k]].i = m.heap[s[k]].i
                 /\ Delete(m, i).heap[s[k]].v = m.heap[s[k]].v
           /\ m.freed => Delete(m, i).freed
           /\ j = 1 /\ n > 1 => Delete(m, i).heap[s[2]].prev = NULL
<1> DEFINE e == s[j]
           next == IF j = n THEN NULL ELSE s[j + 1]
           prev == IF j = 1 THEN NULL ELSE s[j - 1]
           d == Delete(m, i)
<1>1. n \in Nat /\ s \in [1 .. n -> Elements] /\ m \in Memory /\ NULL \notin Elements
      /\ NULL # Wild
  BY ListAssumption DEF IsList
<1>2. e \in Elements /\ m.heap[e].next = next /\ m.heap[e].prev = prev /\ m.head = s[1]
  BY <1>1 DEF IsList
<1>3. next \in Elements \cup {NULL} /\ prev \in Elements \cup {NULL} /\ next # e /\ prev # e
  BY <1>1, ElementsApart
<1>4. m.heap \in [Elements -> Element]
  BY <1>1 DEF Memory
<1>5. d = [head |-> IF m.heap[m.head].i = i THEN next ELSE m.head,
           heap |-> [SetNext(SetPrev(m.heap, next, prev), prev, next) EXCEPT ![e] = Unused],
           freed |-> m.freed \/ m.heap[e].v \in ElementSized]
  BY <1>2, FindIs DEF Delete
<1>6. (m.heap[m.head].i = i) <=> j = 1
  <2>1. m.heap[s[1]].i \in Int
    BY <1>1, <1>2, <1>4 DEF Element
  <2>2. 1 < j => m.heap[s[1]].i < m.heap[s[j]].i
    BY <1>1 DEF IsList
  <2> QED BY <1>1, <1>2, <2>1, <2>2
<1> HIDE DEF e, next, prev
<1>7. /\ d.heap \in [Elements -> Element]
      /\ \A p \in Elements \ {e} :
           /\ d.heap[p].next = IF p = prev THEN next ELSE m.heap[p].next
           /\ d.heap[p].prev = IF p = next THEN prev ELSE m.heap[p].prev
           /\ d.heap[p].i = m.heap[p].i /\ d.heap[p].v = m.heap[p].v
  <2> DEFINE h1 == SetPrev(m.heap, next, prev)
             h2 == SetNext(h1, prev, next)
  <2>1. /\ h1 \in [Elements -> Element]
        /\ \A p \in Elements :
             /\ h1[p].prev = IF p = next THEN prev ELSE m.heap[p].prev
             /\ h1[p].next = m.heap[p].next /\ h1[p].i = m.heap[p].i /\ h1[p].v = m.heap[p].v
    BY <1>1, <1>3, <1>4 DEF SetPrev, Element, Pointer
  <2> HIDE DEF h1
  <2>2. /\ h2 \in [Elements -> Element]
        /\ \A p \in Elements :
             /\ h2[p].next = IF p = prev THEN next ELSE h1[p].next
             /\ h2[p].prev = h1[p].prev /\ h2[p].i = h1[p].i /\ h2[p].v = h1[p].v
    BY <1>1, <1>3, <2>1 DEF SetNext, Element, Pointer
  <2> HIDE DEF h2
  <2>3. d.heap = [h2 EXCEPT ![e] = Unused] /\ Unused \in Element
    BY <1>5 DEF h1, h2, Unused, Element, Pointer
  <2> HIDE DEF d
  <2> QED BY <1>2, <2>1, <2>2, <2>3
<1>8. d.head = (IF j = 1 THEN next ELSE s[1]) /\ d.freed \in BOOLEAN /\ (m.freed => d.freed)
      /\ d = [head |-> d.head, heap |-> d.heap, freed |-> d.freed]
  BY <1>1, <1>2, <1>5, <1>6 DEF Memory
<1> HIDE DEF d
<1>9. d \in Memory
  <2>1. d.head \in Pointer
    BY <1>1, <1>2, <1>3, <1>8 DEF Pointer
  <2> QED BY <1>7, <1>8, <2>1 DEF Memory
<1> DEFINE t == Without(s, n, j)
           from(k) == IF k < j THEN k ELSE k + 1
<1>10. t \in [1 .. n - 1 -> Elements] /\ n - 1 \in Nat
  BY <1>1 DEF Without
<1>11. \A k \in 1 .. n - 1 : /\ from(k) \in 1 .. n /\ from(k) # j /\ t[k] = s[from(k)]
                             /\ t[k] \in Elements \ {e}
  BY <1>1, ElementsApart DEF Without, e
<1>12. ASSUME NEW k \in 1 .. n - 1
       PROVE  /\ d.heap[t[k]].next = IF k = n - 1 THEN NULL ELSE t[k + 1]
              /\ IF k > 1 THEN d.heap[t[k]].prev = t[k - 1]
                 ELSE d.heap[t[k]].prev = NULL \/ (d.heap[t[k]].prev = Wild /\ d.freed)
              /\ d.heap[t[k]].v \in Strings
  <2> DEFINE l == from(k)
  <2>1. l \in 1 .. n /\ l # j /\ t[k] = s[l] /\ s[l] \in Elements \ {e}
    BY <1>11
  <2>2. /\ m.heap[s[l]].next = IF l = n THEN NULL ELSE s[l + 1]
        /\ IF l > 1 THEN m.heap[s[l]].prev = s[l - 1]
           ELSE m.heap[s[l]].prev = NULL \/ (m.heap[s[l]].prev = Wild /\ m.freed)
        /\ m.heap[s[l]].v \in Strings
    BY <2>1 DEF IsList
  <2>3. s[l] = prev <=> l = j - 1
    BY <1>1, <2>1, ElementsApart DEF prev
  <2>4. s[l] = next <=> l = j + 1
    BY <1>1, <2>1, ElementsApart DEF next
  <2>5. k # n - 1 => t[k + 1] = IF k + 1 < j THEN s[k + 1] ELSE s[k + 2]
    BY <1>1 DEF Without
  <2>6. k > 1 => t[k - 1] = IF k - 1 < j THEN s[k - 1] ELSE s[k]
    BY <1>1 DEF Without
  <2>7. d.heap[t[k]].next = IF k = n - 1 THEN NULL ELSE t[k + 1]
    <3>1. d.heap[t[k]].next = IF l = j - 1 THEN next ELSE m.heap[s[l]].next
      BY <1>7, <2>1, <2>3
    <3> QED BY <1>1, <2>1, <2>2, <2>5, <3>1 DEF next
  <2>8. IF k > 1 THEN d.heap[t[k]].prev = t[k - 1]
        ELSE d.heap[t[k]].prev = NULL \/ (d.heap[t[k]].prev = Wild /\ d.freed)
    <3>1. d.heap[t[k]].prev = IF l = j + 1 THEN prev ELSE m.heap[s[l]].prev
      BY <1>7, <2>1, <2>4
    <3> QED BY <1>1, <1>8, <2>1, <2>2, <2>6, <3>1 DEF prev
  <2>9. d.heap[t[k]].v \in Strings
    BY <1>7, <2>1, <2>2
  <2> QED BY <2>7, <2>8, <2>9
<1>13. ASSUME NEW k \in 1 .. n - 1, NEW l \in 1 .. n - 1, k < l
       PROVE  d.heap[t[k]].i < d.heap[t[l]].i
  <2>1. from(k) \in 1 .. n /\ from(l) \in 1 .. n /\ from(k) < from(l)
    BY <1>1, <1>11, <1>13
  <2> HIDE DEF from
  <2>2. m.heap[s[from(k)]].i < m.heap[s[from(l)]].i
    BY <2>1 DEF IsList
  <2> QED BY <1>7, <1>11, <2>2
<1>14. d.head = IF n - 1 = 0 THEN NULL ELSE t[1]
  BY <1>1, <1>8 DEF next, Without
<1>15. IsList(d, n - 1, t, NULL)
  BY <1>9, <1>10, <1>12, <1>13, <1>14 DEF IsList
<1>16. \A k \in 1 .. n : k # j => s[k] \in Elements \ {e}
  BY <1>1, ElementsApart DEF e
<1>17. j = 1 /\ n > 1 => d.heap[s[2]].prev = NULL
  BY <1>1, <1>7, <1>16 DEF next, prev
<1> QED BY <1>7, <1>8, <1>15, <1>16, <1>17 DEF d

Joined(s, n, j, e) == [k \in 1 .. n + 1 |-> IF k < j THEN s[k] ELSE IF k = j THEN e ELSE s[k - 1]]

(* p is m with the element e between places j - 1 and j of s. *)
Placed(p, m, n, s, e, new, j) ==
    /\ \A k \in 1 .. n : IF k < j THEN m.heap[s[k]].i < new.i ELSE new.i < m.heap[s[k]].i
    /\ p \in Memory
    /\ p.freed = m.freed
    /\ p.head = IF j = 1 THEN e ELSE s[1]
    /\ p.heap[e].prev = IF j = 1 THEN new.prev ELSE s[j - 1]
    /\ p.heap[e].next = IF j = n + 1 THEN new.next ELSE s[j]
    /\ p.heap[e].i = new.i /\ p.heap[e].v = new.v
    /\ \A x \in Elements \ {e} :
         /\ p.heap[x].next = IF j > 1 /\ x = s[j - 1] THEN e ELSE m.heap[x].next
         /\ p.heap[x].prev = IF j < n + 1 /\ x = s[j] THEN e ELSE m.heap[x].prev
         /\ p.heap[x].i = m.heap[x].i /\ p.heap[x].v = m.heap[x].v

LEMMA SetPrevSets ==
    ASSUME NEW h \in [Elements -> Element], NEW x \in Elements, NEW p \in Pointer
    PROVE  /\ SetPrev(h, x, p) \in [Elements -> Element]
           /\ \A y \in Elements :
                /\ SetPrev(h, x, p)[y].prev = IF y = x THEN p ELSE h[y].prev
                /\ SetPrev(h, x, p)[y].next = h[y].next
                /\ SetPrev(h, x, p)[y].i = h[y].i /\ SetPrev(h, x, p)[y].v = h[y].v
  BY ListAssumption DEF SetPrev, Element

LEMMA SetNextSets ==
    ASSUME NEW h \in [Elements -> Element], NEW x \in Elements, NEW p \in Pointer
    PROVE  /\ SetNext(h, x, p) \in [Elements -> Element]
           /\ \A y \in Elements :
                /\ SetNext(h, x, p)[y].next = IF y = x THEN p ELSE h[y].next
                /\ SetNext(h, x, p)[y].prev = h[y].prev
                /\ SetNext(h, x, p)[y].i = h[y].i /\ SetNext(h, x, p)[y].v = h[y].v
  BY ListAssumption DEF SetNext, Element

(* A new element goes before the first larger one, and between its neighbours; at the ends
   one of its pointers stays as it was. *)
LEMMA InsertPlaces ==
    ASSUME NEW m, NEW n, NEW s, IsList(m, n, s, NULL), NEW e \in Elements, e \notin Range(s),
           NEW new \in Element, \A k \in 1 .. n : m.heap[s[k]].i # new.i
    PROVE  \E j \in 1 .. n + 1 : Placed(Insert(m, e, new), m, n, s, e, new, j)
<1> DEFINE larger == Larger(m, new.i)
           p == Insert(m, e, new)
           put(prev, next) == [m.heap EXCEPT ![e] = [prev |-> prev, next |-> next,
                                                     i |-> new.i, v |-> new.v]]
           list(head, heap) == [head |-> head, heap |-> heap, freed |-> m.freed]
<1>1. n \in Nat /\ s \in [1 .. n -> Elements] /\ m \in Memory
      /\ m.heap \in [Elements -> Element] /\ m.head = IF n = 0 THEN NULL ELSE s[1]
  BY DEF IsList, Memory
<1>2. Chain(m) = s /\ Len(s) = n /\ (s = <<>> <=> n = 0)
  <2>1. Chain(m) = s /\ Len(Chain(m)) = n
    BY ChainIs
  <2> QED BY <1>1, <2>1
<1>3. \A k \in 1 .. n : s[k] \in Elements /\ s[k] # e /\ m.heap[s[k]].i \in Int
  BY <1>1 DEF Range, Element
<1>4. \A k, l \in 1 .. n : s[k] = s[l] => k = l
  BY ElementsApart
<1>5. new.i \in Int /\ e \in Pointer /\ \A k \in 1 .. n : s[k] \in Pointer
  BY <1>3 DEF Element, Pointer
<1>6. larger = {k \in 1 .. n : m.heap[s[k]].i > new.i}
  BY <1>2 DEF Larger
<1>7. ASSUME NEW prev \in Pointer, NEW next \in Pointer
      PROVE  /\ put(prev, next) \in [Elements -> Element]
             /\ put(prev, next)[e].prev = prev /\ put(prev, next)[e].next = next
             /\ put(prev, next)[e].i = new.i /\ put(prev, next)[e].v = new.v
             /\ \A x \in Elements \ {e} : put(prev, next)[x] = m.heap[x]
  BY <1>1, <1>5 DEF Element
<1>9. ASSUME NEW head \in Pointer, NEW heap \in [Elements -> Element]
      PROVE  /\ list(head, heap) \in Memory
             /\ list(head, heap).head = head /\ list(head, heap).heap = heap
             /\ list(head, heap).freed = m.freed
  BY <1>1 DEF Memory
<1>10. m.head \in Pointer /\ new.prev \in Pointer /\ new.next \in Pointer
  BY <1>1 DEF Memory, Element
<1>11. \A x \in Elements : m.heap[x] \in Element
  BY <1>1
<1> HIDE DEF p, put, list
<1>12. CASE larger = {}
  <2>1. \A k \in 1 .. n : m.heap[s[k]].i < new.i
    BY <1>3, <1>5, <1>6, <1>12
  <2> HIDE DEF larger
  <2>2. CASE n = 0
    <3> DEFINE h == put(new.prev, new.next)
    <3>1. p = list(e, h)
      BY <1>2, <1>12, <2>2 DEF Insert, p, put, list, larger
    <3>2. h \in [Elements -> Element] /\ h[e].prev = new.prev /\ h[e].next = new.next
          /\ h[e].i = new.i /\ h[e].v = new.v /\ \A x \in Elements \ {e} : h[x] = m.heap[x]
      BY <1>7, <1>10
    <3> HIDE DEF h
    <3>3. p \in Memory /\ p.head = e /\ p.freed = m.freed /\ p.heap = h
      BY <1>5, <1>9, <3>1, <3>2
    <3>4. Placed(p, m, n, s, e, new, 1)
      BY <1>10, <2>2, <3>2, <3>3 DEF Placed
    <3> QED BY <1>1, <2>2, <3>4 DEF p
  <2>3. CASE n > 0
    <3> DEFINE before == s[n]
               h == put(before, new.next)
               g == SetNext(h, before, e)
    <3>1. p = list(m.head, g)
      BY <1>1, <1>2, <1>12, <2>3 DEF Insert, p, put, list, larger
    <3>2. before \in Elements \ {e} /\ before \in Pointer
      BY <1>1, <1>3, <1>5, <2>3
    <3>3. h \in [Elements -> Element] /\ h[e].prev = before /\ h[e].next = new.next
          /\ h[e].i = new.i /\ h[e].v = new.v /\ \A x \in Elements \ {e} : h[x] = m.heap[x]
      BY <1>7, <1>10, <3>2
    <3> HIDE DEF h
    <3>4. /\ g \in [Elements -> Element]
          /\ \A y \in Elements : /\ g[y].next = IF y = before THEN e ELSE h[y].next
                                 /\ g[y].prev = h[y].prev
                                 /\ g[y].i = h[y].i /\ g[y].v = h[y].v
      BY <1>5, <3>2, <3>3, SetNextSets
    <3> HIDE DEF g
    <3>5. p \in Memory /\ p.head = m.head /\ p.freed = m.freed /\ p.heap = g
      BY <1>9, <1>10, <3>1, <3>4
    <3>6. Placed(p, m, n, s, e, new, n + 1)
      BY <1>1, <2>1, <2>3, <3>2, <3>3, <3>4, <3>5 DEF Placed
    <3> QED BY <1>1, <3>6 DEF p
  <2> QED BY <1>1, <2>2, <2>3
<1>13. CASE larger # {}
  <2> DEFINE j == Min(larger)
  <2>1. larger \subseteq Nat /\ larger \subseteq 1 .. n
    BY <1>1, <1>6
  <2>2. j \in larger /\ \A k \in larger : j <= k
    <3> HIDE DEF larger
    <3> QED BY <1>13, <2>1, MinIsLeast
  <2>3. j \in 1 .. n /\ (1 \in larger <=> j = 1) /\ n > 0
    <3> HIDE DEF larger, j
    <3>1. j \in 1 .. n
      BY <2>1, <2>2
    <3> QED BY <1>1, <2>1, <2>2, <3>1
  <2>4. \A k \in 1 .. n : IF k < j THEN m.heap[s[k]].i < new.i ELSE new.i < m.heap[s[k]].i
    <3> SUFFICES ASSUME NEW k \in 1 .. n
                 PROVE  IF k < j THEN m.heap[s[k]].i < new.i ELSE new.i < m.heap[s[k]].i
      OBVIOUS
    <3> HIDE DEF j, larger
    <3>1. m.heap[s[j]].i > new.i
      BY <1>6, <2>2
    <3>2. k < j => ~(m.heap[s[k]].i > new.i)
      BY <1>6, <2>2, <2>3
    <3>3. j < k => m.heap[s[j]].i < m.heap[s[k]].i
      BY <2>3 DEF IsList
    <3> QED BY <1>1, <1>3, <1>5, <2>3, <3>1, <3>2, <3>3
  <2> HIDE DEF larger
  <2>5. CASE j = 1
    <3> DEFINE after == s[1]
               h == put(new.prev, after)
               g == SetPrev(h, after, e)
    <3>1. p = list(e, g)
      BY <1>2, <1>13, <2>3, <2>5 DEF Insert, p, put, list, larger
    <3>2. after \in Elements \ {e} /\ after \in Pointer
      BY <1>1, <1>3, <1>5, <2>3
    <3>3. h \in [Elements -> Element] /\ h[e].prev = new.prev /\ h[e].next = after
          /\ h[e].i = new.i /\ h[e].v = new.v /\ \A x \in Elements \ {e} : h[x] = m.heap[x]
      BY <1>7, <1>10, <3>2
    <3> HIDE DEF h
    <3>4. /\ g \in [Elements -> Element]
          /\ \A y \in Elements : /\ g[y].prev = IF y = after THEN e ELSE h[y].prev
                                 /\ g[y].next = h[y].next
                                 /\ g[y].i = h[y].i /\ g[y].v = h[y].v
      BY <1>5, <3>2, <3>3, SetPrevSets
    <3> HIDE DEF g
    <3>5. p \in Memory /\ p.head = e /\ p.freed = m.freed /\ p.heap = g
      BY <1>5, <1>9, <3>1, <3>4
    <3> HIDE DEF j
    <3>6. Placed(p, m, n, s, e, new, j)
      BY <1>1, <2>3, <2>4, <2>5, <3>2, <3>3, <3>4, <3>5 DEF Placed
    <3> QED BY <1>1, <2>3, <3>6 DEF p
  <2>6. CASE j > 1
    <3> DEFINE after == s[j]
               before == s[j - 1]
               h == put(before, after)
               f == SetNext(h, before, e)
               g == SetPrev(f, after, e)
    <3>1. p = list(m.head, g)
      BY <1>2, <1>13, <2>3, <2>6 DEF Insert, p, put, list, larger
    <3> HIDE DEF j
    <3>2. /\ before \in Elements \ {e} /\ before \in Pointer
          /\ after \in Elements \ {e} /\ after \in Pointer
      BY <1>1, <1>3, <1>5, <2>3, <2>6
    <3>3. h \in [Elements -> Element] /\ h[e].prev = before /\ h[e].next = after
          /\ h[e].i = new.i /\ h[e].v = new.v /\ \A x \in Elements \ {e} : h[x] = m.heap[x]
      BY <1>7, <3>2
    <3> HIDE DEF h
    <3>4. /\ f \in [Elements -> Element]
          /\ \A y \in Elements : /\ f[y].next = IF y = before THEN e ELSE h[y].next
                                 /\ f[y].prev = h[y].prev
                                 /\ f[y].i = h[y].i /\ f[y].v = h[y].v
      BY <1>5, <3>2, <3>3, SetNextSets
    <3> HIDE DEF f
    <3>5. /\ g \in [Elements -> Element]
          /\ \A y \in Elements : /\ g[y].prev = IF y = after THEN e ELSE f[y].prev
                                 /\ g[y].next = f[y].next
                                 /\ g[y].i = f[y].i /\ g[y].v = f[y].v
      BY <1>5, <3>2, <3>4, SetPrevSets
    <3> HIDE DEF g
    <3>6. p \in Memory /\ p.head = m.head /\ p.freed = m.freed /\ p.heap = g
      BY <1>9, <1>10, <3>1, <3>5
    <3>7. Placed(p, m, n, s, e, new, j)
      BY <1>1, <2>3, <2>4, <2>6, <3>2, <3>3, <3>4, <3>5, <3>6 DEF Placed
    <3> QED BY <1>1, <2>3, <3>7 DEF p
  <2> QED BY <2>3, <2>5, <2>6
<1> QED BY <1>12, <1>13

(* The list is then longer by one; its last next, if the new element is the last, is what
   memory held there. *)
LEMMA InsertLengthens ==
    ASSUME NEW m, NEW n, NEW s, IsList(m, n, s, NULL), NEW e \in Elements, e \notin Range(s),
           NEW new \in Element, \A k \in 1 .. n : m.heap[s[k]].i # new.i,
           new.v \in Strings, new.prev \in Leftover(m), new.next \in Leftover(m),
           NEW p, NEW j \in 1 .. n + 1, Placed(p, m, n, s, e, new, j)
    PROVE  IsList(p, n + 1, Joined(s, n, j, e), IF j = n + 1 THEN new.next ELSE NULL)
<1> DEFINE t == Joined(s, n, j, e)
           end == IF j = n + 1 THEN new.next ELSE NULL
           from(k) == IF k < j THEN k ELSE k - 1
<1>1. n \in Nat /\ s \in [1 .. n -> Elements] /\ n + 1 \in Nat
  BY DEF IsList
<1>2. t \in [1 .. n + 1 -> Elements] /\ t[j] = e
  BY <1>1 DEF Joined
<1>3. \A k \in 1 .. n + 1 : k # j => /\ from(k) \in 1 .. n /\ t[k] = s[from(k)]
                                     /\ t[k] \in Elements \ {e}
  BY <1>1 DEF Joined, Range
<1>4. \A k, l \in 1 .. n : s[k] = s[l] => k = l
  BY ElementsApart
<1>5. p.head = t[1]
  BY <1>1 DEF Joined, Placed
<1>6. ASSUME NEW k \in 1 .. n + 1
      PROVE  /\ p.heap[t[k]].next = IF k = n + 1 THEN end ELSE t[k + 1]
             /\ IF k > 1 THEN p.heap[t[k]].prev = t[k - 1]
                ELSE p.heap[t[k]].prev = NULL \/ (p.heap[t[k]].prev = Wild /\ p.freed)
             /\ p.heap[t[k]].v \in Strings
  <2>1. k < n + 1 => t[k + 1] = IF k + 1 < j THEN s[k + 1] ELSE IF k + 1 = j THEN e ELSE s[k]
    BY <1>1 DEF Joined
  <2>2. k > 1 => t[k - 1] = IF k - 1 < j THEN s[k - 1] ELSE IF k - 1 = j THEN e ELSE s[k - 2]
    BY <1>1 DEF Joined
  <2>3. CASE k = j
    <3>1. p.heap[t[k]].next = IF k = n + 1 THEN end ELSE t[k + 1]
      BY <1>1, <1>2, <2>1, <2>3 DEF Placed
    <3>2. k > 1 => p.heap[t[k]].prev = t[k - 1]
      BY <1>1, <1>2, <2>2, <2>3 DEF Placed
    <3>3. k = 1 => p.heap[t[k]].prev = NULL \/ (p.heap[t[k]].prev = Wild /\ p.freed)
      BY <1>1, <1>2, <2>3 DEF Placed, Leftover
    <3>4. p.heap[t[k]].v \in Strings
      BY <1>1, <1>2, <2>3 DEF Placed
    <3> QED BY <1>1, <3>1, <3>2, <3>3, <3>4
  <2>4. CASE k # j
    <3> DEFINE l == from(k)
    <3>1. l \in 1 .. n /\ t[k] = s[l] /\ s[l] \in Elements \ {e}
      BY <1>3, <2>4
    <3>2. /\ m.heap[s[l]].next = IF l = n THEN NULL ELSE s[l + 1]
          /\ IF l > 1 THEN m.heap[s[l]].prev = s[l - 1]
             ELSE m.heap[s[l]].prev = NULL \/ (m.heap[s[l]].prev = Wild /\ m.freed)
          /\ m.heap[s[l]].v \in Strings
      BY <3>1 DEF IsList
    <3>3. /\ p.heap[s[l]].next = IF j > 1 /\ s[l] = s[j - 1] THEN e ELSE m.heap[s[l]].next
          /\ p.heap[s[l]].prev = IF j < n + 1 /\ s[l] = s[j] THEN e ELSE m.heap[s[l]].prev
          /\ p.heap[s[l]].v = m.heap[s[l]].v /\ p.freed = m.freed
      BY <3>1 DEF Placed
    <3>4. (j > 1 /\ s[l] = s[j - 1] <=> l = j - 1) /\ (j < n + 1 /\ s[l] = s[j] <=> l = j)
      BY <1>1, <1>4, <3>1
    <3>5. p.heap[t[k]].next = IF k = n + 1 THEN end ELSE t[k + 1]
      BY <1>1, <2>1, <2>4, <3>1, <3>2, <3>3, <3>4
    <3>6. k > 1 => p.heap[t[k]].prev = t[k - 1]
      BY <1>1, <2>2, <2>4, <3>1, <3>2, <3>3, <3>4
    <3>7. k = 1 => p.heap[t[k]].prev = NULL \/ (p.heap[t[k]].prev = Wild /\ p.freed)
      BY <1>1, <2>4, <3>1, <3>2, <3>3, <3>4
    <3> QED BY <1>1, <3>1, <3>2, <3>3, <3>5, <3>6, <3>7
  <2> QED BY <2>3, <2>4
<1>7. ASSUME NEW k \in 1 .. n + 1, NEW l \in 1 .. n + 1, k < l
      PROVE  p.heap[t[k]].i < p.heap[t[l]].i
  <2>1. p.heap[e].i = new.i /\ \A x \in Elements \ {e} : p.heap[x].i = m.heap[x].i
    BY DEF Placed
  <2>2. CASE k = j
    <3>1. new.i < m.heap[s[from(l)]].i
      BY <1>1, <1>3, <1>7, <2>2 DEF Placed
    <3> QED BY <1>2, <1>3, <1>7, <2>1, <2>2, <3>1
  <2>3. CASE l = j
    <3>1. m.heap[s[from(k)]].i < new.i
      BY <1>1, <1>3, <1>7, <2>3 DEF Placed
    <3> QED BY <1>2, <1>3, <1>7, <2>1, <2>3, <3>1
  <2>4. CASE k # j /\ l # j
    <3>1. from(k) \in 1 .. n /\ from(l) \in 1 .. n /\ from(k) < from(l)
      BY <1>1, <1>3, <1>7, <2>4
    <3> HIDE DEF from
    <3>2. m.heap[s[from(k)]].i < m.heap[s[from(l)]].i
      BY <3>1 DEF IsList
    <3> QED BY <1>3, <2>1, <2>4, <3>2
  <2> QED BY <2>2, <2>3, <2>4
<1>8. p \in Memory
  BY DEF Placed
<1> QED BY <1>1, <1>2, <1>5, <1>6, <1>7, <1>8 DEF IsList

-----------------------------------------------------------------------------
(* The list as a map. *)

Contents(m, n, s) == {<<m.heap[s[k]].i, m.heap[s[k]].v>> : k \in 1 .. n}

(* The list in m is complete, and its pairs are those in P. *)
Lists(m, P) == \E n, s : IsList(m, n, s, NULL) /\ P = Contents(m, n, s)

PrintedAlong(heap, chain) ==
    LET pair(e) == <<heap[e].i, heap[e].v>>
        pairs == [e \in Elements |-> pair(e)]
    IN  [k \in DOMAIN chain |-> pairs[chain[k]]]

PrintedOf(m) == PrintedAlong(m.heap, Chain(m))

LEMMA PrintsTheMap ==
    ASSUME NEW m, NEW P, Lists(m, P)
    PROVE  /\ Range(PrintedOf(m)) = P
           /\ \A k \in 2 .. Len(PrintedOf(m)) : PrintedOf(m)[k - 1][1] < PrintedOf(m)[k][1]
           /\ ChainEnd(m) = NULL
           /\ m \in Memory
<1>1. PICK n, s : IsList(m, n, s, NULL) /\ P = Contents(m, n, s)
  BY DEF Lists
<1>2. n \in Nat /\ s \in [1 .. n -> Elements] /\ m \in Memory
  BY <1>1 DEF IsList
<1>3. Chain(m) = s /\ ChainEnd(m) = NULL
  BY <1>1, ChainIs
<1>4. PrintedOf(m) = [k \in 1 .. n |-> <<m.heap[s[k]].i, m.heap[s[k]].v>>]
  BY <1>2, <1>3 DEF PrintedOf, PrintedAlong
<1>5. Range(PrintedOf(m)) = P
  BY <1>1, <1>4 DEF Range, Contents
<1>6. ASSUME NEW k \in 2 .. n
      PROVE  PrintedOf(m)[k - 1][1] < PrintedOf(m)[k][1]
  <2>1. k - 1 \in 1 .. n /\ k \in 1 .. n /\ k - 1 < k
    BY <1>2
  <2>2. m.heap[s[k - 1]].i < m.heap[s[k]].i
    BY <1>1, <2>1 DEF IsList
  <2> QED BY <1>4, <2>1, <2>2
<1>7. Len(PrintedOf(m)) = n
  BY <1>2, <1>4
<1> QED BY <1>2, <1>3, <1>5, <1>6, <1>7

LEMMA HasIsInMap ==
    ASSUME NEW m, NEW P, Lists(m, P), NEW i
    PROVE  /\ Has(m, i) <=> \E p \in P : p[1] = i
           /\ Has(m, i) => /\ <<i, m.heap[Find(m, i)].v>> \in P
                           /\ m.heap[Find(m, i)].v \in Strings
           /\ Crashes(m, i) => m.freed
<1>1. PICK n, s : IsList(m, n, s, NULL) /\ P = Contents(m, n, s)
  BY DEF Lists
<1>2. Has(m, i) <=> \E k \in 1 .. n : m.heap[s[k]].i = i
  BY <1>1, FindIs
<1>3. Has(m, i) <=> \E p \in P : p[1] = i
  <2>1. ASSUME NEW k \in 1 .. n, m.heap[s[k]].i = i PROVE \E p \in P : p[1] = i
    <3>1. <<m.heap[s[k]].i, m.heap[s[k]].v>> \in P
      BY <1>1 DEF Contents
    <3> QED BY <2>1, <3>1
  <2>2. ASSUME NEW p \in P, p[1] = i PROVE \E k \in 1 .. n : m.heap[s[k]].i = i
    BY <1>1, <2>2 DEF Contents
  <2> QED BY <1>2, <2>1, <2>2
<1>4. ASSUME Has(m, i)
      PROVE  /\ <<i, m.heap[Find(m, i)].v>> \in P
             /\ m.heap[Find(m, i)].v \in Strings
             /\ m.heap[Find(m, i)].prev = Wild => m.freed
  <2>1. PICK k \in 1 .. n : m.heap[s[k]].i = i
    BY <1>2, <1>4
  <2>2. Find(m, i) = s[k]
    BY <1>1, <2>1, FindIs
  <2>3. /\ m.heap[s[k]].v \in Strings
        /\ IF k > 1 THEN m.heap[s[k]].prev = s[k - 1]
           ELSE m.heap[s[k]].prev = NULL \/ (m.heap[s[k]].prev = Wild /\ m.freed)
    BY <1>1 DEF IsList
  <2>4. k > 1 => s[k - 1] \in Elements
    BY <1>1 DEF IsList
  <2> QED BY <1>1, <2>1, <2>2, <2>3, <2>4, ListAssumption DEF Contents
<1> QED BY <1>3, <1>4 DEF Crashes

LEMMA DeleteRemoves ==
    ASSUME NEW m, NEW P, Lists(m, P), NEW i, Has(m, i), ~Crashes(m, i)
    PROVE  /\ Lists(Delete(m, i), {p \in P : p[1] # i})
           /\ ~Has(Delete(m, i), i)
           /\ Len(Chain(Delete(m, i))) < Cardinality(Elements)
           /\ m.freed => Delete(m, i).freed
<1> DEFINE d == Delete(m, i)
           Q == {p \in P : p[1] # i}
<1>1. PICK n, s : IsList(m, n, s, NULL) /\ P = Contents(m, n, s)
  BY DEF Lists
<1>2. PICK j \in 1 .. n : m.heap[s[j]].i = i
  BY <1>1, FindIs
<1>3. m.heap[s[j]].prev # Wild
  BY <1>1, <1>2, FindIs DEF Crashes
<1>4. /\ IsList(d, n - 1, Without(s, n, j), NULL)
      /\ \A k \in 1 .. n : k # j => d.heap[s[k]].i = m.heap[s[k]].i /\ d.heap[s[k]].v = m.heap[s[k]].v
      /\ m.freed => d.freed
  BY <1>1, <1>2, <1>3, DeleteShortens
<1> HIDE DEF d
<1>5. n \in Nat /\ \A k \in 1 .. n : m.heap[s[k]].i \in Int
  BY <1>1 DEF IsList, Memory, Element
<1>6. \A k \in 1 .. n : m.heap[s[k]].i = i => k = j
  <2>1. ASSUME NEW k \in 1 .. n, m.heap[s[k]].i = i, k # j PROVE FALSE
    <3>1. (k < j => m.heap[s[k]].i < m.heap[s[j]].i) /\ (j < k => m.heap[s[j]].i < m.heap[s[k]].i)
      BY <1>1 DEF IsList
    <3> QED BY <1>2, <1>5, <2>1, <3>1
  <2> QED BY <2>1
<1>7. Contents(d, n - 1, Without(s, n, j)) = Q
  <2> DEFINE t == Without(s, n, j)
             pair(k) == <<m.heap[s[k]].i, m.heap[s[k]].v>>
  <2>1. \A k \in 1 .. n - 1 : t[k] = s[IF k < j THEN k ELSE k + 1]
    BY <1>5 DEF Without
  <2> HIDE DEF t
  <2>2. ASSUME NEW k \in 1 .. n - 1
        PROVE  <<d.heap[t[k]].i, d.heap[t[k]].v>> \in Q
    <3> DEFINE l == IF k < j THEN k ELSE k + 1
    <3>1. l \in 1 .. n /\ l # j
      BY <1>5
    <3>2. <<d.heap[t[k]].i, d.heap[t[k]].v>> = pair(l)
      BY <1>4, <2>1, <3>1
    <3>3. pair(l) \in P /\ pair(l)[1] # i
      BY <1>1, <1>6, <3>1 DEF Contents
    <3> QED BY <3>2, <3>3
  <2>3. ASSUME NEW l \in 1 .. n, l # j
        PROVE  \E k \in 1 .. n - 1 : pair(l) = <<d.heap[t[k]].i, d.heap[t[k]].v>>
    <3> DEFINE k == IF l < j THEN l ELSE l - 1
    <3>1. k \in 1 .. n - 1 /\ (IF k < j THEN k ELSE k + 1) = l
      BY <1>5, <2>3
    <3>2. t[k] = s[l]
      BY <2>1, <3>1
    <3>3. pair(l) = <<d.heap[t[k]].i, d.heap[t[k]].v>>
      BY <1>4, <2>3, <3>2
    <3> QED BY <3>1, <3>3
  <2>4. \A p \in Q : \E l \in 1 .. n : l # j /\ p = pair(l)
    BY <1>1, <1>2 DEF Contents
  <2> HIDE DEF Q, pair
  <2>5. Contents(d, n - 1, t) = {<<d.heap[t[k]].i, d.heap[t[k]].v>> : k \in 1 .. n - 1}
    BY DEF Contents
  <2> QED BY <2>2, <2>3, <2>4, <2>5 DEF t
<1>8. Lists(d, Q)
  BY <1>4, <1>7 DEF Lists
<1>9. ~Has(d, i)
  <2>1. \A p \in Q : p[1] # i
    OBVIOUS
  <2> HIDE DEF Q
  <2> QED BY <1>8, <2>1, HasIsInMap
<1>10. Len(Chain(d)) < Cardinality(Elements)
  <2>1. Len(Chain(d)) = n - 1
    BY <1>4, ChainIs
  <2>2. n <= Cardinality(Elements) /\ Cardinality(Elements) \in Nat
    BY <1>1, ListFits
  <2> QED BY <1>5, <2>1, <2>2
<1> QED BY <1>4, <1>8, <1>9, <1>10 DEF d

(* p lists one pair more than m, or it ends where memory held a pointer. *)
Added(p, m, P, pair) ==
    /\ p.freed = m.freed
    /\ ChainEnd(p) = NULL => Lists(p, P \cup {pair})
    /\ ChainEnd(p) # NULL => m.freed

LEMMA InsertAdds ==
    ASSUME NEW m, NEW P, Lists(m, P), NEW i \in Int, ~Has(m, i), NEW v \in Strings,
           NEW prev \in Leftover(m), NEW next \in Leftover(m),
           Len(Chain(m)) < Cardinality(Elements)
    PROVE  Added(Insert(m, Min(Elements \ Range(Chain(m))),
                        [prev |-> prev, next |-> next, i |-> i, v |-> v]), m, P, <<i, v>>)
<1> SUFFICES ASSUME NEW e, e = Min(Elements \ Range(Chain(m))),
                    NEW p, p = Insert(m, e, [prev |-> prev, next |-> next, i |-> i, v |-> v])
             PROVE  Added(p, m, P, <<i, v>>)
  OBVIOUS
<1> DEFINE new == [prev |-> prev, next |-> next, i |-> i, v |-> v]
           Q == P \cup {<<i, v>>}
<1>1. PICK n, s : IsList(m, n, s, NULL) /\ P = Contents(m, n, s)
  BY DEF Lists
<1>2. n \in Nat /\ s \in [1 .. n -> Elements]
  BY <1>1 DEF IsList
<1>3. e \in Elements /\ e \notin Range(s)
  <2> DEFINE free == Elements \ Range(s)
  <2>1. Chain(m) = s /\ Len(Chain(m)) = n
    BY <1>1, ChainIs
  <2>2. Cardinality(Range(s)) = n /\ Range(s) \subseteq Elements
    BY <1>1, ListFits
  <2>3. free # {}
    <3>1. Range(s) # Elements
      BY <1>2, <2>1, <2>2
    <3> QED BY <2>2, <3>1
  <2>4. free \subseteq Nat
    BY ListAssumption
  <2>5. Min(free) \in free
    <3> HIDE DEF free
    <3> QED BY <2>3, <2>4, MinIsLeast
  <2> QED BY <2>1, <2>5
<1>4. prev \in {NULL, Wild} /\ next \in {NULL, Wild} /\ (next = Wild => m.freed)
  BY ListAssumption DEF Leftover
<1>5. new \in Element
  BY <1>4 DEF Element, Pointer
<1>6. /\ new.i = i /\ new.v = v /\ new.prev = prev /\ new.next = next
      /\ p = Insert(m, e, new)
  OBVIOUS
<1> HIDE DEF new
<1>7. \A k \in 1 .. n : m.heap[s[k]].i # new.i
  BY <1>1, <1>6, FindIs
<1>8. PICK j \in 1 .. n + 1 : Placed(p, m, n, s, e, new, j)
  BY <1>1, <1>3, <1>5, <1>6, <1>7, InsertPlaces
<1> DEFINE t == Joined(s, n, j, e)
           end == IF j = n + 1 THEN new.next ELSE NULL
<1>9. IsList(p, n + 1, t, end)
  BY <1>1, <1>3, <1>5, <1>6, <1>7, <1>8, InsertLengthens
<1>10. ChainEnd(p) = end /\ p.freed = m.freed
  <2>1. end \in {NULL, Wild}
    BY <1>4, <1>6
  <2> HIDE DEF end
  <2> QED BY <1>8, <1>9, <2>1, ChainIs DEF Placed
<1>11. Contents(p, n + 1, t) = Q
  <2> DEFINE pair(k) == <<p.heap[t[k]].i, p.heap[t[k]].v>>
             old(k) == <<m.heap[s[k]].i, m.heap[s[k]].v>>
             from(k) == IF k < j THEN k ELSE k - 1
  <2>1. p.heap[e].i = i /\ p.heap[e].v = v
        /\ \A x \in Elements \ {e} : p.heap[x].i = m.heap[x].i /\ p.heap[x].v = m.heap[x].v
    BY <1>6, <1>8 DEF Placed
  <2>2. t[j] = e /\ \A k \in 1 .. n + 1 : k # j => t[k] = s[from(k)] /\ from(k) \in 1 .. n
    BY <1>2 DEF Joined
  <2>3. \A k \in 1 .. n : s[k] \in Elements \ {e}
    BY <1>2, <1>3 DEF Range
  <2>4. pair(j) = <<i, v>>
    BY <2>1, <2>2
  <2>5. ASSUME NEW k \in 1 .. n + 1, k # j PROVE pair(k) = old(from(k)) /\ from(k) \in 1 .. n
    <3> HIDE DEF t, from
    <3>1. t[k] = s[from(k)] /\ from(k) \in 1 .. n
      BY <2>2, <2>5
    <3> QED BY <2>1, <2>3, <3>1
  <2>6. ASSUME NEW l \in 1 .. n PROVE \E k \in 1 .. n + 1 : k # j /\ from(k) = l
    <3>1. CASE l < j
      BY <1>2, <3>1
    <3>2. CASE ~(l < j)
      <4>1. l + 1 \in 1 .. n + 1 /\ l + 1 # j /\ from(l + 1) = l
        BY <1>2, <3>2
      <4> QED BY <4>1
    <3> QED BY <3>1, <3>2
  <2>7. Contents(p, n + 1, t) = {pair(k) : k \in 1 .. n + 1} /\ P = {old(k) : k \in 1 .. n}
    BY <1>1 DEF Contents
  <2> HIDE DEF pair, old, from
  <2>8. ASSUME NEW k \in 1 .. n + 1 PROVE pair(k) \in Q
    BY <2>4, <2>5, <2>7
  <2>9. ASSUME NEW q \in Q PROVE \E k \in 1 .. n + 1 : q = pair(k)
    BY <2>4, <2>5, <2>6, <2>7
  <2> HIDE DEF Q
  <2> QED BY <2>7, <2>8, <2>9
<1>12. end = NULL => Lists(p, Q)
  BY <1>9, <1>11 DEF Lists
<1> QED BY <1>4, <1>6, <1>10, <1>12 DEF Added

-----------------------------------------------------------------------------
(* The calls. *)

ListInv == (\E P : Lists(memory, P)) /\ CrashesOnlyOnReuse

(* The program follows a pointer that memory held: there is no more to be said. *)
Breaks == status' = "undefined" /\ UNCHANGED <<Printed, answer, noMemory>>

LEMMA MapIs ==
    ASSUME NEW P, Lists(memory, P)
    PROVE  Map!Pairs = P
<1>1. Printed = PrintedOf(memory)
  BY Zenon DEF Printed, PrintedOf, PrintedAlong
<1>2. Range(PrintedOf(memory)) = P
  BY PrintsTheMap
<1> QED BY <1>1, <1>2, Zenon DEF Map!Pairs, Map!Range, Range

(* What the list is after a step is what the map becomes. *)
LEMMA MapBecomes ==
    ASSUME NEW Q, Lists(memory, Q)', NEW r, answer' = r, NEW f, noMemory' = f
    PROVE  Map!Becomes(Q, r, f)
<1> DEFINE list == PrintedOf(memory')
<1>1. Printed' = list
  BY Zenon DEF Printed, PrintedOf, PrintedAlong
<1>2. /\ Range(list) = Q
      /\ \A k \in 2 .. Len(list) : list[k - 1][1] < list[k][1]
  BY PrintsTheMap
<1> HIDE DEF list
<1>3. Map!Range(list) = Range(list)
  BY Zenon DEF Map!Range, Range
<1> QED BY <1>1, <1>2, <1>3 DEF Map!Becomes, Map!Ascending

LEMMA FreedLists ==
    ASSUME NEW m, NEW P, Lists(m, P), NEW r, r = [m EXCEPT !.freed = TRUE]
    PROVE  Lists(r, P) /\ r.freed /\ PrintedOf(r) = PrintedOf(m)
<1>1. PICK n, s : IsList(m, n, s, NULL) /\ P = Contents(m, n, s)
  BY DEF Lists
<1>2. r \in Memory /\ r.head = m.head /\ r.heap = m.heap /\ r.freed
  BY <1>1 DEF IsList, Memory
<1>3. IsList(r, n, s, NULL)
  BY <1>1, <1>2 DEF IsList
<1>4. Contents(r, n, s) = P
  BY <1>1, <1>2 DEF Contents
<1>5. Chain(r) = Chain(m)
  BY <1>2 DEF Chain, After
<1>6. PrintedOf(r) = PrintedOf(m)
  BY <1>2, <1>5, Zenon DEF PrintedOf
<1> QED BY <1>2, <1>3, <1>4, <1>6 DEF Lists

LEMMA UndefinedBreaks ==
    ASSUME ListInv, NEW m, m.freed = TRUE, Undefined(m)
    PROVE  ListInv' /\ Breaks
<1>1. PICK P : Lists(memory, P)
  BY DEF ListInv
<1>2. memory' = [memory EXCEPT !.freed = TRUE] /\ answer' = answer /\ noMemory' = noMemory
  BY DEF Undefined
<1>3. Lists(memory', P) /\ memory'.freed /\ PrintedOf(memory') = PrintedOf(memory)
  BY <1>1, <1>2, FreedLists
<1>4. ListInv'
  BY <1>3 DEF ListInv, CrashesOnlyOnReuse
<1>5. Printed' = Printed
  BY <1>3, Zenon DEF Printed, PrintedOf, PrintedAlong
<1> QED BY <1>2, <1>4, <1>5 DEF Breaks, Undefined

(* What a call that returns leaves. *)
LEMMA ReturnBecomes ==
    ASSUME NEW m, NEW Q, Lists(m, Q), NEW r, NEW f, Return(m, r, f)
    PROVE  ListInv' /\ Map!Becomes(Q, r, f) /\ status' = "running"
<1>1. ChainEnd(m) = NULL
  BY PrintsTheMap
<1>2. memory' = m /\ answer' = r /\ noMemory' = f /\ status' = "running"
  BY <1>1 DEF Return
<1>3. Lists(memory, Q)'
  BY <1>2
<1>4. Map!Becomes(Q, r, f)
  BY <1>2, <1>3, MapBecomes
<1> QED BY <1>2, <1>3, <1>4 DEF ListInv, CrashesOnlyOnReuse

(* A new pair, unless printing follows a pointer that memory held. *)
LEMMA AddNewBecomes ==
    ASSUME ListInv, NEW m, NEW P, Lists(m, P), NEW i \in Int, NEW v \in Strings, ~Has(m, i),
           Len(Chain(m)) < Cardinality(Elements), NEW r, AddNew(m, i, v, r)
    PROVE  ListInv' /\ (Breaks \/ (Map!Becomes(P \cup {<<i, v>>}, r, FALSE) /\ status' = "running"))
<1> DEFINE e == Min(Elements \ Range(Chain(m)))
<1>1. PICK prev \in Leftover(m), next \in Leftover(m) :
        Return(Insert(m, e, [prev |-> prev, next |-> next, i |-> i, v |-> v]), r, FALSE)
  BY DEF AddNew
<1> DEFINE p == Insert(m, e, [prev |-> prev, next |-> next, i |-> i, v |-> v])
           Q == P \cup {<<i, v>>}
<1>2. /\ p.freed = m.freed
      /\ ChainEnd(p) = NULL => Lists(p, Q)
      /\ ChainEnd(p) # NULL => m.freed
  <2>1. Added(p, m, P, <<i, v>>)
    BY <1>1, InsertAdds
  <2> QED BY <2>1 DEF Added
<1>3. m.freed \in BOOLEAN
  BY PrintsTheMap DEF Memory
<1>4. Return(p, r, FALSE)
  BY <1>1
<1> HIDE DEF p, Q
<1>5. CASE ChainEnd(p) = NULL
  BY <1>2, <1>4, <1>5, ReturnBecomes DEF Q
<1>6. CASE ChainEnd(p) # NULL
  <2>1. Undefined(p) /\ p.freed = TRUE
    BY <1>2, <1>3, <1>4, <1>6 DEF Return
  <2> QED BY <2>1, UndefinedBreaks
<1> QED BY <1>5, <1>6

LEMMA ListCalls ==
    ASSUME ListInv, NEW i \in Keys, Call(i)
    PROVE  ListInv' /\ (Breaks \/ (Map!Call(i) /\ status' = "running"))
<1>1. PICK P : Lists(memory, P)
  BY DEF ListInv
<1>2. Map!Pairs = P /\ i \in Int
  BY <1>1, MapIs, ListAssumption
<1>3. Map!Others(i) = {p \in P : p[1] # i} /\ (Map!Known(i) <=> Has(memory, i))
  BY <1>1, <1>2, HasIsInMap DEF Map!Others, Map!Known
<1>4. /\ Has(memory, i) => /\ <<i, memory.heap[Find(memory, i)].v>> \in P
                           /\ memory.heap[Find(memory, i)].v \in Strings
      /\ Crashes(memory, i) => memory.freed = TRUE
  BY <1>1, HasIsInMap, PrintsTheMap DEF Memory
<1> DEFINE Q == {p \in P : p[1] # i}
           d == Delete(memory, i)
<1>5. ASSUME Has(memory, i), ~Crashes(memory, i)
      PROVE  /\ Lists(d, Q) /\ ~Has(d, i) /\ Len(Chain(d)) < Cardinality(Elements)
  BY <1>1, <1>5, DeleteRemoves
<1>6. ASSUME Undefined(memory), Crashes(memory, i)
      PROVE  ListInv' /\ Breaks
  BY <1>4, <1>6, UndefinedBreaks
<1> HIDE DEF Q, d
<1>7. CASE \E v \in Strings : AddElement(i, v)
  <2>0. PICK v \in Strings : AddElement(i, v)
    BY <1>7
  <2>1. ~Has(memory, i) /\ Len(Chain(memory)) < Cardinality(Elements) /\ AddNew(memory, i, v, 0)
    BY <2>0 DEF AddElement
  <2>2. ListInv' /\ (Breaks \/ (Map!Becomes(P \cup {<<i, v>>}, 0, FALSE) /\ status' = "running"))
    BY <1>1, <1>2, <2>1, AddNewBecomes
  <2>3. Map!Others(i) = P /\ ~Map!Known(i)
    BY <1>1, <1>3, <2>1, HasIsInMap
  <2>4. Map!Becomes(P \cup {<<i, v>>}, 0, FALSE) => Map!Add(i, v)
    BY <2>3 DEF Map!Add
  <2> QED BY <2>2, <2>4 DEF Map!Call
<1>8. CASE \E v \in Strings : OverwriteElement(i, v)
  <2>0. PICK v \in Strings : OverwriteElement(i, v)
    BY <1>8
  <2>1. Has(memory, i)
    BY <2>0 DEF OverwriteElement
  <2>2. CASE Crashes(memory, i)
    BY <1>6, <2>0, <2>2 DEF OverwriteElement
  <2>3. CASE ~Crashes(memory, i)
    <3>1. AddNew(d, i, v, 1)
      BY <2>0, <2>3 DEF OverwriteElement, d
    <3>2. ListInv' /\ (Breaks \/ (Map!Becomes(Q \cup {<<i, v>>}, 1, FALSE) /\ status' = "running"))
      BY <1>2, <1>5, <2>1, <2>3, <3>1, AddNewBecomes
    <3>3. Map!Becomes(Q \cup {<<i, v>>}, 1, FALSE) => Map!Add(i, v)
      BY <1>3, <2>1 DEF Map!Add, Q
    <3> QED BY <3>2, <3>3 DEF Map!Call
  <2> QED BY <2>2, <2>3
<1>9. CASE OverwriteFails(i)
  <2>1. Has(memory, i)
    BY <1>9 DEF OverwriteFails
  <2>2. CASE Crashes(memory, i)
    BY <1>6, <1>9, <2>2 DEF OverwriteFails
  <2>3. CASE ~Crashes(memory, i)
    <3>1. Return(d, 1, TRUE)
      BY <1>9, <2>3 DEF OverwriteFails, d
    <3>2. ListInv' /\ Map!Becomes(Q, 1, TRUE) /\ status' = "running"
      BY <1>5, <2>1, <2>3, <3>1, ReturnBecomes
    <3>3. Map!AddLoses(i)
      BY <1>3, <2>1, <3>2 DEF Map!AddLoses, Q
    <3> QED BY <3>2, <3>3 DEF Map!Call
  <2> QED BY <2>2, <2>3
<1>10. CASE DeleteElement(i)
  <2>1. CASE ~Has(memory, i)
    <3>1. Return(memory, 0, FALSE)
      BY <1>10, <2>1 DEF DeleteElement
    <3>2. ListInv' /\ Map!Becomes(P, 0, FALSE) /\ status' = "running"
      BY <1>1, <3>1, ReturnBecomes
    <3>3. Map!Others(i) = P /\ ~Map!Known(i)
      BY <1>1, <1>3, <2>1, HasIsInMap
    <3>4. Map!Delete(i)
      BY <3>2, <3>3 DEF Map!Delete
    <3> QED BY <3>2, <3>4 DEF Map!Call
  <2>2. CASE Has(memory, i) /\ Crashes(memory, i)
    BY <1>6, <1>10, <2>2 DEF DeleteElement
  <2>3. CASE Has(memory, i) /\ ~Crashes(memory, i)
    <3>1. Return(d, 1, FALSE)
      BY <1>10, <2>3 DEF DeleteElement, d
    <3>2. ListInv' /\ Map!Becomes(Q, 1, FALSE) /\ status' = "running"
      BY <1>5, <2>3, <3>1, ReturnBecomes
    <3>3. Map!Delete(i)
      BY <1>3, <2>3, <3>2 DEF Map!Delete, Q
    <3> QED BY <3>2, <3>3 DEF Map!Call
  <2> QED BY <2>1, <2>2, <2>3
<1>11. CASE LookupElement(i)
  <2> DEFINE r == IF Has(memory, i) THEN memory.heap[Find(memory, i)].v ELSE NoString
  <2>1. ListInv' /\ Map!Becomes(P, r, FALSE) /\ status' = "running"
    BY <1>1, <1>11, ReturnBecomes DEF LookupElement
  <2>2. Map!Lookup(i)
    BY <1>2, <1>3, <1>4, <2>1 DEF Map!Lookup
  <2> QED BY <2>1, <2>2 DEF Map!Call
<1>12. CASE AddFails
  <2>1. ListInv' /\ Map!Becomes(P, -1, TRUE) /\ status' = "running"
    BY <1>1, <1>12, ReturnBecomes DEF AddFails
  <2>2. Map!AddFails
    BY <1>2, <2>1 DEF Map!AddFails
  <2> QED BY <2>1, <2>2 DEF Map!Call
<1> QED BY <1>7, <1>8, <1>9, <1>10, <1>11, <1>12 DEF Call

(* After k turns of delete_list. *)
LEMMA ListDeleted ==
    ASSUME ListInv, DeleteList
    PROVE  ListInv' /\ (Breaks \/ Map!DeleteList)
<1> DEFINE deleteHead == [m \in Memory |-> IF m.head = NULL THEN m ELSE Delete(m, m.heap[m.head].i)]
           at == Iterate(deleteHead, memory)
           N == Cardinality(Elements)
           Turned(m, k) == \E n, s : /\ IsList(m, n, s, NULL)
                                     /\ n = 0 \/ n + k <= N
                                     /\ n > 0 => m.heap[s[1]].prev # Wild
<1>1. PICK P : Lists(memory, P)
  BY DEF ListInv
<1>2. PICK n, s : IsList(memory, n, s, NULL)
  BY <1>1 DEF Lists
<1>3. /\ memory.head = IF n = 0 THEN NULL ELSE s[1]
      /\ n \in Nat /\ s \in [1 .. n -> Elements] /\ n <= N /\ N \in Nat
  <2>1. n <= N /\ N \in Nat
    BY <1>2, ListFits
  <2> QED BY <1>2, <2>1 DEF IsList
<1>4. CASE memory.head # NULL /\ Crashes(memory, memory.heap[memory.head].i)
  <2>1. Undefined(memory)
    BY <1>4 DEF DeleteList
  <2>2. memory.freed = TRUE
    BY <1>1, <1>4, HasIsInMap, PrintsTheMap DEF Memory
  <2> QED BY <2>1, <2>2, UndefinedBreaks
<1>5. CASE ~(memory.head # NULL /\ Crashes(memory, memory.heap[memory.head].i))
  <2>1. status' = "ended" /\ memory' = at[N] /\ answer' = answer /\ noMemory' = FALSE
    BY <1>5 DEF DeleteList
  <2> HIDE DEF at, N
  <2>2. Turned(memory, 0)
    <3>1. n > 0 => memory.heap[s[1]].prev # Wild
      <4> SUFFICES ASSUME n > 0 PROVE memory.heap[s[1]].prev # Wild
        OBVIOUS
      <4>1. memory.head = s[1] /\ s[1] \in Elements /\ 1 \in 1 .. n
        BY <1>3
      <4> DEFINE i == memory.heap[s[1]].i
      <4>2. Has(memory, i) /\ Find(memory, i) = s[1]
        BY <1>2, <4>1, FindIs
      <4>3. ~Crashes(memory, i)
        BY <1>5, <4>1, ListAssumption
      <4> QED BY <4>2, <4>3 DEF Crashes
    <3> QED BY <1>2, <1>3, <3>1
  <2>3. ASSUME NEW k \in Nat, NEW m, Turned(m, k)
        PROVE  Turned(deleteHead[m], k + 1)
    <3>1. PICK l, t : /\ IsList(m, l, t, NULL)
                      /\ l = 0 \/ l + k <= N
                      /\ l > 0 => m.heap[t[1]].prev # Wild
      BY <2>3
    <3>2. /\ m.head = IF l = 0 THEN NULL ELSE t[1]
          /\ l \in Nat /\ t \in [1 .. l -> Elements] /\ m \in Memory
      BY <3>1 DEF IsList
    <3>3. CASE l = 0
      BY <3>1, <3>2, <3>3
    <3>4. CASE l > 0
      <4> DEFINE i == m.heap[t[1]].i
                 d == Delete(m, i)
                 u == Without(t, l, 1)
      <4>1. deleteHead[m] = d
        BY <3>2, <3>4, ListAssumption
      <4>2. 1 \in 1 .. l /\ m.heap[t[1]].prev # Wild
        BY <3>1, <3>2, <3>4
      <4>3. IsList(d, l - 1, u, NULL) /\ (l > 1 => d.heap[t[2]].prev = NULL)
        BY <3>1, <4>2, DeleteShortens
      <4>4. l > 1 => u[1] = t[2]
        BY <3>2 DEF Without
      <4> HIDE DEF d, u
      <4>5. l - 1 = 0 \/ l - 1 + (k + 1) <= N
        BY <1>3, <3>1, <3>2, <3>4
      <4>6. Turned(d, k + 1)
        BY <3>2, <4>3, <4>4, <4>5, ListAssumption
      <4> QED BY <4>1, <4>6
    <3> QED BY <3>2, <3>3, <3>4
  <2> HIDE DEF Turned, deleteHead
  <2> DEFINE T == {k \in Nat : Turned(at[k], k)}
  <2>4. Nat \subseteq T
    <3>1. at[0] = memory /\ \A k \in Nat : at[k + 1] = deleteHead[at[k]]
      BY IterateDef DEF at
    <3>2. 0 \in T
      BY <2>2, <3>1
    <3>3. \A k \in Nat : k \in T => k + 1 \in T
      BY <2>3, <3>1
    <3> HIDE DEF T
    <3> QED BY <3>2, <3>3, ByInduction
  <2>5. Turned(memory', N)
    BY <1>3, <2>1, <2>4
  <2>6. PICK l, t : IsList(memory', l, t, NULL) /\ (l = 0 \/ l + N <= N)
    BY <2>5 DEF Turned
  <2>7. l = 0
    BY <1>3, <2>6 DEF IsList
  <2>8. Lists(memory', {})
    BY <2>6, <2>7 DEF Lists, Contents
  <2>9. Map!DeleteList
    BY <2>1, <2>8, MapBecomes DEF Map!DeleteList
  <2> QED BY <2>1, <2>8, <2>9 DEF ListInv, CrashesOnlyOnReuse
<1> QED BY <1>4, <1>5

LEMMA ListUnchanged ==
    ASSUME ListInv, UNCHANGED <<memory, answer, noMemory>>, status' # "undefined" \/ status' = status
    PROVE  ListInv' /\ UNCHANGED <<Printed, answer, noMemory>>
<1>1. Printed' = PrintedOf(memory') /\ Printed = PrintedOf(memory)
  BY Zenon DEF Printed, PrintedOf, PrintedAlong
<1> QED BY <1>1 DEF ListInv, CrashesOnlyOnReuse

LEMMA ListStep ==
    ASSUME ListInv, ListNext
    PROVE  ListInv' /\ (Map!Next \/ UNCHANGED Map!mapVars)
<1>1. ASSUME NEW i \in Keys, Call(i), asked' = IF status' = "running" THEN i ELSE asked
      PROVE  ListInv' /\ (Map!Next \/ UNCHANGED Map!mapVars)
  <2>1. ListInv' /\ (Breaks \/ (Map!Call(i) /\ status' = "running"))
    BY <1>1, ListCalls
  <2>2. Map!Call(i) /\ asked' = i => Map!Next
    BY DEF Map!Next
  <2> QED BY <1>1, <2>1, <2>2 DEF Breaks, Map!mapVars
<1>2. ASSUME UNCHANGED asked, UnknownCommand
      PROVE  ListInv' /\ UNCHANGED Map!mapVars
  BY <1>2, ListUnchanged DEF UnknownCommand, Map!mapVars
<1>3. ASSUME UNCHANGED asked, DeleteList
      PROVE  ListInv' /\ (Map!Next \/ UNCHANGED Map!mapVars)
  BY <1>3, ListDeleted DEF Breaks, Map!mapVars, Map!Next
<1> QED BY <1>1, <1>2, <1>3 DEF ListNext

LEMMA ListInitHolds == ListInit => ListInv /\ Map!Init
<1> SUFFICES ASSUME ListInit PROVE ListInv /\ Map!Init
  OBVIOUS
<1> DEFINE s == [k \in 1 .. 0 |-> 0]
<1>1. memory \in Memory
  BY DEF ListInit, Memory, Element, Pointer, Unused
<1>2. IsList(memory, 0, s, NULL)
  BY <1>1 DEF IsList, ListInit
<1>3. Lists(memory, {})
  BY <1>2 DEF Lists, Contents
<1>4. Chain(memory) = <<>>
  BY <1>2, ChainIs
<1>5. Printed = <<>>
  BY <1>4 DEF Printed
<1> QED BY <1>3, <1>5 DEF ListInv, CrashesOnlyOnReuse, ListInit, Map!Init

LEMMA ListHolds == Spec => []ListInv
<1>1. Init => ListInv
  BY ListInitHolds DEF Init
<1>2. ListInv /\ [Next]_vars => ListInv'
  <2> SUFFICES ASSUME ListInv, [Next]_vars PROVE ListInv'
    OBVIOUS
  <2>1. CASE ListNext
    BY <2>1, ListStep
  <2>2. CASE UNCHANGED listVars
    BY <2>2, ListUnchanged DEF listVars
  <2> QED BY <2>1, <2>2 DEF Next, vars
<1> QED BY <1>1, <1>2, PTL DEF Spec

(* After any calls, however many elements there are, prev leads back where next leads and
   every walk ends; only the head's prev may be what memory held (cp3-problem2.c). *)
THEOREM ListStaysLinked == Spec => []Linked
<1>1. ListInv => Linked
  <2> SUFFICES ASSUME ListInv PROVE Linked
    OBVIOUS
  <2>1. PICK n, s : IsList(memory, n, s, NULL)
    BY DEF ListInv, Lists
  <2>2. Chain(memory) = s /\ ChainEnd(memory) = NULL /\ Len(Chain(memory)) = n
    BY <2>1, ChainIs
  <2> QED BY <2>1, <2>2, ListAssumption DEF Linked, IsList
<1> QED BY <1>1, ListHolds, PTL

(* No pointer is followed that the program has not set, unless it has freed a string as
   large as an element (cp3-problem2.c). *)
THEOREM NoCrashBeforeReuse == Spec => []CrashesOnlyOnReuse
<1>1. ListInv => CrashesOnlyOnReuse
  BY DEF ListInv
<1> QED BY <1>1, ListHolds, PTL

(* Every step of the list is a step of the map, with the value the call returns: what is
   printed is the pairs that were added and not deleted, in the order of their ints,
   and nothing is lost while there is memory (cp3-problem2.c). *)
THEOREM ListIsAMap == Spec => ImplementsMap
<1>1. Init => Map!Init
  BY ListInitHolds DEF Init
<1>2. ListInv /\ [Next]_vars => [Map!Next]_Map!mapVars
  <2> SUFFICES ASSUME ListInv, [Next]_vars PROVE [Map!Next]_Map!mapVars
    OBVIOUS
  <2>1. CASE ListNext
    BY <2>1, ListStep
  <2>2. CASE UNCHANGED listVars
    BY <2>2, ListUnchanged DEF listVars, Map!mapVars
  <2> QED BY <2>1, <2>2 DEF Next, vars
<1> QED BY <1>1, <1>2, ListHolds, PTL DEF Spec, ImplementsMap, Map!Spec

-----------------------------------------------------------------------------
(* The sorted list. *)

Node == [i : Int, next : Nat]

(* From f, next leads along all the nodes ns, in the order of s, which is that of their ints. *)
InOrder(f, ns, n, s) ==
    /\ n \in Nat /\ s \in [1 .. n -> 1 .. n]
    /\ \A x \in 1 .. n : ns[x].i \in Int
    /\ f = IF n = 0 THEN 0 ELSE s[1]
    /\ \A k \in 1 .. n : ns[s[k]].next = IF k = n THEN 0 ELSE s[k + 1]
    /\ \A j, k \in 1 .. n : s[j] = s[k] => j = k
    /\ \A j, k \in 1 .. n : j < k => ns[s[j]].i <= ns[s[k]].i

IntsOf(ns, n, s) == [k \in 1 .. n |-> ns[s[k]].i]

SortedInv ==
    /\ nodes \in Seq(Node) /\ elements = Len(nodes)
    /\ \E s : InOrder(first, nodes, Len(nodes), s)

LEMMA WalkInOrder ==
    ASSUME NEW f, NEW ns, NEW n, NEW s, InOrder(f, ns, n, s)
    PROVE  Walk([e \in 0 .. n |-> IF e = 0 THEN 0 ELSE ns[e].next], f, n, 1 .. n) = s
<1> DEFINE next == [e \in 0 .. n |-> IF e = 0 THEN 0 ELSE ns[e].next]
<1>1. n \in Nat /\ s \in [1 .. n -> 1 .. n]
  BY DEF InOrder
<1>2. Leads(next, f, n, s, 0)
  <2>1. next[0] = 0 /\ \A e \in 1 .. n : next[e] = ns[e].next
    BY <1>1
  <2>2. \A k \in 1 .. n : next[s[k]] = IF k = n THEN 0 ELSE s[k + 1]
    BY <1>1, <2>1 DEF InOrder
  <2>3. f = IF n = 0 THEN 0 ELSE s[1]
    BY DEF InOrder
  <2> HIDE DEF next
  <2> QED BY <2>1, <2>2, <2>3 DEF Leads
<1>3. n \in 0 .. n /\ 0 \notin 1 .. n
  BY <1>1
<1> HIDE DEF next
<1>4. Walk(next, f, n, 1 .. n) = s
  BY <1>1, <1>2, <1>3, WalkReads
<1> QED BY <1>4 DEF next

LEMMA NodesAre ==
    ASSUME NEW s, InOrder(first, nodes, Len(nodes), s)
    PROVE  /\ Nodes = s /\ Len(s) = Len(nodes)
           /\ Values = IntsOf(nodes, Len(nodes), s)
<1>1. Nodes = s
  BY WalkInOrder, Zenon DEF Nodes
<1>2. Len(s) = Len(nodes)
  BY DEF InOrder
<1> QED BY <1>1, <1>2, Zenon DEF Values, IntsOf

LEMMA NodesAreNext ==
    ASSUME NEW s, InOrder(first', nodes', Len(nodes'), s)
    PROVE  Values' = IntsOf(nodes', Len(nodes'), s)
<1>1. Nodes' = s
  BY WalkInOrder, Zenon DEF Nodes
<1>2. Len(s) = Len(nodes')
  BY DEF InOrder
<1> QED BY <1>1, <1>2, Zenon DEF Values, IntsOf

LEMMA RemoveJoined ==
    ASSUME NEW n \in Nat, NEW v \in [1 .. n -> Int], NEW i \in Int, NEW j \in 1 .. n + 1
    PROVE  RemoveAt(Joined(v, n, j, i), j) = v
<1> DEFINE w == Joined(v, n, j, i)
           a == SubSeq(w, 1, j - 1)
           b == SubSeq(w, j + 1, Len(w))
<1>1. w \in Seq(Int) /\ Len(w) = n + 1
      /\ \A k \in 1 .. n + 1 : w[k] = IF k < j THEN v[k] ELSE IF k = j THEN i ELSE v[k - 1]
  BY DEF Joined
<1> HIDE DEF w
<1>2. a \in Seq(Int) /\ Len(a) = j - 1 /\ \A k \in 1 .. j - 1 : a[k] = v[k]
  BY <1>1
<1>3. b \in Seq(Int) /\ Len(b) = n + 1 - j /\ \A k \in 1 .. n + 1 - j : b[k] = v[j + k - 1]
  BY <1>1
<1> HIDE DEF a, b
<1>4. a \o b \in Seq(Int) /\ Len(a \o b) = n
  <2>1. a \o b \in Seq(Int) /\ Len(a \o b) = Len(a) + Len(b)
    <3>1. a \in Seq(Int) /\ b \in Seq(Int)
      BY <1>2, <1>3
    <3> QED BY <3>1
  <2>2. Len(a) + Len(b) = n
    BY <1>2, <1>3
  <2> QED BY <2>1, <2>2
<1>5. ASSUME NEW k \in 1 .. n PROVE (a \o b)[k] = v[k]
  <2>1. CASE k < j
    <3>1. (a \o b)[k] = a[k]
      BY <1>2, <1>3, <1>5, <2>1
    <3> QED BY <1>2, <1>5, <2>1, <3>1
  <2>2. CASE ~(k < j)
    <3>1. (a \o b)[k] = b[k - (j - 1)]
      BY <1>2, <1>3, <1>5, <2>2
    <3>2. k - (j - 1) \in 1 .. n + 1 - j /\ j + (k - (j - 1)) - 1 = k
      BY <1>5, <2>2
    <3> QED BY <1>3, <3>1, <3>2
  <2> QED BY <2>1, <2>2
<1>6. a \o b = v
  <2>1. v \in Seq(Int) /\ Len(v) = n
    OBVIOUS
  <2> DEFINE w2 == a \o b
  <2>2. w2 \in Seq(Int) /\ Len(w2) = n /\ \A k \in 1 .. n : w2[k] = v[k]
    BY <1>4, <1>5
  <2> HIDE DEF w2
  <2>3. w2 = v
    BY <2>1, <2>2
  <2> QED BY <2>3 DEF w2
<1> QED BY <1>6 DEF RemoveAt, a, b, w

Inserted(ns, n, fs, ms, s, i, j) ==
    /\ \A k \in 1 .. n : IF k < j THEN ns[s[k]].i <= i ELSE i <= ns[s[k]].i
    /\ fs = IF j = 1 THEN n + 1 ELSE s[1]
    /\ ms[n + 1].i = i /\ ms[n + 1].next = IF j = n + 1 THEN 0 ELSE s[j]
    /\ \A x \in 1 .. n :
         /\ ms[x].i = ns[x].i
         /\ ms[x].next = IF j > 1 /\ x = s[j - 1] THEN n + 1 ELSE ns[x].next

LEMMA InsertedInOrder ==
    ASSUME NEW f, NEW ns, NEW n, NEW fs, NEW ms, NEW s, InOrder(f, ns, n, s), NEW i \in Int,
           NEW j \in 1 .. n + 1, Inserted(ns, n, fs, ms, s, i, j)
    PROVE  /\ InOrder(fs, ms, n + 1, Joined(s, n, j, n + 1))
           /\ IntsOf(ms, n + 1, Joined(s, n, j, n + 1))
                = Joined(IntsOf(ns, n, s), n, j, i)
<1> DEFINE t == Joined(s, n, j, n + 1)
<1>1. /\ n \in Nat /\ s \in [1 .. n -> 1 .. n]
      /\ \A x \in 1 .. n : ns[x].i \in Int
      /\ \A k \in 1 .. n : s[k] \in 1 .. n
  BY DEF InOrder
<1>2. t \in [1 .. n + 1 -> 1 .. n + 1]
      /\ \A k \in 1 .. n + 1 : t[k] = IF k < j THEN s[k] ELSE IF k = j THEN n + 1 ELSE s[k - 1]
  BY <1>1 DEF Joined
<1>a. /\ \A k \in 1 .. n : IF k < j THEN ns[s[k]].i <= i ELSE i <= ns[s[k]].i
      /\ fs = IF j = 1 THEN n + 1 ELSE s[1]
      /\ ms[n + 1].i = i /\ ms[n + 1].next = IF j = n + 1 THEN 0 ELSE s[j]
      /\ \A x \in 1 .. n :
             /\ ms[x].i = ns[x].i
             /\ ms[x].next = IF j > 1 /\ x = s[j - 1] THEN n + 1 ELSE ns[x].next
  BY DEF Inserted
<1>b. /\ f = IF n = 0 THEN 0 ELSE s[1]
      /\ \A k \in 1 .. n : ns[s[k]].next = IF k = n THEN 0 ELSE s[k + 1]
      /\ \A k, l \in 1 .. n : s[k] = s[l] => k = l
      /\ \A k, l \in 1 .. n : k < l => ns[s[k]].i <= ns[s[l]].i
  BY DEF InOrder
<1> HIDE DEF t
<1>3. \A k \in 1 .. n + 1 :
        ms[t[k]].i = IF k < j THEN ns[s[k]].i ELSE IF k = j THEN i ELSE ns[s[k - 1]].i
  <2> SUFFICES ASSUME NEW k \in 1 .. n + 1
               PROVE  ms[t[k]].i =
                        IF k < j THEN ns[s[k]].i ELSE IF k = j THEN i ELSE ns[s[k - 1]].i
    OBVIOUS
  <2>1. CASE k < j
    <3>1. k \in 1 .. n /\ t[k] = s[k]
      BY <1>1, <1>2, <2>1
    <3>2. ms[s[k]].i = ns[s[k]].i
      BY <1>1, <1>a, <3>1
    <3> QED BY <2>1, <3>1, <3>2
  <2>2. CASE k = j
    <3>1. t[k] = n + 1
      BY <1>2, <2>2
    <3>2. ms[n + 1].i = i
      BY <1>a
    <3> QED BY <2>2, <3>1, <3>2
  <2>3. CASE k > j
    <3>1. PICK l \in 1 .. n : l = k - 1 /\ t[k] = s[l]
      BY <1>1, <1>2, <2>3
    <3>2. ms[s[l]].i = ns[s[l]].i
      BY <1>1, <1>a
    <3> QED BY <2>3, <3>1, <3>2
  <2> QED BY <1>1, <2>1, <2>2, <2>3
<1>4. fs = t[1]
  BY <1>1, <1>2, <1>a
<1>5. ASSUME NEW k \in 1 .. n + 1
      PROVE  ms[t[k]].next = IF k = n + 1 THEN 0 ELSE t[k + 1]
  <2>0. n \in Nat /\ j \in 1 .. n + 1 /\ k \in 1 .. n + 1
    BY <1>1, <1>5
  <2>1. CASE k = j
    <3>1. ms[t[k]].next = IF j = n + 1 THEN 0 ELSE s[j]
      BY <1>2, <1>a, <2>0, <2>1
    <3>2. k # n + 1 => k + 1 \in 1 .. n + 1 /\ ~(k + 1 < j) /\ k + 1 # j /\ k + 1 - 1 = j
      BY <2>0, <2>1
    <3>3. k # n + 1 => t[k + 1] = s[j]
      BY <1>2, <3>2
    <3> QED BY <2>1, <3>1, <3>3
  <2>2. CASE k < j
    <3>1. k \in 1 .. n /\ k + 1 \in 1 .. n + 1 /\ k # n + 1
      BY <2>0, <2>2
    <3>4. t[k] = s[k]
      BY <1>2, <1>5, <2>2
    <3>5. s[k] \in 1 .. n
      BY <1>1, <3>1
    <3>6. ms[s[k]].next = IF j > 1 /\ s[k] = s[j - 1] THEN n + 1 ELSE ns[s[k]].next
      BY <1>a, <3>5
    <3>2. CASE k = j - 1
      <4>1. j > 1 /\ s[k] = s[j - 1] /\ k + 1 = j
        BY <2>0, <3>2
      <4>2. t[j] = n + 1
        BY <1>2
      <4> QED BY <3>1, <3>4, <3>6, <4>1, <4>2
    <3>3. CASE k # j - 1
      <4>1. j - 1 \in 1 .. n
        BY <2>0, <2>2
      <4>2. s[k] # s[j - 1]
        BY <1>b, <3>1, <3>3, <4>1
      <4>3. k + 1 < j /\ k # n
        BY <2>0, <2>2, <3>3
      <4>4. ns[s[k]].next = s[k + 1]
        BY <1>b, <3>1, <4>3
      <4>5. t[k + 1] = s[k + 1]
        BY <1>2, <3>1, <4>3
      <4> QED BY <3>1, <3>4, <3>6, <4>2, <4>4, <4>5
    <3> QED BY <3>2, <3>3
  <2>3. CASE k > j
    <3>1. k - 1 \in 1 .. n /\ ~(k < j) /\ k # j /\ k - 1 + 1 = k /\ (k - 1 = n <=> k = n + 1)
      BY <2>0, <2>3
    <3>2. t[k] = s[k - 1]
      BY <1>2, <1>5, <3>1
    <3>3. s[k - 1] \in 1 .. n
      BY <1>1, <3>1
    <3>4. ms[s[k - 1]].next = ns[s[k - 1]].next
      <4>1. j > 1 => j - 1 \in 1 .. n /\ j - 1 # k - 1
        BY <2>0, <2>3
      <4>2. j > 1 => s[j - 1] # s[k - 1]
        BY <1>b, <3>1, <4>1
      <4> QED BY <1>a, <3>3, <4>2
    <3>5. ns[s[k - 1]].next = IF k - 1 = n THEN 0 ELSE s[k]
      BY <1>b, <3>1
    <3>6. k # n + 1 => k + 1 \in 1 .. n + 1 /\ ~(k + 1 < j) /\ k + 1 # j /\ k + 1 - 1 = k
      BY <2>0, <2>3
    <3>7. k # n + 1 => t[k + 1] = s[k]
      BY <1>2, <3>6
    <3> QED BY <3>1, <3>2, <3>4, <3>5, <3>7
  <2> QED BY <2>0, <2>1, <2>2, <2>3
<1>6. \A k, l \in 1 .. n + 1 : t[k] = t[l] => k = l
  <2>1. ASSUME NEW k \in 1 .. n + 1, NEW l \in 1 .. n + 1, k < l PROVE t[k] # t[l]
    <3> DEFINE a == IF k < j THEN k ELSE k - 1
               b == IF l < j THEN l ELSE l - 1
    <3>a. n \in Nat /\ j \in 1 .. n + 1 /\ k \in 1 .. n + 1 /\ l \in 1 .. n + 1
      BY <1>1, <2>1
    <3>b. (k # j => a \in 1 .. n) /\ (l # j => b \in 1 .. n)
      BY <3>a
    <3>c. (k # j => t[k] = s[a]) /\ (l # j => t[l] = s[b])
      BY <1>2, <3>a
    <3>1. (k # j => a \in 1 .. n /\ t[k] = s[a]) /\ (l # j => b \in 1 .. n /\ t[l] = s[b])
      BY <3>b, <3>c
    <3>2. k # j /\ l # j => a # b
      BY <1>1, <2>1
    <3>3. (k = j => t[k] = n + 1) /\ (l = j => t[l] = n + 1)
      BY <1>2, <2>1
    <3> HIDE DEF a, b
    <3>4. CASE k # j /\ l # j
      BY <1>b, <3>1, <3>2, <3>4
    <3>5. CASE k = j
      BY <1>1, <2>1, <3>1, <3>3, <3>5
    <3>6. CASE l = j
      BY <1>1, <2>1, <3>1, <3>3, <3>6
    <3> QED BY <3>4, <3>5, <3>6
  <2> QED BY <1>1, <2>1
<1>7. ASSUME NEW k \in 1 .. n + 1, NEW l \in 1 .. n + 1, k < l
      PROVE  ms[t[k]].i <= ms[t[l]].i
  <2>0. n \in Nat /\ j \in 1 .. n + 1 /\ k \in 1 .. n + 1 /\ l \in 1 .. n + 1 /\ k < l
    BY <1>1, <1>7
  <2>1. (k < j => k \in 1 .. n) /\ (k > j => k - 1 \in 1 .. n)
        /\ (l < j => l \in 1 .. n) /\ (l > j => l - 1 \in 1 .. n)
    BY <2>0
  <2>2. ms[t[k]].i = (IF k < j THEN ns[s[k]].i ELSE IF k = j THEN i ELSE ns[s[k - 1]].i)
        /\ ms[t[l]].i = (IF l < j THEN ns[s[l]].i ELSE IF l = j THEN i ELSE ns[s[l - 1]].i)
    BY <1>3, <2>0
  <2>3. CASE l < j
    <3>1. k < j
      BY <2>0, <2>3
    <3>2. ns[s[k]].i <= ns[s[l]].i
      BY <1>b, <2>0, <2>1, <2>3, <3>1
    <3> QED BY <2>2, <2>3, <3>1, <3>2
  <2>4. CASE l = j
    <3>1. k < j /\ ~(l < j)
      BY <2>0, <2>4
    <3>2. ns[s[k]].i <= i
      BY <1>a, <2>1, <3>1
    <3> QED BY <2>2, <2>4, <3>1, <3>2
  <2>5. CASE l > j /\ k > j
    <3>1. ~(k < j) /\ k # j /\ ~(l < j) /\ l # j /\ k - 1 < l - 1
      BY <2>0, <2>5
    <3>2. ns[s[k - 1]].i <= ns[s[l - 1]].i
      BY <1>b, <2>1, <2>5, <3>1
    <3> QED BY <2>2, <3>1, <3>2
  <2>6. CASE l > j /\ k = j
    <3>1. ~(k < j) /\ ~(l < j) /\ l # j /\ ~(l - 1 < j)
      BY <2>0, <2>6
    <3>2. i <= ns[s[l - 1]].i
      BY <1>a, <2>1, <2>6, <3>1
    <3> QED BY <2>2, <2>6, <3>1, <3>2
  <2>7. CASE l > j /\ k < j
    <3>1. ~(l < j) /\ l # j /\ ~(l - 1 < j)
      BY <2>0, <2>7
    <3>2. ns[s[k]].i <= i /\ i <= ns[s[l - 1]].i
      BY <1>a, <2>1, <2>7, <3>1
    <3>3. ns[s[k]].i \in Int /\ ns[s[l - 1]].i \in Int
      BY <1>1, <2>1, <2>7
    <3>4. ns[s[k]].i <= ns[s[l - 1]].i
      BY <3>2, <3>3
    <3> QED BY <2>2, <2>7, <3>1, <3>4
  <2> QED BY <2>0, <2>3, <2>4, <2>5, <2>6, <2>7
<1>8. InOrder(fs, ms, n + 1, t)
  <2>1. ASSUME NEW x \in 1 .. n + 1 PROVE ms[x].i \in Int
    <3>1. x = n + 1 \/ x \in 1 .. n
      BY <1>1, <2>1
    <3>2. x \in 1 .. n => ms[x].i = ns[x].i /\ ns[x].i \in Int
      BY <1>1, <1>a
    <3> QED BY <1>a, <3>1, <3>2
  <2> QED BY <1>1, <1>2, <1>4, <1>5, <1>6, <1>7, <2>1 DEF InOrder
<1>9. IntsOf(ms, n + 1, t) = Joined(IntsOf(ns, n, s), n, j, i)
  <2> DEFINE v == IntsOf(ns, n, s)
  <2>1. ASSUME NEW k \in 1 .. n + 1
        PROVE  ms[t[k]].i = IF k < j THEN v[k] ELSE IF k = j THEN i ELSE v[k - 1]
    <3>1. (k < j => k \in 1 .. n) /\ (~(k < j) /\ k # j => k - 1 \in 1 .. n)
      BY <1>1, <2>1
    <3>2. \A l \in 1 .. n : v[l] = ns[s[l]].i
      BY DEF IntsOf
    <3> HIDE DEF v
    <3> QED BY <1>3, <2>1, <3>1, <3>2
  <2> HIDE DEF v
  <2>2. IntsOf(ms, n + 1, t) = Joined(v, n, j, i)
    BY <2>1 DEF Joined, IntsOf
  <2> QED BY <2>2 DEF v
<1> QED BY <1>8, <1>9 DEF t

LinkedOn(ns, b, e) == [ns EXCEPT ![b].next = e]

LEMMA CellChanges ==
    ASSUME NEW ns \in Seq(Node), NEW b \in 1 .. Len(ns), NEW e \in Nat
    PROVE  /\ LinkedOn(ns, b, e) \in Seq(Node)
           /\ Len(LinkedOn(ns, b, e)) = Len(ns)
           /\ \A x \in 1 .. Len(ns) :
                /\ LinkedOn(ns, b, e)[x].i = ns[x].i
                /\ LinkedOn(ns, b, e)[x].next = IF x = b THEN e ELSE ns[x].next
<1>1. \A x \in 1 .. Len(ns) : ns[x] \in Node
  OBVIOUS
<1>2. [ns[b] EXCEPT !.next = e] \in Node
  BY <1>1 DEF Node
<1>3. [ns EXCEPT ![b].next = e] = [ns EXCEPT ![b] = [ns[b] EXCEPT !.next = e]]
  OBVIOUS
<1>4. [ns[b] EXCEPT !.next = e].i = ns[b].i /\ [ns[b] EXCEPT !.next = e].next = e
  BY <1>1 DEF Node
<1> QED BY <1>2, <1>3, <1>4 DEF LinkedOn

(* add_element puts the int behind all that are less, or first. *)
LEMMA AddIntPlaces ==
    ASSUME NEW n, n = Len(nodes), nodes \in Seq(Node),
           NEW s, InOrder(first, nodes, n, s), NEW i \in Int, AddInt(i)
    PROVE  /\ nodes' \in Seq(Node) /\ Len(nodes') = n + 1
           /\ \E j \in 1 .. n + 1 : Inserted(nodes, n, first', nodes', s, i, j)
<1> DEFINE new(next) == [i |-> i, next |-> next]
<1>1. /\ n \in Nat /\ s \in [1 .. n -> 1 .. n]
      /\ first = IF n = 0 THEN 0 ELSE s[1]
      /\ \A x \in 1 .. n : nodes[x].i \in Int
      /\ \A k \in 1 .. n : s[k] \in 1 .. n
      /\ \A k, l \in 1 .. n : k < l => nodes[s[k]].i <= nodes[s[l]].i
      /\ \A k \in 1 .. n : nodes[s[k]].next = IF k = n THEN 0 ELSE s[k + 1]
  BY DEF InOrder
<1>2. CASE first = 0 \/ nodes[first].i > i
  <2>1. first' = n + 1 /\ nodes' = Append(nodes, new(first))
    BY <1>2 DEF AddInt
  <2>2. new(first) \in Node /\ new(first).i = i /\ new(first).next = first
    BY <1>1 DEF Node
  <2>3. nodes' \in Seq(Node) /\ Len(nodes') = n + 1 /\ nodes'[n + 1] = new(first)
        /\ \A x \in 1 .. n : nodes'[x] = nodes[x]
    <3> HIDE DEF new
    <3> QED BY <1>1, <2>1, <2>2
  <2>4. \A k \in 1 .. n : i <= nodes[s[k]].i
    <3> SUFFICES ASSUME NEW k \in 1 .. n PROVE i <= nodes[s[k]].i
      OBVIOUS
    <3>1. first = s[1] /\ s[1] \in 1 .. n /\ 1 \in 1 .. n
      BY <1>1
    <3>2. nodes[s[1]].i <= nodes[s[k]].i
      BY <1>1, <3>1
    <3> QED BY <1>1, <1>2, <3>1, <3>2
  <2>5. Inserted(nodes, n, first', nodes', s, i, 1)
    <3> HIDE DEF new
    <3> QED BY <1>1, <2>1, <2>2, <2>3, <2>4 DEF Inserted
  <2> QED BY <1>1, <2>3, <2>5
<1>3. CASE ~(first = 0 \/ nodes[first].i > i)
  <2> DEFINE less == {k \in 1 .. n : \A l \in 2 .. k : nodes[s[l]].i < i}
  <2>1. n > 0 /\ first = s[1] /\ nodes[s[1]].i <= i /\ 1 \in less
    BY <1>1, <1>3
  <2>2. PICK b \in less : \A k \in less : k <= b
    <3> DEFINE T == {n - k : k \in less}
    <3>1. T \subseteq Nat /\ T # {}
      <4>1. \A k \in 1 .. n : n - k \in Nat
        BY <1>1
      <4>2. \A k \in less : k \in 1 .. n
        OBVIOUS
      <4> HIDE DEF less
      <4> QED BY <2>1, <4>1, <4>2
    <3>2. \E x \in T : \A y \in T : x <= y
      <4> HIDE DEF T
      <4> QED BY <3>1, LeastExists
    <3>3. PICK k \in less : \A l \in less : n - k <= n - l
      <4> HIDE DEF less
      <4> QED BY <3>2
    <3>4. \A l \in less : l \in Int
      OBVIOUS
    <3> HIDE DEF less, T
    <3>5. \A l \in less : l <= k
      BY <1>1, <3>3, <3>4
    <3> QED BY <3>3, <3>5
  <2>3. Before(i) = s[b]
    <3>1. Nodes = s /\ Len(Nodes) = n
      BY NodesAre
    <3>2. Before(i) = s[Max(less)]
      BY <3>1, Zenon DEF Before
    <3>6. \A k \in less : k \in Int
      OBVIOUS
    <3> HIDE DEF less
    <3>3. \A x \in less : (\A k \in less : x >= k) => x = b
      BY <2>2, <3>6
    <3>4. \A k \in less : b >= k
      BY <2>2, <3>6
    <3>5. Max(less) = b
      BY <2>2, <3>3, <3>4 DEF Max
    <3> QED BY <3>2, <3>5
  <2>4. b \in 1 .. n /\ s[b] \in 1 .. n
    BY <1>1, <2>2
  <2>5. \A k \in 1 .. n : k < b + 1 => nodes[s[k]].i <= i
    <3> SUFFICES ASSUME NEW k \in 1 .. n, k < b + 1 PROVE nodes[s[k]].i <= i
      OBVIOUS
    <3>1. CASE k = 1
      BY <2>1, <3>1
    <3>2. CASE k # 1
      <4>1. k \in 2 .. b
        BY <1>1, <2>4, <3>2
      <4>2. nodes[s[k]].i < i
        BY <2>2, <4>1
      <4> QED BY <1>1, <4>2
    <3> QED BY <3>1, <3>2
  <2>6. \A k \in 1 .. n : ~(k < b + 1) => i <= nodes[s[k]].i
    <3> SUFFICES ASSUME NEW k \in 1 .. n, ~(k < b + 1) PROVE i <= nodes[s[k]].i
      OBVIOUS
    <3>1. b + 1 \in 1 .. n /\ b + 1 \notin less
      <4>1. b + 1 \in 1 .. n /\ ~(b + 1 <= b)
        BY <1>1, <2>4
      <4> HIDE DEF less
      <4> QED BY <2>2, <4>1
    <3>2. ~(nodes[s[b + 1]].i < i)
      <4> SUFFICES ASSUME nodes[s[b + 1]].i < i PROVE FALSE
        OBVIOUS
      <4>1. \A l \in 2 .. b + 1 : l = b + 1 \/ l \in 2 .. b
        BY <2>4
      <4>2. \A l \in 2 .. b + 1 : nodes[s[l]].i < i
        BY <2>2, <4>1
      <4> QED BY <3>1, <4>2
    <3>3. nodes[s[b + 1]].i <= nodes[s[k]].i
      <4>1. CASE k = b + 1
        <5>1. nodes[s[b + 1]].i \in Int
          BY <1>1, <3>1
        <5> QED BY <4>1, <5>1
      <4>2. CASE k # b + 1
        <5>1. b + 1 < k
          BY <1>1, <2>4, <4>2
        <5> QED BY <1>1, <3>1, <5>1
      <4> QED BY <4>1, <4>2
    <3>4. nodes[s[b + 1]].i \in Int /\ nodes[s[k]].i \in Int
      BY <1>1, <3>1
    <3> QED BY <3>2, <3>3, <3>4
  <2> HIDE DEF less, new
  <2>a. \A y : new(y) = [i |-> i, next |-> y]
    BY DEF new
  <2> DEFINE c == LinkedOn(nodes, s[b], n + 1)
             x0 == new(nodes[s[b]].next)
  <2>7. first' = first /\ nodes' = Append(c, x0)
    BY <1>3, <2>3, Zenon DEF AddInt, new, LinkedOn
  <2>8. x0 \in Node /\ x0.i = i /\ x0.next = nodes[s[b]].next
    <3>1. nodes[s[b]] \in Node
      BY <2>4
    <3> QED BY <2>a, <3>1 DEF Node
  <2>9. c \in Seq(Node) /\ Len(c) = n
        /\ \A x \in 1 .. n : c[x].i = nodes[x].i
                             /\ c[x].next = IF x = s[b] THEN n + 1 ELSE nodes[x].next
    <3>1. n + 1 \in Nat /\ s[b] \in 1 .. Len(nodes)
      BY <1>1, <2>4
    <3> QED BY <3>1, CellChanges
  <2> HIDE DEF c, x0
  <2>10. nodes' \in Seq(Node) /\ Len(nodes') = n + 1 /\ nodes'[n + 1] = x0
         /\ \A x \in 1 .. n : nodes'[x] = c[x]
    BY <1>1, <2>7, <2>8, <2>9
  <2>11. nodes[s[b]].next = IF b = n THEN 0 ELSE s[b + 1]
    BY <1>1, <2>4
  <2>12. b + 1 \in 1 .. n + 1 /\ b + 1 # 1 /\ b + 1 - 1 = b /\ (b + 1 = n + 1 <=> b = n)
    BY <1>1, <2>4
  <2>13. PICK j \in 1 .. n + 1 : j = b + 1
    BY <2>12
  <2>14. j > 1 /\ s[j - 1] = s[b]
    BY <2>4, <2>12, <2>13
  <2>15. Inserted(nodes, n, first', nodes', s, i, j)
    <3>1. \A k \in 1 .. n : IF k < j THEN nodes[s[k]].i <= i ELSE i <= nodes[s[k]].i
      BY <2>5, <2>6, <2>13
    <3>2. first' = IF j = 1 THEN n + 1 ELSE s[1]
      BY <2>1, <2>7, <2>12, <2>13
    <3>3. nodes'[n + 1].i = i /\ nodes'[n + 1].next = IF j = n + 1 THEN 0 ELSE s[j]
      BY <2>8, <2>10, <2>11, <2>12, <2>13
    <3>4. \A x \in 1 .. n :
            /\ nodes'[x].i = nodes[x].i
            /\ nodes'[x].next = IF x = s[b] THEN n + 1 ELSE nodes[x].next
      BY <2>9, <2>10
    <3>5. \A x \in 1 .. n :
            /\ nodes'[x].i = nodes[x].i
            /\ nodes'[x].next = IF j > 1 /\ x = s[j - 1] THEN n + 1 ELSE nodes[x].next
      BY <2>14, <3>4
    <3> QED BY <3>1, <3>2, <3>3, <3>5, Zenon DEF Inserted
  <2> QED BY <2>10, <2>15
<1> QED BY <1>2, <1>3

LEMMA SortedStep ==
    ASSUME SortedInv, SortedNext
    PROVE  SortedInv' /\ AddsOne
<1>1. PICK i \in Ints : AddInt(i)
  BY DEF SortedNext
<1> DEFINE n == Len(nodes)
<1>2. PICK s : InOrder(first, nodes, n, s)
  BY DEF SortedInv
<1> DEFINE v == IntsOf(nodes, n, s)
<1>3. i \in Int /\ n \in Nat /\ v \in [1 .. n -> Int]
  <2> HIDE DEF n
  <2> QED BY <1>2, IntsAssumption DEF InOrder, IntsOf
<1>4. nodes' \in Seq(Node) /\ Len(nodes') = n + 1
      /\ \E j \in 1 .. n + 1 : Inserted(nodes, n, first', nodes', s, i, j)
  BY <1>1, <1>2, <1>3, AddIntPlaces DEF SortedInv
<1>6. PICK j \in 1 .. n + 1 : Inserted(nodes, n, first', nodes', s, i, j)
  BY <1>4
<1> DEFINE t == Joined(s, n, j, n + 1)
<1>5. /\ InOrder(first', nodes', Len(nodes'), t)
      /\ IntsOf(nodes', Len(nodes'), t) = Joined(v, n, j, i)
  <2> HIDE DEF n
  <2>1. j \in 1 .. n + 1
    BY <1>6
  <2>2. /\ InOrder(first', nodes', n + 1, Joined(s, n, j, n + 1))
        /\ IntsOf(nodes', n + 1, Joined(s, n, j, n + 1))
             = Joined(IntsOf(nodes, n, s), n, j, i)
    BY <1>2, <1>3, <1>6, <2>1, InsertedInOrder
  <2> QED BY <1>4, <2>2
<1>7. elements' = n + 1
  BY <1>1 DEF SortedInv, AddInt
<1>8. Values = v /\ Values' = Joined(v, n, j, i)
  <2> HIDE DEF t
  <2> QED BY <1>2, <1>5, NodesAre, NodesAreNext
<1>9. \A k \in 2 .. n + 1 : nodes'[t[k - 1]].i <= nodes'[t[k]].i
  <2> HIDE DEF t
  <2>1. \A k \in 2 .. n + 1 : k \in 1 .. n + 1 /\ k - 1 \in 1 .. n + 1 /\ k - 1 < k
    BY <1>3
  <2> QED BY <1>4, <1>5, <2>1 DEF InOrder
<1>10. Len(Values') = n + 1 /\ DOMAIN Values' = 1 .. n + 1 /\ Values'[j] = i
  BY <1>3, <1>8 DEF Joined
<1>11. Ascends(Values')
  <2>1. \A k \in 1 .. n + 1 : Values'[k] = nodes'[t[k]].i
    <3> HIDE DEF t, v
    <3> QED BY <1>4, <1>5, <1>8 DEF IntsOf
  <2> HIDE DEF t, v
  <2>2. \A k \in 2 .. n + 1 : Values'[k - 1] <= Values'[k]
    BY <1>3, <1>9, <2>1
  <2> QED BY <1>10, <2>2 DEF Ascends
<1>12. RemoveAt(Values', j) = Values
  <2> HIDE DEF v
  <2> QED BY <1>3, <1>8, RemoveJoined
<1>13. AddsOne
  BY <1>3, <1>7, <1>10, <1>11, <1>12 DEF AddsOne
<1>14. SortedInv'
  <2> HIDE DEF t
  <2> QED BY <1>4, <1>5, <1>7 DEF SortedInv
<1> QED BY <1>13, <1>14

LEMMA SortedInitHolds == SortedInit => SortedInv
<1> SUFFICES ASSUME SortedInit PROVE SortedInv
  OBVIOUS
<1>1. InOrder(first, nodes, 0, [k \in 1 .. 0 |-> 0])
  BY DEF InOrder, SortedInit
<1> QED BY <1>1 DEF SortedInv, SortedInit

(* However many ints are added, in whatever order, none is lost, none is added twice, and
   the list ascends and is as long as its counter (cp4-problem3.c). *)
THEOREM ListStaysSorted == Spec => StaysSorted
<1>1. Init => SortedInv
  BY SortedInitHolds DEF Init
<1>2. SortedInv /\ [Next]_vars => SortedInv' /\ [AddsOne]_sortedVars
  <2> SUFFICES ASSUME SortedInv, [Next]_vars PROVE SortedInv' /\ [AddsOne]_sortedVars
    OBVIOUS
  <2>1. CASE SortedNext
    BY <2>1, SortedStep
  <2>2. CASE UNCHANGED sortedVars
    BY <2>2 DEF sortedVars, SortedInv
  <2> QED BY <2>1, <2>2 DEF Next, vars
<1> QED BY <1>1, <1>2, PTL DEF Spec, StaysSorted

-----------------------------------------------------------------------------
(* The words of the tables are all different. *)
LEMMA OnesDiffer ==
    /\ DOMAIN ONES = 1 .. 10
    /\ \A j, k \in 1 .. 10 : ONES[j] = ONES[k] => j = k
<1>1. \A k \in 1 .. 10 : k \in {1, 2, 3, 4, 5, 6, 7, 8, 9, 10}
  OBVIOUS
<1>2. DOMAIN ONES = 1 .. 10
  BY DEF ONES
<1>3. /\ ONES[1] = "zero" /\ ONES[2] = "one" /\ ONES[3] = "two" /\ ONES[4] = "three"
      /\ ONES[5] = "four" /\ ONES[6] = "five" /\ ONES[7] = "six" /\ ONES[8] = "seven"
      /\ ONES[9] = "eight" /\ ONES[10] = "nine"
  BY DEF ONES
<1> QED BY <1>1, <1>2, <1>3

LEMMA TeensDiffer ==
    /\ DOMAIN TEN_TO_TWENTY = 1 .. 10
    /\ \A j, k \in 1 .. 10 : TEN_TO_TWENTY[j] = TEN_TO_TWENTY[k] => j = k
<1>1. \A k \in 1 .. 10 : k \in {1, 2, 3, 4, 5, 6, 7, 8, 9, 10}
  OBVIOUS
<1>2. DOMAIN TEN_TO_TWENTY = 1 .. 10
  BY DEF TEN_TO_TWENTY
<1> QED BY <1>1, <1>2 DEF TEN_TO_TWENTY

LEMMA TensDiffer ==
    /\ DOMAIN TENS = 1 .. 10
    /\ \A j, k \in 1 .. 10 : TENS[j] = TENS[k] => j = k
<1>1. \A k \in 1 .. 10 : k \in {1, 2, 3, 4, 5, 6, 7, 8, 9, 10}
  OBVIOUS
<1> QED BY <1>1 DEF TENS

\* the words a group of three digits is named with, but for "zero"
Plain == {ONES[k] : k \in 2 .. 10} \cup {TEN_TO_TWENTY[k] : k \in 1 .. 10}
         \cup {TENS[k] : k \in 3 .. 10} \cup {"hundred"}

LEMMA TablesDiffer ==
    /\ \A j \in 1 .. 10, k \in 1 .. 10 : ONES[j] # TEN_TO_TWENTY[k]
    /\ \A j \in 1 .. 10, k \in 3 .. 10 : ONES[j] # TENS[k] /\ TEN_TO_TWENTY[j] # TENS[k]
    /\ \A j \in 1 .. 10 : ONES[j] # "hundred"
    /\ \A word \in Plain : word \notin {"billion", "million", "thousand", "zero"}
<1>1. \A k \in 1 .. 10 : k \in {1, 2, 3, 4, 5, 6, 7, 8, 9, 10}
  OBVIOUS
<1>2. \A j \in 1 .. 10, k \in 1 .. 10 : ONES[j] # TEN_TO_TWENTY[k]
  BY <1>1 DEF ONES, TEN_TO_TWENTY
<1>3. \A k \in 3 .. 10 : k \in {3, 4, 5, 6, 7, 8, 9, 10}
  OBVIOUS
<1>4. \A j \in 1 .. 10, k \in 3 .. 10 : ONES[j] # TENS[k]
  BY <1>1, <1>3 DEF ONES, TENS
<1>5. \A j \in 1 .. 10, k \in 3 .. 10 : TEN_TO_TWENTY[j] # TENS[k]
  BY <1>1, <1>3 DEF TEN_TO_TWENTY, TENS
<1>6. \A j \in 1 .. 10 : ONES[j] # "hundred"
  BY <1>1 DEF ONES
<1>7. ASSUME NEW word \in Plain
      PROVE  word \notin {"billion", "million", "thousand", "zero"}
  <2>1. \A j \in 2 .. 10 : j \in {2, 3, 4, 5, 6, 7, 8, 9, 10}
    OBVIOUS
  <2>2. \A j \in 2 .. 10 : ONES[j] \notin {"billion", "million", "thousand", "zero"}
    BY <2>1 DEF ONES
  <2>3. \A j \in 1 .. 10 : TEN_TO_TWENTY[j] \notin {"billion", "million", "thousand", "zero"}
    BY <1>1 DEF TEN_TO_TWENTY
  <2>4. \A j \in 3 .. 10 : TENS[j] \notin {"billion", "million", "thousand", "zero"}
    BY <1>3 DEF TENS
  <2>5. "hundred" \notin {"billion", "million", "thousand", "zero"}
    OBVIOUS
  <2> QED BY <2>2, <2>3, <2>4, <2>5 DEF Plain
<1> QED BY <1>2, <1>4, <1>5, <1>6, <1>7

(* The two spellings of 40, and the groups that are read as they are with one of them. *)
Spellings == {"forty", "fourty"}

Good(n, f) == f = "fourty" \/ ~InForties(n)

LEMMA FortyIsNoOther ==
    /\ \A k \in 1 .. 10 : "forty" # ONES[k] /\ "forty" # TEN_TO_TWENTY[k] /\ "forty" # TENS[k]
    /\ TENS[5] = "fourty"
<1>1. \A k \in 1 .. 10 : k \in {1, 2, 3, 4, 5, 6, 7, 8, 9, 10}
  OBVIOUS
<1>2. \A k \in 1 .. 10 : "forty" # ONES[k]
  BY <1>1 DEF ONES
<1>3. \A k \in 1 .. 10 : "forty" # TEN_TO_TWENTY[k]
  BY <1>1 DEF TEN_TO_TWENTY
<1>4. (\A k \in 1 .. 10 : "forty" # TENS[k]) /\ TENS[5] = "fourty"
  BY <1>1 DEF TENS
<1> QED BY <1>2, <1>3, <1>4

(* The words that are read are those that are written, but for the one of 40. *)
LEMMA BelowTwenty ==
    /\ DOMAIN BELOW_TWENTY = 1 .. 19
    /\ \A k \in 1 .. 19 : BELOW_TWENTY[k] = IF k <= 9 THEN ONES[k + 1] ELSE TEN_TO_TWENTY[k - 9]
    /\ Range(BELOW_TWENTY) = {ONES[k] : k \in 2 .. 10} \cup {TEN_TO_TWENTY[k] : k \in 1 .. 10}
    /\ \A j, k \in 1 .. 19 : BELOW_TWENTY[j] = BELOW_TWENTY[k] => j = k
<1>1. DOMAIN BELOW_TWENTY = 1 .. 19
  BY DEF BELOW_TWENTY
<1>2. \A k \in 1 .. 9 : BELOW_TWENTY[k] = ONES[k + 1]
  <2>1. \A k \in 1 .. 9 : k \in {1, 2, 3, 4, 5, 6, 7, 8, 9}
    OBVIOUS
  <2> QED BY <2>1 DEF BELOW_TWENTY, ONES
<1>3. \A k \in 1 .. 10 : BELOW_TWENTY[k + 9] = TEN_TO_TWENTY[k]
  <2>1. \A k \in 1 .. 10 : k \in {1, 2, 3, 4, 5, 6, 7, 8, 9, 10}
    OBVIOUS
  <2> QED BY <2>1 DEF BELOW_TWENTY, TEN_TO_TWENTY
<1>4. \A k \in 1 .. 19 : BELOW_TWENTY[k] = IF k <= 9 THEN ONES[k + 1] ELSE TEN_TO_TWENTY[k - 9]
  <2> SUFFICES ASSUME NEW k \in 1 .. 19
               PROVE  BELOW_TWENTY[k] = IF k <= 9 THEN ONES[k + 1] ELSE TEN_TO_TWENTY[k - 9]
    OBVIOUS
  <2>1. CASE k <= 9
    BY <1>2, <2>1
  <2>2. CASE k > 9
    <3>1. PICK j \in 1 .. 10 : j = k - 9 /\ j + 9 = k
      BY <2>2
    <3> QED BY <1>3, <2>2, <3>1
  <2> QED BY <2>1, <2>2
<1>5. \A j, k \in 1 .. 19 : BELOW_TWENTY[j] = BELOW_TWENTY[k] => j = k
  <2> SUFFICES ASSUME NEW j \in 1 .. 19, NEW k \in 1 .. 19, BELOW_TWENTY[j] = BELOW_TWENTY[k]
               PROVE  j = k
    OBVIOUS
  <2>1. CASE j <= 9 /\ k <= 9
    BY <1>4, <2>1, OnesDiffer
  <2>2. CASE j > 9 /\ k > 9
    BY <1>4, <2>2, TeensDiffer
  <2>3. CASE j <= 9 /\ k > 9
    BY <1>4, <2>3, TablesDiffer
  <2>4. CASE j > 9 /\ k <= 9
    BY <1>4, <2>4, TablesDiffer
  <2> QED BY <2>1, <2>2, <2>3, <2>4
<1>6. Range(BELOW_TWENTY) = {ONES[k] : k \in 2 .. 10} \cup {TEN_TO_TWENTY[k] : k \in 1 .. 10}
  <2>1. Range(BELOW_TWENTY) = {BELOW_TWENTY[k] : k \in 1 .. 19}
    BY <1>1 DEF Range
  <2>2. \A k \in 2 .. 10 : k - 1 \in 1 .. 9 /\ BELOW_TWENTY[k - 1] = ONES[k]
    BY <1>4
  <2>3. \A k \in 1 .. 10 : k + 9 \in 1 .. 19
    OBVIOUS
  <2>4. \A k \in 1 .. 19 : \/ \E j \in 2 .. 10 : BELOW_TWENTY[k] = ONES[j]
                           \/ \E j \in 1 .. 10 : BELOW_TWENTY[k] = TEN_TO_TWENTY[j]
    <3> SUFFICES ASSUME NEW k \in 1 .. 19
                 PROVE  \/ \E j \in 2 .. 10 : BELOW_TWENTY[k] = ONES[j]
                        \/ \E j \in 1 .. 10 : BELOW_TWENTY[k] = TEN_TO_TWENTY[j]
      OBVIOUS
    <3>1. k <= 9 => k + 1 \in 2 .. 10 /\ BELOW_TWENTY[k] = ONES[k + 1]
      BY <1>4
    <3>2. k > 9 => k - 9 \in 1 .. 10 /\ BELOW_TWENTY[k] = TEN_TO_TWENTY[k - 9]
      BY <1>4
    <3> QED BY <3>1, <3>2
  <2>5. \A k \in 1 .. 9 : k \in 1 .. 19
    OBVIOUS
  <2> QED BY <1>3, <2>1, <2>2, <2>3, <2>4, <2>5
<1> QED BY <1>1, <1>4, <1>5, <1>6

LEMMA DecadesAre ==
    ASSUME NEW f \in Spellings
    PROVE  /\ DOMAIN Decades(f) = 1 .. 8
           /\ \A k \in 3 .. 10 : Decades(f)[k - 2] = IF k = 5 THEN f ELSE TENS[k]
           /\ Range(Decades(f)) = {Decades(f)[k] : k \in 1 .. 8}
           /\ \A j, k \in 1 .. 8 : Decades(f)[j] = Decades(f)[k] => j = k
           /\ \A k \in 1 .. 8 : \A l \in 1 .. 10 :
                 Decades(f)[k] # ONES[l] /\ Decades(f)[k] # TEN_TO_TWENTY[l]
<1>1. DOMAIN Decades(f) = 1 .. 8
  BY DEF Decades
<1>2. \A k \in 3 .. 10 : Decades(f)[k - 2] = IF k = 5 THEN f ELSE TENS[k]
  <2>1. \A k \in 3 .. 10 : k \in {3, 4, 5, 6, 7, 8, 9, 10}
    OBVIOUS
  <2> QED BY <2>1 DEF Decades, TENS
<1> DEFINE d == [k \in 1 .. 8 |-> Decades(f)[k]]
<1>3. Range(Decades(f)) = {Decades(f)[k] : k \in 1 .. 8}
  <2>1. PICK s : s = Decades(f) /\ DOMAIN s = 1 .. 8
    BY <1>1
  <2> QED BY <2>1 DEF Range
<1>4. /\ f = TENS[5] \/ \A k \in 1 .. 10 : f # TENS[k]
      /\ \A k \in 1 .. 10 : f # ONES[k] /\ f # TEN_TO_TWENTY[k]
  BY FortyIsNoOther, TablesDiffer DEF Spellings
<1>5. ASSUME NEW j \in 1 .. 8
      PROVE  j + 2 \in 3 .. 10 /\ Decades(f)[j] = IF j = 3 THEN f ELSE TENS[j + 2]
  <2>1. PICK k \in 3 .. 10 : k = j + 2 /\ k - 2 = j
    BY <1>5
  <2> QED BY <1>2, <2>1
<1>6. ASSUME NEW j \in 1 .. 8, NEW k \in 1 .. 8, Decades(f)[j] = Decades(f)[k]
      PROVE  j = k
  <2>1. \A m \in 3 .. 10 : f = TENS[m] => m = 5
    BY <1>4, TensDiffer
  <2>2. CASE j = 3 /\ k # 3
    BY <1>5, <1>6, <2>1, <2>2
  <2>3. CASE j # 3 /\ k = 3
    BY <1>5, <1>6, <2>1, <2>3
  <2>4. CASE j # 3 /\ k # 3
    <3>1. TENS[j + 2] = TENS[k + 2] /\ j + 2 \in 1 .. 10 /\ k + 2 \in 1 .. 10
      BY <1>5, <1>6, <2>4
    <3>2. j + 2 = k + 2
      BY <3>1, TensDiffer
    <3> QED BY <3>2
  <2> QED BY <2>2, <2>3, <2>4
<1>7. \A k \in 1 .. 8 : \A l \in 1 .. 10 :
         Decades(f)[k] # ONES[l] /\ Decades(f)[k] # TEN_TO_TWENTY[l]
  BY <1>4, <1>5, TablesDiffer
<1> QED BY <1>1, <1>2, <1>3, <1>6, <1>7

(* A word is worth the number it was taken for, but for the misspelled one. *)
LEMMA WordValue ==
    ASSUME NEW f \in Spellings
    PROVE  /\ \A k \in 2 .. 10 : Value(ONES[k], f) = k - 1
           /\ \A k \in 1 .. 10 : Value(TEN_TO_TWENTY[k], f) = k + 9
           /\ \A k \in 3 .. 10 : k # 5 \/ f = "fourty" =>
                 TENS[k] \in Range(Decades(f)) /\ Value(TENS[k], f) = (k - 1) * 10
           /\ f # "fourty" =>
                 TENS[5] \notin Range(Decades(f)) /\ Value(TENS[5], f) = Unreadable
<1>1. ASSUME NEW word, word # "zero", NEW k \in 1 .. 19, BELOW_TWENTY[k] = word
      PROVE  Value(word, f) = k
  <2>1. word \in Range(BELOW_TWENTY)
    BY <1>1, BelowTwenty DEF Range
  <2>2. Value(word, f) = CHOOSE j \in 1 .. 19 : BELOW_TWENTY[j] = word
    <3>1. word \notin Range(Decades(f))
      BY <2>1, BelowTwenty, DecadesAre
    <3> QED BY <1>1, <2>1, <3>1, Zenon DEF Value
  <2>3. (CHOOSE j \in 1 .. 19 : BELOW_TWENTY[j] = word) = k
    BY <1>1, BelowTwenty
  <2> QED BY <2>2, <2>3
<1>2. ASSUME NEW k \in 2 .. 10
      PROVE  Value(ONES[k], f) = k - 1
  <2>1. PICK word \in Plain : word = ONES[k]
    BY DEF Plain
  <2>2. PICK j \in 1 .. 19 : j = k - 1 /\ j <= 9 /\ j + 1 = k
    BY <1>2
  <2>3. word # "zero" /\ BELOW_TWENTY[j] = word
    BY <2>1, <2>2, TablesDiffer, BelowTwenty
  <2> QED BY <1>1, <2>1, <2>2, <2>3
<1>3. ASSUME NEW k \in 1 .. 10
      PROVE  Value(TEN_TO_TWENTY[k], f) = k + 9
  <2>1. PICK word \in Plain : word = TEN_TO_TWENTY[k]
    BY DEF Plain
  <2>2. PICK j \in 1 .. 19 : j = k + 9 /\ j > 9 /\ j - 9 = k
    BY <1>3
  <2>3. word # "zero" /\ BELOW_TWENTY[j] = word
    BY <2>1, <2>2, TablesDiffer, BelowTwenty
  <2> QED BY <1>1, <2>1, <2>2, <2>3
<1>4. ASSUME NEW k \in 3 .. 10
      PROVE  TENS[k] # "zero" /\ TENS[k] \notin Range(BELOW_TWENTY)
  <2>1. TENS[k] # "zero"
    BY TablesDiffer DEF Plain
  <2> QED BY <2>1, TablesDiffer, BelowTwenty
<1>5. ASSUME NEW k \in 3 .. 10, k # 5 \/ f = "fourty"
      PROVE  TENS[k] \in Range(Decades(f)) /\ Value(TENS[k], f) = (k - 1) * 10
  <2>1. PICK word : word = TENS[k] /\ word # "zero" /\ word \notin Range(BELOW_TWENTY)
    BY <1>4
  <2>2. PICK j \in 1 .. 8 : j = k - 2 /\ (j + 1) * 10 = (k - 1) * 10
    BY <1>5
  <2>3. Decades(f)[j] = word
    BY <1>5, <2>1, <2>2, DecadesAre, FortyIsNoOther
  <2>4. word \in Range(Decades(f))
    BY <2>2, <2>3, DecadesAre
  <2>5. Value(word, f) = ((CHOOSE i \in 1 .. 8 : Decades(f)[i] = word) + 1) * 10
    BY <2>1, <2>4, Zenon DEF Value
  <2>6. (CHOOSE i \in 1 .. 8 : Decades(f)[i] = word) = j
    BY <2>3, DecadesAre
  <2> QED BY <2>1, <2>2, <2>4, <2>5, <2>6
<1>6. ASSUME f # "fourty"
      PROVE  TENS[5] \notin Range(Decades(f)) /\ Value(TENS[5], f) = Unreadable
  <2>1. PICK word : word = TENS[5] /\ word # "zero" /\ word \notin Range(BELOW_TWENTY)
    BY <1>4
  <2>2. ASSUME NEW j \in 1 .. 8, Decades(f)[j] = word
        PROVE  FALSE
    <3>1. PICK k \in 3 .. 10 : k = j + 2 /\ k - 2 = j
      BY <2>2
    <3>2. word = IF k = 5 THEN f ELSE TENS[k]
      BY <2>2, <3>1, DecadesAre
    <3>3. k # 5 => TENS[k] # TENS[5]
      BY TensDiffer
    <3> QED BY <1>6, <2>1, <3>2, <3>3, FortyIsNoOther
  <2>3. word \notin Range(Decades(f))
    BY <2>2, DecadesAre
  <2>4. Value(word, f) = Unreadable
    BY <2>1, <2>3, Zenon DEF Value
  <2> QED BY <2>1, <2>3, <2>4
<1> QED BY <1>2, <1>3, <1>5, <1>6

-----------------------------------------------------------------------------
(* The name of a group is read as the group. *)

LEMMA OneWord ==
    ASSUME NEW word, NEW f
    PROVE  /\ <<word>> # << >> /\ Len(<<word>>) = 1 /\ <<word>>[1] = word
           /\ ReadSmall(<<word>>, f) = Value(word, f)
  BY DEF ReadSmall

LEMMA TwoWords ==
    ASSUME NEW v, NEW w
    PROVE  /\ <<v>> \o <<w>> = <<v, w>>
           /\ Len(<<v, w>>) = 2 /\ <<v, w>>[1] = v /\ <<v, w>>[2] = w
<1>1. <<v>> \o <<w>> = <<v, w>>
  <2>1. PICK S : v \in S /\ w \in S
    <3>1. v \in {v, w} /\ w \in {v, w}
      OBVIOUS
    <3> QED BY <3>1
  <2>2. PICK s \in Seq(S), t \in Seq(S) : s = <<v>> /\ t = <<w>>
    <3>1. <<v>> \in Seq(S) /\ <<w>> \in Seq(S)
      BY <2>1
    <3> QED BY <3>1
  <2>3. Len(s) = 1 /\ Len(t) = 1 /\ s[1] = v /\ t[1] = w
    BY <2>2
  <2>4. PICK u \in Seq(S) : u = <<v, w>> /\ Len(u) = 2 /\ u[1] = v /\ u[2] = w
    <3>1. <<v, w>> \in Seq(S)
      BY <2>1
    <3>2. Len(<<v, w>>) = 2 /\ <<v, w>>[1] = v /\ <<v, w>>[2] = w
      OBVIOUS
    <3> QED BY <3>1, <3>2
  <2>5. PICK st \in Seq(S) : st = s \o t
    BY ConcatProperties
  <2>6. Len(st) = 2 /\ st[1] = v /\ st[2] = w
    <3>1. /\ Len(st) = Len(s) + Len(t)
          /\ \A i \in 1 .. Len(s) + Len(t) : st[i] = IF i <= Len(s) THEN s[i] ELSE t[i - Len(s)]
      BY <2>5, ConcatProperties
    <3>2. Len(st) = 2 /\ \A i \in 1 .. 2 : st[i] = IF i <= 1 THEN s[i] ELSE t[i - 1]
      BY <2>3, <3>1
    <3> QED BY <2>3, <3>2
  <2>7. \A i \in 1 .. 2 : st[i] = u[i]
    BY <2>4, <2>6
  <2>8. st = u
    BY <2>4, <2>6, <2>7, SeqEqual
  <2> QED BY <2>2, <2>4, <2>5, <2>8
<1>2. <<v, w>> # << >> /\ Len(<<v, w>>) = 2 /\ <<v, w>>[1] = v /\ <<v, w>>[2] = w
  OBVIOUS
<1> QED BY <1>1, <1>2

LEMMA ReadsTwo ==
    ASSUME NEW v, NEW w, NEW f, Value(w, f) \in 1 .. 9
    PROVE  ReadSmall(<<v, w>>, f) =
             IF v \in Range(Decades(f)) THEN Value(v, f) + Value(w, f) ELSE Unreadable
<1>1. PICK words : words = <<v, w>>
  OBVIOUS
<1>2. words # << >> /\ Len(words) = 2 /\ words[1] = v /\ words[2] = w /\ Len(words) # 1
  BY <1>1
<1> QED BY <1>1, <1>2, Zenon DEF ReadSmall

\* one or two words, the second not "hundred", worth n to who reads them well
SmallWords(words, n, f) ==
    /\ words \in Seq(Plain) /\ Len(words) \in 1 .. 2
    /\ ReadSmall(words, f) = IF Good(n, f) THEN n ELSE Unreadable
    /\ Len(words) = 2 => words[2] # "hundred"

LEMMA TensReadBack ==
    ASSUME NEW f \in Spellings
    PROVE  \A n \in 1 .. 99 : SmallWords(Tens(n), n, f)
<1> SUFFICES ASSUME NEW n \in 1 .. 99 PROVE SmallWords(Tens(n), n, f)
  OBVIOUS
<1>0. n < 20 => Good(n, f)
  BY DEF Good, InForties
<1>1. CASE n < 10
  <2>1. n + 1 \in 2 .. 10
    BY <1>1
  <2>2. Tens(n) = <<ONES[n + 1]>>
    <3>1. ~(10 <= n)
      BY <1>1
    <3> QED BY <1>1, <3>1, Zenon DEF Tens, Ones
  <2>3. PICK word \in Plain : word = ONES[n + 1]
    BY <2>1 DEF Plain
  <2>4. Value(word, f) = n
    BY <2>1, <2>3, WordValue
  <2>5. <<word>> \in Seq(Plain)
    OBVIOUS
  <2>6. Good(n, f)
    BY <1>0, <1>1
  <2> QED BY <2>2, <2>3, <2>4, <2>5, <2>6, OneWord DEF SmallWords
<1>2. CASE 10 <= n /\ n < 20
  <2>1. PICK k \in 1 .. 10 : k = (n % 10) + 1 /\ k + 9 = n
    BY <1>2
  <2>2. Tens(n) = <<TEN_TO_TWENTY[k]>>
    BY <1>2, <2>1 DEF Tens
  <2>3. PICK word \in Plain : word = TEN_TO_TWENTY[k]
    BY <2>1 DEF Plain
  <2>4. Value(word, f) = n
    BY <2>1, <2>3, WordValue
  <2>5. <<word>> \in Seq(Plain)
    OBVIOUS
  <2>6. Good(n, f)
    BY <1>0, <1>2
  <2> QED BY <2>2, <2>3, <2>4, <2>5, <2>6, OneWord DEF SmallWords
<1>3. CASE 20 <= n
  <2>1. PICK j \in 3 .. 10, k \in 0 .. 9 :
          j = n \div 10 + 1 /\ k = n % 10 /\ n = (j - 1) * 10 + k
    BY <1>3
  <2>2. PICK v \in Plain : v = TENS[j]
    BY <2>1 DEF Plain
  <2>3. /\ Good(n, f) <=> j # 5 \/ f = "fourty"
        /\ Good(n, f) => v \in Range(Decades(f)) /\ Value(v, f) = (j - 1) * 10
        /\ ~Good(n, f) => v \notin Range(Decades(f)) /\ Value(v, f) = Unreadable
    <3>1. InForties(n) <=> j = 5
      BY <2>1 DEF InForties
    <3>2. Good(n, f) <=> j # 5 \/ f = "fourty"
      BY <3>1 DEF Good
    <3> QED BY <2>1, <2>2, <3>2, WordValue
  <2>4. Tens(n) = <<v>> \o IF k = 0 THEN << >> ELSE <<ONES[k + 1]>>
    <3>1. ~(n < 10) /\ ~(n < 20)
      BY <1>3
    <3> QED BY <2>1, <2>2, <3>1, Zenon DEF Tens, Ones
  <2>5. CASE k = 0
    <3>1. Tens(n) = <<v>> /\ <<v>> \in Seq(Plain)
      BY <2>4, <2>5
    <3>2. Value(v, f) = IF Good(n, f) THEN n ELSE Unreadable
      BY <2>1, <2>3, <2>5
    <3> QED BY <3>1, <3>2, OneWord DEF SmallWords
  <2>6. CASE k # 0
    <3>1. k + 1 \in 2 .. 10
      BY <2>6
    <3>2. PICK w \in Plain : w = ONES[k + 1] /\ w # "hundred"
      BY <3>1, TablesDiffer DEF Plain
    <3>3. Value(w, f) = k
      BY <3>1, <3>2, WordValue
    <3>4. Tens(n) = <<v, w>> /\ <<v, w>> \in Seq(Plain)
      BY <2>4, <2>6, <3>2, TwoWords
    <3>5. ReadSmall(<<v, w>>, f) = IF Good(n, f) THEN n ELSE Unreadable
      <4>1. k \in 1 .. 9
        BY <2>6
      <4>2. ReadSmall(<<v, w>>, f) =
              IF v \in Range(Decades(f)) THEN Value(v, f) + Value(w, f) ELSE Unreadable
        BY <3>3, <4>1, ReadsTwo
      <4> QED BY <2>1, <2>3, <3>3, <4>2
    <3>6. SmallWords(<<v, w>>, n, f)
      <4>1. Len(<<v, w>>) = 2 /\ <<v, w>>[2] # "hundred"
        BY <3>2, TwoWords
      <4>2. PICK words \in Seq(Plain) : words = <<v, w>>
        BY <3>4
      <4>3. SmallWords(words, n, f)
        BY <3>5, <4>1, <4>2 DEF SmallWords
      <4> QED BY <4>2, <4>3
    <3> QED BY <3>4, <3>6
  <2> QED BY <2>5, <2>6
<1> QED BY <1>1, <1>2, <1>3

\* words that are worth n to who reads them well, none of them "zero"
GroupWords(words, n, f) ==
    /\ words \in Seq(Plain) /\ words # << >>
    /\ ReadGroup(words, f) = n <=> Good(n, f)

LEMMA HundredsReadBack ==
    ASSUME NEW f \in Spellings
    PROVE  \A n \in 1 .. 999 : GroupWords(Hundreds(n), n, f)
<1> SUFFICES ASSUME NEW n \in 1 .. 999 PROVE GroupWords(Hundreds(n), n, f)
  OBVIOUS
<1>1. CASE n < 100
  <2>1. PICK words : words = Tens(n) /\ SmallWords(words, n, f)
    BY <1>1, TensReadBack
  <2>2. /\ Len(words) \in 1 .. 2 /\ words \in Seq(Plain)
        /\ ReadSmall(words, f) = IF Good(n, f) THEN n ELSE Unreadable
        /\ ~(Len(words) > 1 /\ words[2] = "hundred")
    BY <2>1 DEF SmallWords
  <2>3. ReadGroup(words, f) = n <=> Good(n, f)
    BY <2>2 DEF ReadGroup, Unreadable
  <2>4. Hundreds(n) = words
    BY <1>1, <2>1 DEF Hundreds
  <2>5. words # << >>
    <3>1. Len(words) \in 1 .. 2
      BY <2>2, Zenon
    <3>2. Len(<< >>) \notin 1 .. 2
      OBVIOUS
    <3> QED BY <3>1, <3>2, Zenon
  <2>6. GroupWords(words, n, f)
    BY <2>2, <2>3, <2>5, Zenon DEF GroupWords
  <2> QED BY <2>4, <2>6
<1>2. CASE 100 <= n
  <2>1. PICK h \in 1 .. 9, m \in 0 .. 99 : h = n \div 100 /\ m = n % 100 /\ n = 100 * h + m
    BY <1>2
  <2>2. h + 1 \in 2 .. 10
    OBVIOUS
  <2>3. PICK v \in Plain : v = ONES[h + 1]
    BY <2>2 DEF Plain
  <2>4. Value(v, f) = h
    BY <2>2, <2>3, WordValue
  <2>5. PICK rest : rest = IF m = 0 THEN << >> ELSE Tens(m)
    OBVIOUS
  <2>6. /\ rest \in Seq(Plain) /\ Len(rest) \in 0 .. 2
        /\ ReadSmall(rest, f) = IF Good(n, f) THEN m ELSE Unreadable
    <3>0. Good(n, f) <=> Good(m, f)
      <4>1. n % 100 = m /\ m % 100 = m
        BY <2>1
      <4> QED BY <4>1 DEF Good, InForties
    <3>1. CASE m = 0
      <4>1. Good(m, f)
        BY <3>1 DEF Good, InForties
      <4> QED BY <3>0, <3>1, <4>1, <2>5 DEF ReadSmall
    <3>2. CASE m # 0
      <4>1. m \in 1 .. 99
        BY <3>2
      <4>2. SmallWords(rest, m, f)
        BY <3>2, <4>1, <2>5, TensReadBack
      <4> QED BY <3>0, <4>2 DEF SmallWords
    <3> QED BY <3>1, <3>2
  <2>7. Hundreds(n) = <<v>> \o <<"hundred">> \o rest
    BY <1>2, <2>1, <2>3, <2>5 DEF Hundreds, Ones
  <2>8. PICK start \in Seq(Plain) :
          start = <<v>> \o <<"hundred">> /\ Len(start) = 2 /\ start[1] = v /\ start[2] = "hundred"
    <3>1. "hundred" \in Plain
      BY DEF Plain
    <3>2. <<v, "hundred">> \in Seq(Plain)
      BY <3>1
    <3> QED BY <3>2, TwoWords
  <2>9. PICK words \in Seq(Plain) : words = start \o rest
    BY <2>6, ConcatProperties
  <2>10. Len(words) = 2 + Len(rest) /\ words[1] = v /\ words[2] = "hundred"
    BY <2>6, <2>8, <2>9, ConcatProperties
  <2>11. SubSeq(words, 3, Len(words)) = rest
    <3>1. Len(start) + 1 = 3 /\ Len(start) + Len(rest) = Len(words)
      BY <2>8, <2>10
    <3> QED BY <2>6, <2>8, <2>9, <2>10, <3>1, SubSeqOfConcat2
  <2>12. ReadGroup(words, f) = 100 * Value(v, f) + ReadSmall(rest, f)
    <3>1. Len(words) > 1 /\ Value(v, f) \in 1 .. 9
      BY <2>4, <2>6, <2>10
    <3> QED BY <2>10, <2>11, <3>1, Zenon DEF ReadGroup
  <2>13. GroupWords(words, n, f)
    <3>1. words # << >>
      BY <2>6, <2>10
    <3>2. words \in Seq(Plain)
      BY <2>9
    <3>3. ReadGroup(words, f) = n <=> Good(n, f)
      BY <2>1, <2>4, <2>6, <2>12 DEF Unreadable
    <3> QED BY <3>1, <3>2, <3>3 DEF GroupWords
  <2>14. Hundreds(n) = words
    BY <2>7, <2>8, <2>9
  <2> QED BY <2>13, <2>14
<1> QED BY <1>1, <1>2

-----------------------------------------------------------------------------
(* Where the words of a group stand in a name. *)

At(words, k) == {n \in 1 .. Len(words) : k <= 3 /\ words[n] = UNITS[k]}

StartOf(words, k) == 1 + Max({0} \cup UNION {At(words, l) : l \in 1 .. k - 1})

EndOf(words, k) == IF k = 4 THEN Len(words) ELSE Max({0} \cup At(words, k)) - 1

LEMMA ReadsEachGroup ==
    ASSUME NEW words, NEW f
    PROVE  /\ DOMAIN ReadGroups(words, f) = 1 .. 4
           /\ ReadGroups(words, f) = [k \in 1 .. 4 |-> ReadGroups(words, f)[k]]
           /\ \A k \in 1 .. 4 : ReadGroups(words, f)[k] =
                 ReadGroup(SubSeq(words, StartOf(words, k), EndOf(words, k)), f)
<1>1. ReadGroups(words, f) =
        [k \in 1 .. 4 |-> ReadGroup(SubSeq(words, StartOf(words, k), EndOf(words, k)), f)]
  BY Zenon DEF ReadGroups, StartOf, EndOf, At, SCALE, UNITS
<1> QED BY <1>1, Zenon

LEMMA Greatest ==
    ASSUME NEW S, S \subseteq Int, NEW m \in S, \A x \in S : x <= m
    PROVE  Max(S) = m
<1>1. \A x \in S : (\A y \in S : x >= y) <=> x = m
  OBVIOUS
<1> QED BY <1>1 DEF Max

\* plain words and the units of K
Words(K) == Plain \cup {UNITS[l] : l \in K}

LEMMA UnitsDiffer ==
    ASSUME NEW K, K \subseteq 1 .. 3, NEW word \in Words(K)
    PROVE  /\ \A l \in (1 .. 3) \ K : word # UNITS[l]
           /\ word # "zero"
<1>1. \A l \in 1 .. 3 : l = 1 \/ l = 2 \/ l = 3
  OBVIOUS
<1>2. UNITS[1] = "billion" /\ UNITS[2] = "million" /\ UNITS[3] = "thousand"
  BY DEF UNITS
<1>3. \A l, m \in 1 .. 3 : UNITS[l] = UNITS[m] => l = m
  BY <1>1, <1>2
<1>4. \A l \in 1 .. 3 : UNITS[l] \in {"billion", "million", "thousand"} /\ UNITS[l] # "zero"
  BY <1>1, <1>2
<1>5. CASE word \in Plain
  BY <1>4, <1>5, TablesDiffer
<1>6. CASE \E l \in K : word = UNITS[l]
  BY <1>3, <1>4, <1>6
<1> QED BY <1>5, <1>6 DEF Words

LEMMA MoreWords ==
    ASSUME NEW J, NEW K, J \subseteq K, NEW s \in Seq(Words(J))
    PROVE  s \in Seq(Words(K))
<1>1. Words(J) \subseteq Words(K)
  BY DEF Words
<1> QED BY <1>1, SeqMonotonic

\* what can come before the words of group k + 1
Lead(s, k) ==
    /\ s \in Seq(Words(1 .. k))
    /\ s = << >> \/ \E l \in 1 .. k : s[Len(s)] = UNITS[l]

LEMMA StartsAfterLead ==
    ASSUME NEW k \in 1 .. 4, NEW s, Lead(s, k - 1), NEW t \in Seq(Words(k .. 3))
    PROVE  StartOf(s \o t, k) = Len(s) + 1
<1> DEFINE words == s \o t
           S == {0} \cup UNION {At(words, l) : l \in 1 .. k - 1}
<1>1. s \in Seq(Words(1 .. 3)) /\ t \in Seq(Words(1 .. 3))
  <2>1. 1 .. k - 1 \subseteq 1 .. 3 /\ k .. 3 \subseteq 1 .. 3
    OBVIOUS
  <2> QED BY <2>1, MoreWords DEF Lead
<1>2. /\ Len(s) \in Nat /\ Len(t) \in Nat /\ Len(words) = Len(s) + Len(t)
      /\ \A n \in 1 .. Len(s) : words[n] = s[n]
      /\ \A n \in 1 .. Len(words) : n > Len(s) => words[n] \in Words(k .. 3)
  <2>1. Len(s) \in Nat /\ Len(t) \in Nat
    BY <1>1
  <2>2. /\ Len(words) = Len(s) + Len(t)
        /\ \A n \in 1 .. Len(s) + Len(t) : words[n] = IF n <= Len(s) THEN s[n] ELSE t[n - Len(s)]
    BY <1>1, ConcatProperties
  <2>3. \A n \in 1 .. Len(t) : t[n] \in Words(k .. 3)
    BY ElementOfSeq
  <2> HIDE DEF words
  <2>4. ASSUME NEW n \in 1 .. Len(words), n > Len(s)
        PROVE  words[n] \in Words(k .. 3)
    <3>1. PICK m \in 1 .. Len(t) : m = n - Len(s)
      BY <2>1, <2>2, <2>4
    <3>2. words[n] = t[m]
      BY <2>1, <2>2, <2>4, <3>1
    <3> QED BY <2>3, <3>1, <3>2
  <2>5. \A n \in 1 .. Len(s) : words[n] = s[n]
    BY <2>1, <2>2
  <2> QED BY <2>1, <2>2, <2>4, <2>5
<1> HIDE DEF words
<1>3. ASSUME NEW n \in S
      PROVE  n \in Nat /\ n <= Len(s)
  <2>1. CASE n = 0
    BY <2>1, <1>2
  <2>2. CASE n # 0
    <3>1. PICK l \in 1 .. k - 1 : n \in At(words, l)
      BY <2>2
    <3>2. n \in 1 .. Len(words) /\ words[n] = UNITS[l]
      BY <3>1 DEF At
    <3>3. l \in (1 .. 3) \ (k .. 3) /\ k .. 3 \subseteq 1 .. 3
      BY <3>1
    <3>4. words[n] \notin Words(k .. 3)
      BY <3>2, <3>3, UnitsDiffer
    <3> QED BY <1>2, <3>2, <3>4
  <2> QED BY <2>1, <2>2
<1>4. Len(s) \in S
  <2>1. CASE s = << >>
    BY <2>1
  <2>2. CASE s # << >>
    <3>1. PICK l \in 1 .. k - 1 : s[Len(s)] = UNITS[l]
      BY <2>2 DEF Lead
    <3>2. Len(s) \in 1 .. Len(words) /\ words[Len(s)] = UNITS[l]
      <4>1. Len(s) # 0
        BY <1>1, <2>2, EmptySeq
      <4> QED BY <1>2, <3>1, <4>1
    <3>3. Len(s) \in At(words, l)
      BY <3>1, <3>2 DEF At
    <3> QED BY <3>1, <3>3
  <2> QED BY <2>1, <2>2
<1>5. Max(S) = Len(s)
  <2> HIDE DEF S
  <2> QED BY <1>3, <1>4, Greatest
<1> QED BY <1>2, <1>5 DEF StartOf, words

\* st is s, and then t
InARow(st, s, t) ==
    /\ Len(s) \in Nat /\ Len(t) \in Nat /\ Len(st) = Len(s) + Len(t)
    /\ \A n \in 1 .. Len(s) : st[n] = s[n]
    /\ \A m \in 1 .. Len(t) : st[Len(s) + m] = t[m]
    /\ \A n \in 1 .. Len(st) : n \in 1 .. Len(s) \/ \E m \in 1 .. Len(t) : n = Len(s) + m

LEMMA TwoPieces ==
    ASSUME NEW W, NEW s \in Seq(W), NEW t \in Seq(W)
    PROVE  s \o t \in Seq(W) /\ InARow(s \o t, s, t)
<1>1. PICK a \in Nat, b \in Nat : a = Len(s) /\ b = Len(t)
  OBVIOUS
<1>2. PICK st \in Seq(W) :
        /\ st = s \o t /\ Len(st) = a + b
        /\ \A i \in 1 .. a + b : st[i] = IF i <= a THEN s[i] ELSE t[i - a]
  <2>1. /\ s \o t \in Seq(W) /\ Len(s \o t) = Len(s) + Len(t)
        /\ \A i \in 1 .. Len(s) + Len(t) :
              (s \o t)[i] = IF i <= Len(s) THEN s[i] ELSE t[i - Len(s)]
    BY ConcatProperties
  <2> QED BY <1>1, <2>1
<1>3. ASSUME NEW m \in 1 .. b
      PROVE  st[a + m] = t[m]
  <2>1. st[a + m] = t[(a + m) - a]
    BY <1>2
  <2>2. (a + m) - a = m
    OBVIOUS
  <2> QED BY <2>1, <2>2
<1>4. ASSUME NEW n \in 1 .. a + b, n \notin 1 .. a
      PROVE  \E m \in 1 .. b : n = a + m
  <2>1. n - a \in 1 .. b /\ n = a + (n - a)
    BY <1>4
  <2> QED BY <2>1
<1>5. \A n \in 1 .. a : st[n] = s[n]
  BY <1>2
<1>6. InARow(st, s, t)
  BY <1>1, <1>2, <1>3, <1>4, <1>5 DEF InARow
<1> QED BY <1>2, <1>6

\* words are those of s, h and t, and in between e
Around(words, s, h, e, t) ==
    /\ Len(s) + Len(h) + 1 \in 1 .. Len(words)
    /\ words[Len(s) + Len(h) + 1] = e
    /\ \A n \in 1 .. Len(words) :
         \/ n = Len(s) + Len(h) + 1
         \/ \E m \in 1 .. Len(s) : words[n] = s[m]
         \/ \E m \in 1 .. Len(h) : words[n] = h[m]
         \/ \E m \in 1 .. Len(t) : words[n] = t[m]

LEMMA FourPieces ==
    ASSUME NEW W, NEW s \in Seq(W), NEW h \in Seq(W), NEW e \in W, NEW t \in Seq(W)
    PROVE  /\ s \o ((h \o <<e>>) \o t) = s \o (h \o (<<e>> \o t)) /\ <<e>> \o t \in Seq(W)
           /\ Around(s \o ((h \o <<e>>) \o t), s, h, e, t)
<1>1. PICK u \in Seq(W) : u = <<e>> /\ Len(u) = 1 /\ u[1] = e
  <2>1. <<e>> \in Seq(W) /\ Len(<<e>>) = 1 /\ <<e>>[1] = e
    OBVIOUS
  <2> QED BY <2>1
<1>2. PICK ut \in Seq(W) : ut = u \o t /\ InARow(ut, u, t)
  BY TwoPieces
<1>3. PICK hut \in Seq(W) : hut = h \o ut /\ InARow(hut, h, ut)
  BY TwoPieces
<1>4. PICK words : words = s \o hut /\ InARow(words, s, hut)
  BY TwoPieces
<1>5. words = s \o ((h \o <<e>>) \o t)
  BY <1>1, <1>2, <1>3, <1>4, ConcatAssociative
<1>6. PICK a \in Nat, b \in Nat, c \in Nat : a = Len(s) /\ b = Len(h) /\ c = Len(t)
  OBVIOUS
<1>7. /\ Len(ut) = 1 + c /\ ut[1] = e
      /\ \A n \in 1 .. 1 + c : n = 1 \/ \E m \in 1 .. c : ut[n] = t[m]
  BY <1>1, <1>2, <1>6 DEF InARow
<1>8. Len(hut) = b + 1 + c /\ Len(words) = a + b + 1 + c
  BY <1>3, <1>4, <1>6, <1>7 DEF InARow
<1>9. a + b + 1 \in 1 .. Len(words) /\ words[a + b + 1] = e
  <2>1. b + 1 \in 1 .. Len(hut) /\ 1 \in 1 .. Len(ut)
    BY <1>7, <1>8
  <2>2. words[a + (b + 1)] = hut[b + 1] /\ hut[b + 1] = ut[1]
    BY <1>3, <1>4, <1>6, <2>1 DEF InARow
  <2>3. a + (b + 1) = a + b + 1
    OBVIOUS
  <2> QED BY <1>7, <1>8, <2>2, <2>3
<1>10. ASSUME NEW n \in 1 .. Len(words), n # a + b + 1,
              \A m \in 1 .. a : words[n] # s[m], \A m \in 1 .. b : words[n] # h[m]
       PROVE  \E m \in 1 .. c : words[n] = t[m]
  <2>1. PICK j \in 1 .. Len(hut) : n = a + j /\ words[n] = hut[j]
    BY <1>4, <1>6, <1>10 DEF InARow
  <2>2. PICK i \in 1 .. Len(ut) : j = b + i /\ words[n] = ut[i]
    <3>1. j \notin 1 .. b
      BY <1>3, <1>6, <1>10, <2>1 DEF InARow
    <3>2. PICK i \in 1 .. Len(ut) : j = b + i
      BY <1>3, <1>6, <3>1 DEF InARow
    <3>3. hut[b + i] = ut[i]
      BY <1>3, <1>6, <3>2 DEF InARow
    <3> QED BY <2>1, <3>2, <3>3
  <2>3. i # 1
    BY <1>10, <2>1, <2>2
  <2> QED BY <1>7, <2>2, <2>3
<1>11. Around(words, s, h, e, t)
  BY <1>6, <1>9, <1>10 DEF Around
<1> QED BY <1>1, <1>2, <1>3, <1>4, <1>5, <1>11

(* The piece between two others. *)
LEMMA Middle ==
    ASSUME NEW W, NEW s \in Seq(W), NEW t \in Seq(W), NEW u \in Seq(W)
    PROVE  SubSeq(s \o (t \o u), Len(s) + 1, Len(s) + Len(t)) = t
<1>1. Len(s) \in Nat /\ Len(t) \in Nat /\ Len(u) \in Nat
  OBVIOUS
<1>2. PICK tu \in Seq(W) : tu = t \o u /\ Len(tu) = Len(t) + Len(u)
  BY ConcatProperties
<1>3. CASE t = << >>
  <2>1. Len(t) = 0
    BY <1>3
  <2> QED BY <1>1, <1>3, <2>1, SubSeqEmpty
<1>4. CASE t # << >>
  <2>1. Len(t) # 0
    BY <1>4, EmptySeq
  <2>2. /\ Len(s) + 1 \in Len(s) + 1 .. Len(s) + Len(tu)
        /\ Len(s) + Len(t) \in Len(s) + 1 .. Len(s) + Len(tu)
    BY <1>1, <1>2, <2>1
  <2>3. SubSeq(s \o tu, Len(s) + 1, Len(s) + Len(t)) =
          SubSeq(tu, (Len(s) + 1) - Len(s), (Len(s) + Len(t)) - Len(s))
    BY <2>2, SubSeqOfConcat2
  <2>4. (Len(s) + 1) - Len(s) = 1 /\ (Len(s) + Len(t)) - Len(s) = Len(t)
    BY <1>1
  <2>5. SubSeq(t \o u, 1, Len(t)) = SubSeq(t, 1, Len(t))
    BY <1>1, <2>1, SubSeqOfConcat1
  <2>6. SubSeq(t, 1, Len(t)) = t
    BY SubSeqFull
  <2> QED BY <1>2, <2>3, <2>4, <2>5, <2>6
<1> QED BY <1>3, <1>4

\* what Billions writes of the k-th group
PartOf(groups, k) ==
    IF groups[k] = 0 THEN << >>
    ELSE IF k = 4 THEN Hundreds(groups[k])
    ELSE Hundreds(groups[k]) \o <<UNITS[k]>>

LEMMA SomeSpelling == "forty" \in Spellings /\ "fourty" \in Spellings
BY DEF Spellings

LEMMA PartIsWords ==
    ASSUME NEW groups \in [1 .. 4 -> Group], NEW k \in 1 .. 4, NEW f \in Spellings
    PROVE  /\ groups[k] # 0 => GroupWords(Hundreds(groups[k]), groups[k], f)
           /\ PartOf(groups, k) \in Seq(Words(k .. 3))
           /\ k < 4 => Lead(PartOf(groups, k), k)
<1>1. groups[k] # 0 => GroupWords(Hundreds(groups[k]), groups[k], f)
  <2>1. PICK n \in 0 .. 999 : n = groups[k]
    BY DEF Group
  <2>2. n # 0 => GroupWords(Hundreds(n), n, f)
    <3>1. n # 0 => n \in 1 .. 999
      OBVIOUS
    <3> QED BY <3>1, HundredsReadBack
  <2> QED BY <2>1, <2>2
<1>2. CASE groups[k] = 0
  <2>1. PartOf(groups, k) = << >>
    BY <1>2 DEF PartOf
  <2> QED BY <1>2, <2>1 DEF Lead
<1>3. CASE groups[k] # 0 /\ k = 4
  <2>1. PartOf(groups, k) = Hundreds(groups[k])
    BY <1>3 DEF PartOf
  <2>2. Hundreds(groups[k]) \in Seq(Plain)
    BY <1>1, <1>3 DEF GroupWords
  <2>3. Plain \subseteq Words(k .. 3)
    BY DEF Words
  <2> QED BY <1>1, <1>3, <2>1, <2>2, <2>3, SeqMonotonic
<1>4. CASE groups[k] # 0 /\ k # 4
  <2>1. PICK h \in Seq(Plain) : h = Hundreds(groups[k])
    BY <1>1, <1>4 DEF GroupWords
  <2>2. k \in 1 .. 3 /\ k \in k .. 3 /\ k \in 1 .. k
    BY <1>4
  <2>3. UNITS[k] \in Words({k}) /\ Plain \subseteq Words({k})
    BY DEF Words
  <2>4. PICK u \in Seq(Words({k})) : u = <<UNITS[k]>> /\ Len(u) = 1 /\ u[1] = UNITS[k]
    <3>1. <<UNITS[k]>> \in Seq(Words({k}))
      BY <2>3
    <3> QED BY <3>1
  <2>5. h \in Seq(Words({k}))
    BY <2>3, SeqMonotonic
  <2>6. PICK p \in Seq(Words({k})) : p = h \o u
    BY <2>5, ConcatProperties
  <2>7. Len(h) \in Nat /\ Len(p) = Len(h) + 1 /\ p[Len(p)] = UNITS[k]
    <3>1. Len(h) \in Nat
      OBVIOUS
    <3>2. /\ Len(p) = Len(h) + Len(u)
          /\ \A i \in 1 .. Len(h) + Len(u) : p[i] = IF i <= Len(h) THEN h[i] ELSE u[i - Len(h)]
      BY <2>5, <2>6, ConcatProperties
    <3>3. PICK m \in Nat : m = Len(h)
      BY <3>1
    <3>4. p[m + 1] = u[(m + 1) - m]
      BY <2>4, <3>2, <3>3
    <3>5. (m + 1) - m = 1
      BY <3>3
    <3> QED BY <2>4, <3>1, <3>2, <3>3, <3>4, <3>5
  <2>8. p \in Seq(Words(k .. 3)) /\ p \in Seq(Words(1 .. k))
    <3>1. {k} \subseteq k .. 3 /\ {k} \subseteq 1 .. k
      BY <2>2
    <3> QED BY <2>6, <3>1, MoreWords
  <2>9. Lead(p, k)
    BY <2>2, <2>7, <2>8 DEF Lead
  <2>10. PartOf(groups, k) = p
    BY <1>4, <2>1, <2>4, <2>6 DEF PartOf
  <2> QED BY <1>1, <2>8, <2>9, <2>10
<1> QED BY <1>2, <1>3, <1>4

LEMMA LeadGrows ==
    ASSUME NEW k \in 1 .. 3, NEW s, Lead(s, k - 1), NEW p, Lead(p, k)
    PROVE  Lead(s \o p, k)
<1>1. s \in Seq(Words(1 .. k)) /\ p \in Seq(Words(1 .. k))
  <2>1. 1 .. k - 1 \subseteq 1 .. k
    OBVIOUS
  <2> QED BY <2>1, MoreWords DEF Lead
<1>2. CASE p = << >>
  <2>1. s \o p = s
    BY <1>1, <1>2, ConcatEmptySeq
  <2>2. 1 .. k - 1 \subseteq 1 .. k
    OBVIOUS
  <2> QED BY <1>1, <2>1, <2>2 DEF Lead
<1>3. CASE p # << >>
  <2>1. PICK l \in 1 .. k : p[Len(p)] = UNITS[l]
    BY <1>3 DEF Lead
  <2>2. PICK sp \in Seq(Words(1 .. k)) : sp = s \o p
    BY <1>1, ConcatProperties
  <2>3. PICK m \in Nat, n \in Nat \ {0} : m = Len(s) /\ n = Len(p)
    BY <1>1, <1>3, EmptySeq
  <2>4. Len(sp) = m + n /\ sp[m + n] = p[n]
    <3>1. /\ Len(sp) = m + n
          /\ \A i \in 1 .. m + n : sp[i] = IF i <= m THEN s[i] ELSE p[i - m]
      BY <1>1, <2>2, <2>3, ConcatProperties
    <3>2. sp[m + n] = p[(m + n) - m]
      BY <2>3, <3>1
    <3>3. (m + n) - m = n
      BY <2>3
    <3> QED BY <3>1, <3>2, <3>3
  <2> QED BY <2>1, <2>2, <2>3, <2>4 DEF Lead
<1> QED BY <1>2, <1>3

(* The words of a group are found where they were written. *)
LEMMA ReadsPart ==
    ASSUME NEW groups \in [1 .. 4 -> Group], NEW k \in 1 .. 4,
           NEW s, Lead(s, k - 1), NEW t \in Seq(Words(k + 1 .. 3)), k = 4 => t = << >>,
           NEW f \in Spellings
    PROVE  ReadGroups(s \o (PartOf(groups, k) \o t), f)[k] = groups[k] <=> Good(groups[k], f)
<1>1. PICK p : p = PartOf(groups, k) /\ p \in Seq(Words(k .. 3))
  BY PartIsWords
<1>2. PICK pt : pt = p \o t
  OBVIOUS
<1>3. PICK words : words = s \o pt
  OBVIOUS
<1>4. p \in Seq(Words(k .. 3)) /\ t \in Seq(Words(k .. 3)) /\ pt \in Seq(Words(k .. 3))
  <2>1. k + 1 .. 3 \subseteq k .. 3
    OBVIOUS
  <2>2. t \in Seq(Words(k .. 3))
    BY <2>1, MoreWords
  <2> QED BY <1>1, <1>2, <2>2, TwoPieces
<1>5. StartOf(words, k) = Len(s) + 1
  BY <1>3, <1>4, StartsAfterLead
<1>6. s \in Seq(Words(1 .. 3)) /\ p \in Seq(Words(1 .. 3)) /\ t \in Seq(Words(1 .. 3))
  <2>1. 1 .. k - 1 \subseteq 1 .. 3 /\ k .. 3 \subseteq 1 .. 3
    OBVIOUS
  <2>2. s \in Seq(Words(1 .. k - 1))
    BY DEF Lead
  <2> QED BY <1>4, <2>1, <2>2, MoreWords
<1>7. /\ pt \in Seq(Words(1 .. 3)) /\ Len(s) \in Nat /\ Len(p) \in Nat /\ Len(t) \in Nat
      /\ Len(pt) = Len(p) + Len(t) /\ Len(words) = Len(s) + Len(pt)
  <2>1. /\ pt \in Seq(Words(1 .. 3)) /\ Len(p) \in Nat /\ Len(t) \in Nat
        /\ Len(pt) = Len(p) + Len(t)
    BY <1>2, <1>6, TwoPieces DEF InARow
  <2> QED BY <1>3, <1>6, <2>1, TwoPieces DEF InARow
<1>8. ReadGroups(words, f)[k] = ReadGroup(SubSeq(words, Len(s) + 1, EndOf(words, k)), f)
  BY <1>5, ReadsEachGroup
<1>9. ReadGroup(<< >>, f) = 0 /\ Good(0, f)
  BY DEF ReadGroup, ReadSmall, Good, InForties
<1>10. SUFFICES ReadGroups(words, f)[k] = groups[k] <=> Good(groups[k], f)
  BY <1>1, <1>2, <1>3
<1>11. CASE k = 4
  <2>1. EndOf(words, k) = Len(s) + Len(p)
    <3>1. Len(t) = 0
      BY <1>11
    <3> QED BY <1>7, <1>11, <3>1 DEF EndOf
  <2>2. SubSeq(words, Len(s) + 1, Len(s) + Len(p)) = p
    BY <1>2, <1>3, <1>6, Middle
  <2>3. ReadGroup(p, f) = groups[k] <=> Good(groups[k], f)
    <3>1. CASE groups[k] = 0
      BY <1>1, <1>9, <3>1 DEF PartOf
    <3>2. CASE groups[k] # 0
      <4>1. p = Hundreds(groups[k])
        BY <1>1, <1>11, <3>2 DEF PartOf
      <4>2. ReadGroup(Hundreds(groups[k]), f) = groups[k] <=> Good(groups[k], f)
        BY <3>2, PartIsWords DEF GroupWords
      <4> QED BY <4>1, <4>2
    <3> QED BY <3>1, <3>2
  <2> QED BY <1>8, <2>1, <2>2, <2>3
<1>12. ASSUME k \in 1 .. 3,
              NEW n \in 1 .. Len(words),
              \/ \E m \in 1 .. Len(s) : words[n] = s[m]
              \/ \E m \in 1 .. Len(t) : words[n] = t[m]
       PROVE  words[n] # UNITS[k]
  <2>1. CASE \E m \in 1 .. Len(s) : words[n] = s[m]
    <3>1. words[n] \in Words(1 .. k - 1)
      BY <2>1, ElementOfSeq DEF Lead
    <3>2. k \in (1 .. 3) \ (1 .. k - 1) /\ 1 .. k - 1 \subseteq 1 .. 3
      BY <1>12
    <3> QED BY <3>1, <3>2, UnitsDiffer
  <2>2. CASE \E m \in 1 .. Len(t) : words[n] = t[m]
    <3>1. words[n] \in Words(k + 1 .. 3)
      BY <2>2, ElementOfSeq
    <3>2. k \in (1 .. 3) \ (k + 1 .. 3) /\ k + 1 .. 3 \subseteq 1 .. 3
      BY <1>12
    <3> QED BY <3>1, <3>2, UnitsDiffer
  <2> QED BY <1>12, <2>1, <2>2
<1>13. CASE k # 4 /\ groups[k] = 0
  <2>1. words = s \o t
    <3>1. p = << >>
      BY <1>1, <1>13 DEF PartOf
    <3> QED BY <1>2, <1>3, <1>6, <3>1, ConcatEmptySeq
  <2>2. At(words, k) = {}
    <3> SUFFICES ASSUME NEW n \in 1 .. Len(words), words[n] = UNITS[k]
                 PROVE  FALSE
      BY DEF At
    <3>1. \/ \E m \in 1 .. Len(s) : words[n] = s[m]
          \/ \E m \in 1 .. Len(t) : words[n] = t[m]
      <4>1. /\ \A m \in 1 .. Len(s) : words[m] = s[m]
            /\ \A m \in 1 .. Len(t) : words[Len(s) + m] = t[m]
            /\ n \in 1 .. Len(s) \/ \E m \in 1 .. Len(t) : n = Len(s) + m
        <5>1. InARow(words, s, t)
          BY <1>6, <2>1, TwoPieces
        <5> QED BY <5>1 DEF InARow
      <4> QED BY <4>1
    <3>2. k \in 1 .. 3
      BY <1>13
    <3> QED BY <1>12, <3>1, <3>2
  <2>3. EndOf(words, k) = -1
    <3>1. {0} \cup At(words, k) = {0}
      BY <2>2
    <3>2. Max({0}) = 0
      BY DEF Max
    <3>3. Max({0} \cup At(words, k)) = 0
      BY <3>1, <3>2
    <3> QED BY <1>13, <3>3 DEF EndOf
  <2>4. SubSeq(words, Len(s) + 1, EndOf(words, k)) = << >>
    BY <1>7, <2>3, SubSeqEmpty
  <2> QED BY <1>8, <1>9, <1>13, <2>4
<1>14. CASE k # 4 /\ groups[k] # 0
  <2>1. PICK h \in Seq(Plain) : /\ h = Hundreds(groups[k])
                                /\ ReadGroup(h, f) = groups[k] <=> Good(groups[k], f)
    BY <1>14, PartIsWords DEF GroupWords
  <2>2. p = h \o <<UNITS[k]>>
    BY <1>1, <1>14, <2>1 DEF PartOf
  <2>3. k \in 1 .. 3 /\ UNITS[k] \in Words(1 .. 3) /\ Plain \subseteq Words(1 .. 3)
    BY <1>14 DEF Words
  <2>4. h \in Seq(Words(1 .. 3)) /\ Len(h) \in Nat
    BY <2>3, SeqMonotonic
  <2>5. PICK e \in Words(1 .. 3) : e = UNITS[k]
    BY <2>3
  <2>6. words = s \o ((h \o <<e>>) \o t)
    BY <1>2, <1>3, <2>2, <2>5
  <2>7. /\ words = s \o (h \o (<<e>> \o t)) /\ <<e>> \o t \in Seq(Words(1 .. 3))
        /\ Around(words, s, h, e, t)
    <3>1. PICK W : W = Words(1 .. 3)
      OBVIOUS
    <3>2. s \in Seq(W) /\ h \in Seq(W) /\ e \in W /\ t \in Seq(W)
      BY <1>6, <2>4, <2>5, <3>1
    <3>3. PICK all : all = s \o ((h \o <<e>>) \o t)
      OBVIOUS
    <3>4. all = s \o (h \o (<<e>> \o t)) /\ <<e>> \o t \in Seq(W) /\ Around(all, s, h, e, t)
      BY <3>2, <3>3, FourPieces
    <3> QED BY <2>6, <3>1, <3>3, <3>4, Zenon
  <2>8. PICK m \in Nat : m = Len(s) + Len(h) + 1
    BY <1>7, <2>4
  <2>9. ASSUME NEW n \in 1 .. Len(words), words[n] = UNITS[k]
        PROVE  n = m
    <3>1. ASSUME NEW i \in 1 .. Len(h), words[n] = h[i]
          PROVE  FALSE
      <4>1. words[n] \in Words({})
        BY <3>1, ElementOfSeq DEF Words
      <4> QED BY <2>3, <2>9, <4>1, UnitsDiffer
    <3> QED BY <1>12, <2>3, <2>7, <2>8, <2>9, <3>1 DEF Around
  <2>10. At(words, k) = {m}
    <3>1. m \in 1 .. Len(words) /\ words[m] = UNITS[k] /\ k <= 3
      BY <2>3, <2>5, <2>7, <2>8 DEF Around
    <3> QED BY <2>9, <3>1 DEF At
  <2>11. Max({0} \cup At(words, k)) = m
    <3>1. PICK S : S = {0} \cup At(words, k) /\ S = {0, m}
      BY <2>10
    <3>2. S \subseteq Int /\ m \in S /\ \A x \in S : x <= m
      BY <2>8, <3>1
    <3>3. Max(S) = m
      BY <3>2, Greatest
    <3> QED BY <3>1, <3>3
  <2>12. EndOf(words, k) = Len(s) + Len(h)
    BY <1>7, <1>14, <2>4, <2>8, <2>11 DEF EndOf
  <2>13. SubSeq(words, Len(s) + 1, Len(s) + Len(h)) = h
    BY <1>6, <2>4, <2>7, Middle
  <2> QED BY <1>8, <2>1, <2>12, <2>13
<1> QED BY <1>11, <1>13, <1>14

-----------------------------------------------------------------------------
(* The name of an int. *)

\* from is what Billions defines
NamesFrom(groups, from) ==
    from = [k \in 1 .. 4 |->
              IF k = 4 THEN Hundreds(groups[4])
              ELSE IF groups[k] = 0 THEN from[k + 1]
              ELSE Hundreds(groups[k]) \o <<UNITS[k]>>
                   \o IF \A l \in k + 1 .. 4 : groups[l] = 0 THEN <<>> ELSE from[k + 1]]

LEMMA BillionsFrom ==
    ASSUME NEW groups
    PROVE  \E from : NamesFrom(groups, from) /\ Billions(groups) = from[1]
<1> DEFINE From(k, rest) ==
             IF groups[k] = 0 THEN rest
             ELSE Hundreds(groups[k]) \o <<UNITS[k]>>
                  \o IF \A l \in k + 1 .. 4 : groups[l] = 0 THEN <<>> ELSE rest
<1>1. PICK w4 : w4 = Hundreds(groups[4])
  OBVIOUS
<1>2. PICK w3 : w3 = From(3, w4)
  OBVIOUS
<1>3. PICK w2 : w2 = From(2, w3)
  OBVIOUS
<1>4. PICK w1 : w1 = From(1, w2)
  OBVIOUS
<1>5. PICK f : f = [k \in 1 .. 4 |-> IF k = 4 THEN w4 ELSE IF k = 3 THEN w3
                                     ELSE IF k = 2 THEN w2 ELSE w1]
  OBVIOUS
<1>6. \A k \in 1 .. 4 : f[k] = IF k = 4 THEN Hundreds(groups[4]) ELSE From(k, f[k + 1])
  <2> HIDE DEF From
  <2>1. f[4] = w4 /\ f[3] = w3 /\ f[2] = w2 /\ f[1] = w1
    BY <1>5
  <2>2. \A k \in 1 .. 4 : k = 1 \/ k = 2 \/ k = 3 \/ k = 4
    OBVIOUS
  <2>3. 1 + 1 = 2 /\ 2 + 1 = 3 /\ 3 + 1 = 4
    OBVIOUS
  <2> QED BY <1>1, <1>2, <1>3, <1>4, <2>1, <2>2, <2>3
<1>7. f = [k \in 1 .. 4 |-> IF k = 4 THEN Hundreds(groups[4]) ELSE From(k, f[k + 1])]
  <2> HIDE DEF From
  <2>1. f = [k \in 1 .. 4 |-> f[k]]
    BY <1>5
  <2> QED BY <1>6, <2>1
<1>8. NamesFrom(groups, f)
  BY <1>7, Zenon DEF NamesFrom
<1>9. Billions(groups) = (CHOOSE from : NamesFrom(groups, from))[1]
  BY Zenon DEF Billions, NamesFrom
<1>10. NamesFrom(groups, CHOOSE from : NamesFrom(groups, from))
  BY <1>8, Zenon
<1> QED BY <1>9, <1>10, Zenon

\* words are a name of the groups, as it is spelled
IsNameOf(words, groups) ==
    /\ words \in Seq(Words(1 .. 3) \cup {"zero"})
    /\ \A f \in Spellings :
         ReadGroups(words, f) = groups <=> \A k \in 1 .. 4 : Good(groups[k], f)
    /\ \A n \in 1 .. Len(words) : words[n] = "zero" => words = <<"zero">>

LEMMA ZeroReadBack ==
    ASSUME NEW groups \in [1 .. 4 -> Group], \A k \in 1 .. 4 : groups[k] = 0
    PROVE  IsNameOf(<<"zero">>, groups)
<1>1. PICK words : words = <<"zero">>
  OBVIOUS
<1>2. words \in Seq(Words(1 .. 3) \cup {"zero"}) /\ Len(words) = 1 /\ words[1] = "zero"
  BY <1>1
<1>3. \A l \in 1 .. 4 : At(words, l) = {}
  <2>1. UNITS[1] # "zero" /\ UNITS[2] # "zero" /\ UNITS[3] # "zero"
    BY DEF UNITS
  <2>2. \A l \in 1 .. 4 : l = 1 \/ l = 2 \/ l = 3 \/ l = 4
    OBVIOUS
  <2>3. \A n \in 1 .. 1 : n = 1
    OBVIOUS
  <2> QED BY <1>2, <2>1, <2>2, <2>3 DEF At
<1>4. Max({0}) = 0
  BY DEF Max
<1>5. ASSUME NEW k \in 1 .. 4
      PROVE  StartOf(words, k) = 1 /\ EndOf(words, k) = IF k = 4 THEN 1 ELSE -1
  <2>1. {0} \cup UNION {At(words, l) : l \in 1 .. k - 1} = {0}
    <3>1. \A l \in 1 .. k - 1 : At(words, l) = {}
      BY <1>3
    <3> QED BY <3>1
  <2>2. {0} \cup At(words, k) = {0}
    BY <1>3
  <2>3. StartOf(words, k) = 1 + 0
    BY <1>4, <2>1 DEF StartOf
  <2>4. EndOf(words, k) = IF k = 4 THEN 1 ELSE 0 - 1
    BY <1>2, <1>4, <2>2 DEF EndOf
  <2> QED BY <2>3, <2>4
<1>6. ASSUME NEW f \in Spellings
      PROVE  ReadGroups(words, f) = groups
  <2>1. ReadGroup(words, f) = 0
    <3>1. Value("zero", f) = 0
      <4>1. PICK word : word = "zero"
        OBVIOUS
      <4>2. word \notin Range(BELOW_TWENTY)
        <5>1. \A v \in Plain : v # word
          BY <4>1, TablesDiffer
        <5> QED BY <5>1, BelowTwenty DEF Plain
      <4>3. word \notin Range(Decades(f))
        <5>1. ONES[1] = word
          BY <4>1 DEF ONES
        <5> QED BY <5>1, DecadesAre
      <4>4. Value(word, f) = 0
        BY <4>1, <4>2, <4>3, Zenon DEF Value
      <4> QED BY <4>1, <4>4
    <3>2. ~(Len(words) > 1) /\ ReadSmall(words, f) = Value("zero", f)
      BY <1>1, <1>2, OneWord
    <3> QED BY <3>1, <3>2 DEF ReadGroup
  <2>2. ReadGroup(<< >>, f) = 0
    BY DEF ReadGroup, ReadSmall
  <2>3. ASSUME NEW k \in 1 .. 4
        PROVE  ReadGroups(words, f)[k] = 0
    <3>1. ReadGroups(words, f)[k] = ReadGroup(SubSeq(words, 1, IF k = 4 THEN 1 ELSE -1), f)
      BY <1>5, ReadsEachGroup
    <3>2. SubSeq(words, 1, 1) = words
      BY <1>2, SubSeqFull
    <3>3. SubSeq(words, 1, -1) = << >>
      BY SubSeqEmpty
    <3> QED BY <2>1, <2>2, <3>1, <3>2, <3>3
  <2>4. ReadGroups(words, f) = [k \in 1 .. 4 |-> ReadGroups(words, f)[k]]
    BY ReadsEachGroup
  <2> QED BY <2>3, <2>4
<1>7. \A k \in 1 .. 4, f \in Spellings : Good(groups[k], f)
  BY DEF Good, InForties
<1> QED BY <1>1, <1>2, <1>6, <1>7 DEF IsNameOf

LEMMA Regrouped ==
    ASSUME NEW W, NEW s, NEW t, NEW u, s \in Seq(W), t \in Seq(W), u \in Seq(W)
    PROVE  s \o (t \o u) = (s \o t) \o u
<1>1. (s \o t) \o u = s \o (t \o u)
  BY ConcatAssociative
<1> QED BY <1>1

(* The parts of a name in their order. *)
LEMMA PartsReadBack ==
    ASSUME NEW groups \in [1 .. 4 -> Group], NEW words,
           words = PartOf(groups, 1) \o (PartOf(groups, 2) \o
                     (PartOf(groups, 3) \o PartOf(groups, 4)))
    PROVE  IsNameOf(words, groups)
<1>1. PICK W : W = Words(1 .. 3)
  OBVIOUS
<1>2. ASSUME NEW k \in 1 .. 4
      PROVE  /\ PartOf(groups, k) \in Seq(Words(k .. 3)) /\ PartOf(groups, k) \in Seq(W)
             /\ k < 4 => Lead(PartOf(groups, k), k)
  <2>1. k .. 3 \subseteq 1 .. 3
    OBVIOUS
  <2>2. PICK J, K : J = k .. 3 /\ K = 1 .. 3 /\ J \subseteq K
    BY <2>1, Zenon
  <2>3. /\ PartOf(groups, k) \in Seq(Words(J))
        /\ k < 4 => Lead(PartOf(groups, k), k)
    BY <2>2, SomeSpelling, PartIsWords
  <2>4. PartOf(groups, k) \in Seq(Words(K))
    BY <2>2, <2>3, MoreWords
  <2> QED BY <1>1, <2>2, <2>3, <2>4
<1>3. PICK p1 : p1 \in Seq(W) /\ p1 = PartOf(groups, 1) /\ Lead(p1, 1)
  <2>1. 1 \in 1 .. 4 /\ 1 < 4
    OBVIOUS
  <2> QED BY <1>2, <2>1
<1>4. PICK p2 : p2 \in Seq(W) /\ p2 = PartOf(groups, 2) /\ Lead(p2, 2) /\ p2 \in Seq(Words(2 .. 3))
  <2>1. 2 \in 1 .. 4 /\ 2 < 4
    OBVIOUS
  <2> QED BY <1>2, <2>1
<1>5. PICK p3 : p3 \in Seq(W) /\ p3 = PartOf(groups, 3) /\ Lead(p3, 3) /\ p3 \in Seq(Words(3 .. 3))
  <2>1. 3 \in 1 .. 4 /\ 3 < 4
    OBVIOUS
  <2> QED BY <1>2, <2>1
<1>6. PICK p4 : p4 \in Seq(W) /\ p4 = PartOf(groups, 4) /\ p4 \in Seq(Words(4 .. 3))
  <2>1. 4 \in 1 .. 4
    OBVIOUS
  <2> QED BY <1>2, <2>1
<1>7. PICK p34 : p34 \in Seq(W) /\ p34 = p3 \o p4 /\ p34 \in Seq(Words(3 .. 3))
  <2>1. 4 .. 3 \subseteq 3 .. 3
    OBVIOUS
  <2>2. PICK J, K : J = 4 .. 3 /\ K = 3 .. 3 /\ J \subseteq K
    BY <2>1, Zenon
  <2>3. p4 \in Seq(Words(J))
    BY <1>6, <2>2
  <2>4. p4 \in Seq(Words(K))
    BY <2>2, <2>3, MoreWords
  <2>5. p3 \o p4 \in Seq(W) /\ p3 \o p4 \in Seq(Words(3 .. 3))
    BY <1>5, <1>6, <2>2, <2>4, ConcatProperties
  <2> QED BY <2>5
<1>8. PICK p234 : p234 \in Seq(W) /\ p234 = p2 \o p34 /\ p234 \in Seq(Words(2 .. 3))
  <2>1. 3 .. 3 \subseteq 2 .. 3
    OBVIOUS
  <2>2. PICK J, K : J = 3 .. 3 /\ K = 2 .. 3 /\ J \subseteq K
    BY <2>1, Zenon
  <2>3. p34 \in Seq(Words(J))
    BY <1>7, <2>2
  <2>4. p34 \in Seq(Words(K))
    BY <2>2, <2>3, MoreWords
  <2>5. p2 \o p34 \in Seq(W) /\ p2 \o p34 \in Seq(Words(2 .. 3))
    BY <1>4, <1>7, <2>2, <2>4, ConcatProperties
  <2> QED BY <2>5
<1>9. words = p1 \o p234 /\ words \in Seq(W)
  <2>1. words = p1 \o p234
    BY <1>3, <1>4, <1>5, <1>6, <1>7, <1>8
  <2> QED BY <1>3, <1>8, <2>1, ConcatProperties
<1>10. PICK p12 : p12 \in Seq(W) /\ p12 = p1 \o p2 /\ Lead(p12, 2)
  <2>1. PICK k \in 1 .. 3 : k = 2 /\ k - 1 = 1
    OBVIOUS
  <2>2. Lead(p1, k - 1) /\ Lead(p2, k)
    BY <1>3, <1>4, <2>1
  <2>3. Lead(p1 \o p2, k)
    BY <2>2, LeadGrows
  <2> QED BY <1>3, <1>4, <2>1, <2>3, ConcatProperties
<1>11. PICK p123 : p123 \in Seq(W) /\ p123 = p12 \o p3 /\ Lead(p123, 3)
  <2>1. PICK k \in 1 .. 3 : k = 3 /\ k - 1 = 2
    OBVIOUS
  <2>2. Lead(p12, k - 1) /\ Lead(p3, k)
    BY <1>5, <1>10, <2>1
  <2>3. Lead(p12 \o p3, k)
    BY <2>2, LeadGrows
  <2> QED BY <1>5, <1>10, <2>1, <2>3, ConcatProperties
<1>12. words = p12 \o p34
  <2>1. p1 \in Seq(W) /\ p2 \in Seq(W) /\ p34 \in Seq(W)
    BY <1>3, <1>4, <1>7
  <2>2. p1 \o (p2 \o p34) = (p1 \o p2) \o p34
    BY <2>1, Regrouped
  <2> QED BY <1>8, <1>9, <1>10, <2>2, Zenon
<1>13. words = p123 \o p4
  <2>1. p12 \in Seq(W) /\ p3 \in Seq(W) /\ p4 \in Seq(W)
    BY <1>5, <1>6, <1>10
  <2>2. p12 \o (p3 \o p4) = (p12 \o p3) \o p4
    BY <2>1, Regrouped
  <2> QED BY <1>7, <1>11, <1>12, <2>2, Zenon
<1>14. \A f \in Spellings : ReadGroups(words, f)[1] = groups[1] <=> Good(groups[1], f)
  <2> SUFFICES ASSUME NEW f \in Spellings
               PROVE  ReadGroups(words, f)[1] = groups[1] <=> Good(groups[1], f)
    OBVIOUS
  <2>1. PICK k \in 1 .. 4 : k = 1 /\ k - 1 = 0 /\ k + 1 = 2
    OBVIOUS
  <2>2. Lead(<< >>, 0)
    BY DEF Lead
  <2>3. Lead(<< >>, k - 1) /\ p234 \in Seq(Words(k + 1 .. 3)) /\ k # 4
    BY <1>8, <2>1, <2>2
  <2>4. ReadGroups(<< >> \o (PartOf(groups, k) \o p234), f)[k] = groups[k] <=> Good(groups[k], f)
    BY <2>3, ReadsPart
  <2>5. << >> \o words = words
    BY <1>9, ConcatEmptySeq
  <2> QED BY <1>3, <1>9, <2>1, <2>4, <2>5
<1>15. \A f \in Spellings : ReadGroups(words, f)[2] = groups[2] <=> Good(groups[2], f)
  <2> SUFFICES ASSUME NEW f \in Spellings
               PROVE  ReadGroups(words, f)[2] = groups[2] <=> Good(groups[2], f)
    OBVIOUS
  <2>1. PICK k \in 1 .. 4 : k = 2 /\ k - 1 = 1 /\ k + 1 = 3
    OBVIOUS
  <2>2. Lead(p1, k - 1) /\ p34 \in Seq(Words(k + 1 .. 3)) /\ k # 4
    BY <1>3, <1>7, <2>1
  <2>3. ReadGroups(p1 \o (PartOf(groups, k) \o p34), f)[k] = groups[k] <=> Good(groups[k], f)
    BY <2>2, ReadsPart
  <2> QED BY <1>4, <1>8, <1>9, <2>1, <2>3
<1>16. \A f \in Spellings : ReadGroups(words, f)[3] = groups[3] <=> Good(groups[3], f)
  <2> SUFFICES ASSUME NEW f \in Spellings
               PROVE  ReadGroups(words, f)[3] = groups[3] <=> Good(groups[3], f)
    OBVIOUS
  <2>1. PICK k \in 1 .. 4 : k = 3 /\ k - 1 = 2 /\ k + 1 = 4
    OBVIOUS
  <2>2. Lead(p12, k - 1) /\ p4 \in Seq(Words(k + 1 .. 3)) /\ k # 4
    BY <1>6, <1>10, <2>1
  <2>3. ReadGroups(p12 \o (PartOf(groups, k) \o p4), f)[k] = groups[k] <=> Good(groups[k], f)
    BY <2>2, ReadsPart
  <2> QED BY <1>5, <1>7, <1>12, <2>1, <2>3
<1>17. \A f \in Spellings : ReadGroups(words, f)[4] = groups[4] <=> Good(groups[4], f)
  <2> SUFFICES ASSUME NEW f \in Spellings
               PROVE  ReadGroups(words, f)[4] = groups[4] <=> Good(groups[4], f)
    OBVIOUS
  <2>1. PICK k \in 1 .. 4 : k = 4 /\ k - 1 = 3 /\ k + 1 = 5
    OBVIOUS
  <2>2. Lead(p123, k - 1)
    BY <1>11, <2>1
  <2>3. << >> \in Seq(Words(k + 1 .. 3))
    OBVIOUS
  <2>4. ReadGroups(p123 \o (PartOf(groups, k) \o << >>), f)[k] = groups[k] <=> Good(groups[k], f)
    BY <2>2, <2>3, ReadsPart
  <2>5. p4 \o << >> = p4
    BY ConcatEmptySeq
  <2> QED BY <1>6, <1>13, <2>1, <2>4, <2>5
<1>18. ASSUME NEW f \in Spellings
       PROVE  ReadGroups(words, f) = groups <=> \A k \in 1 .. 4 : Good(groups[k], f)
  <2>1. \A k \in 1 .. 4 : k = 1 \/ k = 2 \/ k = 3 \/ k = 4
    OBVIOUS
  <2>2. \A k \in 1 .. 4 : ReadGroups(words, f)[k] = groups[k] <=> Good(groups[k], f)
    BY <1>14, <1>15, <1>16, <1>17, <2>1
  <2>3. ReadGroups(words, f) = [k \in 1 .. 4 |-> ReadGroups(words, f)[k]]
    BY ReadsEachGroup
  <2>4. groups = [k \in 1 .. 4 |-> groups[k]]
    OBVIOUS
  <2>5. ReadGroups(words, f) = groups <=> \A k \in 1 .. 4 : ReadGroups(words, f)[k] = groups[k]
    BY <2>3, <2>4
  <2> QED BY <2>2, <2>5
<1>19. \A n \in 1 .. Len(words) : words[n] # "zero"
  <2>1. \A word \in W : word # "zero"
    BY <1>1, UnitsDiffer
  <2> QED BY <1>9, <2>1, ElementOfSeq
<1>20. words \in Seq(Words(1 .. 3) \cup {"zero"})
  <2>1. W \subseteq Words(1 .. 3) \cup {"zero"}
    BY <1>1
  <2> QED BY <1>9, <2>1, SeqMonotonic
<1> QED BY <1>18, <1>19, <1>20 DEF IsNameOf

LEMMA BillionsReadBack ==
    ASSUME NEW groups \in [1 .. 4 -> Group]
    PROVE  IsNameOf(Billions(groups), groups)
<1>1. PICK from : NamesFrom(groups, from) /\ Billions(groups) = from[1]
  BY BillionsFrom
<1>2. \A k \in 1 .. 4 : from[k] =
        IF k = 4 THEN Hundreds(groups[4])
        ELSE IF groups[k] = 0 THEN from[k + 1]
        ELSE Hundreds(groups[k]) \o <<UNITS[k]>>
             \o IF \A l \in k + 1 .. 4 : groups[l] = 0 THEN <<>> ELSE from[k + 1]
  <2>1. from = [k \in 1 .. 4 |->
              IF k = 4 THEN Hundreds(groups[4])
              ELSE IF groups[k] = 0 THEN from[k + 1]
              ELSE Hundreds(groups[k]) \o <<UNITS[k]>>
                   \o IF \A l \in k + 1 .. 4 : groups[l] = 0 THEN <<>> ELSE from[k + 1]]
    BY <1>1, Zenon DEF NamesFrom
  <2> QED BY <2>1, Zenon
<1> DEFINE None(k) == \A l \in k .. 4 : groups[l] = 0
<1>3. /\ None(4) <=> groups[4] = 0
      /\ \A k \in 1 .. 3 : None(k) <=> groups[k] = 0 /\ None(k + 1)
  OBVIOUS
<1>4. /\ from[4] = Hundreds(groups[4])
      /\ \A k \in 1 .. 3 : from[k] =
            IF groups[k] = 0 THEN from[k + 1]
            ELSE Hundreds(groups[k]) \o <<UNITS[k]>> \o IF None(k + 1) THEN <<>> ELSE from[k + 1]
  BY <1>2
<1> HIDE DEF None
<1>5. CASE None(1)
  <2>1. None(2) /\ None(3) /\ None(4) /\ \A k \in 1 .. 4 : groups[k] = 0
    <3>1. None(1 + 1) /\ groups[1] = 0
      BY <1>3, <1>5
    <3>2. None(2 + 1) /\ groups[2] = 0
      BY <1>3, <3>1
    <3>3. None(3 + 1) /\ groups[3] = 0
      BY <1>3, <3>2
    <3> QED BY <1>5, <3>1, <3>2, <3>3 DEF None
  <2>2. from[3] = from[4] /\ from[2] = from[3] /\ from[1] = from[2]
    BY <1>4, <2>1
  <2>3. Hundreds(0) = <<"zero">>
    <3>1. ONES[1] = "zero"
      BY DEF ONES
    <3>2. 0 < 100 /\ 0 < 10 /\ ~(10 <= 0) /\ 0 + 1 = 1
      OBVIOUS
    <3> QED BY <3>1, <3>2, Zenon DEF Hundreds, Tens, Ones
  <2>4. Billions(groups) = <<"zero">>
    BY <1>1, <1>4, <2>1, <2>2, <2>3
  <2> QED BY <2>1, <2>4, ZeroReadBack
<1>6. CASE ~None(1)
  <2>1. PICK t4 : t4 = PartOf(groups, 4)
    OBVIOUS
  <2>2. PICK t3 : t3 = PartOf(groups, 3) \o t4
    OBVIOUS
  <2>3. PICK t2 : t2 = PartOf(groups, 2) \o t3
    OBVIOUS
  <2>4. PICK t1 : t1 = PartOf(groups, 1) \o t2
    OBVIOUS
  <2>5. \A k \in 1 .. 4 : PartOf(groups, k) \in Seq(Words(1 .. 3))
    <3>1. \A k \in 1 .. 4 : k .. 3 \subseteq 1 .. 3
      OBVIOUS
    <3>2. \A k \in 1 .. 4 : PartOf(groups, k) \in Seq(Words(k .. 3))
      BY SomeSpelling, PartIsWords
    <3> QED BY <3>1, <3>2, MoreWords
  <2>6. t4 \in Seq(Words(1 .. 3)) /\ t3 \in Seq(Words(1 .. 3)) /\ t2 \in Seq(Words(1 .. 3))
    <3>1. t4 \in Seq(Words(1 .. 3))
      BY <2>1, <2>5
    <3>2. t3 \in Seq(Words(1 .. 3))
      BY <2>2, <2>5, <3>1, ConcatProperties
    <3> QED BY <2>3, <2>5, <3>1, <3>2, ConcatProperties
  <2>7. ASSUME NEW k \in 1 .. 3, NEW t \in Seq(Words(1 .. 3)),
               None(k + 1) => t = << >>, ~None(k + 1) => from[k + 1] = t
        PROVE  /\ None(k) => PartOf(groups, k) \o t = << >>
               /\ ~None(k) => from[k] = PartOf(groups, k) \o t
    <3>1. CASE groups[k] = 0
      <4>1. PartOf(groups, k) \o t = t
        BY <3>1, ConcatEmptySeq DEF PartOf
      <4> QED BY <1>3, <1>4, <2>7, <3>1, <4>1
    <3>2. CASE groups[k] # 0
      <4>1. PartOf(groups, k) = Hundreds(groups[k]) \o <<UNITS[k]>>
        BY <3>2 DEF PartOf
      <4>2. from[k] = PartOf(groups, k) \o t
        BY <1>4, <2>7, <3>2, <4>1
      <4> QED BY <1>3, <3>2, <4>2
    <3> QED BY <3>1, <3>2
  <2>8. /\ None(4) => t4 = << >>
        /\ ~None(4) => from[4] = t4
    BY <1>3, <1>4, <2>1 DEF PartOf
  <2>9. /\ None(3) => t3 = << >>
        /\ ~None(3) => from[3] = t3
    <3>1. 3 + 1 = 4 /\ 3 \in 1 .. 3
      OBVIOUS
    <3> QED BY <2>2, <2>6, <2>7, <2>8, <3>1
  <2>10. /\ None(2) => t2 = << >>
         /\ ~None(2) => from[2] = t2
    <3>1. 2 + 1 = 3 /\ 2 \in 1 .. 3
      OBVIOUS
    <3> QED BY <2>3, <2>6, <2>7, <2>9, <3>1
  <2>11. from[1] = t1
    <3>1. 1 + 1 = 2 /\ 1 \in 1 .. 3
      OBVIOUS
    <3> QED BY <1>6, <2>4, <2>6, <2>7, <2>10, <3>1
  <2> QED BY <1>1, <2>1, <2>2, <2>3, <2>4, <2>11, PartsReadBack
<1> QED BY <1>5, <1>6

(* What is printed is the name of the int that was asked for. *)
NamesInvariant ==
    result # << >> => argument \in Arguments /\ result = Itoaaa(argument)

LEMMA NamesAreRead == NamesInvariant => NameReadsBack
<1> SUFFICES ASSUME NamesInvariant, result # << >> PROVE NameReadsBack
  BY DEF NameReadsBack
<1>1. argument \in Arguments /\ result = Itoaaa(argument)
  BY DEF NamesInvariant
<1>2. PICK groups \in [1 .. 4 -> Group] : groups = argument.groups
  BY <1>1, ArgumentsAssumption
<1>3. PICK words : words = Billions(groups) /\ IsNameOf(words, groups)
  BY BillionsReadBack
<1>4. argument.negative => Head(result) = "negative" /\ Tail(result) = words
  <2> SUFFICES ASSUME argument.negative
               PROVE  Head(result) = "negative" /\ Tail(result) = words
    OBVIOUS
  <2> DEFINE W == Words(1 .. 3) \cup {"zero", "negative"}
  <2>1. PICK sign \in Seq(W) : sign = <<"negative">> /\ Len(sign) = 1 /\ sign[1] = "negative"
    <3>1. "negative" \in W
      OBVIOUS
    <3> HIDE DEF W
    <3>2. <<"negative">> \in Seq(W) /\ Len(<<"negative">>) = 1 /\ <<"negative">>[1] = "negative"
      BY <3>1
    <3> QED BY <3>2
  <2>2. words \in Seq(W)
    <3>1. Words(1 .. 3) \cup {"zero"} \subseteq W
      OBVIOUS
    <3> QED BY <1>3, <3>1, SeqMonotonic DEF IsNameOf
  <2> HIDE DEF W
  <2>3. result = sign \o words
    BY <1>1, <1>2, <1>3, <2>1 DEF Itoaaa
  <2>4. result \in Seq(W) /\ InARow(result, sign, words)
    BY <2>2, <2>3, TwoPieces
  <2>5. Len(result) = 1 + Len(words) /\ result[1] = "negative" /\ Len(words) \in Nat
        /\ \A m \in 1 .. Len(words) : result[1 + m] = words[m]
    BY <2>1, <2>4 DEF InARow
  <2>6. Head(result) = "negative"
    BY <2>4, <2>5
  <2>7. Tail(result) = words
    <3>1. /\ Tail(result) \in Seq(W) /\ Len(Tail(result)) = Len(result) - 1
          /\ \A i \in 1 .. Len(Tail(result)) : Tail(result)[i] = result[i + 1]
      BY <2>4, HeadTailProperties
    <3>2. Len(Tail(result)) = Len(words)
          /\ \A i \in 1 .. Len(Tail(result)) : Tail(result)[i] = words[i]
      BY <2>5, <3>1
    <3> QED BY <2>2, <3>1, <3>2, SeqEqual
  <2> QED BY <2>6, <2>7
<1>5. ~argument.negative => result = words
  <2>1. << >> \o words = words
    BY <1>3, ConcatEmptySeq DEF IsNameOf
  <2> QED BY <1>1, <1>2, <1>3, <2>1 DEF Itoaaa
<1>6. words = IF argument.negative THEN Tail(result) ELSE result
  BY <1>4, <1>5
<1>7. /\ ReadGroups(words, "fourty") = argument.groups
      /\ ReadGroups(words, "forty") = argument.groups <=>
           \A k \in 1 .. 4 : ~InForties(argument.groups[k])
      /\ \A n \in 1 .. Len(words) : words[n] = "zero" => words = <<"zero">>
  <2>1. \A n : Good(n, "fourty") /\ (Good(n, "forty") <=> ~InForties(n))
    BY DEF Good
  <2> QED BY <1>2, <1>3, <2>1, SomeSpelling DEF IsNameOf
<1> QED BY <1>4, <1>6, <1>7, Zenon DEF NameReadsBack

(* Every int's name is that int to who takes "fourty" for forty: what itoaaa prints has the
   words of each of its groups, before that group's unit and after the unit of the group
   before it, and of no other.  As English it is that int exactly when none of its groups
   has a number in the forties (cp3-problem1.c). *)
THEOREM NamesReadBack == Spec => []NameReadsBack
<1>1. Init => NamesInvariant
  BY DEF Init, NamesInit, NamesInvariant
<1>2. NamesInvariant /\ [Next]_vars => NamesInvariant'
  <2> SUFFICES ASSUME NamesInvariant, [Next]_vars PROVE NamesInvariant'
    OBVIOUS
  <2>1. CASE \E a \in Arguments : PrintName(a)
    <3>1. PICK a \in Arguments : argument' = a /\ result' = Itoaaa(a)
      BY <2>1, Zenon DEF PrintName
    <3> QED BY <3>1, Zenon DEF NamesInvariant
  <2>2. CASE UNCHANGED namesVars
    <3>1. argument' = argument /\ result' = result
      BY <2>2 DEF namesVars
    <3> QED BY <3>1, Zenon DEF NamesInvariant
  <2> QED BY <2>1, <2>2, Zenon DEF Next, vars
<1> QED BY <1>1, <1>2, NamesAreRead, PTL DEF Spec
=============================================================================
