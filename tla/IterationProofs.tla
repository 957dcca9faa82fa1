---------------------------- MODULE IterationProofs --------------------------
(***************************************************************************)
(* Induction over the natural numbers as a fact about sets, and from it    *)
(* what the loops along next do: Iterate satisfies its own equations, and  *)
(* a loop on which some number rises comes to its end.                     *)
(***************************************************************************)
EXTENDS Iteration, FiniteSetTheorems, WellFoundedInduction, TLAPS

(* A set of natural numbers has a least element. *)
LEMMA LeastExists ==
    ASSUME NEW T, T \subseteq Nat, T # {}
    PROVE  \E x \in T : \A y \in T : x <= y
<1> DEFINE R == {r \in Nat \X Nat : r[1] < r[2]}
<1>1. IsWellFoundedOn(R, Nat)
  BY NatLessThanWellFounded DEF OpToRel
<1>2. \A x, y \in Nat : <<y, x>> \in R <=> y < x
  OBVIOUS
<1> HIDE DEF R
<1>3. PICK x \in T : \A y \in T : ~ (<<y, x>> \in R)
  BY <1>1, WFMin
<1>4. \A y \in T : x \in Nat /\ y \in Nat /\ ~ (y < x)
  BY <1>2, <1>3
<1>5. \A y \in T : x <= y
  BY <1>4
<1> QED BY <1>5

(* Induction: a set with 0 and with the successors of its numbers. *)
LEMMA ByInduction ==
    ASSUME NEW P, 0 \in P, \A n \in Nat : n \in P => n + 1 \in P
    PROVE  Nat \subseteq P
<1> SUFFICES ASSUME Nat \ P # {} PROVE FALSE
  OBVIOUS
<1>1. PICK x \in Nat \ P : \A y \in Nat \ P : x <= y
  <2> DEFINE T == Nat \ P
  <2>1. T \subseteq Nat /\ T # {}
    OBVIOUS
  <2> HIDE DEF T
  <2>2. \E x \in T : \A y \in T : x <= y
    BY <2>1, LeastExists
  <2> QED BY <2>2 DEF T
<1>2. x # 0 /\ x - 1 \in Nat /\ x - 1 \in P
  BY <1>1
<1> QED BY <1>1, <1>2

(* f is the first n + 1 values of the iteration. *)
Begins(f, next, b, n) ==
    f = [k \in 0 .. n |-> IF k = 0 THEN b ELSE next[f[k - 1]]]

LEMMA BeginsExists ==
    ASSUME NEW next, NEW b
    PROVE  \A n \in Nat : \E f : Begins(f, next, b, n)
<1> DEFINE P == {n \in Nat : \E f : Begins(f, next, b, n)}
<1>1. 0 \in P
  <2>1. Begins([k \in 0 .. 0 |-> b], next, b, 0)
    BY DEF Begins
  <2> QED BY <2>1
<1>2. ASSUME NEW n \in Nat, n \in P
      PROVE  n + 1 \in P
  <2>1. PICK f : Begins(f, next, b, n)
    BY <1>2
  <2> DEFINE g == [k \in 0 .. n + 1 |-> IF k = 0 THEN b ELSE next[f[k - 1]]]
  <2>2. \A k \in 0 .. n : g[k] = f[k]
    <3>1. \A k \in 0 .. n : f[k] = IF k = 0 THEN b ELSE next[f[k - 1]]
      BY <2>1 DEF Begins
    <3>2. \A k \in 0 .. n : k \in 0 .. n + 1
      OBVIOUS
    <3> QED BY <3>1, <3>2
  <2>3. \A k \in 0 .. n + 1 : k # 0 => k - 1 \in 0 .. n
    OBVIOUS
  <2>4. g = [k \in 0 .. n + 1 |-> IF k = 0 THEN b ELSE next[g[k - 1]]]
    BY <2>2, <2>3
  <2>5. Begins(g, next, b, n + 1)
    BY <2>4 DEF Begins
  <2> QED BY <2>5
<1>3. Nat \subseteq P
  <2> HIDE DEF P
  <2> QED BY <1>1, <1>2, ByInduction
<1> QED BY <1>3

LEMMA BeginsAgree ==
    ASSUME NEW next, NEW b, NEW m \in Nat, NEW n \in Nat, m <= n, NEW f, NEW g,
           Begins(f, next, b, m), Begins(g, next, b, n)
    PROVE  \A k \in 0 .. m : f[k] = g[k]
<1> DEFINE P == {k \in Nat : k <= m => f[k] = g[k]}
<1>1. 0 \in P
  BY DEF Begins
<1>2. ASSUME NEW k \in Nat, k \in P
      PROVE  k + 1 \in P
  <2> SUFFICES ASSUME k + 1 <= m PROVE f[k + 1] = g[k + 1]
    OBVIOUS
  <2>1. f[k] = g[k]
    BY <1>2
  <2>2. f[k + 1] = next[f[k]] /\ g[k + 1] = next[g[k]]
    BY DEF Begins
  <2> QED BY <2>1, <2>2
<1>3. Nat \subseteq P
  <2> HIDE DEF P
  <2> QED BY <1>1, <1>2, ByInduction
<1> QED BY <1>3

(* The equations of the recursive function. *)
LEMMA IterateDef ==
    ASSUME NEW next, NEW b
    PROVE  /\ Iterate(next, b)[0] = b
           /\ \A n \in Nat : Iterate(next, b)[n + 1] = next[Iterate(next, b)[n]]
<1> DEFINE start(n) == CHOOSE h : Begins(h, next, b, n)
           f == [n \in Nat |-> start(n)[n]]
           Is(g) == g = [k \in Nat |-> IF k = 0 THEN b ELSE next[g[k - 1]]]
<1>1. \A n \in Nat : Begins(start(n), next, b, n)
  BY BeginsExists, Zenon
<1> HIDE DEF start
<1>2. f[0] = b
  BY <1>1 DEF Begins
<1>3. ASSUME NEW n \in Nat
      PROVE  f[n + 1] = next[f[n]]
  <2>1. start(n + 1)[n + 1] = next[start(n + 1)[n]]
    BY <1>1 DEF Begins
  <2>2. start(n + 1)[n] = start(n)[n]
    <3> QED BY <1>1, BeginsAgree
  <2> QED BY <2>1, <2>2
<1>4. Is(f)
  <2> DEFINE g == [n \in Nat |-> IF n = 0 THEN b ELSE next[f[n - 1]]]
  <2>1. \A n \in Nat : f[n] = g[n]
    <3> SUFFICES ASSUME NEW n \in Nat, n # 0 PROVE f[n] = next[f[n - 1]]
      BY <1>2
    <3>1. n - 1 \in Nat /\ (n - 1) + 1 = n
      OBVIOUS
    <3> HIDE DEF f
    <3> QED BY <1>3, <3>1
  <2> QED BY <2>1
<1>5. Iterate(next, b) = CHOOSE g : Is(g)
  BY DEF Iterate
<1>6. Is(Iterate(next, b))
  <2> HIDE DEF Is, f
  <2> QED BY <1>4, <1>5, Zenon
<1>7. ASSUME NEW g, Is(g)
      PROVE  g[0] = b /\ \A n \in Nat : g[n + 1] = next[g[n]]
  <2>1. \A k \in Nat : g[k] = IF k = 0 THEN b ELSE next[g[k - 1]]
    BY <1>7
  <2> HIDE DEF Is
  <2>2. \A n \in Nat : n + 1 \in Nat /\ n + 1 # 0 /\ (n + 1) - 1 = n
    OBVIOUS
  <2>3. g[0] = b
    BY <2>1
  <2>4. \A n \in Nat : g[n + 1] = next[g[n]]
    BY <2>1, <2>2, Zenon
  <2> QED BY <2>3, <2>4
<1> QED
  <2> HIDE DEF Is
  <2> QED BY <1>6, <1>7

(* The iteration stays where next stays. *)
LEMMA IterateType ==
    ASSUME NEW S, NEW next, NEW b \in S, \A x \in S : next[x] \in S
    PROVE  \A n \in Nat : Iterate(next, b)[n] \in S
<1> DEFINE P == {n \in Nat : Iterate(next, b)[n] \in S}
<1>1. 0 \in P /\ \A n \in Nat : n \in P => n + 1 \in P
  BY IterateDef
<1>2. Nat \subseteq P
  <2> HIDE DEF P
  <2> QED BY <1>1, ByInduction
<1> QED BY <1>2

(* next stays in S, and outside of Ends it leads to a higher rank. *)
Climbs(next, rank, S, Ends) ==
    /\ \A x \in S : rank[x] \in Int /\ next[x] \in S
    /\ \A x \in S \ Ends : rank[x] < rank[next[x]]

(* N turns of a loop that climbs over at most N elements come to Ends. *)
LEMMA RisingEnds ==
    ASSUME NEW N \in Nat, NEW S, IsFiniteSet(S), Cardinality(S) <= N,
           NEW next, NEW b \in S, NEW rank, NEW Ends, Climbs(next, rank, S, Ends)
    PROVE  \E k \in 0 .. N : Iterate(next, b)[k] \in Ends
<1> SUFFICES ASSUME \A k \in 0 .. N : Iterate(next, b)[k] \notin Ends
             PROVE  FALSE
  OBVIOUS
<1> DEFINE at(n) == Iterate(next, b)[n]
           Q(j) == {k \in Nat : j < k /\ k <= N => rank[at(j)] < rank[at(k)]}
<1>1. \A n \in Nat : at(n) \in S /\ at(n + 1) = next[at(n)]
  BY IterateType, IterateDef DEF Climbs
<1>2. \A n \in 0 .. N : n \in Nat /\ at(n) \notin Ends
  OBVIOUS
<1> HIDE DEF at
<1>3. \A n \in 0 .. N : rank[at(n)] < rank[at(n + 1)]
  BY <1>1, <1>2 DEF Climbs
<1>4. ASSUME NEW j \in 0 .. N
      PROVE  Nat \subseteq Q(j)
  <2>1. 0 \in Q(j)
    OBVIOUS
  <2>2. ASSUME NEW n \in Nat, n \in Q(j)
        PROVE  n + 1 \in Q(j)
    <3> SUFFICES ASSUME j < n + 1, n + 1 <= N PROVE rank[at(j)] < rank[at(n + 1)]
      OBVIOUS
    <3>1. rank[at(n)] < rank[at(n + 1)] /\ n \in 0 .. N
      BY <1>3
    <3>2. j = n \/ rank[at(j)] < rank[at(n)]
      BY <2>2
    <3>3. rank[at(j)] \in Int /\ rank[at(n)] \in Int /\ rank[at(n + 1)] \in Int
      BY <1>1 DEF Climbs
    <3> QED BY <3>1, <3>2, <3>3
  <2> QED
    <3> HIDE DEF Q
    <3> QED BY <2>1, <2>2, ByInduction
<1>5. \A j, k \in 0 .. N : j < k => rank[at(j)] < rank[at(k)]
  BY <1>4
<1>6. \A j, k \in 0 .. N : j # k => at(j) # at(k)
  <2>1. \A n \in 0 .. N : rank[at(n)] \in Int
    BY <1>1 DEF Climbs
  <2> QED BY <1>5, <2>1
<1> DEFINE f == [k \in 0 .. N |-> at(k)]
<1>7. f \in [0 .. N -> S]
  BY <1>1
<1>8. IsFiniteSet(0 .. N) /\ Cardinality(0 .. N) = N + 1
  BY FS_Interval
<1>9. Cardinality(S) \in Nat
  BY FS_CardinalityType
<1>10. \E x, y \in 0 .. N : x # y /\ f[x] = f[y]
  <2> HIDE DEF f
  <2> QED BY <1>7, <1>8, <1>9, FS_PigeonHole
<1> QED BY <1>6, <1>10

-----------------------------------------------------------------------------
(* next leads from b along the n places of s to end, and stays there. *)
Leads(next, b, n, s, end) ==
    /\ b = IF n = 0 THEN end ELSE s[1]
    /\ \A k \in 1 .. n : next[s[k]] = IF k = n THEN end ELSE s[k + 1]
    /\ next[end] = end

LEMMA LeadsIterate ==
    ASSUME NEW next, NEW b, NEW n \in Nat, NEW s, NEW end, Leads(next, b, n, s, end)
    PROVE  \A k \in Nat : Iterate(next, b)[k] = IF k < n THEN s[k + 1] ELSE end
<1> DEFINE P == {k \in Nat : Iterate(next, b)[k] = IF k < n THEN s[k + 1] ELSE end}
<1>1. 0 \in P
  BY IterateDef DEF Leads
<1>2. ASSUME NEW k \in Nat, k \in P PROVE k + 1 \in P
  <2>1. Iterate(next, b)[k + 1] = next[Iterate(next, b)[k]]
    BY IterateDef
  <2>2. CASE k < n
    <3>1. next[s[k + 1]] = IF k + 1 = n THEN end ELSE s[k + 1 + 1]
      BY <2>2 DEF Leads
    <3> QED BY <1>2, <2>1, <2>2, <3>1
  <2>3. CASE ~(k < n)
    BY <1>2, <2>1, <2>3 DEF Leads
  <2> QED BY <2>2, <2>3
<1>3. Nat \subseteq P
  <2> HIDE DEF P
  <2> QED BY <1>1, <1>2, ByInduction
<1> QED BY <1>3

(* A walk reads off the places that next leads along. *)
LEMMA WalkReads ==
    ASSUME NEW N \in Nat, NEW n \in 0 .. N, NEW S, NEW s \in [1 .. n -> S],
           NEW end, end \notin S, NEW next, NEW b, Leads(next, b, n, s, end)
    PROVE  Walk(next, b, N, S) = s
<1> DEFINE at == Iterate(next, b)
<1>1. \A k \in Nat : at[k] = IF k < n THEN s[k + 1] ELSE end
  BY LeadsIterate
<1>2. {j \in 0 .. N - 1 : at[j] \in S} = 0 .. n - 1
  <2> HIDE DEF at
  <2>1. \A j \in 0 .. n - 1 : j \in 0 .. N - 1 /\ at[j] \in S
    BY <1>1
  <2>2. \A j \in 0 .. N - 1 : at[j] \in S => j < n
    BY <1>1
  <2> QED BY <2>1, <2>2
<1>3. Cardinality(0 .. n - 1) = n
  BY FS_Interval
<1>4. Walk(next, b, N, S) = [k \in 1 .. n |-> at[k - 1]]
  BY <1>2, <1>3, Zenon DEF Walk
<1>5. \A k \in 1 .. n : at[k - 1] = s[k]
  <2> HIDE DEF at
  <2> QED BY <1>1
<1> HIDE DEF at
<1> QED BY <1>4, <1>5
=============================================================================
