------------------------------- MODULE Iteration ------------------------------
(***************************************************************************)
(* The loops along `next': of the filesystem's handlers over a file's      *)
(* blocks, and of the exercises over their lists.                          *)
(***************************************************************************)
EXTENDS Integers, FiniteSets

\* where n turns of such a loop lead from b, for every n
Iterate(next, b) ==
    LET at[n \in Nat] == IF n = 0 THEN b ELSE next[at[n - 1]]
    IN  at

\* the first values in S, of at most n; a loop that leaves S does not come back to it
Walk(next, b, n, S) ==
    LET at == Iterate(next, b)
    IN  [k \in 1 .. Cardinality({j \in 0 .. n - 1 : at[j] \in S}) |-> at[k - 1]]
==============================================================================
