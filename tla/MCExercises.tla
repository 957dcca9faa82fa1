------------------------------- MODULE MCExercises ----------------------------
(***************************************************************************)
(* Ints whose groups take every branch of the functions that name them.    *)
(***************************************************************************)
EXTENDS Exercises

MCGroups == {0, 1, 10, 15, 20, 47, 100, 999}

MCArguments ==
    {a \in [negative : BOOLEAN, groups : {<<b, m, t, h>> : b \in 0 .. 2, m, t, h \in MCGroups}] :
        IsInt(a) /\ (a.negative => a.groups # <<0, 0, 0, 0>>)}
    \cup {[negative |-> TRUE, groups |-> <<2, 147, 483, 648>>],
          [negative |-> FALSE, groups |-> <<2, 147, 483, 647>>]}
==============================================================================
