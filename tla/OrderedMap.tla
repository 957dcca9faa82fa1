------------------------------- MODULE OrderedMap -----------------------------
(***************************************************************************)
(* What the list of src/c-project3/cp3-problem2.c promises: a map from     *)
(* ints to strings that is listed in the order of the ints.  Only a call   *)
(* for which there was no memory may lose what it should overwrite.        *)
(***************************************************************************)
EXTENDS Integers, Sequences, Functions

CONSTANTS Keys, Strings,
          NoString    \* NULL, for an int that is not there

VARIABLES
    printed,    \* the list as it is printed: the pairs of the map in order
    answer,     \* what the last call returned
    noMemory,   \* there was none for the last call
    asked       \* the int of the last call

mapVars == <<printed, answer, noMemory, asked>>

Pairs == Range(printed)
Others(i) == {p \in Pairs : p[1] # i}
Known(i) == \E p \in Pairs : p[1] = i

Ascending(list) == \A k \in 2 .. Len(list) : list[k - 1][1] < list[k][1]

Becomes(pairs, result, failed) ==
    /\ answer' = result /\ noMemory' = failed
    /\ \E list \in {printed'} : Range(list) = pairs /\ Ascending(list)

Init ==
    /\ printed = <<>>
    /\ answer = 0 /\ noMemory = FALSE
    /\ asked = 0

Add(i, v) == Becomes(Others(i) \cup {<<i, v>>}, IF Known(i) THEN 1 ELSE 0, FALSE)

AddFails == Becomes(Pairs, -1, TRUE)

AddLoses(i) == Known(i) /\ Becomes(Others(i), 1, TRUE)

Delete(i) == Becomes(Others(i), IF Known(i) THEN 1 ELSE 0, FALSE)

Lookup(i) ==
    \/ ~Known(i) /\ Becomes(Pairs, NoString, FALSE)
    \/ \E v \in Strings : <<i, v>> \in Pairs /\ Becomes(Pairs, v, FALSE)

DeleteList == Becomes({}, answer, FALSE)

Call(i) ==
    \/ \E v \in Strings : Add(i, v)
    \/ AddFails
    \/ AddLoses(i)
    \/ Delete(i)
    \/ Lookup(i)

Next ==
    \/ \E i \in Keys : asked' = i /\ Call(i)
    \/ UNCHANGED asked /\ DeleteList

Spec == Init /\ [][Next]_mapVars
==============================================================================
