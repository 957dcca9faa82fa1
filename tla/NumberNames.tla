------------------------------- MODULE NumberNames ----------------------------
(***************************************************************************)
(* itoaaa of src/c-project3/cp3-problem1.c: an int in English.  The int is *)
(* written as its sign and its groups of three digits, billions first; a   *)
(* name is the sequence of its words.                                      *)
(***************************************************************************)
EXTENDS Integers, Sequences, SequencesExt

CONSTANTS Arguments     \* the ints asked for: [negative, groups]

VARIABLES
    argument,
    result      \* the name printed, or none yet

namesVars == <<argument, result>>

Group == 0 .. 999

\* main refuses what is not an int
IsInt(a) ==
    LET g == a.groups
        largest == IF a.negative THEN 483648 ELSE 483647
    IN  \/ g[1] < 2
        \/ g[1] = 2 /\ g[2] < 147
        \/ g[1] = 2 /\ g[2] = 147 /\ g[3] * 1000 + g[4] <= largest

ASSUME ArgumentsAssumption ==
    \A a \in Arguments :
        a.negative \in BOOLEAN /\ a.groups \in [1 .. 4 -> Group] /\ IsInt(a)

ONES == <<"zero", "one", "two", "three", "four", "five", "six", "seven", "eight", "nine">>
TEN_TO_TWENTY == <<"ten", "eleven", "twelve", "thirteen", "fourteen", "fifteen", "sixteen",
                   "seventeen", "eighteen", "nineteen">>
TENS == <<"zero", "ten", "twenty", "thirty", "fourty", "fifty", "sixty", "seventy",
          "eighty", "ninety">>
UNITS == <<"billion", "million", "thousand">>

Ones(n) == <<ONES[n + 1]>>

\* mutant of Tens: ten is taken for a number below ten
TensFromEleven(n) ==
    CASE n < 10 -> Ones(n)
      [] 10 < n /\ n < 20 -> <<TEN_TO_TWENTY[(n % 10) + 1]>>
      [] OTHER -> <<TENS[n \div 10 + 1]>> \o Ones(n % 10)

Tens(n) ==
    CASE n < 10 -> Ones(n)
      [] 10 <= n /\ n < 20 -> <<TEN_TO_TWENTY[(n % 10) + 1]>>
      [] OTHER -> <<TENS[n \div 10 + 1]>> \o IF n % 10 = 0 THEN <<>> ELSE Ones(n % 10)

Hundreds(n) ==
    IF n < 100 THEN Tens(n)
    ELSE Ones(n \div 100) \o <<"hundred">> \o IF n % 100 = 0 THEN <<>> ELSE Tens(n % 100)

\* billions, millions and thousands: a unit is named if there are any of it
Billions(groups) ==
    LET from[k \in 1 .. 4] ==
          IF k = 4 THEN Hundreds(groups[4])
          ELSE IF groups[k] = 0 THEN from[k + 1]
          ELSE Hundreds(groups[k]) \o <<UNITS[k]>>
               \o IF \A l \in k + 1 .. 4 : groups[l] = 0 THEN <<>> ELSE from[k + 1]
    IN  from[1]

\* -2^31 is its own negative, and billions is given the unsigned 2^31
Itoaaa(a) == (IF a.negative THEN <<"negative">> ELSE <<>>) \o Billions(a.groups)

NamesInit == argument = [negative |-> FALSE, groups |-> <<0, 0, 0, 0>>] /\ result = <<>>

\* main
PrintName(a) ==
    /\ result = <<>>
    /\ argument' = a
    /\ result' = Itoaaa(a)

-----------------------------------------------------------------------------
(***************************************************************************)
(* How a name is read: English words, none of them taken from the tables   *)
(* above.  The reader knows one spelling of 40.  What it cannot read is    *)
(* worth so little that no group comes of it.                              *)
(***************************************************************************)
BELOW_TWENTY == <<"one", "two", "three", "four", "five", "six", "seven", "eight", "nine", "ten",
                  "eleven", "twelve", "thirteen", "fourteen", "fifteen", "sixteen",
                  "seventeen", "eighteen", "nineteen">>
Decades(forty) ==
    <<"twenty", "thirty", forty, "fifty", "sixty", "seventy", "eighty", "ninety">>
SCALE == <<"billion", "million", "thousand">>

Unreadable == -1000

Value(word, forty) ==
    CASE word = "zero" -> 0
      [] word \in Range(BELOW_TWENTY) -> CHOOSE k \in 1 .. 19 : BELOW_TWENTY[k] = word
      [] word \in Range(Decades(forty)) ->
           ((CHOOSE k \in 1 .. 8 : Decades(forty)[k] = word) + 1) * 10
      [] OTHER -> Unreadable

\* up to two words, a multiple of ten and a digit if there are two
ReadSmall(words, forty) ==
    CASE words = <<>> -> 0
      [] Len(words) = 1 -> Value(words[1], forty)
      [] /\ Len(words) = 2 /\ words[1] \in Range(Decades(forty))
         /\ Value(words[2], forty) \in 1 .. 9 -> Value(words[1], forty) + Value(words[2], forty)
      [] OTHER -> Unreadable

ReadGroup(words, forty) ==
    IF Len(words) > 1 /\ words[2] = "hundred" /\ Value(words[1], forty) \in 1 .. 9
    THEN 100 * Value(words[1], forty) + ReadSmall(SubSeq(words, 3, Len(words)), forty)
    ELSE ReadSmall(words, forty)

\* the words that count the k-th unit stand between the unit before and its own
ReadGroups(words, forty) ==
    LET at(k) == {n \in 1 .. Len(words) : k <= 3 /\ words[n] = SCALE[k]}
        start(k) == 1 + Max({0} \cup UNION {at(l) : l \in 1 .. k - 1})
        end(k) == IF k = 4 THEN Len(words) ELSE Max({0} \cup at(k)) - 1
    IN  [k \in 1 .. 4 |-> ReadGroup(SubSeq(words, start(k), end(k)), forty)]

InForties(n) == (n % 100) \div 10 = 4

(***************************************************************************)
(* The name of every int is that int to a reader who takes "fourty" for    *)
(* forty: no group is left out and none is named that is zero, but for the *)
(* int 0.  Read as English it is that int exactly when no group has a      *)
(* number in the forties, which itoaaa misspells (itoaaa and all it        *)
(* calls).                                                                 *)
(***************************************************************************)
NameReadsBack ==
    result # <<>> =>
        LET words == IF argument.negative THEN Tail(result) ELSE result
        IN  /\ argument.negative => Head(result) = "negative"
            /\ ReadGroups(words, "fourty") = argument.groups
            /\ ReadGroups(words, "forty") = argument.groups <=>
                 \A k \in 1 .. 4 : ~InForties(argument.groups[k])
            /\ \A n \in 1 .. Len(words) : words[n] = "zero" => words = <<"zero">>
==============================================================================
