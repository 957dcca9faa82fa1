----------------------------- MODULE ShellProofs -----------------------------
(***************************************************************************)
(* Theorems about the shell, for every set of words, lines and processes.  *)
(***************************************************************************)
EXTENDS Shell, IterationProofs, SequenceTheorems

-----------------------------------------------------------------------------
(* getword. *)

LEMMA FirstFromFound ==
    ASSUME NEW c \in Text, NEW p \in Nat \ {0}, NEW S, Nul \in S
    PROVE  /\ FirstFrom(c, p, S) \in p .. p + Len(c)
           /\ At(c, FirstFrom(c, p, S)) \in S
           /\ \A r \in p .. FirstFrom(c, p, S) - 1 : At(c, r) \notin S
<1> DEFINE T == {q \in p .. p + Len(c) : At(c, q) \in S}
<1>1. Len(c) \in Nat /\ DOMAIN c = 1 .. Len(c)
  BY DEF Text
<1>2. p + Len(c) \in T
  BY <1>1 DEF At
<1>3. T \subseteq Nat
  BY <1>1
<1>4. PICK q \in T : \A r \in T : q <= r
  <2> HIDE DEF T
  <2> QED BY <1>2, <1>3, LeastExists
<1>5. \A r \in p .. q - 1 : At(c, r) \notin S
  BY <1>1, <1>4
<1>6. q \in p .. p + Len(c) /\ At(c, q) \in S
  BY <1>4
<1> QED BY <1>5, <1>6 DEF FirstFrom

(* What getword leaves alone, and what it may set. *)
Reads(s, g) ==
    /\ g.argv = s.argv /\ g.begin = s.begin /\ g.std_files = s.std_files
    /\ s.losc[3] => g.losc[3]
    /\ s.error_types[1] => g.error_types[1]
    /\ g.losc[3] => s.losc[3] \/ \E i \in DOMAIN s.command : s.command[i] = "&"
    /\ DOMAIN g.command = DOMAIN s.command
    /\ \A i \in DOMAIN s.command : g.command[i] \in {s.command[i], Nul}
    /\ s.end # 0 => g.end # 0
    /\ g.end = 0 /\ g.word # <<>> => g.error_types[1]

LEMMA GetWordReads ==
    ASSUME NEW s \in Scan, NEW p \in Nat \ {0}
    PROVE  GetWord(s, p) \in Scan /\ Reads(s, GetWord(s, p))
<1> DEFINE g == GetWord(s, p)
           start == FirstFrom(s.command, p, (Symbols \cup {Nul}) \ {" "})
           stop == FirstFrom(s.command, start, {" ", Nul, "&", "\\"})
           last == At(s.command, stop)
           word == SubSeq(s.command, start, stop - 1)
           operator == \E k \in 1 .. 3 : word = <<Operators[k]>>
           cut == [i \in DOMAIN s.command |-> IF i = stop THEN Nul ELSE s.command[i]]
<1>1. s.command \in Text /\ Len(s.command) \in Nat
      /\ DOMAIN s.command = 1 .. Len(s.command)
  BY DEF Scan, Text
<1>2. start \in Nat /\ start >= p
  <2>1. Nul \in (Symbols \cup {Nul}) \ {" "}
    BY DEF Nul
  <2>2. start \in p .. p + Len(s.command)
    BY <1>1, <2>1, FirstFromFound
  <2> HIDE DEF start
  <2> QED BY <1>1, <2>2
<1>3. stop \in Nat /\ stop >= start /\ \A r \in start .. stop - 1 : At(s.command, r) # Nul
  <2>1. Nul \in {" ", Nul, "&", "\\"}
    OBVIOUS
  <2> HIDE DEF start
  <2>2. start \in Nat \ {0}
    BY <1>2
  <2>3. stop \in start .. start + Len(s.command)
    BY <1>1, <2>1, <2>2, FirstFromFound
  <2>4. \A r \in start .. stop - 1 : At(s.command, r) \notin {" ", Nul, "&", "\\"}
    BY <1>1, <2>1, <2>2, FirstFromFound
  <2> HIDE DEF stop
  <2>5. stop \in Nat /\ stop >= start
    BY <1>1, <2>2, <2>3
  <2> QED BY <2>4, <2>5
<1>4. word \in Text
  <2>1. \A i \in start .. stop - 1 : s.command[i] \in Symbols \cup {Nul, Junk}
    <3> HIDE DEF start, stop
    <3> QED BY <1>1, <1>3 DEF At, Text
  <2> HIDE DEF start, stop
  <2> QED BY <1>2, <1>3, <2>1, SubSeqProperties DEF Text
<1>5. cut \in Text /\ DOMAIN cut = DOMAIN s.command
      /\ \A i \in DOMAIN s.command : cut[i] \in {s.command[i], Nul}
  <2> HIDE DEF stop
  <2> QED BY <1>1 DEF Text
<1>6. last = "&" => \E i \in DOMAIN s.command : s.command[i] = "&"
  <2> HIDE DEF stop
  <2> QED BY DEF At, Nul
<1>7. operator \in BOOLEAN
  OBVIOUS
<1> DEFINE atAmp == [s EXCEPT !.word = word, !.found = TRUE, !.end = stop + 1,
                              !.index = @ + (stop + 1 - p),
                              !.error_types[2] = @ \/ s.losc[3], !.losc[3] = TRUE]
           atEscape == [s EXCEPT !.word = word, !.found = FALSE,
                                 !.index = @ + (stop + 1 - p), !.error_types[1] = TRUE]
           atNothing == [s EXCEPT !.word = <<>>, !.found = FALSE,
                                  !.index = @ + (start - p)]
           atWord == [s EXCEPT !.word = word, !.found = TRUE, !.end = stop,
                               !.index = @ + (stop - p), !.command = cut,
                               !.error_types[2] = \/ @
                                                  \/ s.redirection_seen[1] /\ operator
                                                  \/ s.redirection_seen[0] /\ ~operator,
                               !.redirection_seen[0] = FALSE]
<1>8. g = CASE last = "&" -> atAmp
            [] last = "\\" -> atEscape
            [] last \in {" ", Nul} /\ start = stop -> atNothing
            [] OTHER -> atWord
  BY Zenon DEF GetWord, TakeWord
<1>9. \/ last = "&" /\ g = atAmp
      \/ g = atEscape \/ g = atNothing \/ g = atWord
  <2> HIDE DEF g, start, stop, last, word, operator, cut, atAmp, atEscape, atNothing, atWord
  <2>1. CASE last = "&"
    BY <1>8, <2>1
  <2>2. CASE last = "\\"
    BY <1>8, <2>2
  <2>3. CASE last # "&" /\ last # "\\" /\ last \in {" ", Nul} /\ start = stop
    BY <1>8, <2>3
  <2>4. CASE last # "&" /\ last # "\\" /\ ~(last \in {" ", Nul} /\ start = stop)
    BY <1>8, <2>4
  <2> QED BY <2>1, <2>2, <2>3, <2>4
<1> HIDE DEF g, start, stop, last, word, operator, cut
<1>10. <<>> \in Text
  BY DEF Text
<1>11. g \in Scan
  <2>1. /\ s.index + (stop + 1 - p) \in Nat /\ s.index + (start - p) \in Nat
        /\ s.index + (stop - p) \in Nat
    BY <1>2, <1>3 DEF Scan
  <2>2. /\ [s.losc EXCEPT ![3] = TRUE] \in [0 .. 3 -> BOOLEAN]
        /\ [s.error_types EXCEPT ![1] = TRUE] \in [1 .. 2 -> BOOLEAN]
        /\ [s.redirection_seen EXCEPT ![0] = FALSE] \in [0 .. 1 -> BOOLEAN]
        /\ \A b \in BOOLEAN : [s.error_types EXCEPT ![2] = b] \in [1 .. 2 -> BOOLEAN]
    BY DEF Scan
  <2>3. CASE last = "&" /\ g = atAmp
    <3> DEFINE twice == s.error_types[2] \/ s.losc[3]
    <3>1. twice \in BOOLEAN /\ stop + 1 \in Nat
      BY <1>3
    <3>2. atAmp = [s EXCEPT !.word = word, !.found = TRUE, !.end = stop + 1,
                            !.index = @ + (stop + 1 - p),
                            !.error_types = [s.error_types EXCEPT ![2] = twice],
                            !.losc = [s.losc EXCEPT ![3] = TRUE]]
      BY DEF Scan
    <3> HIDE DEF twice, atAmp
    <3>3. [s.error_types EXCEPT ![2] = twice] \in [1 .. 2 -> BOOLEAN]
      BY <2>2, <3>1
    <3> QED BY <2>3, <3>1, <3>2, <3>3, <1>4, <2>1, <2>2 DEF Scan
  <2>4. CASE g = atEscape
    BY <2>4, <1>4, <2>1, <2>2 DEF Scan
  <2>5. CASE g = atNothing
    BY <2>5, <1>10, <2>1 DEF Scan
  <2>6. CASE g = atWord
    <3> DEFINE invalid == \/ s.error_types[2]
                          \/ s.redirection_seen[1] /\ operator
                          \/ s.redirection_seen[0] /\ ~operator
    <3>1. invalid \in BOOLEAN
      OBVIOUS
    <3>2. atWord = [s EXCEPT !.word = word, !.found = TRUE, !.end = stop,
                             !.index = @ + (stop - p), !.command = cut,
                             !.error_types = [s.error_types EXCEPT ![2] = invalid],
                             !.redirection_seen = [s.redirection_seen EXCEPT ![0] = FALSE]]
      BY DEF Scan
    <3> HIDE DEF invalid, atWord
    <3>3. [s.error_types EXCEPT ![2] = invalid] \in [1 .. 2 -> BOOLEAN]
      BY <2>2, <3>1
    <3> QED BY <2>6, <3>2, <3>3, <1>3, <1>4, <1>5, <2>1, <2>2 DEF Scan
  <2> QED BY <1>9, <2>3, <2>4, <2>5, <2>6
<1>12. Reads(s, g)
  <2>1. CASE last = "&" /\ g = atAmp
    BY <2>1, <1>3, <1>6 DEF Scan, Reads
  <2>2. CASE g = atEscape
    BY <2>2, <1>3 DEF Scan, Reads
  <2>3. CASE g = atNothing
    BY <2>3, <1>3 DEF Scan, Reads
  <2>4. CASE g = atWord
    BY <2>4, <1>2, <1>3, <1>5 DEF Scan, Reads
  <2> QED BY <1>9, <2>1, <2>2, <2>3, <2>4
<1> QED BY <1>11, <1>12 DEF g

-----------------------------------------------------------------------------
(* Lines of words. *)

LEMMA SymbolsDiffer ==
    /\ \A c \in Words : c \notin {" ", ">", "<", "2>", "&", "\\", Nul, Junk}
    /\ Nul \notin {" ", ">", "<", "2>", "&", "\\"}
BY SymbolsAssumption DEF Nul

IsOp(c) == c \in {">", "<", "2>"}
Blank == " "

LEMMA OpIsOperator == \A c : IsOp(c) <=> \E k \in 1 .. 3 : c = Operators[k]
<1>1. \A c : (\E k \in 1 .. 3 : c = Operators[k])
           <=> (c = Operators[1] \/ c = Operators[2] \/ c = Operators[3])
  OBVIOUS
<1>2. Operators[1] = ">" /\ Operators[2] = "<" /\ Operators[3] = "2>"
  BY DEF Operators
<1> QED BY <1>1, <1>2 DEF IsOp

LEMMA OddEven ==
    ASSUME NEW n \in Nat
    PROVE  /\ n % 2 = 1 => \E m \in Nat : n = 2 * m + 1
           /\ \E i \in Nat : i = 2 * n + 1 /\ i % 2 # 0
           /\ \E i \in Nat : i = 2 * n + 2 /\ i % 2 = 0
           /\ \E m \in Nat : n + 1 = 2 * m + 1 \/ n + 1 = 2 * m + 2
<1>1. n % 2 = 1 => n = 2 * (n \div 2) + 1 /\ n \div 2 \in Nat
  OBVIOUS
<1>2. n \div 2 \in Nat /\ (n = 2 * (n \div 2) \/ n = 2 * (n \div 2) + 1)
  OBVIOUS
<1> QED BY <1>1, <1>2

LEMMA Blanks ==
    ASSUME NEW l \in Seq(Symbols), Spaced(l), NEW t \in Nat
    PROVE  /\ 2 * t + 1 <= Len(l) => l[2 * t + 1] # " "
           /\ 2 * t + 2 <= Len(l) => l[2 * t + 2] = " "
<1>1. Len(l) \in Nat /\ DOMAIN l = 1 .. Len(l)
  OBVIOUS
<1>2. PICK i \in Nat : i = 2 * t + 1 /\ i % 2 # 0
  BY OddEven
<1>3. PICK j \in Nat : j = 2 * t + 2 /\ j % 2 = 0
  BY OddEven
<1>4. i <= Len(l) => i \in DOMAIN l
  BY <1>1, <1>2
<1>5. j <= Len(l) => j \in DOMAIN l
  BY <1>1, <1>3
<1>6. i <= Len(l) => l[i] # " "
  BY <1>2, <1>4 DEF Spaced
<1>7. j <= Len(l) => l[j] = " "
  BY <1>3, <1>5 DEF Spaced
<1> QED BY <1>2, <1>3, <1>6, <1>7

(* A line has an odd length; the tokens are all of the odd places, but for a last &. *)
LEMMA Size ==
    ASSUME NEW l \in Seq(Symbols), Spaced(l)
    PROVE  \E m \in Nat : /\ Len(l) = 2 * m + 1
                          /\ HasAmp(l) <=> l[2 * m + 1] = "&"
                          /\ HasAmp(l) \in BOOLEAN
                          /\ Tokens(l) = IF HasAmp(l) THEN m ELSE m + 1
<1>1. Len(l) \in Nat /\ Len(l) % 2 = 1
  <2>1. Len(l) \in Nat
    OBVIOUS
  <2>2. Len(l) % 2 = 1
    BY Zenon DEF Spaced
  <2> QED BY <2>1, <2>2
<1>2. PICK m \in Nat : Len(l) = 2 * m + 1
  BY <1>1, OddEven
<1>3. (Len(l) + 1) \div 2 = m + 1
  BY <1>2
<1>4. HasAmp(l) <=> l[2 * m + 1] = "&"
  BY <1>2 DEF HasAmp
<1>5. Tokens(l) = IF HasAmp(l) THEN m ELSE m + 1
  BY <1>3 DEF Tokens
<1> QED BY <1>2, <1>4, <1>5 DEF HasAmp

LEMMA Halves ==
    ASSUME NEW n \in Nat, NEW m \in Nat, NEW t \in Nat, n = 2 * m + 1
    PROVE  /\ m <= n /\ m + 1 <= n
           /\ 2 * t < n => t <= m /\ (n = 2 * t + 1 \/ n >= 2 * t + 3)
           /\ n = 2 * t + 1 <=> t = m
           /\ n <= 2 * t => t >= m + 1
           /\ n >= 2 * t + 3 => t + 1 <= m
           /\ t < m + 1 => 2 * t < n
OBVIOUS

(* The t tokens before place 2 * t + 1, and what follows them. *)
LEMMA Places ==
    ASSUME NEW l \in Seq(Symbols), Spaced(l), NEW t \in Nat
    PROVE  /\ Len(l) \in Nat /\ DOMAIN l = 1 .. Len(l)
           /\ Tokens(l) \in Nat /\ Tokens(l) <= Len(l)
           /\ Token(l, t + 1) = l[2 * t + 1] /\ Token(l, t + 2) = l[2 * t + 3]
           /\ 2 * t < Len(l) =>
                /\ l[2 * t + 1] \in Words \cup {">", "<", "2>", "&", "\\"}
                /\ t <= Tokens(l)
                /\ t = Tokens(l) => Len(l) = 2 * t + 1 /\ l[2 * t + 1] = "&" /\ HasAmp(l)
                /\ Len(l) = 2 * t + 1 \/ Len(l) >= 2 * t + 3
           /\ Len(l) = 2 * t + 1 =>
                IF l[2 * t + 1] = "&" THEN t = Tokens(l) /\ HasAmp(l) ELSE t + 1 = Tokens(l)
           /\ Len(l) >= 2 * t + 3 => t + 1 <= Tokens(l)
           /\ 2 * t + 2 <= Len(l) => l[2 * t + 2] = " "
           /\ Len(l) <= 2 * t /\ t <= Tokens(l) => t = Tokens(l) /\ ~HasAmp(l)
           /\ t < Tokens(l) => 2 * t < Len(l)
<1>1. Len(l) \in Nat /\ DOMAIN l = 1 .. Len(l) /\ \A i \in 1 .. Len(l) : l[i] \in Symbols
  OBVIOUS
<1>2. 2 * t < Len(l) => l[2 * t + 1] \in Words \cup {">", "<", "2>", "&", "\\"}
  <2>1. 2 * t < Len(l) => 2 * t + 1 \in 1 .. Len(l) /\ 2 * t + 1 <= Len(l)
    BY <1>1
  <2>2. 2 * t < Len(l) => l[2 * t + 1] # " "
    BY <2>1, Blanks
  <2> QED BY <1>1, <2>1, <2>2 DEF Symbols
<1>3. 2 * t + 2 <= Len(l) => l[2 * t + 2] = " "
  BY Blanks
<1>4. Token(l, t + 1) = l[2 * t + 1] /\ Token(l, t + 2) = l[2 * t + 3]
  <2>1. 2 * (t + 1) - 1 = 2 * t + 1 /\ 2 * (t + 2) - 1 = 2 * t + 3
    OBVIOUS
  <2> QED BY <2>1 DEF Token
<1>5. PICK m \in Nat : /\ Len(l) = 2 * m + 1
                       /\ HasAmp(l) <=> l[2 * m + 1] = "&"
                       /\ HasAmp(l) \in BOOLEAN
                       /\ Tokens(l) = IF HasAmp(l) THEN m ELSE m + 1
  BY Size
<1> DEFINE T == Tokens(l)
           n == Len(l)
           A == HasAmp(l)
           c == l[2 * t + 1]
<1>6. /\ m <= n /\ m + 1 <= n
      /\ 2 * t < n => t <= m /\ (n = 2 * t + 1 \/ n >= 2 * t + 3)
      /\ n = 2 * t + 1 <=> t = m
      /\ n <= 2 * t => t >= m + 1
      /\ n >= 2 * t + 3 => t + 1 <= m
      /\ t < m + 1 => 2 * t < n
  <2> HIDE DEF n
  <2>1. n \in Nat /\ n = 2 * m + 1
    BY <1>1, <1>5 DEF n
  <2> QED BY <2>1, Halves
<1>7. T = (IF A THEN m ELSE m + 1) /\ (t = m => (A <=> c = "&")) /\ A \in BOOLEAN
  BY <1>5
<1> HIDE DEF T, n, A, c
<1>8. T \in Nat /\ T <= n
  BY <1>6, <1>7
<1>9. 2 * t < n => /\ t <= T
                   /\ t = T => n = 2 * t + 1 /\ c = "&" /\ A
                   /\ n = 2 * t + 1 \/ n >= 2 * t + 3
  BY <1>6, <1>7
<1>10. n = 2 * t + 1 => IF c = "&" THEN t = T /\ A ELSE t + 1 = T
  BY <1>6, <1>7
<1>11. /\ n >= 2 * t + 3 => t + 1 <= T
       /\ n <= 2 * t /\ t <= T => t = T /\ ~A
       /\ t < T => 2 * t < n
  BY <1>6, <1>7
<1> QED BY <1>1, <1>2, <1>3, <1>4, <1>8, <1>9, <1>10, <1>11 DEF T, n, A, c

(* The first t tokens, and one or two more. *)
LEMMA NoPart ==
    ASSUME NEW l \in Seq(Symbols), Spaced(l)
    PROVE  IsPart(l, 0, 0)
<1>1. Tokens(l) \in Nat
  BY Size
<1>2. (0 - 0) % 2 = 0
  OBVIOUS
<1> QED BY <1>1, <1>2 DEF IsPart

LEMMA OneMoreWord ==
    ASSUME NEW l \in Seq(Symbols), Spaced(l), NEW t \in Nat, IsPart(l, t, t),
           t < Tokens(l), Token(l, t + 1) \in Words
    PROVE  IsPart(l, t + 1, t + 1)
<1>1. Tokens(l) \in Nat
  BY Size
<1> QED BY <1>1 DEF IsPart

(* An operator is found once in a line that does not repeat one. *)
LEMMA OperatorOnce ==
    ASSUME NEW l \in Seq(Symbols), Spaced(l), ~Repeats(l),
           NEW i \in 1 .. Tokens(l), NEW j \in 1 .. Tokens(l), i # j, IsOp(Token(l, j))
    PROVE  Token(l, i) # Token(l, j)
<1>1. Tokens(l) \in Nat /\ \A t \in Nat : t < Tokens(l) => 2 * t < Len(l)
  BY Size, Places
<1>2. Len(l) \in Nat /\ DOMAIN l = 1 .. Len(l)
  OBVIOUS
<1>3. 2 * i - 1 \in DOMAIN l /\ 2 * j - 1 \in DOMAIN l /\ 2 * i - 1 # 2 * j - 1
  <2>1. i - 1 \in Nat /\ j - 1 \in Nat /\ i - 1 < Tokens(l) /\ j - 1 < Tokens(l)
    BY <1>1
  <2>2. 2 * (i - 1) < Len(l) /\ 2 * (j - 1) < Len(l)
    BY <1>1, <2>1
  <2> QED BY <1>2, <2>2
<1> QED BY <1>3 DEF Repeats, Token, IsOp

LEMMA OneMoreFile ==
    ASSUME NEW l \in Seq(Symbols), Spaced(l), ~Repeats(l), NEW t \in Nat, NEW w \in Nat,
           IsPart(l, w, t), t + 2 <= Tokens(l),
           IsOp(Token(l, t + 1)), Token(l, t + 2) \in Words
    PROVE  IsPart(l, w, t + 2)
<1>1. Tokens(l) \in Nat
  BY Size
<1>2. w <= t /\ (t - w) % 2 = 0 /\ t - w \in Nat
  BY DEF IsPart
<1>3. (t + 1 - w) % 2 = 1 /\ (t + 2 - w) % 2 = 0
  BY <1>2
<1>4. \E k \in 1 .. 3 : Token(l, t + 1) = Operators[k]
  BY OpIsOperator
<1>5. \A j \in w + 1 .. t : Token(l, t + 1) # Token(l, j)
  <2> SUFFICES ASSUME NEW j \in w + 1 .. t PROVE Token(l, j) # Token(l, t + 1)
    OBVIOUS
  <2>1. j \in 1 .. Tokens(l) /\ t + 1 \in 1 .. Tokens(l) /\ j # t + 1
    BY <1>1
  <2> QED BY <2>1, OperatorOnce
<1>6. \A i \in w + 1 .. t + 2 : i \in w + 1 .. t \/ i = t + 1 \/ i = t + 2
  OBVIOUS
<1>7. \A i \in w + 1 .. t + 2 :
          IF (i - w) % 2 = 0
          THEN Token(l, i) \in Words
          ELSE /\ \E k \in 1 .. 3 : Token(l, i) = Operators[k]
               /\ \A j \in w + 1 .. i - 1 : Token(l, i) # Token(l, j)
  <2> SUFFICES ASSUME NEW i \in w + 1 .. t + 2
               PROVE  IF (i - w) % 2 = 0
                      THEN Token(l, i) \in Words
                      ELSE /\ \E k \in 1 .. 3 : Token(l, i) = Operators[k]
                           /\ \A j \in w + 1 .. i - 1 : Token(l, i) # Token(l, j)
    OBVIOUS
  <2>1. CASE i \in w + 1 .. t
    BY <2>1 DEF IsPart
  <2>2. CASE i = t + 1
    BY <2>2, <1>3, <1>4, <1>5
  <2>3. CASE i = t + 2
    BY <2>3, <1>3
  <2> QED BY <1>6, <2>1, <2>2, <2>3
<1>8. (t + 2 - w) % 2 = 0 /\ w <= t + 2 /\ \A i \in 1 .. w : Token(l, i) \in Words
  BY <1>2, <1>3 DEF IsPart
<1> QED BY <1>7, <1>8 DEF IsPart

(* A line that is no command shows it at one token or two. *)
LEMMA Parity == \A d \in Nat : d % 2 = 0 <=> (d + 1) % 2 # 0
OBVIOUS

LEMMA StrangeToken ==
    ASSUME NEW l \in Seq(Symbols), Spaced(l), NEW t \in Nat, t < Tokens(l),
           Token(l, t + 1) \notin Words, ~IsOp(Token(l, t + 1))
    PROVE  \A v \in 0 .. Len(l) : ~IsCommand(l, v)
<1> SUFFICES ASSUME NEW v \in 0 .. Len(l), IsPart(l, v, Tokens(l)) PROVE FALSE
  BY DEF IsCommand
<1>1. Tokens(l) \in Nat
  BY Size
<1>2. t + 1 \notin 1 .. v
  BY DEF IsPart
<1>3. t + 1 \in v + 1 .. Tokens(l)
  BY <1>1, <1>2
<1>4. ~ \E k \in 1 .. 3 : Token(l, t + 1) = Operators[k]
  BY OpIsOperator
<1> QED BY <1>3, <1>4 DEF IsPart

(* In a command an operator is in an odd place behind the arguments. *)
LEMMA OperatorPlace ==
    ASSUME NEW l \in Seq(Symbols), Spaced(l), NEW t \in Nat, t < Tokens(l),
           NEW v \in Nat, NEW u \in Nat, t < u, IsPart(l, v, u)
    PROVE  /\ IsOp(Token(l, t + 1)) <=> v <= t /\ (t - v) % 2 = 0
           /\ IsOp(Token(l, t + 1)) \/ Token(l, t + 1) \in Words
           /\ ~(IsOp(Token(l, t + 1)) /\ Token(l, t + 1) \in Words)
<1>1. IsOp(Token(l, t + 1)) => Token(l, t + 1) \notin Words
  BY SymbolsDiffer DEF IsOp
<1>2. CASE t < v
  <2>1. Token(l, t + 1) \in Words
    BY <1>2 DEF IsPart
  <2> QED BY <1>1, <1>2, <2>1
<1>3. CASE v <= t
  <2>1. t + 1 \in v + 1 .. u /\ t - v \in Nat /\ t + 1 - v = t - v + 1
    BY <1>3
  <2>2. (t - v) % 2 = 0 <=> (t + 1 - v) % 2 # 0
    BY <2>1, Parity
  <2>3. (t + 1 - v) % 2 = 0 => Token(l, t + 1) \in Words
    BY <2>1 DEF IsPart
  <2>4. (t + 1 - v) % 2 # 0 => IsOp(Token(l, t + 1))
    BY <2>1, OpIsOperator DEF IsPart
  <2> QED BY <1>1, <1>3, <2>2, <2>3, <2>4
<1> QED BY <1>2, <1>3

LEMMA NoFileName ==
    ASSUME NEW l \in Seq(Symbols), Spaced(l), NEW t \in Nat, t < Tokens(l),
           IsOp(Token(l, t + 1)), t + 1 = Tokens(l) \/ Token(l, t + 2) \notin Words
    PROVE  \A v \in 0 .. Len(l) : ~IsCommand(l, v)
<1> SUFFICES ASSUME NEW v \in 0 .. Len(l), IsPart(l, v, Tokens(l)) PROVE FALSE
  BY DEF IsCommand
<1>1. Tokens(l) \in Nat /\ v \in Nat
  BY Size
<1>2. v <= t /\ (t - v) % 2 = 0 /\ t - v \in Nat
  BY <1>1, OperatorPlace
<1>3. (t + 1 - v) % 2 # 0 /\ t + 1 - v = t - v + 1
  BY <1>2, Parity
<1>4. CASE t + 1 = Tokens(l)
  BY <1>3, <1>4 DEF IsPart
<1>5. CASE t + 1 < Tokens(l)
  <2>1. t + 1 \in Nat /\ t + 1 + 1 = t + 2
    OBVIOUS
  <2>2. IsOp(Token(l, t + 2))
    BY <1>1, <1>5, <2>1, OperatorPlace
  <2>3. (t + 1 - v) % 2 = 0
    BY <1>1, <1>5, <2>1, <2>2, OperatorPlace
  <2> QED BY <1>3, <2>3
<1> QED BY <1>1, <1>4, <1>5

LEMMA WordAfterFile ==
    ASSUME NEW l \in Seq(Symbols), Spaced(l), NEW t \in Nat, t < Tokens(l),
           NEW w \in Nat, t # w, IsPart(l, w, t), Token(l, t + 1) \in Words
    PROVE  \A v \in 0 .. Len(l) : ~IsCommand(l, v)
<1> SUFFICES ASSUME NEW v \in 0 .. Len(l), IsPart(l, v, Tokens(l)) PROVE FALSE
  BY DEF IsCommand
<1>1. Tokens(l) \in Nat /\ v \in Nat
  BY Size
<1>2. w < t /\ t - w \in Nat /\ (t - w) % 2 = 0
  BY DEF IsPart
<1>3. IsOp(Token(l, w + 1))
  <2>1. (w - w) % 2 = 0 /\ w < Tokens(l) /\ w <= w
    BY <1>1, <1>2
  <2> QED BY <1>2, <2>1, OperatorPlace
<1>4. v <= w /\ (w - v) % 2 = 0
  <2>1. w < Tokens(l)
    BY <1>1, <1>2
  <2> QED BY <1>1, <1>3, <2>1, OperatorPlace
<1>5. (t - v) % 2 = 0 /\ v <= t
  <2>1. w - v \in Nat /\ t - v = (t - w) + (w - v)
    BY <1>1, <1>2, <1>4
  <2>2. \A i, j \in Nat : i % 2 = 0 /\ j % 2 = 0 => (i + j) % 2 = 0
    OBVIOUS
  <2>3. ((t - w) + (w - v)) % 2 = 0
    BY <1>2, <1>4, <2>1, <2>2
  <2> QED BY <1>2, <1>4, <2>1, <2>3
<1>6. IsOp(Token(l, t + 1))
  BY <1>1, <1>5, OperatorPlace
<1> QED BY <1>1, <1>6, OperatorPlace

(* What a command means does not depend on how it is read. *)
LEMMA OneReading ==
    ASSUME NEW l \in Seq(Symbols), Spaced(l), NEW v \in Nat, NEW w \in Nat,
           IsPart(l, v, Tokens(l)), IsPart(l, w, Tokens(l))
    PROVE  v = w
<1>1. Tokens(l) \in Nat
  BY Size
<1>2. \A x, y \in Nat : IsPart(l, x, Tokens(l)) /\ IsPart(l, y, Tokens(l)) => ~(x < y)
  <2> SUFFICES ASSUME NEW x \in Nat, NEW y \in Nat, x < y,
                      IsPart(l, x, Tokens(l)), IsPart(l, y, Tokens(l))
               PROVE  FALSE
    OBVIOUS
  <2>1. x < Tokens(l) /\ (x - x) % 2 = 0 /\ x <= x
    BY <1>1 DEF IsPart
  <2>2. IsOp(Token(l, x + 1))
    BY <1>1, <2>1, OperatorPlace
  <2>3. y <= x
    BY <1>1, <2>1, <2>2, OperatorPlace
  <2> QED BY <2>3
<1> QED BY <1>2

LEMMA CommandRepeatsNothing ==
    ASSUME NEW l \in Seq(Symbols), NEW w \in Nat, IsCommand(l, w)
    PROVE  ~Repeats(l)
<1> SUFFICES ASSUME NEW i \in DOMAIN l, NEW j \in DOMAIN l, i < j, l[i] = l[j], IsOp(l[i])
             PROVE  FALSE
  BY DEF Repeats, IsOp
<1>1. Spaced(l) /\ IsPart(l, w, Tokens(l)) /\ Tokens(l) \in Nat
  BY Size DEF IsCommand
<1>2. \A x \in DOMAIN l : IsOp(l[x]) =>
          \E t \in Nat : x = 2 * t + 1 /\ t < Tokens(l) /\ Token(l, t + 1) = l[x]
  <2> SUFFICES ASSUME NEW x \in DOMAIN l, IsOp(l[x])
               PROVE  \E t \in Nat : x = 2 * t + 1 /\ t < Tokens(l) /\ Token(l, t + 1) = l[x]
    OBVIOUS
  <2>1. x \in 1 .. Len(l) /\ Len(l) \in Nat
    OBVIOUS
  <2>2. PICK t \in Nat : x = 2 * t + 1 \/ x = 2 * t + 2
    <3>1. PICK n \in Nat : x = n + 1
      BY <2>1
    <3>2. \E m \in Nat : n + 1 = 2 * m + 1 \/ n + 1 = 2 * m + 2
      BY OddEven
    <3> QED BY <3>1, <3>2
  <2>3. x # 2 * t + 2
    <3> SUFFICES ASSUME x = 2 * t + 2 PROVE FALSE
      OBVIOUS
    <3>1. 2 * t + 2 <= Len(l)
      BY <2>1
    <3>2. l[x] = " "
      BY <1>1, <3>1, Blanks
    <3> QED BY <3>2 DEF IsOp
  <2>4. 2 * t < Len(l) /\ x = 2 * t + 1 /\ l[x] # "&"
    BY <2>1, <2>2, <2>3 DEF IsOp
  <2>5. t <= Tokens(l) /\ t # Tokens(l) /\ Token(l, t + 1) = l[x]
    BY <1>1, <2>4, Places
  <2>6. t < Tokens(l)
    BY <1>1, <2>5
  <2> QED BY <2>4, <2>5, <2>6
<1>3. PICK s \in Nat : i = 2 * s + 1 /\ s < Tokens(l) /\ Token(l, s + 1) = l[i]
  BY <1>2
<1>4. PICK t \in Nat : j = 2 * t + 1 /\ t < Tokens(l) /\ Token(l, t + 1) = l[j]
  BY <1>2
<1>5. w <= s /\ w <= t /\ (t - w) % 2 = 0
  BY <1>1, <1>3, <1>4, OperatorPlace
<1>6. t + 1 \in w + 1 .. Tokens(l) /\ s + 1 \in w + 1 .. t + 1 - 1
      /\ t - w \in Nat /\ t + 1 - w = t - w + 1
  BY <1>1, <1>3, <1>4, <1>5
<1>7. (t + 1 - w) % 2 # 0
  BY <1>5, <1>6, Parity
<1>8. Token(l, t + 1) # Token(l, s + 1)
  BY <1>1, <1>6, <1>7 DEF IsPart
<1> QED BY <1>3, <1>4, <1>8

(* The arguments and the files among the first t tokens. *)
LEMMA ArgumentsGrow ==
    ASSUME NEW l, NEW w \in Nat
    PROVE  /\ Arguments(l, 0) = <<>>
           /\ Arguments(l, w + 1) = Append(Arguments(l, w), <<Token(l, w + 1)>>)
<1> DEFINE S == {<<Token(l, i)>> : i \in Nat}
           A == Arguments(l, w)
           B == Arguments(l, w + 1)
           x == <<Token(l, w + 1)>>
<1>1. A \in Seq(S) /\ Len(A) = w /\ x \in S
  BY DEF Arguments
<1>2. DOMAIN B = 1 .. w + 1 /\ (\A i \in 1 .. w : B[i] = A[i]) /\ B[w + 1] = x
  BY DEF Arguments
<1>3. B \in Seq(S) /\ Len(B) = w + 1
  BY DEF Arguments
<1> HIDE DEF S, A, B, x
<1>4. B = Append(A, x)
  BY <1>1, <1>2, <1>3
<1> QED BY <1>4 DEF A, B, x, Arguments

LEMMA OperatorsDiffer == \A j, k \in 1 .. 3 : Operators[j] = Operators[k] => j = k
BY DEF Operators

LEMMA FilesGrow ==
    ASSUME NEW l \in Seq(Symbols), NEW t \in Nat, NEW k \in 1 .. 3
    PROVE  /\ FileOf(l, k, 0) = <<>>
           /\ Token(l, t + 1) # Operators[k] => FileOf(l, k, t + 1) = FileOf(l, k, t)
<1>1. 1 .. 0 = {}
  OBVIOUS
<1>2. FileOf(l, k, 0) = <<>>
  BY <1>1 DEF FileOf
<1>3. 1 .. t + 1 = 1 .. t \cup {t + 1}
  OBVIOUS
<1>4. ASSUME Token(l, t + 1) # Operators[k]
      PROVE  {i \in 1 .. t + 1 : Token(l, i) = Operators[k]}
              = {i \in 1 .. t : Token(l, i) = Operators[k]}
  BY <1>3, <1>4
<1>5. ASSUME Token(l, t + 1) # Operators[k]
      PROVE  FileOf(l, k, t + 1) = FileOf(l, k, t)
  <2> DEFINE at(u) == {i \in 1 .. u : Token(l, i) = Operators[k]}
             first(S) == CHOOSE i \in S : TRUE
  <2>1. at(t + 1) = at(t)
    BY <1>4, <1>5
  <2>2. \A u : FileOf(l, k, u) = IF at(u) = {} THEN <<>> ELSE <<Token(l, 1 + first(at(u)))>>
    BY DEF FileOf
  <2> HIDE DEF at, first
  <2> QED BY <2>1, <2>2
<1> QED BY <1>2, <1>5

LEMMA FirstFile ==
    ASSUME NEW l \in Seq(Symbols), Spaced(l), ~Repeats(l), NEW t \in Nat, t < Tokens(l),
           NEW k \in 1 .. 3, Token(l, t + 1) = Operators[k]
    PROVE  FileOf(l, k, t) = <<>>
<1>1. Tokens(l) \in Nat /\ IsOp(Token(l, t + 1))
  BY Size, OpIsOperator
<1>2. ASSUME NEW i \in 1 .. t PROVE Token(l, i) # Operators[k]
  <2>1. i \in 1 .. Tokens(l) /\ t + 1 \in 1 .. Tokens(l) /\ i # t + 1
    BY <1>1
  <2> QED BY <1>1, <2>1, OperatorOnce
<1>3. {i \in 1 .. t : Token(l, i) = Operators[k]} = {}
  BY <1>2
<1> QED BY <1>3 DEF FileOf

LEMMA OneMoreFileOf ==
    ASSUME NEW l \in Seq(Symbols), Spaced(l), ~Repeats(l), NEW t \in Nat, t + 2 <= Tokens(l),
           NEW k \in 1 .. 3, Token(l, t + 1) = Operators[k], Token(l, t + 2) \in Words,
           NEW j \in 1 .. 3
    PROVE  FileOf(l, j, t + 2) = IF j = k THEN <<Token(l, t + 2)>> ELSE FileOf(l, j, t)
<1>1. Tokens(l) \in Nat /\ t < Tokens(l) /\ t + 1 \in Nat /\ t + 1 + 1 = t + 2
  BY Size
<1>2. Token(l, t + 2) # Operators[j]
  BY OpIsOperator, SymbolsDiffer DEF IsOp
<1>3. FileOf(l, j, t + 2) = FileOf(l, j, t + 1)
  BY <1>1, <1>2, FilesGrow
<1>4. CASE j # k
  BY <1>3, <1>4, FilesGrow, OperatorsDiffer
<1>5. CASE j = k
  <2> DEFINE at == {i \in 1 .. t + 1 : Token(l, i) = Operators[k]}
  <2>1. ASSUME NEW i \in 1 .. t PROVE Token(l, i) # Operators[k]
    <3>1. i \in 1 .. Tokens(l) /\ t + 1 \in 1 .. Tokens(l) /\ i # t + 1
      BY <1>1
    <3> QED BY <3>1, OperatorOnce, OpIsOperator
  <2>2. at = {t + 1}
    BY <2>1
  <2>3. (CHOOSE i \in at : TRUE) = t + 1
    BY <2>2
  <2>4. FileOf(l, k, t + 1) = <<Token(l, 1 + (t + 1))>>
    BY <2>2, <2>3 DEF FileOf
  <2>5. 1 + (t + 1) = t + 2
    OBVIOUS
  <2> QED BY <1>3, <1>5, <2>4, <2>5
<1> QED BY <1>4, <1>5

-----------------------------------------------------------------------------
(* What getword makes of a token and what follows it. *)

LEMMA FirstFromHere ==
    ASSUME NEW c \in Text, NEW p \in Nat \ {0}, NEW S, Nul \in S
    PROVE  /\ At(c, p) \in S => FirstFrom(c, p, S) = p
           /\ At(c, p) \notin S /\ At(c, p + 1) \in S => FirstFrom(c, p, S) = p + 1
<1> DEFINE q == FirstFrom(c, p, S)
<1>1. /\ q \in p .. p + Len(c) /\ At(c, q) \in S
      /\ \A r \in p .. q - 1 : At(c, r) \notin S
  BY FirstFromFound
<1> HIDE DEF q
<1>2. Len(c) \in Nat /\ q \in Nat /\ p <= q
  BY <1>1 DEF Text
<1>3. ASSUME At(c, p) \in S PROVE q = p
  BY <1>1, <1>2, <1>3
<1>4. ASSUME At(c, p) \notin S, At(c, p + 1) \in S PROVE q = p + 1
  <2>1. q # p
    BY <1>1, <1>4
  <2>2. ~(p + 1 \in p .. q - 1)
    BY <1>1, <1>4
  <2> QED BY <1>2, <2>1, <2>2
<1> QED BY <1>3, <1>4 DEF q

(* What is left alone by every getword. *)
Apart(s, g) ==
    /\ g.argv = s.argv /\ g.begin = s.begin /\ g.std_files = s.std_files
    /\ \A k \in 0 .. 2 : g.losc[k] = s.losc[k]
    /\ g.redirection_seen[1] = s.redirection_seen[1]

LEMMA TakesAmp ==
    ASSUME NEW s \in Scan, NEW p \in Nat, NEW start \in Nat, NEW stop \in Nat, p <= start,
           start <= stop, At(s.command, stop) = "&", NEW g, g = TakeWord(s, p, start, stop)
    PROVE  /\ Apart(s, g) /\ g.word = SubSeq(s.command, start, stop - 1) /\ g.found
           /\ g.end = stop + 1 /\ g.index = s.index + (stop + 1 - p) /\ g.command = s.command
           /\ g.error_types[1] = s.error_types[1] /\ g.losc[3]
           /\ g.error_types[2] = (s.error_types[2] \/ s.losc[3])
<1> DEFINE word == SubSeq(s.command, start, stop - 1)
<1>0. At(s.command, stop) # "\\" /\ At(s.command, stop) \notin {" ", Nul}
  BY DEF Nul
<1>1. g = [s EXCEPT !.word = word, !.found = TRUE, !.end = stop + 1,
                    !.index = @ + (stop + 1 - p),
                    !.error_types[2] = @ \/ s.losc[3], !.losc[3] = TRUE]
  BY <1>0, Zenon DEF TakeWord
<1> HIDE DEF word
<1>2. Apart(s, g)
  BY <1>1 DEF Scan, Apart
<1>3. /\ g.word = word /\ g.found
      /\ g.end = stop + 1 /\ g.index = s.index + (stop + 1 - p) /\ g.command = s.command
      /\ g.error_types[1] = s.error_types[1] /\ g.losc[3]
      /\ g.error_types[2] = (s.error_types[2] \/ s.losc[3])
  BY <1>1 DEF Scan
<1> QED BY <1>2, <1>3 DEF word

LEMMA TakesEscape ==
    ASSUME NEW s \in Scan, NEW p \in Nat, NEW start \in Nat, NEW stop \in Nat,
           At(s.command, stop) = "\\", NEW g, g = TakeWord(s, p, start, stop)
    PROVE  g.error_types[1]
<1> DEFINE word == SubSeq(s.command, start, stop - 1)
<1>1. At(s.command, stop) # "&" /\ At(s.command, stop) \notin {" ", Nul}
  BY DEF Nul
<1>2. g = [s EXCEPT !.word = word, !.found = FALSE,
                    !.index = @ + (stop + 1 - p), !.error_types[1] = TRUE]
  BY <1>1, Zenon DEF TakeWord
<1> HIDE DEF word
<1> QED BY <1>2 DEF Scan

LEMMA TakesNothing ==
    ASSUME NEW s \in Scan, NEW p \in Nat, At(s.command, p) = Nul,
           NEW g, g = TakeWord(s, p, p, p)
    PROVE  /\ Apart(s, g) /\ g.word = <<>> /\ g.error_types = s.error_types
           /\ g.losc = s.losc
<1>1. Nul # "&" /\ Nul # "\\"
  BY DEF Nul
<1>2. g = [s EXCEPT !.word = <<>>, !.found = FALSE, !.index = @ + (p - p)]
  BY <1>1, Zenon DEF TakeWord
<1> QED BY <1>2 DEF Scan, Apart

OperatorWord(word) == \E k \in 1 .. 3 : word = <<Operators[k]>>

LEMMA TakesWord ==
    ASSUME NEW s \in Scan, NEW p \in Nat, NEW start \in Nat, NEW stop \in Nat, p <= start,
           start < stop, At(s.command, stop) \in {Blank, Nul},
           NEW g, g = TakeWord(s, p, start, stop)
    PROVE  /\ Apart(s, g) /\ g.word = SubSeq(s.command, start, stop - 1) /\ g.found /\ g.end = stop
           /\ g.index = s.index + (stop - p) /\ g.losc = s.losc
           /\ \A i \in DOMAIN s.command : i # stop => g.command[i] = s.command[i]
           /\ g.error_types[1] = s.error_types[1] /\ ~g.redirection_seen[0]
           /\ OperatorWord(SubSeq(s.command, start, stop - 1)) =>
                g.error_types[2] = (s.error_types[2] \/ s.redirection_seen[1])
           /\ ~OperatorWord(SubSeq(s.command, start, stop - 1)) =>
                g.error_types[2] = (s.error_types[2] \/ s.redirection_seen[0])
<1> DEFINE word == SubSeq(s.command, start, stop - 1)
           operator == OperatorWord(word)
           cut == [i \in DOMAIN s.command |-> IF i = stop THEN Nul ELSE s.command[i]]
<1>1. start # stop /\ At(s.command, stop) # "&" /\ At(s.command, stop) # "\\"
  <2>1. start # stop
    OBVIOUS
  <2> QED BY <2>1, Zenon DEF Blank, Nul
<1>2. g = [s EXCEPT !.word = word, !.found = TRUE, !.end = stop,
                    !.index = @ + (stop - p), !.command = cut,
                    !.error_types[2] = \/ @
                                       \/ s.redirection_seen[1] /\ operator
                                       \/ s.redirection_seen[0] /\ ~operator,
                    !.redirection_seen[0] = FALSE]
  <2> DEFINE is == \E k \in 1 .. 3 : SubSeq(s.command, start, stop - 1) = <<Operators[k]>>
             by(b) == [s EXCEPT !.word = word, !.found = TRUE, !.end = stop,
                    !.index = @ + (stop - p), !.command = cut,
                    !.error_types[2] = \/ @
                                       \/ s.redirection_seen[1] /\ b
                                       \/ s.redirection_seen[0] /\ ~b,
                    !.redirection_seen[0] = FALSE]
  <2>1. g = by(is)
    BY <1>1, Zenon DEF TakeWord
  <2>2. is = operator
    <3>1. is \in BOOLEAN /\ operator \in BOOLEAN /\ (is <=> operator)
      BY DEF OperatorWord
    <3> HIDE DEF is, operator
    <3> QED BY <3>1
  <2> HIDE DEF is, operator
  <2> QED BY <2>1, <2>2
<1>4. \A i \in DOMAIN s.command : i # stop => cut[i] = s.command[i]
  OBVIOUS
<1>3. operator \in BOOLEAN
  BY DEF OperatorWord
<1> HIDE DEF cut, operator, word
<1>5. Apart(s, g)
  BY <1>2 DEF Scan, Apart
<1>6. /\ g.word = word /\ g.found /\ g.end = stop
      /\ g.index = s.index + (stop - p) /\ g.losc = s.losc /\ g.command = cut
      /\ g.error_types[1] = s.error_types[1] /\ ~g.redirection_seen[0]
      /\ g.error_types[2] = \/ s.error_types[2]
                            \/ s.redirection_seen[1] /\ operator
                            \/ s.redirection_seen[0] /\ ~operator
  <2> DEFINE invalid == \/ s.error_types[2]
                        \/ s.redirection_seen[1] /\ operator
                        \/ s.redirection_seen[0] /\ ~operator
             errors == [s.error_types EXCEPT ![2] = invalid]
             seen == [s.redirection_seen EXCEPT ![0] = FALSE]
  <2>1. errors[1] = s.error_types[1] /\ errors[2] = invalid /\ seen[0] = FALSE
    <3> HIDE DEF invalid
    <3> QED BY DEF Scan
  <2>2. g = [s EXCEPT !.word = word, !.found = TRUE, !.end = stop, !.index = s.index + (stop - p),
                      !.command = cut, !.error_types = errors, !.redirection_seen = seen]
    BY <1>2 DEF Scan
  <2> HIDE DEF invalid, errors, seen
  <2>3. /\ g.word = word /\ g.found /\ g.end = stop
        /\ g.index = s.index + (stop - p) /\ g.losc = s.losc /\ g.command = cut
        /\ g.error_types = errors /\ g.redirection_seen = seen
    BY <2>2 DEF Scan
  <2> QED BY <2>1, <2>3 DEF invalid
<1> QED BY <1>3, <1>4, <1>5, <1>6 DEF operator, word

LEMMA Cuts ==
    ASSUME NEW c \in Text, NEW p \in DOMAIN c
    PROVE  SubSeq(c, p, p) = <<c[p]>> /\ SubSeq(c, p, p - 1) = <<>>
<1>1. Len(c) \in Nat /\ p \in 1 .. Len(c)
  BY DEF Text
<1>2. SubSeq(c, p, p - 1) = <<>>
  <2>1. c \in Seq(Symbols \cup {Nul, Junk})
    BY DEF Text
  <2> QED BY <1>1, <2>1, SubSeqProperties
<1>3. SubSeq(c, p, p) = <<c[p]>>
  <2>1. c \in Seq(Symbols \cup {Nul, Junk})
    BY DEF Text
  <2>2. Len(SubSeq(c, p, p)) = 1 /\ SubSeq(c, p, p)[1] = c[p]
    BY <1>1, <2>1, SubSeqProperties
  <2>3. SubSeq(c, p, p) \in Seq(Symbols \cup {Nul, Junk})
    BY <1>1, <2>1, SubSeqProperties
  <2> DEFINE x == SubSeq(c, p, p)
             y == c[p]
  <2> HIDE DEF x, y
  <2>4. x \in Seq(Symbols \cup {Nul, Junk}) /\ Len(x) = 1 /\ x[1] = y
    BY <2>2, <2>3 DEF x, y
  <2>5. x = <<y>>
    BY <2>4
  <2> QED BY <2>5 DEF x, y
<1> QED BY <1>2, <1>3

(* Where getword stops on a token. *)
LEMMA StopsAfterToken ==
    ASSUME NEW s \in Scan, NEW p \in Nat \ {0}, NEW c, c = At(s.command, p),
           c \in Symbols \ {" "}
    PROVE  /\ c \in {"&", "\\"} => GetWord(s, p) = TakeWord(s, p, p, p)
           /\ c \notin {"&", "\\"} /\ At(s.command, p + 1) \in {" ", Nul} =>
                GetWord(s, p) = TakeWord(s, p, p, p + 1)
           /\ p \in DOMAIN s.command /\ SubSeq(s.command, p, p) = <<c>>
           /\ SubSeq(s.command, p, p - 1) = <<>>
<1> DEFINE S == (Symbols \cup {Nul}) \ {" "}
           T == {" ", Nul, "&", "\\"}
<1>1. s.command \in Text
  BY DEF Scan
<1>2. c \notin {" ", Nul}
  BY SymbolsDiffer DEF Symbols
<1>3. Nul \in S /\ c \in S /\ Nul \in T
  BY DEF Nul
<1>4. (c \in {"&", "\\"} => c \in T) /\ (c \notin {"&", "\\"} => c \notin T)
      /\ (At(s.command, p + 1) \in {" ", Nul} => At(s.command, p + 1) \in T)
  BY <1>2
<1> HIDE DEF S, T
<1>5. FirstFrom(s.command, p, S) = p
  BY <1>1, <1>3, FirstFromHere
<1>6. GetWord(s, p) = TakeWord(s, p, p, FirstFrom(s.command, p, T))
  BY <1>5, Zenon DEF GetWord, S, T
<1>7. c \in T => FirstFrom(s.command, p, T) = p
  BY <1>1, <1>3, FirstFromHere
<1>8. c \notin T /\ At(s.command, p + 1) \in T => FirstFrom(s.command, p, T) = p + 1
  BY <1>1, <1>3, FirstFromHere
<1>9. p \in DOMAIN s.command /\ c = s.command[p]
  BY <1>2 DEF At
<1>10. SubSeq(s.command, p, p) = <<c>> /\ SubSeq(s.command, p, p - 1) = <<>>
  BY <1>1, <1>9, Cuts
<1> QED BY <1>4, <1>6, <1>7, <1>8, <1>9, <1>10

LEMMA OneOn ==
    \A p \in Nat \ {0} : p \in Nat /\ p <= p /\ p < p + 1 /\ p + 1 - 1 = p /\ p + 1 - p = 1
                       /\ p + 1 \in Nat \ {0} /\ p + 1 \in Nat /\ p # p + 1
OBVIOUS

LEMMA TextIs == \A c \in Text : Len(c) \in Nat /\ DOMAIN c = 1 .. Len(c)
                               /\ \A i \in 1 .. Len(c) : c[i] \in Symbols \cup {Nul, Junk}
BY DEF Text

LEMMA ReadsAmp ==
    ASSUME NEW s \in Scan, NEW p \in Nat \ {0}, At(s.command, p) = "&",
           NEW g, g = GetWord(s, p)
    PROVE  /\ Apart(s, g) /\ g.word = <<>> /\ g.found /\ g.end = p + 1
           /\ g.index = s.index + 1 /\ g.command = s.command
           /\ g.error_types[1] = s.error_types[1] /\ g.losc[3]
           /\ g.error_types[2] = (s.error_types[2] \/ s.losc[3])
<1>1. At(s.command, p) \in Symbols \ {" "}
  BY DEF Symbols
<1>2. g = TakeWord(s, p, p, p) /\ SubSeq(s.command, p, p - 1) = <<>>
  BY <1>1, StopsAfterToken
<1> QED BY <1>2, TakesAmp, OneOn

LEMMA ReadsEscape ==
    ASSUME NEW s \in Scan, NEW p \in Nat \ {0}, At(s.command, p) = "\\",
           NEW g, g = GetWord(s, p)
    PROVE  g.error_types[1]
<1>1. At(s.command, p) \in Symbols \ {" "}
  BY DEF Symbols
<1>2. g = TakeWord(s, p, p, p)
  BY <1>1, StopsAfterToken
<1> QED BY <1>2, TakesEscape

LEMMA ReadsWord ==
    ASSUME NEW s \in Scan, NEW p \in Nat \ {0}, NEW c, c = At(s.command, p),
           c \in Words \cup {">", "<", "2>"}, At(s.command, p + 1) \in {Blank, Nul},
           NEW g, g = GetWord(s, p)
    PROVE  /\ Apart(s, g) /\ g.word = <<c>> /\ g.found /\ g.end = p + 1
           /\ g.index = s.index + 1 /\ g.losc = s.losc
           /\ \A i \in DOMAIN s.command : i # p + 1 => g.command[i] = s.command[i]
           /\ g.error_types[1] = s.error_types[1] /\ ~g.redirection_seen[0]
           /\ IsOp(c) => g.error_types[2] = (s.error_types[2] \/ s.redirection_seen[1])
           /\ ~IsOp(c) => g.error_types[2] = (s.error_types[2] \/ s.redirection_seen[0])
<1>1. c \in Symbols \ {" "} /\ c \notin {"&", "\\"}
  BY SymbolsDiffer DEF Symbols
<1>0. At(s.command, p + 1) \in {" ", Nul}
  BY DEF Blank
<1>2. g = TakeWord(s, p, p, p + 1) /\ SubSeq(s.command, p, p) = <<c>>
  BY <1>0, <1>1, StopsAfterToken
<1>3. PICK stop \in Nat : stop = p + 1 /\ p < stop /\ p <= p /\ stop - 1 = p /\ stop - p = 1
  BY OneOn
<1>4. g = TakeWord(s, p, p, stop) /\ At(s.command, stop) \in {Blank, Nul}
  BY <1>2, <1>3
<1> DEFINE word == SubSeq(s.command, p, stop - 1)
<1>5. word = <<c>>
  BY <1>2, <1>3
<1>6. OperatorWord(<<c>>) <=> IsOp(c)
  BY OpIsOperator DEF OperatorWord
<1>7. p \in Nat
  OBVIOUS
<1>8. /\ Apart(s, g) /\ g.word = word /\ g.found /\ g.end = stop
      /\ g.index = s.index + (stop - p) /\ g.losc = s.losc
      /\ \A i \in DOMAIN s.command : i # stop => g.command[i] = s.command[i]
      /\ g.error_types[1] = s.error_types[1] /\ ~g.redirection_seen[0]
      /\ OperatorWord(word) =>
           g.error_types[2] = (s.error_types[2] \/ s.redirection_seen[1])
      /\ ~OperatorWord(word) =>
           g.error_types[2] = (s.error_types[2] \/ s.redirection_seen[0])
  BY <1>3, <1>4, <1>7, TakesWord
<1> QED BY <1>3, <1>5, <1>6, <1>8

LEMMA ReadsNothing ==
    ASSUME NEW s \in Scan, NEW p \in Nat \ {0}, At(s.command, p) = Nul,
           NEW g, g = GetWord(s, p)
    PROVE  /\ Apart(s, g) /\ g.word = <<>> /\ g.error_types = s.error_types
           /\ g.losc = s.losc
<1> DEFINE S == (Symbols \cup {Nul}) \ {" "}
           T == {" ", Nul, "&", "\\"}
<1>1. s.command \in Text
  BY DEF Scan
<1>2. Nul \in S /\ Nul \in T
  BY DEF Nul
<1>3. g = TakeWord(s, p, FirstFrom(s.command, p, S),
                         FirstFrom(s.command, FirstFrom(s.command, p, S), T))
  BY Zenon DEF GetWord
<1> HIDE DEF S, T
<1>4. FirstFrom(s.command, p, S) = p /\ FirstFrom(s.command, p, T) = p
  BY <1>1, <1>2, FirstFromHere
<1>5. g = TakeWord(s, p, p, p)
  BY <1>3, <1>4
<1> QED BY <1>5, TakesNothing

(* Behind an & and a blank getword finds what makes the line invalid. *)
LEMMA ReadsMore ==
    ASSUME NEW s \in Scan, NEW p \in Nat \ {0}, s.losc[3] = TRUE,
           At(s.command, p) = Blank, NEW q \in Nat \ {0}, q = p + 1,
           At(s.command, q) \in Symbols \ {Blank},
           NEW g, g = GetWord(s, p)
    PROVE  g.error_types[1] \/ g.error_types[2] \/ g.word # <<>>
<1> DEFINE S == (Symbols \cup {Nul}) \ {" "}
           T == {" ", Nul, "&", "\\"}
<1>1. s.command \in Text /\ q \in Nat /\ p \in Nat /\ p <= q
  BY OneOn DEF Scan
<1>2. Nul \in S /\ Nul \in T /\ Blank \notin S /\ At(s.command, q) \in S
  BY DEF Nul, Blank
<1>3. g = TakeWord(s, p, FirstFrom(s.command, p, S),
                         FirstFrom(s.command, FirstFrom(s.command, p, S), T))
  BY Zenon DEF GetWord
<1> HIDE DEF S, T
<1>4. FirstFrom(s.command, p, S) = q
  BY <1>1, <1>2, FirstFromHere
<1>5. PICK stop : stop = FirstFrom(s.command, q, T)
  OBVIOUS
<1>6. /\ stop \in q .. q + Len(s.command) /\ At(s.command, stop) \in T
      /\ \A r \in q .. stop - 1 : At(s.command, r) \notin T
  BY <1>1, <1>2, <1>5, FirstFromFound
<1>7. Len(s.command) \in Nat /\ DOMAIN s.command = 1 .. Len(s.command)
      /\ \A r \in 1 .. Len(s.command) : s.command[r] \in Symbols \cup {Nul, Junk}
  BY <1>1, TextIs
<1>8. stop \in Nat /\ q <= stop
  BY <1>6, <1>7
<1>9. g = TakeWord(s, p, q, stop)
  BY <1>3, <1>4, <1>5
<1>10. CASE At(s.command, stop) = "&"
  <2>1. g.error_types[2] = (s.error_types[2] \/ s.losc[3])
    BY <1>1, <1>8, <1>9, <1>10, TakesAmp
  <2> QED BY <2>1
<1>11. CASE At(s.command, stop) = "\\"
  BY <1>1, <1>8, <1>9, <1>11, TakesEscape
<1>12. CASE At(s.command, stop) \in {Blank, Nul}
  <2>1. At(s.command, q) \notin {Blank, Nul}
    BY SymbolsDiffer DEF Symbols, Blank
  <2>2. stop # q
    BY <1>12, <2>1
  <2>3. q < stop
    BY <1>8, <2>2
  <2>5. g.word = SubSeq(s.command, q, stop - 1)
    BY <1>1, <1>8, <1>9, <1>12, <2>3, TakesWord
  <2>6. \A r \in q .. stop - 1 : s.command[r] \in Symbols \cup {Nul, Junk}
    BY <1>1, <1>6, <1>7, <1>8 DEF At
  <2>7. Len(SubSeq(s.command, q, stop - 1)) = stop - 1 - q + 1
    BY <1>8, <2>3, <2>6, SubSeqProperties
  <2>8. Len(g.word) > 0
    BY <1>8, <2>3, <2>5, <2>7
  <2>9. Len(<<>>) = 0
    OBVIOUS
  <2> QED BY <2>8, <2>9
<1> QED BY <1>6, <1>10, <1>11, <1>12 DEF T, Blank

(* What no getword takes back. *)
Keeps(s, g) ==
    /\ s.error_types[2] => g.error_types[2]
    /\ \A k \in 0 .. 2 : g.losc[k] = s.losc[k]

LEMMA GetWordKeeps ==
    ASSUME NEW s \in Scan, NEW p, NEW g, g = GetWord(s, p)
    PROVE  Keeps(s, g)
<1>1. PICK start, stop : g = TakeWord(s, p, start, stop)
  BY Zenon DEF GetWord
<1> DEFINE last == At(s.command, stop)
           word == SubSeq(s.command, start, stop - 1)
           operator == \E k \in 1 .. 3 : word = <<Operators[k]>>
           cut == [i \in DOMAIN s.command |-> IF i = stop THEN Nul ELSE s.command[i]]
           amp == s.error_types[2] \/ s.losc[3]
           wrong == \/ s.error_types[2]
                    \/ s.redirection_seen[1] /\ operator
                    \/ s.redirection_seen[0] /\ ~operator
           atAmp == [s EXCEPT !.word = word, !.found = TRUE, !.end = stop + 1,
                              !.index = @ + (stop + 1 - p),
                              !.error_types[2] = @ \/ s.losc[3], !.losc[3] = TRUE]
           atEscape == [s EXCEPT !.word = word, !.found = FALSE,
                                 !.index = @ + (stop + 1 - p), !.error_types[1] = TRUE]
           atNothing == [s EXCEPT !.word = <<>>, !.found = FALSE,
                                  !.index = @ + (start - p)]
           atWord == [s EXCEPT !.word = word, !.found = TRUE, !.end = stop,
                               !.index = @ + (stop - p), !.command = cut,
                               !.error_types[2] = \/ @
                                                  \/ s.redirection_seen[1] /\ operator
                                                  \/ s.redirection_seen[0] /\ ~operator,
                               !.redirection_seen[0] = FALSE]
<1>2. g = CASE last = "&" -> atAmp
            [] last = "\\" -> atEscape
            [] last \in {Blank, Nul} /\ start = stop -> atNothing
            [] OTHER -> atWord
  BY <1>1, Zenon DEF TakeWord, Blank
<1>3. g = atAmp \/ g = atEscape \/ g = atNothing \/ g = atWord
  <2> HIDE DEF last, atAmp, atEscape, atNothing, atWord
  <2>1. CASE last = "&"
    BY <1>2, <2>1
  <2>2. CASE last = "\\"
    BY <1>2, <2>2
  <2>3. CASE last # "&" /\ last # "\\" /\ last \in {Blank, Nul} /\ start = stop
    BY <1>2, <2>3
  <2>4. CASE last # "&" /\ last # "\\" /\ ~(last \in {Blank, Nul} /\ start = stop)
    BY <1>2, <2>4
  <2> QED BY <2>1, <2>2, <2>3, <2>4
<1> HIDE DEF word, operator, cut
<1>4. CASE g = atAmp
  BY <1>4 DEF Scan, Keeps
<1>5. CASE g = atEscape
  BY <1>5 DEF Scan, Keeps
<1>6. CASE g = atNothing
  BY <1>6 DEF Scan, Keeps
<1>7. CASE g = atWord
  BY <1>7 DEF Scan, Keeps
<1> QED BY <1>3, <1>4, <1>5, <1>6, <1>7

(* The parts of scan around a redirection. *)
Redirected(k, here, name, toCheck) ==
    /\ here \in Scan /\ name \in Scan /\ name = GetWord(here, scan.end + 1)
    /\ here.losc[3] = scan.losc[3] /\ here.argv = scan.argv
    /\ here.command = scan.command /\ here.index = scan.index + 1
    /\ here.begin = scan.begin /\ here.end = scan.end /\ here.std_files = scan.std_files
    /\ here.error_types[1] = scan.error_types[1]
    /\ here.error_types[2] = (scan.error_types[2] \/ scan.index + 1 > Len(line))
    /\ \A j \in 0 .. 2 : here.losc[j] = (j = k - 1 \/ scan.losc[j])
    /\ here.redirection_seen[0] = scan.redirection_seen[0] /\ here.redirection_seen[1]
    /\ toCheck \in IF name.found THEN {name.word} ELSE {<<>>, <<Junk>>}
    /\ scan' \in Scan /\ scan'.losc = name.losc /\ scan'.argv = name.argv
    /\ scan'.command = name.command /\ scan'.error_types = name.error_types
    /\ scan'.begin = name.end + 1 /\ scan'.end = name.end /\ scan'.index = name.index + 1
    /\ \A j \in 0 .. 2 :
          scan'.std_files[j] = IF j = k - 1 THEN name.std_files[j] \o toCheck
                                            ELSE name.std_files[j]
    /\ scan'.redirection_seen[0] /\ ~scan'.redirection_seen[1]

LEMMA RedirectionParts ==
    ASSUME scan \in Scan, NEW k \in 1 .. 3, ParseRedirection(k)
    PROVE  \E here, name, toCheck : Redirected(k, here, name, toCheck)
<1> DEFINE wrong == scan.error_types[2] \/ scan.index + 1 > Len(line)
           here == [scan EXCEPT !.losc[k - 1] = TRUE, !.index = @ + 1,
                                !.error_types[2] = wrong,
                                !.redirection_seen[1] = TRUE]
           name == GetWord(here, scan.end + 1)
<1>1. /\ here \in Scan /\ here.losc[3] = scan.losc[3] /\ here.argv = scan.argv
      /\ here.command = scan.command /\ here.index = scan.index + 1
      /\ here.begin = scan.begin /\ here.end = scan.end /\ here.std_files = scan.std_files
      /\ here.error_types[1] = scan.error_types[1] /\ here.error_types[2] = wrong
      /\ \A j \in 0 .. 2 : here.losc[j] = (j = k - 1 \/ scan.losc[j])
      /\ here.redirection_seen[0] = scan.redirection_seen[0] /\ here.redirection_seen[1]
  <2> DEFINE losc == [scan.losc EXCEPT ![k - 1] = TRUE]
             errors == [scan.error_types EXCEPT ![2] = wrong]
             seen == [scan.redirection_seen EXCEPT ![1] = TRUE]
  <2>1. here = [scan EXCEPT !.losc = losc, !.index = scan.index + 1,
                            !.error_types = errors, !.redirection_seen = seen]
    BY DEF Scan
  <2>2. wrong \in BOOLEAN
    BY DEF Scan
  <2>3. scan.losc \in [0 .. 3 -> BOOLEAN] /\ scan.error_types \in [1 .. 2 -> BOOLEAN]
        /\ scan.redirection_seen \in [0 .. 1 -> BOOLEAN] /\ scan.index + 1 \in Nat
    BY DEF Scan
  <2> HIDE DEF wrong, here
  <2>4. /\ losc \in [0 .. 3 -> BOOLEAN] /\ losc[3] = scan.losc[3]
        /\ \A j \in 0 .. 2 : losc[j] = (j = k - 1 \/ scan.losc[j])
    <3>1. k - 1 \in 0 .. 3 /\ k - 1 # 3 /\ 3 \in 0 .. 3 /\ \A j \in 0 .. 2 : j \in 0 .. 3
      OBVIOUS
    <3> QED BY <2>3, <3>1
  <2>5. errors \in [1 .. 2 -> BOOLEAN] /\ errors[1] = scan.error_types[1] /\ errors[2] = wrong
    BY <2>2, <2>3
  <2>6. seen \in [0 .. 1 -> BOOLEAN] /\ seen[0] = scan.redirection_seen[0] /\ seen[1]
    BY <2>3
  <2> HIDE DEF losc, errors, seen
  <2>7. here \in Scan
    BY <2>1, <2>3, <2>4, <2>5, <2>6 DEF Scan
  <2>8. /\ here.losc = losc /\ here.argv = scan.argv /\ here.command = scan.command
        /\ here.index = scan.index + 1 /\ here.begin = scan.begin /\ here.end = scan.end
        /\ here.std_files = scan.std_files /\ here.error_types = errors
        /\ here.redirection_seen = seen
    BY <2>1 DEF Scan
  <2> QED BY <2>4, <2>5, <2>6, <2>7, <2>8
<1> HIDE DEF here
<1>2. name \in Scan /\ name.end \in Nat
  <2>1. scan.end + 1 \in Nat \ {0}
    BY DEF Scan
  <2>2. name \in Scan
    BY <1>1, <2>1, GetWordReads
  <2> HIDE DEF name
  <2> QED BY <2>2 DEF Scan
<1>3. PICK toCheck \in (IF name.found THEN {name.word} ELSE {<<>>, <<Junk>>}) :
        scan' = [name EXCEPT !.std_files[k - 1] = @ \o toCheck,
                             !.redirection_seen[0] = TRUE,
                             !.redirection_seen[1] = FALSE,
                             !.begin = name.end + 1, !.index = @ + 1]
  BY DEF ParseRedirection, here
<1>4. toCheck \in Text
  <2>1. <<>> \in Text /\ <<Junk>> \in Text
    BY DEF Text
  <2>2. name.word \in Text
    BY <1>2 DEF Scan
  <2> QED BY <1>3, <2>1, <2>2
<1>5. name = GetWord(here, scan.end + 1)
  OBVIOUS
<1> HIDE DEF name
<1>6. /\ scan' \in Scan /\ scan'.losc = name.losc /\ scan'.argv = name.argv
      /\ scan'.command = name.command /\ scan'.error_types = name.error_types
      /\ scan'.begin = name.end + 1 /\ scan'.end = name.end /\ scan'.index = name.index + 1
      /\ \A j \in 0 .. 2 :
            scan'.std_files[j] = IF j = k - 1 THEN name.std_files[j] \o toCheck
                                              ELSE name.std_files[j]
      /\ scan'.redirection_seen[0] /\ ~scan'.redirection_seen[1]
  <2> DEFINE files == [name.std_files EXCEPT ![k - 1] = @ \o toCheck]
             seen == [[name.redirection_seen EXCEPT ![0] = TRUE] EXCEPT ![1] = FALSE]
  <2>1. scan' = [name EXCEPT !.std_files = files, !.redirection_seen = seen,
                             !.begin = name.end + 1, !.index = name.index + 1]
    BY <1>2, <1>3 DEF Scan
  <2>2. \A j \in 0 .. 2 : files[j] = IF j = k - 1 THEN name.std_files[j] \o toCheck
                                                  ELSE name.std_files[j]
    BY <1>2 DEF Scan
  <2>3. seen \in [0 .. 1 -> BOOLEAN] /\ seen[0] /\ ~seen[1]
    <3>1. name.redirection_seen \in [0 .. 1 -> BOOLEAN]
      BY <1>2 DEF Scan
    <3> QED BY <3>1
  <2>4. files \in [0 .. 2 -> Text]
    <3>1. name.std_files \in [0 .. 2 -> Text] /\ k - 1 \in 0 .. 2
      BY <1>2 DEF Scan
    <3>2. \A x \in Text : x \o toCheck \in Text
      BY <1>4 DEF Text
    <3>3. name.std_files[k - 1] \o toCheck \in Text
      BY <3>1, <3>2
    <3> QED BY <3>1, <3>3
  <2> HIDE DEF files, seen
  <2>5. scan' \in Scan
    <3>1. name.end + 1 \in Nat /\ name.index + 1 \in Nat
      BY <1>2 DEF Scan
    <3> QED BY <1>2, <2>1, <2>3, <2>4, <3>1 DEF Scan
  <2>6. /\ scan'.losc = name.losc /\ scan'.argv = name.argv
        /\ scan'.command = name.command /\ scan'.error_types = name.error_types
        /\ scan'.begin = name.end + 1 /\ scan'.end = name.end /\ scan'.index = name.index + 1
        /\ scan'.std_files = files /\ scan'.redirection_seen = seen
    BY <1>2, <2>1 DEF Scan
  <2> QED BY <2>2, <2>3, <2>5, <2>6
<1>7. Redirected(k, here, name, toCheck)
  BY <1>1, <1>2, <1>3, <1>5, <1>6 DEF Redirected
<1> QED BY <1>7

-----------------------------------------------------------------------------
(* Types and the invariant, one action after the other. *)

LEMMA ResetType == ASSUME NEW b \in BOOLEAN PROVE Reset(b) \in Scan
<1>1. <<>> \in Text /\ <<>> \in Seq(Text)
  BY DEF Text
<1> QED BY <1>1 DEF Reset, Scan

LEMMA NoChildType == NoChild \in Child
BY DEF NoChild, Child, Text

(* A step that leaves everything but pc and scan alone. *)
LEMMA ParserStep ==
    ASSUME TypeOK, WaitInv, Parsing, UNCHANGED outside, scan' \in Scan,
           pc' \in {"parse", "word", "parsed"},
           DOMAIN scan'.command = DOMAIN scan.command,
           \A i \in DOMAIN scan.command : scan'.command[i] \in {scan.command[i], Nul},
           EndIsKnown', BackgroundAsked', stale => scan'.losc[3] /\ scan'.argv = <<>>
    PROVE  TypeOK' /\ WaitInv'
<1>1. TypeOK'
  BY DEF TypeOK, outside
<1>2. CommandIsLine'
  BY DEF WaitInv, CommandIsLine, outside
<1>3. StaleIsEmpty'
  BY DEF StaleIsEmpty, outside
<1>4. WaitedFor'
  BY DEF WaitInv, WaitedFor, MayRun, Parsing, outside
<1>5. Fresh'
  BY DEF Fresh
<1> QED BY <1>1, <1>2, <1>3, <1>4, <1>5 DEF WaitInv

LEMMA NextWordSteps ==
    ASSUME TypeOK, WaitInv, NextWord
    PROVE  TypeOK' /\ WaitInv'
<1>1. scan \in Scan /\ scan.begin \in Nat \ {0}
  BY DEF TypeOK, Scan, NextWord
<1> DEFINE g == GetWord(scan, scan.begin)
<1>2. g \in Scan /\ Reads(scan, g)
  BY <1>1, GetWordReads
<1>3. scan' = g /\ pc = "parse" /\ pc' = "word" /\ UNCHANGED outside
  BY DEF NextWord
<1> HIDE DEF g
<1>4. EndIsKnown'
  BY <1>1, <1>2, <1>3 DEF WaitInv, EndIsKnown, Reads
<1>5. BackgroundAsked'
  <2>1. g.losc[3] => scan.losc[3] \/ LineAsked
    BY <1>2, <1>3 DEF Reads, WaitInv, CommandIsLine, Parsing, LineAsked, Nul
  <2> QED BY <2>1, <1>2, <1>3
     DEF Reads, WaitInv, BackgroundAsked, Parsing, LineAsked, outside
<1>6. stale => scan'.losc[3] /\ scan'.argv = <<>>
  BY <1>2, <1>3 DEF Reads, WaitInv, StaleIsEmpty, Parsing
<1> QED BY <1>2, <1>3, <1>4, <1>5, <1>6, ParserStep DEF Reads, Parsing

LEMMA ParseBackgroundSteps ==
    ASSUME TypeOK, WaitInv, ParseBackground
    PROVE  TypeOK' /\ WaitInv'
<1>1. scan \in Scan /\ scan.end \in Nat \ {0} /\ pc = "word" /\ scan.losc[3]
  BY DEF TypeOK, Scan, ParseBackground
<1> DEFINE rest == GetWord(scan, scan.end)
           wrong == rest.error_types[2] \/ rest.word # <<>>
<1>2. rest \in Scan /\ Reads(scan, rest)
  BY <1>1, GetWordReads
<1>3. scan' = [rest EXCEPT !.error_types[2] = wrong] /\ pc' = "parsed"
      /\ UNCHANGED outside
  BY DEF ParseBackground
<1>4. wrong \in BOOLEAN
  BY <1>2 DEF Scan
<1> HIDE DEF rest, wrong
<1>5. scan' \in Scan /\ Reads(scan, scan')
  <2>1. scan' = [rest EXCEPT !.error_types = [rest.error_types EXCEPT ![2] = wrong]]
    BY <1>2, <1>3 DEF Scan
  <2>2. /\ [rest.error_types EXCEPT ![2] = wrong] \in [1 .. 2 -> BOOLEAN]
        /\ [rest.error_types EXCEPT ![2] = wrong][1] = rest.error_types[1]
    BY <1>2, <1>4 DEF Scan
  <2>3. scan' \in Scan
    BY <1>2, <2>1, <2>2 DEF Scan
  <2>4. Reads(scan, scan')
    BY <1>2, <2>1, <2>2 DEF Scan, Reads
  <2> QED BY <2>3, <2>4
<1>6. BackgroundAsked'
  BY <1>1, <1>3, <1>5 DEF Reads, WaitInv, BackgroundAsked, Parsing, LineAsked, outside
<1>7. stale => scan'.losc[3] /\ scan'.argv = <<>>
  BY <1>1, <1>5 DEF Reads, WaitInv, StaleIsEmpty, Parsing
<1>8. EndIsKnown'
  BY <1>3 DEF EndIsKnown
<1> QED BY <1>1, <1>3, <1>5, <1>6, <1>7, <1>8, ParserStep DEF Reads, Parsing

LEMMA ParseRedirectionSteps ==
    ASSUME TypeOK, WaitInv, NEW k \in 1 .. 3, ParseRedirection(k)
    PROVE  TypeOK' /\ WaitInv'
<1>1. scan \in Scan /\ scan.end \in Nat \ {0} /\ pc = "word" /\ ~scan.losc[3]
      /\ pc' = "parse" /\ UNCHANGED outside
  BY DEF TypeOK, Scan, ParseRedirection, IsOperator
<1>2. PICK here, name, toCheck : Redirected(k, here, name, toCheck)
  BY <1>1, RedirectionParts
<1>3. here \in Scan /\ here.losc[3] = scan.losc[3] /\ here.argv = scan.argv
      /\ here.command = scan.command /\ here.end = scan.end
      /\ here.error_types[1] = scan.error_types[1] /\ name = GetWord(here, scan.end + 1)
  BY <1>2 DEF Redirected
<1>4. name \in Scan /\ Reads(here, name)
  BY <1>1, <1>3, GetWordReads
<1>5. scan' \in Scan /\ scan'.losc = name.losc /\ scan'.argv = name.argv
      /\ scan'.command = name.command /\ scan'.error_types = name.error_types
      /\ scan'.end = name.end /\ scan'.begin = name.end + 1
  BY <1>2 DEF Redirected
<1>6. DOMAIN scan'.command = DOMAIN scan.command
      /\ \A i \in DOMAIN scan.command : scan'.command[i] \in {scan.command[i], Nul}
  BY <1>3, <1>4, <1>5 DEF Reads
<1>7. EndIsKnown'
  BY <1>1, <1>3, <1>4, <1>5 DEF EndIsKnown, Reads, Scan
<1>8. BackgroundAsked'
  <2>1. name.losc[3] => LineAsked
    BY <1>1, <1>3, <1>4 DEF Reads, WaitInv, CommandIsLine, Parsing, LineAsked, Nul
  <2> QED BY <2>1, <1>1, <1>5 DEF BackgroundAsked, LineAsked, outside
<1>9. ~stale
  BY <1>1 DEF WaitInv, StaleIsEmpty, Parsing
<1> QED BY <1>1, <1>5, <1>6, <1>7, <1>8, <1>9, ParserStep DEF Parsing

LEMMA ParseArgumentSteps ==
    ASSUME TypeOK, WaitInv, ParseArgument
    PROVE  TypeOK' /\ WaitInv'
<1>1. scan \in Scan /\ pc = "word" /\ ~scan.losc[3] /\ scan.word # <<>>
  BY DEF TypeOK, ParseArgument
<1>2. pc' = "parse" /\ UNCHANGED outside
      /\ scan' = [scan EXCEPT !.argv = Append(@, scan.word), !.index = @ + 1,
                              !.begin = IF scan.end = 0 THEN 0 ELSE scan.end + 1]
  BY DEF ParseArgument
<1>3. Append(scan.argv, scan.word) \in Seq(Text)
  BY <1>1 DEF Scan
<1>4. scan' \in Scan /\ scan'.losc = scan.losc /\ scan'.command = scan.command
      /\ scan'.error_types = scan.error_types /\ scan'.end = scan.end
      /\ scan'.begin = IF scan.end = 0 THEN 0 ELSE scan.end + 1
  <2> DEFINE argv == Append(scan.argv, scan.word)
             begin == IF scan.end = 0 THEN 0 ELSE scan.end + 1
  <2>1. begin \in Nat /\ scan.index + 1 \in Nat
    BY <1>1 DEF Scan
  <2>2. scan' = [scan EXCEPT !.argv = argv, !.index = scan.index + 1, !.begin = begin]
    BY <1>2
  <2> HIDE DEF argv, begin
  <2>3. scan' \in Scan
    BY <1>1, <1>3, <2>1, <2>2 DEF Scan, argv
  <2>4. scan'.losc = scan.losc /\ scan'.command = scan.command
        /\ scan'.error_types = scan.error_types /\ scan'.end = scan.end
        /\ scan'.begin = begin
    BY <1>1, <2>2 DEF Scan
  <2> QED BY <2>3, <2>4 DEF begin
<1>5. EndIsKnown'
  BY <1>1, <1>2, <1>4 DEF WaitInv, EndIsKnown, Scan
<1>6. BackgroundAsked'
  BY <1>1, <1>4 DEF BackgroundAsked
<1>7. ~stale
  BY <1>1 DEF WaitInv, StaleIsEmpty, Parsing
<1> QED BY <1>1, <1>2, <1>4, <1>5, <1>6, <1>7, ParserStep DEF Parsing

LEMMA ParseEndSteps ==
    ASSUME TypeOK, WaitInv, ParseEnds \/ ParseNothing
    PROVE  TypeOK' /\ WaitInv'
<1>1. scan' = scan /\ Parsing /\ pc' = "parsed" /\ UNCHANGED outside /\ scan \in Scan
  BY DEF TypeOK, ParseEnds, ParseNothing, Parsing
<1>2. EndIsKnown' /\ BackgroundAsked' /\ (stale => scan'.losc[3] /\ scan'.argv = <<>>)
  BY <1>1 DEF WaitInv, EndIsKnown, BackgroundAsked, StaleIsEmpty, Parsing, LineAsked, outside
<1> QED BY <1>1, <1>2, ParserStep

LEMMA WildReadSteps ==
    ASSUME TypeOK, WaitInv, WildRead
    PROVE  TypeOK' /\ WaitInv'
<1>1. scan \in Scan /\ Parsing /\ UNCHANGED outside
      /\ (scan.argv = <<>> \/ scan.error_types[1])
  BY DEF TypeOK, WildRead, Parsing, WaitInv, EndIsKnown
<1>2. CASE pc' = "crashed" /\ scan' = scan
  BY <1>1, <1>2 DEF TypeOK, WaitInv, Fresh, CommandIsLine, EndIsKnown, BackgroundAsked,
     StaleIsEmpty, WaitedFor, MayRun, Parsing, outside
<1>3. ASSUME NEW invalid \in BOOLEAN, NEW background \in BOOLEAN, pc' = "parsed",
             scan' = [scan EXCEPT !.error_types[2] = @ \/ invalid,
                                  !.losc[3] = @ \/ background]
      PROVE  TypeOK' /\ WaitInv'
  <2>1. /\ scan' \in Scan /\ scan'.command = scan.command /\ scan'.argv = scan.argv
        /\ scan'.error_types[1] = scan.error_types[1]
        /\ scan.losc[3] => scan'.losc[3]
    <3> DEFINE wrong == scan.error_types[2] \/ invalid
               amp == scan.losc[3] \/ background
               errors == [scan.error_types EXCEPT ![2] = wrong]
               losc == [scan.losc EXCEPT ![3] = amp]
    <3>1. wrong \in BOOLEAN /\ amp \in BOOLEAN
      BY <1>1 DEF Scan
    <3>2. scan' = [scan EXCEPT !.error_types = errors, !.losc = losc]
      BY <1>1, <1>3 DEF Scan
    <3>3. scan.losc \in [0 .. 3 -> BOOLEAN] /\ scan.error_types \in [1 .. 2 -> BOOLEAN]
      BY <1>1 DEF Scan
    <3>4. scan.losc[3] => amp
      OBVIOUS
    <3> HIDE DEF wrong, amp
    <3>5. errors \in [1 .. 2 -> BOOLEAN] /\ errors[1] = scan.error_types[1]
      BY <3>1, <3>3
    <3>6. losc \in [0 .. 3 -> BOOLEAN] /\ losc[3] = amp
      BY <3>1, <3>3
    <3> HIDE DEF errors, losc
    <3>7. scan' \in Scan
      BY <1>1, <3>2, <3>5, <3>6 DEF Scan
    <3>8. scan'.command = scan.command /\ scan'.argv = scan.argv
          /\ scan'.error_types = errors /\ scan'.losc = losc
      BY <1>1, <3>2 DEF Scan
    <3> QED BY <3>4, <3>5, <3>6, <3>7, <3>8
  <2>2. EndIsKnown' /\ BackgroundAsked'
    BY <1>1, <1>3, <2>1 DEF EndIsKnown, BackgroundAsked
  <2>3. stale => scan'.losc[3] /\ scan'.argv = <<>>
    BY <1>1, <2>1 DEF WaitInv, StaleIsEmpty
  <2> QED BY <1>1, <1>3, <2>1, <2>2, <2>3, ParserStep
<1> QED BY <1>2, <1>3 DEF WildRead

LEMMA GetArgsSteps ==
    ASSUME TypeOK, WaitInv, GetArgs
    PROVE  TypeOK' /\ WaitInv'
BY NextWordSteps, ParseEndSteps, ParseBackgroundSteps, ParseArgumentSteps,
   ParseRedirectionSteps, WildReadSteps DEF GetArgs

(* Outside the parser it is the children and the child waited for that matter. *)
LEMMA NextLineSteps ==
    ASSUME TypeOK, NEW refused \in BOOLEAN, NextLine(refused), stale' = stale,
           children' \in [Pids -> Child],
           \A p \in Pids : MayRun(p)' => children'[p].asked
    PROVE  TypeOK' /\ WaitInv'
<1>1. scan.losc[3] \in BOOLEAN
  BY DEF TypeOK, Scan
<1>2. scan' \in Scan
  BY <1>1, ResetType DEF NextLine
<1>3. do_not_execute' \in BOOLEAN
  BY <1>1 DEF NextLine
<1>4. TypeOK'
  BY <1>2, <1>3 DEF TypeOK, NextLine
<1>5. Fresh'
  BY <1>1 DEF NextLine, Fresh, Reset
<1>6. CommandIsLine' /\ EndIsKnown' /\ BackgroundAsked' /\ StaleIsEmpty' /\ WaitedFor'
  BY DEF NextLine, CommandIsLine, EndIsKnown, BackgroundAsked, StaleIsEmpty,
     WaitedFor, Parsing
<1> QED BY <1>4, <1>5, <1>6 DEF WaitInv

LEMMA ReadLineSteps ==
    ASSUME TypeOK, WaitInv, ReadLine
    PROVE  TypeOK' /\ WaitInv'
<1>1. PICK l \in Lines : line' = l /\ scan' = [scan EXCEPT !.command = l]
  BY DEF ReadLine
<1>2. l \in Seq(Symbols) /\ l \in Text
  BY LinesAssumption DEF Text
<1>3. scan \in Scan /\ scan = Reset(scan.losc[3]) /\ pc = "read"
  BY DEF TypeOK, WaitInv, Fresh, ReadLine
<1>4. scan.argv = <<>> /\ scan.begin = 1 /\ scan.end = 0
  BY <1>3 DEF Reset
<1>5. scan' \in Scan
  BY <1>1, <1>2, <1>3 DEF Scan
<1>6. scan'.command = l /\ scan'.argv = <<>> /\ scan'.losc = scan.losc
      /\ scan'.begin = 1 /\ scan'.end = 0
  BY <1>1, <1>3, <1>4 DEF Scan
<1>7. /\ pc' = "parse" /\ stale' = scan.losc[3]
      /\ UNCHANGED <<do_not_execute, children, child_pid>>
  BY DEF ReadLine
<1>8. scan.losc[3] \in BOOLEAN
  BY <1>3 DEF Scan
<1>9. TypeOK'
  BY <1>1, <1>2, <1>5, <1>7, <1>8 DEF TypeOK
<1>10. CommandIsLine'
  BY <1>1, <1>6 DEF CommandIsLine
<1>11. Fresh' /\ EndIsKnown' /\ BackgroundAsked' /\ StaleIsEmpty'
  BY <1>6, <1>7 DEF Fresh, EndIsKnown, BackgroundAsked, StaleIsEmpty
<1>12. WaitedFor'
  BY <1>3, <1>7 DEF WaitInv, WaitedFor, MayRun
<1> QED BY <1>9, <1>10, <1>11, <1>12 DEF WaitInv

(* The steps of main that end a line. *)
LEMMA EndOfLineSteps ==
    ASSUME TypeOK, WaitInv, SkipLine \/ Refuse \/ ForkFails \/ Waitpid
    PROVE  TypeOK' /\ WaitInv'
<1>1. CASE SkipLine \/ Refuse \/ ForkFails
  <2>1. PICK refused \in BOOLEAN : NextLine(refused)
    BY <1>1 DEF SkipLine, Refuse, ForkFails, TypeOK
  <2>2. pc # "wait" /\ children' = children /\ stale' = stale
    BY <1>1 DEF SkipLine, Refuse, ForkFails, Accepted
  <2>3. \A p \in Pids : MayRun(p)' => children'[p].asked
    BY <2>2 DEF WaitInv, WaitedFor, MayRun
  <2>4. children' \in [Pids -> Child]
    BY <2>2 DEF TypeOK
  <2> QED BY <2>1, <2>2, <2>3, <2>4, NextLineSteps
<1>2. CASE Waitpid
  <2>1. /\ NextLine(FALSE) /\ stale' = stale /\ child_pid \in Pids
        /\ children' = [children EXCEPT ![child_pid] = NoChild]
        /\ children \in [Pids -> Child]
    BY <1>2 DEF Waitpid, TypeOK
  <2>2. children' \in [Pids -> Child]
    BY <2>1, NoChildType
  <2>3. \A p \in Pids : MayRun(p)' => children'[p].asked
    <3> SUFFICES ASSUME NEW p \in Pids, MayRun(p)' PROVE children'[p].asked
      OBVIOUS
    <3>1. p # child_pid
      BY <2>1 DEF MayRun, NoChild
    <3>2. children'[p] = children[p]
      BY <2>1, <3>1
    <3> QED BY <3>1, <3>2 DEF WaitInv, WaitedFor, MayRun
  <2> QED BY <2>1, <2>2, <2>3, NextLineSteps
<1> QED BY <1>1, <1>2

LEMMA ForkSteps ==
    ASSUME TypeOK, WaitInv, Fork
    PROVE  TypeOK' /\ WaitInv'
<1>1. scan \in Scan /\ children \in [Pids -> Child] /\ pc = "parsed"
      /\ ~scan.error_types[1] /\ stale' = stale
  BY DEF TypeOK, Fork, Accepted
<1> DEFINE child == [argv |-> scan.argv,
                     opens |-> {i \in 0 .. 2 : scan.losc[i]}, std_files |-> scan.std_files,
                     asked |-> LineAsked, status |-> "forked"]
<1>2. PICK p \in Pids :
        /\ children[p] = NoChild /\ children' = [children EXCEPT ![p] = child]
        /\ IF scan.losc[3]
           THEN NextLine(FALSE)
           ELSE pc' = "wait" /\ child_pid' = p /\ UNCHANGED <<line, scan, do_not_execute>>
  BY DEF Fork
<1>3. LineAsked \in BOOLEAN
  BY DEF LineAsked
<1>4. child \in Child /\ child.asked = LineAsked /\ child.argv = scan.argv
      /\ child.status = "forked"
  BY <1>1, <1>3 DEF Child, Scan
<1> HIDE DEF child
<1>5. children' \in [Pids -> Child] /\ children'[p] = child
      /\ \A q \in Pids : q # p => children'[q] = children[q]
  BY <1>1, <1>2, <1>4
<1>6. \A q \in Pids : q # p /\ MayRun(q)' => children'[q].asked
  BY <1>1, <1>5 DEF WaitInv, WaitedFor, MayRun
<1>7. CASE scan.losc[3]
  <2>1. scan.argv # <<>> => LineAsked
    BY <1>1, <1>7 DEF WaitInv, BackgroundAsked, Parsing
  <2>2. \A q \in Pids : MayRun(q)' => children'[q].asked
    BY <1>4, <1>5, <1>6, <2>1 DEF MayRun
  <2> QED BY <1>1, <1>2, <1>5, <1>7, <2>2, NextLineSteps
<1>8. CASE ~scan.losc[3]
  <2>1. pc' = "wait" /\ child_pid' = p /\ UNCHANGED <<line, scan, do_not_execute>>
    BY <1>2, <1>8
  <2>2. TypeOK'
    BY <1>1, <1>5, <2>1 DEF TypeOK
  <2>3. WaitedFor'
    BY <1>6, <2>1 DEF WaitedFor
  <2>4. Fresh' /\ CommandIsLine' /\ EndIsKnown' /\ BackgroundAsked' /\ StaleIsEmpty'
    BY <2>1 DEF Fresh, CommandIsLine, EndIsKnown, BackgroundAsked, StaleIsEmpty, Parsing
  <2> QED BY <2>2, <2>3, <2>4 DEF WaitInv
<1> QED BY <1>7, <1>8

LEMMA ExitSteps ==
    ASSUME TypeOK, WaitInv, EndOfInput \/ WaitAny \/ Exit
    PROVE  TypeOK' /\ WaitInv'
<1>1. CASE EndOfInput \/ Exit
  <2>1. pc' \in {"exit", "exited"} /\ UNCHANGED <<scan, outside>> /\ pc # "wait"
    BY <1>1 DEF EndOfInput, Exit
  <2>2. TypeOK'
    BY <2>1 DEF TypeOK, outside
  <2> QED BY <2>1, <2>2 DEF WaitInv, Fresh, CommandIsLine, EndIsKnown, BackgroundAsked,
     StaleIsEmpty, WaitedFor, MayRun, Parsing, outside
<1>2. CASE WaitAny
  <2>1. PICK p \in Pids : children' = [children EXCEPT ![p] = NoChild]
    BY <1>2 DEF WaitAny
  <2>2. UNCHANGED <<pc, line, scan, do_not_execute, child_pid, stale>> /\ pc = "exit"
    BY <1>2 DEF WaitAny
  <2>3. children' \in [Pids -> Child]
    BY <2>1, NoChildType DEF TypeOK
  <2>4. TypeOK'
    BY <2>2, <2>3 DEF TypeOK
  <2>5. WaitedFor'
    BY <2>1, <2>2 DEF TypeOK, WaitInv, WaitedFor, MayRun, NoChild
  <2> QED BY <2>2, <2>4, <2>5 DEF WaitInv, Fresh, CommandIsLine, EndIsKnown,
     BackgroundAsked, StaleIsEmpty, Parsing
<1> QED BY <1>1, <1>2

(* A child that gets a program was forked with arguments: it was waited for before. *)
LEMMA ChildSteps ==
    ASSUME TypeOK, WaitInv, NEW p \in Pids,
           ChildRuns(p) \/ ChildFails(p) \/ ProgramEnds(p)
    PROVE  TypeOK' /\ WaitInv'
<1>1. children \in [Pids -> Child] /\ children[p].asked \in BOOLEAN
  BY DEF TypeOK, Child
<1> DEFINE running == [NoChild EXCEPT !.asked = children[p].asked, !.status = "running"]
           ended == [NoChild EXCEPT !.status = "ended"]
<1>2. /\ running \in Child /\ running.asked = children[p].asked
      /\ ended \in Child /\ ended.status = "ended"
  BY <1>1, NoChildType DEF Child
<1>3. PICK child \in Child :
        /\ Becomes(p, child)
        /\ \/ child.status = "ended"
           \/ MayRun(p) /\ child.asked = children[p].asked
  BY <1>2 DEF ChildRuns, ChildFails, ProgramEnds, MayRun
<1>4. /\ children' = [children EXCEPT ![p] = child]
      /\ UNCHANGED <<pc, line, scan, do_not_execute, child_pid, stale>>
  BY <1>3 DEF Becomes
<1>5. children' \in [Pids -> Child] /\ children'[p] = child
      /\ \A q \in Pids : q # p => children'[q] = children[q]
  BY <1>1, <1>3, <1>4
<1>6. TypeOK'
  BY <1>4, <1>5 DEF TypeOK
<1>7. WaitedFor'
  <2> SUFFICES ASSUME NEW q \in Pids, MayRun(q)', ~children'[q].asked
               PROVE  pc' = "wait" /\ child_pid' = q
    BY DEF WaitedFor
  <2>1. MayRun(q) /\ ~children[q].asked
    BY <1>3, <1>5 DEF MayRun
  <2> QED BY <2>1, <1>4 DEF WaitInv, WaitedFor
<1> QED BY <1>4, <1>6, <1>7 DEF WaitInv, Fresh, CommandIsLine, EndIsKnown,
   BackgroundAsked, StaleIsEmpty, Parsing, LineAsked

LEMMA InitHolds == Init => TypeOK /\ WaitInv
<1> SUFFICES ASSUME Init PROVE TypeOK /\ WaitInv
  OBVIOUS
<1>1. TypeOK
  <2>1. scan \in Scan /\ children \in [Pids -> Child]
    BY ResetType, NoChildType DEF Init
  <2>2. line \in Seq(Symbols) /\ child_pid \in Pids \cup {NoPid}
    BY DEF Init
  <2> QED BY <2>1, <2>2 DEF Init, TypeOK
<1>2. Fresh
  BY DEF Init, Fresh, Reset
<1>3. WaitedFor
  BY DEF Init, WaitedFor, MayRun, NoChild
<1> QED BY <1>1, <1>2, <1>3 DEF Init, WaitInv, CommandIsLine, EndIsKnown, BackgroundAsked,
   StaleIsEmpty, Parsing

LEMMA StepHolds == TypeOK /\ WaitInv /\ [Next]_vars => TypeOK' /\ WaitInv'
<1> SUFFICES ASSUME TypeOK, WaitInv, [Next]_vars PROVE TypeOK' /\ WaitInv'
  OBVIOUS
<1>1. CASE UNCHANGED vars
  <2>1. TypeOK'
    BY <1>1 DEF TypeOK, vars
  <2> QED BY <1>1, <2>1 DEF WaitInv, Fresh, CommandIsLine, EndIsKnown, BackgroundAsked,
     StaleIsEmpty, WaitedFor, MayRun, Parsing, LineAsked, vars
<1>2. CASE ShellStep
  BY <1>2, ReadLineSteps, EndOfLineSteps, GetArgsSteps, ForkSteps, ExitSteps DEF ShellStep
<1>3. CASE \E p \in Pids : ChildRuns(p) \/ ChildFails(p) \/ ProgramEnds(p)
  BY <1>3, ChildSteps
<1> QED BY <1>1, <1>2, <1>3 DEF Next

-----------------------------------------------------------------------------
(* Line by line: what has been read of a line of words. *)

(* A line that is refused stays refused. *)
Invalid(s) == s.error_types[1] \/ s.error_types[2]
Nameless(s) == s.losc[3] /\ \E k \in 0 .. 2 : s.losc[k] /\ s.std_files[k] = <<>>

LEMMA InvalidIs ==
    ASSUME NEW s
    PROVE  (\E i \in 1 .. 2 : s.error_types[i]) <=> Invalid(s)
<1>1. \A i \in 1 .. 2 : i = 1 \/ i = 2
  OBVIOUS
<1>2. 1 \in 1 .. 2 /\ 2 \in 1 .. 2
  OBVIOUS
<1> QED BY <1>1, <1>2, Zenon DEF Invalid

LEMMA ReadsDoomed ==
    ASSUME NEW s \in Scan, NEW p \in Nat \ {0}, NEW g, g = GetWord(s, p)
    PROVE  (Invalid(s) => Invalid(g)) /\ (Nameless(s) => Nameless(g))
<1>1. Reads(s, g) /\ Keeps(s, g)
  BY GetWordReads, GetWordKeeps
<1> QED BY <1>1 DEF Reads, Keeps, Invalid, Nameless

LEMMA DoomStays ==
    ASSUME TypeOK, WaitInv, Doomed, GetArgs
    PROVE  Doomed'
<1> SUFFICES Invalid(scan') \/ Nameless(scan')
  BY InvalidIs, Zenon DEF Doomed, Nameless
<1>0. scan \in Scan /\ (Invalid(scan) \/ Nameless(scan))
  BY InvalidIs, Zenon DEF TypeOK, Doomed, Nameless
<1>1. CASE NextWord
  <2>1. scan.begin \in Nat \ {0} /\ scan' = GetWord(scan, scan.begin)
    BY <1>0, <1>1 DEF NextWord, Scan
  <2> QED BY <1>0, <2>1, ReadsDoomed
<1>2. CASE ParseEnds \/ ParseNothing
  BY <1>0, <1>2 DEF ParseEnds, ParseNothing
<1>3. CASE ParseBackground
  <2>1. scan.end \in Nat \ {0}
    BY <1>0, <1>3 DEF ParseBackground, Scan
  <2>2. PICK rest : rest = GetWord(scan, scan.end)
                    /\ scan' = [rest EXCEPT !.error_types[2] = @ \/ rest.word # <<>>]
    BY <1>3 DEF ParseBackground
  <2>3. rest \in Scan /\ (Invalid(rest) \/ Nameless(rest))
    BY <1>0, <2>1, <2>2, GetWordReads, ReadsDoomed
  <2>4. /\ scan'.losc = rest.losc /\ scan'.std_files = rest.std_files
        /\ scan'.error_types[1] = rest.error_types[1]
        /\ scan'.error_types[2] = (rest.error_types[2] \/ rest.word # <<>>)
    BY <2>2, <2>3 DEF Scan
  <2> QED BY <2>3, <2>4 DEF Invalid, Nameless
<1>4. CASE ParseArgument
  <2>1. scan'.error_types = scan.error_types /\ ~scan.losc[3]
    BY <1>0, <1>4 DEF ParseArgument, Scan
  <2> QED BY <1>0, <2>1 DEF Invalid, Nameless
<1>5. ASSUME NEW k \in 1 .. 3, ParseRedirection(k) PROVE Invalid(scan')
  <2>1. ~scan.losc[3] /\ Invalid(scan) /\ scan.end + 1 \in Nat \ {0}
    BY <1>0, <1>5 DEF ParseRedirection, IsOperator, Nameless, Scan
  <2>2. PICK here, name, toCheck : Redirected(k, here, name, toCheck)
    BY <1>0, <1>5, RedirectionParts
  <2>3. Invalid(here) /\ here \in Scan /\ name = GetWord(here, scan.end + 1)
    BY <2>1, <2>2 DEF Redirected, Invalid
  <2>4. Invalid(name)
    BY <2>1, <2>3, ReadsDoomed
  <2> QED BY <2>2, <2>4 DEF Redirected, Invalid
<1>6. CASE WildRead
  <2>1. CASE scan' = scan
    BY <1>0, <2>1
  <2>2. ASSUME NEW invalid \in BOOLEAN, NEW background \in BOOLEAN,
               scan' = [scan EXCEPT !.error_types[2] = @ \/ invalid,
                                    !.losc[3] = @ \/ background]
        PROVE  Invalid(scan') \/ Nameless(scan')
    <3>1. /\ scan'.error_types[1] = scan.error_types[1]
          /\ scan'.error_types[2] = (scan.error_types[2] \/ invalid)
          /\ scan'.losc[3] = (scan.losc[3] \/ background)
          /\ \A k \in 0 .. 2 : scan'.losc[k] = scan.losc[k]
          /\ scan'.std_files = scan.std_files
      BY <1>0, <2>2 DEF Scan
    <3> QED BY <1>0, <3>1 DEF Invalid, Nameless
  <2> QED BY <1>6, <2>1, <2>2 DEF WildRead
<1> QED BY <1>1, <1>2, <1>3, <1>4, <1>5, <1>6 DEF GetArgs

(* What getargs and getword find in a line of words. *)
IsLost == \A w \in 0 .. Len(line) : ~IsCommand(line, w)
IsRead == \E t \in 0 .. Len(line) : \E w \in 0 .. t : ReadTo(w, t)

TextFrom(s, i) == \A j \in i .. Len(line) : s.command[j] = line[j]

LEMMA TextAt ==
    ASSUME line \in Seq(Symbols), Spaced(line), NEW s, DOMAIN s.command = DOMAIN line,
           NEW t \in Nat, NEW p \in Nat, p = 2 * t + 1, TextFrom(s, p)
    PROVE  /\ p <= Len(line) => At(s.command, p) = line[p]
           /\ p > Len(line) => At(s.command, p) = Nul
           /\ At(s.command, p + 1) \in {Blank, Nul}
<1>1. Len(line) \in Nat /\ DOMAIN line = 1 .. Len(line)
  OBVIOUS
<1>2. p <= Len(line) => p \in DOMAIN s.command /\ s.command[p] = line[p]
  BY <1>1 DEF TextFrom
<1>3. p > Len(line) => p \notin DOMAIN s.command
  BY <1>1
<1>4. p + 1 \in DOMAIN s.command => At(s.command, p + 1) = Blank
  <2> SUFFICES ASSUME p + 1 \in DOMAIN s.command PROVE At(s.command, p + 1) = Blank
    OBVIOUS
  <2>1. p + 1 = 2 * t + 2 /\ 2 * t + 2 <= Len(line) /\ p + 1 \in p .. Len(line)
    BY <1>1
  <2>2. line[2 * t + 2] = Blank
    <3>1. line[2 * t + 2] = " "
      BY <2>1, Blanks
    <3> QED BY <3>1 DEF Blank
  <2>3. s.command[p + 1] = line[p + 1]
    BY <2>1 DEF TextFrom
  <2> QED BY <2>1, <2>2, <2>3 DEF At
<1>5. p + 1 \notin DOMAIN s.command => At(s.command, p + 1) = Nul
  BY DEF At
<1> QED BY <1>2, <1>3, <1>4, <1>5 DEF At

(* The token behind the first t is a word, an operator, an & or an escape. *)
LEMMA TokenKinds ==
    ASSUME NEW l \in Seq(Symbols), Spaced(l), NEW t \in Nat, 2 * t < Len(l),
           NEW c, c = l[2 * t + 1]
    PROVE  /\ c \in Words \/ IsOp(c) \/ c = "&" \/ c = "\\"
           /\ c \in Words => ~IsOp(c) /\ c # "&" /\ c # "\\"
           /\ IsOp(c) => c # "&" /\ c # "\\"
           /\ c # "&" => t < Tokens(l)
           /\ Token(l, t + 1) = c /\ c \in Symbols \ {Blank} /\ t <= Tokens(l)
<1>1. /\ c \in Words \cup {">", "<", "2>", "&", "\\"} /\ t <= Tokens(l)
      /\ t = Tokens(l) => c = "&"
      /\ Token(l, t + 1) = c
  BY Places
<1>2. Tokens(l) \in Nat
  BY Size
<1>3. c # "&" => t < Tokens(l)
  BY <1>1, <1>2
<1>4. c \in Words => ~IsOp(c) /\ c # "&" /\ c # "\\" /\ c # " "
  BY SymbolsDiffer DEF IsOp
<1>5. IsOp(c) => c # "&" /\ c # "\\" /\ c # " "
  BY DEF IsOp
<1>6. c \in Symbols \ {" "}
  BY <1>1, <1>4, Zenon DEF Symbols
<1> QED BY <1>1, <1>3, <1>4, <1>5, <1>6 DEF IsOp, Blank

LEMMA FilesStay ==
    ASSUME NEW t, HasFiles(t), line' = line, scan'.std_files = scan.std_files,
           \A k \in 0 .. 2 : scan'.losc[k] = scan.losc[k]
    PROVE  HasFiles(t)'
<1>1. \A k \in 1 .. 3 : k - 1 \in 0 .. 2
  OBVIOUS
<1> QED BY <1>1, Zenon DEF HasFiles

LEMMA TokenRead ==
    ASSUME line \in Seq(Symbols), DOMAIN scan.command = DOMAIN line,
           NEW t \in Nat, NEW w \in Nat, ReadTo(w, t), pc = "parse", pc' = "word",
           line' = line, 2 * t < Len(line), NEW c, c = line[2 * t + 1],
           NEW g, scan' = g, Apart(scan, g), g.index = scan.index + 1, g.end = scan.begin + 1,
           ~Invalid(g), g.losc[3] <=> c = "&",
           \A i \in DOMAIN scan.command :
               i # scan.begin + 1 => g.command[i] = scan.command[i],
           g.losc[3] => g.command = scan.command,
           ~g.losc[3] => /\ g.word = <<c>> /\ g.found /\ ~g.redirection_seen[0]
                         /\ IsOp(c) \/ (t = w /\ c \in Words)
    PROVE  ReadTo(w, t)'
<1>1. scan.begin = 2 * t + 1 /\ scan.index = 2 * t /\ ~scan.redirection_seen[1]
      /\ TextFrom(scan, 2 * t + 1)
  BY DEF ReadTo, TextFrom
<1>2. IsPart(line, w, t)'
  BY DEF ReadTo
<1>3. (\A i \in 1 .. 2 : ~scan.error_types[i])'
  BY InvalidIs, Zenon
<1>4. (scan.argv = Arguments(line, w))'
  BY DEF ReadTo, Apart
<1>5. HasFiles(t)'
  BY FilesStay DEF ReadTo, Apart
<1>6. (scan.begin = 2 * t + 1 /\ ~scan.redirection_seen[1])'
  BY <1>1 DEF Apart
<1>7. \A i \in 2 * t + 1 .. Len(line) :
          \/ g.command[i] = line[i]
          \/ i = 2 * t + 2 /\ ~g.losc[3]
  <2> SUFFICES ASSUME NEW i \in 2 * t + 1 .. Len(line)
               PROVE  g.command[i] = line[i] \/ (i = 2 * t + 2 /\ ~g.losc[3])
    OBVIOUS
  <2>1. scan.command[i] = line[i] /\ i \in DOMAIN scan.command /\ scan.begin + 1 = 2 * t + 2
    BY <1>1 DEF TextFrom
  <2> QED BY <2>1
<1>8. /\ 2 * t < Len(line') /\ scan'.index = 2 * t + 1 /\ scan'.end = 2 * t + 2
      /\ scan'.losc[3] <=> line'[2 * t + 1] = "&"
  BY <1>1
<1>9. ~scan'.losc[3] =>
          /\ scan'.word = <<line'[2 * t + 1]>> /\ scan'.found
          /\ ~scan'.redirection_seen[0]
          /\ \/ t = w /\ line'[2 * t + 1] \in Words
             \/ \E k \in 1 .. 3 : line'[2 * t + 1] = Operators[k]
  BY OpIsOperator, Zenon
<1> QED BY <1>2, <1>3, <1>4, <1>5, <1>6, <1>7, <1>8, <1>9, Zenon DEF ReadTo

LEMMA NextWordReads ==
    ASSUME TypeOK, WaitInv, Spaced(line), NEW t \in Nat, NEW w \in Nat, ReadTo(w, t),
           NextWord
    PROVE  (Doomed' /\ IsLost) \/ ReadTo(w, t)'
<1> DEFINE p == 2 * t + 1
           c == line[p]
           g == GetWord(scan, p)
<1>1. /\ scan \in Scan /\ line \in Seq(Symbols) /\ DOMAIN scan.command = DOMAIN line
      /\ p \in Nat \ {0} /\ p \in Nat
  BY DEF TypeOK, WaitInv, CommandIsLine, Parsing, NextWord
<1>2. /\ pc = "parse" /\ pc' = "word" /\ line' = line /\ scan.begin = p /\ scan' = g
      /\ scan.index = 2 * t /\ 2 * t < Len(line) /\ TextFrom(scan, p) /\ IsPart(line, w, t)
      /\ ~scan.losc[3] /\ ~scan.redirection_seen[1] /\ ~Invalid(scan)
      /\ scan.redirection_seen[0] <=> t # w
  BY InvalidIs DEF NextWord, ReadTo, TextFrom, outside
<1>3. p <= Len(line)
  BY <1>1, <1>2
<1>4. At(scan.command, p) = c /\ At(scan.command, p + 1) \in {Blank, Nul}
  <2> HIDE DEF p
  <2>1. p = 2 * t + 1
    BY DEF p
  <2> QED BY <1>1, <1>2, <1>3, <2>1, TextAt
<1>5. /\ c \in Words \/ IsOp(c) \/ c = "&" \/ c = "\\"
      /\ c \in Words => ~IsOp(c) /\ c # "&" /\ c # "\\"
      /\ IsOp(c) => c # "&" /\ c # "\\"
      /\ c # "&" => t < Tokens(line)
      /\ Token(line, t + 1) = c /\ t <= Tokens(line)
  BY <1>1, <1>2, TokenKinds
<1>6. Reads(scan, g)
  BY <1>1, GetWordReads
<1>7. c = line[2 * t + 1]
  OBVIOUS
<1>8. scan.begin + 1 = p + 1
  BY <1>2
<1> HIDE DEF p, c, g
<1>9. g = GetWord(scan, p)
  BY DEF g
<1>10. CASE c = "&"
  <2>1. /\ Apart(scan, g) /\ g.end = p + 1 /\ g.index = scan.index + 1
        /\ g.command = scan.command /\ g.losc[3]
        /\ g.error_types[1] = scan.error_types[1]
        /\ g.error_types[2] = (scan.error_types[2] \/ scan.losc[3])
    BY <1>1, <1>4, <1>9, <1>10, ReadsAmp
  <2>2. ~Invalid(g)
    BY <1>2, <2>1 DEF Invalid
  <2>3. ReadTo(w, t)'
    BY <1>1, <1>2, <1>7, <1>8, <1>10, <2>1, <2>2, TokenRead
  <2> QED BY <2>3
<1>11. CASE c = "\\"
  <2>1. Invalid(g)
    BY <1>1, <1>4, <1>9, <1>11, ReadsEscape DEF Invalid
  <2>2. c \notin Words /\ ~IsOp(c) /\ t < Tokens(line)
    BY <1>5, <1>11
  <2>3. IsLost
    BY <1>1, <1>5, <2>2, StrangeToken DEF IsLost
  <2>4. Doomed'
    BY <1>2, <2>1, InvalidIs, Zenon DEF Doomed
  <2> QED BY <2>3, <2>4
<1>12. CASE c \in Words \/ IsOp(c)
  <2>1. c # "&" /\ t < Tokens(line) /\ (IsOp(c) => c \notin Words)
    BY <1>5, <1>12
  <2>2. c \in Words \cup {">", "<", "2>"}
    BY <1>12 DEF IsOp
  <2>3. /\ Apart(scan, g) /\ g.word = <<c>> /\ g.found /\ g.end = p + 1
        /\ g.index = scan.index + 1 /\ g.losc = scan.losc
        /\ \A i \in DOMAIN scan.command : i # p + 1 => g.command[i] = scan.command[i]
        /\ g.error_types[1] = scan.error_types[1] /\ ~g.redirection_seen[0]
        /\ IsOp(c) => g.error_types[2] = (scan.error_types[2] \/ scan.redirection_seen[1])
        /\ ~IsOp(c) => g.error_types[2] = (scan.error_types[2] \/ scan.redirection_seen[0])
    BY <1>1, <1>4, <1>9, <2>2, ReadsWord
  <2>4. CASE IsOp(c) \/ t = w
    <3>1. ~Invalid(g)
      BY <1>2, <2>3, <2>4 DEF Invalid
    <3>2. ReadTo(w, t)'
      BY <1>1, <1>2, <1>7, <1>8, <1>12, <2>1, <2>3, <2>4, <3>1, TokenRead
    <3> QED BY <3>2
  <2>5. CASE ~IsOp(c) /\ t # w
    <3>1. Invalid(g)
      BY <1>2, <2>3, <2>5 DEF Invalid
    <3>2. IsLost
      BY <1>1, <1>2, <1>5, <1>12, <2>1, <2>5, WordAfterFile DEF IsLost
    <3>3. Doomed'
      BY <1>2, <3>1, InvalidIs, Zenon DEF Doomed
    <3> QED BY <3>2, <3>3
  <2> QED BY <2>4, <2>5
<1> QED BY <1>5, <1>10, <1>11, <1>12

LEMMA ParseEndReads ==
    ASSUME TypeOK, Spaced(line), NEW t \in Nat, NEW w \in Nat, ReadTo(w, t), ParseEnds
    PROVE  ReadTo(w, t)'
<1>1. /\ pc = "parse" /\ pc' = "parsed" /\ UNCHANGED <<line, scan>> /\ Len(line) <= 2 * t
      /\ ~scan.losc[3] /\ IsPart(line, w, t) /\ line \in Seq(Symbols)
      /\ scan.losc[3] \in BOOLEAN
  BY DEF ParseEnds, ReadTo, outside, TypeOK, Scan
<1>2. t <= Tokens(line)
  BY <1>1 DEF IsPart
<1>3. t = Tokens(line) /\ ~HasAmp(line)
  BY <1>1, <1>2, Places
<1>4. HasAmp(line) \in BOOLEAN
  BY <1>1, Size
<1>5. scan.losc[3] = HasAmp(line)
  BY <1>1, <1>3, <1>4
<1> QED BY <1>1, <1>3, <1>5 DEF ReadTo, HasFiles

LEMMA BackgroundReads ==
    ASSUME TypeOK, WaitInv, Spaced(line), NEW t \in Nat, NEW w \in Nat, ReadTo(w, t),
           ParseBackground
    PROVE  (Doomed' /\ IsLost) \/ ReadTo(w, t)'
<1> DEFINE p == 2 * t + 2
           q == 2 * t + 3
<1>1. /\ scan \in Scan /\ line \in Seq(Symbols) /\ DOMAIN scan.command = DOMAIN line
      /\ pc = "word" /\ pc' = "parsed" /\ line' = line
  BY DEF TypeOK, WaitInv, CommandIsLine, Parsing, ParseBackground, outside
<1>2. /\ scan.end = p /\ 2 * t < Len(line) /\ IsPart(line, w, t) /\ scan.losc[3]
      /\ line[2 * t + 1] = "&" /\ ~Invalid(scan) /\ HasFiles(t)
      /\ scan.argv = Arguments(line, w) /\ TextFrom(scan, 2 * t + 1)
  BY <1>1, InvalidIs DEF ParseBackground, ReadTo, TextFrom
<1>3. PICK rest : /\ rest = GetWord(scan, p)
                  /\ scan' = [rest EXCEPT !.error_types[2] = @ \/ rest.word # <<>>]
  BY <1>2 DEF ParseBackground
<1>4. /\ Len(line) \in Nat /\ DOMAIN line = 1 .. Len(line) /\ p \in Nat \ {0}
      /\ q \in Nat \ {0} /\ q = p + 1 /\ q = 2 * (t + 1) + 1 /\ t + 1 \in Nat
      /\ p \in Nat /\ q \in Nat
  BY <1>1
<1>5. Len(line) = 2 * t + 1 \/ Len(line) >= q
  BY <1>1, <1>2, Places
<1>6. rest \in Scan
  BY <1>1, <1>3, <1>4, GetWordReads
<1>7. /\ scan'.argv = rest.argv /\ scan'.losc = rest.losc
      /\ scan'.std_files = rest.std_files
      /\ scan'.error_types[1] = rest.error_types[1]
      /\ scan'.error_types[2] = (rest.error_types[2] \/ rest.word # <<>>)
  BY <1>3, <1>6 DEF Scan
<1>8. CASE Len(line) = 2 * t + 1
  <2>1. At(scan.command, p) = Nul
    BY <1>1, <1>4, <1>8 DEF At
  <2>2. /\ Apart(scan, rest) /\ rest.word = <<>> /\ rest.error_types = scan.error_types
        /\ rest.losc = scan.losc
    <3> HIDE DEF p, q
    <3> QED BY <1>1, <1>3, <1>4, <2>1, ReadsNothing
  <2>3. t = Tokens(line) /\ HasAmp(line)
    BY <1>1, <1>2, <1>8, Places
  <2>4. HasAmp(line) \in BOOLEAN /\ scan'.losc[3] \in BOOLEAN
    BY <1>1, <1>6, <1>7, Size DEF Scan
  <2>5. scan'.losc[3] = HasAmp(line)
    BY <1>2, <1>7, <2>2, <2>3, <2>4
  <2>6. ~Invalid(scan')
    BY <1>2, <1>7, <2>2 DEF Invalid
  <2>7. (\A i \in 1 .. 2 : ~scan.error_types[i])'
    BY <2>6, InvalidIs, Zenon
  <2>8. HasFiles(t)'
    BY <1>1, <1>2, <1>7, <2>2, FilesStay DEF Apart
  <2>9. IsPart(line', w, t) /\ scan'.argv = Arguments(line', w)
    BY <1>1, <1>2, <1>7, <2>2 DEF Apart
  <2>10. t = Tokens(line') /\ scan'.losc[3] = HasAmp(line')
    BY <1>1, <2>3, <2>5
  <2> QED BY <1>1, <2>7, <2>8, <2>9, <2>10 DEF ReadTo
<1>9. CASE Len(line) >= q
  <2>1. At(scan.command, p) = Blank
    <3>1. p \in 2 * t + 1 .. Len(line) /\ p \in DOMAIN scan.command /\ 2 * t + 2 <= Len(line)
      BY <1>1, <1>4, <1>9
    <3>2. line[p] = Blank
      BY <1>1, <3>1, Places, Zenon DEF Blank
    <3> QED BY <1>2, <3>1, <3>2 DEF At, TextFrom
  <2>2. At(scan.command, q) \in Symbols \ {Blank}
    <3>1. q \in 2 * t + 1 .. Len(line) /\ q \in DOMAIN scan.command /\ 2 * (t + 1) < Len(line)
      BY <1>1, <1>4, <1>9
    <3>2. line[2 * (t + 1) + 1] \in Symbols \ {Blank}
      BY <1>1, <1>4, <3>1, TokenKinds
    <3>3. At(scan.command, q) = line[q]
      BY <1>2, <3>1 DEF At, TextFrom
    <3> QED BY <1>4, <3>2, <3>3
  <2>3. rest.error_types[1] \/ rest.error_types[2] \/ rest.word # <<>>
    <3>1. scan.losc[3] = TRUE
      BY <1>1, <1>2 DEF Scan
    <3> HIDE DEF p, q
    <3> QED BY <1>1, <1>3, <1>4, <2>1, <2>2, <3>1, ReadsMore
  <2>4. Invalid(scan')
    BY <1>7, <2>3 DEF Invalid
  <2>5. Doomed'
    BY <2>4, InvalidIs, Zenon DEF Doomed
  <2>6. t + 1 <= Tokens(line) /\ Tokens(line) \in Nat /\ Token(line, t + 1) = "&"
    BY <1>1, <1>2, <1>9, Places
  <2>7. t < Tokens(line)
    BY <2>6
  <2>8. ~IsOp("&") /\ "&" \notin Words
    BY SymbolsDiffer, Zenon DEF IsOp
  <2>9. IsLost
    BY <1>1, <2>6, <2>7, <2>8, StrangeToken DEF IsLost
  <2> QED BY <2>5, <2>9
<1> QED BY <1>5, <1>8, <1>9

(* The word in getargs's hands is the token it was read from. *)
LEMMA WordInHand ==
    ASSUME TypeOK, WaitInv, Spaced(line), NEW t \in Nat, NEW w \in Nat, ReadTo(w, t),
           pc = "word", ~scan.losc[3], NEW c, c = line[2 * t + 1]
    PROVE  /\ 2 * t < Len(line) /\ c # "&" /\ t < Tokens(line) /\ Token(line, t + 1) = c
           /\ scan.word = <<c>> /\ scan.end = 2 * t + 2 /\ scan.begin = 2 * t + 1
           /\ scan.index = 2 * t + 1 /\ ~Invalid(scan)
           /\ At(scan.command, scan.begin) = c
           /\ \/ t = w /\ c \in Words /\ ~IsOp(c) /\ \A k \in 1 .. 3 : ~IsOperator(k)
              \/ IsOp(c) /\ c \notin Words /\ \E k \in 1 .. 3 : IsOperator(k)
           /\ \A i \in 2 * t + 3 .. Len(line) : scan.command[i] = line[i]
<1>1. /\ line \in Seq(Symbols) /\ DOMAIN scan.command = DOMAIN line
      /\ Len(line) \in Nat /\ DOMAIN line = 1 .. Len(line)
  BY DEF TypeOK, WaitInv, CommandIsLine, Parsing
<1>2. /\ 2 * t < Len(line) /\ c # "&" /\ scan.word = <<c>> /\ scan.found
      /\ scan.end = 2 * t + 2 /\ scan.begin = 2 * t + 1
      /\ scan.index = 2 * t + 1 /\ ~Invalid(scan)
      /\ (t = w /\ c \in Words) \/ IsOp(c)
  BY InvalidIs, OpIsOperator DEF ReadTo
<1>3. \A i \in 2 * t + 1 .. Len(line) : scan.command[i] = line[i] \/ i = 2 * t + 2
  BY DEF ReadTo
<1>4. \A i \in 2 * t + 3 .. Len(line) : i \in 2 * t + 1 .. Len(line) /\ i # 2 * t + 2
  BY <1>1
<1>5. At(scan.command, scan.begin) = c
  <2>1. /\ 2 * t + 1 \in 2 * t + 1 .. Len(line) /\ 2 * t + 1 # 2 * t + 2
        /\ 2 * t + 1 \in DOMAIN scan.command
    BY <1>1, <1>2
  <2> QED BY <1>2, <1>3, <2>1 DEF At
<1>6. /\ t < Tokens(line) /\ Token(line, t + 1) = c /\ (IsOp(c) => c \notin Words)
  BY <1>1, <1>2, TokenKinds
<1>7. IsOp(c) => \E k \in 1 .. 3 : IsOperator(k)
  <2> SUFFICES ASSUME NEW k \in 1 .. 3, c = Operators[k] PROVE IsOperator(k)
    BY OpIsOperator
  <2>1. k = 3 => scan.word = <<"2>">> /\ scan.found
    BY <1>2 DEF Operators
  <2> QED BY <1>5, <2>1, Zenon DEF IsOperator
<1>8. ~IsOp(c) => \A k \in 1 .. 3 : ~IsOperator(k)
  BY <1>5, OpIsOperator, Zenon DEF IsOperator
<1> QED BY <1>2, <1>3, <1>4, <1>5, <1>6, <1>7, <1>8

LEMMA ArgumentReads ==
    ASSUME TypeOK, WaitInv, Spaced(line), NEW t \in Nat, NEW w \in Nat, ReadTo(w, t),
           ParseArgument
    PROVE  ReadTo(w + 1, t + 1)' /\ t + 1 <= Len(line) /\ w = t
<1> DEFINE c == line[2 * t + 1]
<1>1. /\ scan \in Scan /\ line \in Seq(Symbols) /\ pc = "word" /\ pc' = "parse"
      /\ line' = line /\ ~scan.losc[3] /\ \A k \in 1 .. 3 : ~IsOperator(k)
      /\ scan' = [scan EXCEPT !.argv = Append(@, scan.word), !.index = @ + 1,
                              !.begin = IF scan.end = 0 THEN 0 ELSE scan.end + 1]
  BY DEF TypeOK, ParseArgument, outside
<1>2. c = line[2 * t + 1]
  OBVIOUS
<1> HIDE DEF c
<1>3. /\ 2 * t < Len(line) /\ t < Tokens(line) /\ Token(line, t + 1) = c
      /\ scan.word = <<c>> /\ scan.end = 2 * t + 2 /\ scan.begin = 2 * t + 1
      /\ scan.index = 2 * t + 1 /\ t = w /\ c \in Words /\ ~IsOp(c)
      /\ \A i \in 2 * t + 3 .. Len(line) : scan.command[i] = line[i]
  BY <1>1, <1>2, WordInHand
<1>4. /\ scan'.argv = Append(scan.argv, <<c>>) /\ scan'.index = 2 * t + 2
      /\ scan'.begin = 2 * t + 3 /\ scan'.losc = scan.losc /\ scan'.command = scan.command
      /\ scan'.error_types = scan.error_types /\ scan'.std_files = scan.std_files
      /\ scan'.redirection_seen = scan.redirection_seen
  <2> DEFINE argv == Append(scan.argv, scan.word)
             begin == IF scan.end = 0 THEN 0 ELSE scan.end + 1
  <2>1. begin = 2 * t + 3 /\ scan.index + 1 = 2 * t + 2
    BY <1>3
  <2>2. scan' = [scan EXCEPT !.argv = argv, !.index = scan.index + 1, !.begin = begin]
    BY <1>1
  <2> HIDE DEF begin, argv
  <2>3. /\ scan'.argv = argv /\ scan'.index = scan.index + 1
        /\ scan'.begin = begin /\ scan'.losc = scan.losc /\ scan'.command = scan.command
        /\ scan'.error_types = scan.error_types /\ scan'.std_files = scan.std_files
        /\ scan'.redirection_seen = scan.redirection_seen
    BY <1>1, <2>2 DEF Scan
  <2> QED BY <1>3, <2>1, <2>3 DEF argv
<1>5. IsPart(line, t + 1, t + 1)
  <2>1. IsPart(line, t, t)
    BY <1>3 DEF ReadTo
  <2> QED BY <1>1, <1>3, <2>1, OneMoreWord
<1>6. scan'.argv = Arguments(line, w + 1)
  <2>1. scan.argv = Arguments(line, w)
    BY DEF ReadTo
  <2> QED BY <1>3, <1>4, <2>1, ArgumentsGrow
<1>7. HasFiles(t + 1)'
  <2>1. ASSUME NEW k \in 1 .. 3 PROVE FileOf(line, k, t + 1) = FileOf(line, k, t)
    <3>1. Token(line, t + 1) # Operators[k]
      BY <1>3, OpIsOperator
    <3> QED BY <1>1, <3>1, FilesGrow
  <2>2. HasFiles(t)
    BY DEF ReadTo
  <2> QED BY <1>1, <1>4, <2>1, <2>2 DEF HasFiles
<1>8. /\ 2 * t + 3 = 2 * (t + 1) + 1 /\ 2 * t + 2 = 2 * (t + 1)
      /\ \A i \in 2 * (t + 1) + 1 .. Len(line) : i \in 2 * t + 3 .. Len(line)
  OBVIOUS
<1>9. /\ \A i \in 1 .. 2 : ~scan.error_types[i]
      /\ ~scan.redirection_seen[1] /\ ~scan.redirection_seen[0]
  BY <1>1 DEF ReadTo
<1>10. ReadTo(w + 1, t + 1)'
  BY <1>1, <1>3, <1>4, <1>5, <1>6, <1>7, <1>8, <1>9 DEF ReadTo
<1>11. t + 1 <= Len(line)
  BY <1>1, <1>3
<1> QED BY <1>3, <1>10, <1>11

LEMMA NothingReads ==
    ASSUME TypeOK, WaitInv, Spaced(line), NEW t \in Nat, NEW w \in Nat, ReadTo(w, t)
    PROVE  ~ParseNothing /\ ~WildRead
<1>1. ~ParseNothing
  <2> SUFFICES ASSUME ParseNothing PROVE FALSE
    OBVIOUS
  <2>1. pc = "word" /\ ~scan.losc[3] /\ scan.word = <<>>
    BY DEF ParseNothing
  <2>2. \E c : scan.word = <<c>>
    BY <2>1, WordInHand
  <2> QED BY <2>1, <2>2
<1>2. ~WildRead
  <2>1. pc = "parse" => scan.begin # 0
    BY DEF ReadTo
  <2>2. pc = "word" => scan.end # 0
    BY DEF ReadTo
  <2> QED BY <2>1, <2>2 DEF WildRead
<1> QED BY <1>1, <1>2

LEMMA RedirectionReads ==
    ASSUME TypeOK, WaitInv, Spaced(line), ~Repeats(line), NEW t \in Nat, NEW w \in Nat,
           ReadTo(w, t), NEW k \in 1 .. 3, ParseRedirection(k)
    PROVE  (Doomed' /\ IsLost) \/ (ReadTo(w, t + 2)' /\ t + 2 <= Len(line))
<1> DEFINE c == line[2 * t + 1]
           d == line[2 * t + 3]
           p == 2 * t + 3
<1>1. /\ scan \in Scan /\ line \in Seq(Symbols) /\ DOMAIN scan.command = DOMAIN line
      /\ pc = "word" /\ pc' = "parse" /\ line' = line /\ ~scan.losc[3] /\ IsOperator(k)
      /\ Len(line) \in Nat /\ DOMAIN line = 1 .. Len(line)
  BY DEF TypeOK, WaitInv, CommandIsLine, Parsing, ParseRedirection, outside, IsOperator
<1>2. c = line[2 * t + 1] /\ d = line[p]
  OBVIOUS
<1>3. /\ p \in Nat \ {0} /\ p \in Nat /\ p = 2 * (t + 1) + 1 /\ t + 1 \in Nat
      /\ t + 1 + 1 = t + 2 /\ p = 2 * t + 3 /\ 2 * t + 2 + 1 = p
  OBVIOUS
<1> HIDE DEF c, d, p
<1>4. /\ 2 * t < Len(line) /\ c # "&" /\ t < Tokens(line) /\ Token(line, t + 1) = c
      /\ scan.end = 2 * t + 2 /\ scan.index = 2 * t + 1 /\ ~Invalid(scan)
      /\ At(scan.command, scan.begin) = c /\ IsOp(c) /\ c \notin Words
      /\ \A i \in 2 * t + 3 .. Len(line) : scan.command[i] = line[i]
  BY <1>1, <1>2, WordInHand
<1>5. c = Operators[k]
  BY <1>1, <1>4 DEF IsOperator
<1>6. PICK here, name, toCheck : Redirected(k, here, name, toCheck)
  BY <1>1, RedirectionParts
<1>7. /\ here \in Scan /\ name \in Scan /\ name = GetWord(here, p)
      /\ ~here.losc[3] /\ here.argv = scan.argv /\ here.command = scan.command
      /\ here.index = 2 * t + 2 /\ here.std_files = scan.std_files
      /\ ~here.error_types[1]
      /\ here.error_types[2] <=> 2 * t + 2 > Len(line)
      /\ here.redirection_seen[1] /\ ~here.redirection_seen[0]
      /\ \A j \in 0 .. 2 : here.losc[j] = (j = k - 1 \/ scan.losc[j])
  <2>1. /\ scan.end + 1 = p /\ scan.index + 1 = 2 * t + 2
        /\ ~scan.error_types[1] /\ ~scan.error_types[2] /\ ~scan.redirection_seen[0]
    BY <1>1, <1>3, <1>4 DEF Invalid, ReadTo
  <2> QED BY <1>1, <1>6, <2>1 DEF Redirected
<1>8. /\ toCheck \in IF name.found THEN {name.word} ELSE {<<>>, <<Junk>>}
      /\ scan'.losc = name.losc /\ scan'.argv = name.argv
      /\ scan'.command = name.command /\ scan'.error_types = name.error_types
      /\ scan'.begin = name.end + 1 /\ scan'.index = name.index + 1
      /\ \A j \in 0 .. 2 :
            scan'.std_files[j] = IF j = k - 1 THEN name.std_files[j] \o toCheck
                                              ELSE name.std_files[j]
      /\ scan'.redirection_seen[0] /\ ~scan'.redirection_seen[1]
  BY <1>6 DEF Redirected
<1>9. Invalid(name) => Doomed'
  <2>1. Invalid(name) => Invalid(scan')
    BY <1>8 DEF Invalid
  <2> QED BY <2>1, InvalidIs, Zenon DEF Doomed
<1>10. t + 1 = Tokens(line) \/ Token(line, t + 2) \notin Words => IsLost
  BY <1>1, <1>4, NoFileName DEF IsLost
<1>11. Len(line) = 2 * t + 1 \/ 2 * (t + 1) < Len(line)
  <2>1. Len(line) = 2 * t + 1 \/ Len(line) >= 2 * t + 3
    BY <1>1, <1>4, Places
  <2>2. \A n \in Nat : n >= 2 * t + 3 => 2 * (t + 1) < n
    OBVIOUS
  <2> QED BY <1>1, <2>1, <2>2
<1>12. CASE Len(line) = 2 * t + 1
  <2>1. t + 1 = Tokens(line)
    BY <1>1, <1>2, <1>4, <1>12, Places
  <2>2. 2 * t + 2 > Len(line)
    BY <1>12
  <2>3. Invalid(name)
    BY <1>3, <1>7, <2>2, ReadsDoomed DEF Invalid
  <2> QED BY <1>9, <1>10, <2>1, <2>3
<1>13. CASE 2 * (t + 1) < Len(line)
  <2>1. /\ d \in Words \/ IsOp(d) \/ d = "&" \/ d = "\\"
        /\ d \in Words => ~IsOp(d) /\ d # "&" /\ d # "\\"
        /\ IsOp(d) => d # "&" /\ d # "\\"
        /\ d # "&" => t + 1 < Tokens(line)
        /\ Token(line, t + 2) = d
    <3>1. PICK u \in Nat : u = t + 1 /\ 2 * u + 1 = p /\ u + 1 = t + 2 /\ 2 * u < Len(line)
      BY <1>3, <1>13
    <3>2. d = line[2 * u + 1]
      BY <1>2, <3>1
    <3> QED BY <1>1, <3>1, <3>2, TokenKinds
  <2>2. "&" \notin Words /\ "\\" \notin Words
    BY SymbolsDiffer
  <2>3. d \notin Words => IsLost
    BY <1>10, <2>1
  <2>4. At(here.command, p) = d /\ At(here.command, p + 1) \in {Blank, Nul}
    <3>1. TextFrom(here, p) /\ DOMAIN here.command = DOMAIN line /\ p <= Len(line)
      BY <1>1, <1>3, <1>4, <1>7, <1>13 DEF TextFrom
    <3> QED BY <1>1, <1>2, <1>3, <3>1, TextAt
  <2>5. CASE d = "&"
    <3>1. /\ Apart(here, name) /\ name.word = <<>> /\ name.found /\ name.losc[3]
      BY <1>3, <1>7, <2>4, <2>5, ReadsAmp
    <3>2. k - 1 \in 0 .. 2 /\ k - 1 + 1 = k
      OBVIOUS
    <3>3. name.std_files[k - 1] = <<>>
      <4>1. FileOf(line, k, t) = <<>>
        BY <1>1, <1>4, <1>5, FirstFile
      <4>2. scan.std_files[k - 1] = FileOf(line, k, t)
        BY DEF ReadTo, HasFiles
      <4> QED BY <1>7, <3>1, <4>1, <4>2 DEF Apart
    <3>4. scan'.std_files[k - 1] = <<>>
      <4>1. toCheck = <<>>
        BY <1>8, <3>1
      <4>2. scan'.std_files[k - 1] = <<>> \o <<>>
        BY <1>8, <3>2, <3>3, <4>1
      <4> QED BY <4>2
    <3>5. scan'.losc[k - 1] /\ scan'.losc[3]
      BY <1>7, <1>8, <3>1, <3>2 DEF Apart
    <3>6. Doomed'
      BY <3>2, <3>4, <3>5, Zenon DEF Doomed
    <3> QED BY <2>2, <2>3, <2>5, <3>6
  <2>6. CASE d = "\\"
    <3>1. Invalid(name)
      BY <1>3, <1>7, <2>4, <2>6, ReadsEscape DEF Invalid
    <3> QED BY <1>9, <2>2, <2>3, <2>6, <3>1
  <2>7. d \in Words \cup {">", "<", "2>"} =>
            /\ Apart(here, name) /\ name.word = <<d>> /\ name.found /\ name.end = p + 1
            /\ name.index = here.index + 1 /\ name.losc = here.losc
            /\ \A i \in DOMAIN here.command : i # p + 1 => name.command[i] = here.command[i]
            /\ name.error_types[1] = here.error_types[1]
            /\ IsOp(d) => name.error_types[2] = (here.error_types[2] \/ here.redirection_seen[1])
            /\ ~IsOp(d) => name.error_types[2] = (here.error_types[2] \/ here.redirection_seen[0])
    BY <1>3, <1>7, <2>4, ReadsWord
  <2>8. CASE IsOp(d)
    <3>1. d \in Words \cup {">", "<", "2>"}
      BY <2>8 DEF IsOp
    <3>2. Invalid(name)
      BY <1>7, <2>7, <2>8, <3>1 DEF Invalid
    <3> QED BY <1>9, <2>1, <2>3, <2>8, <3>2
  <2>9. CASE d \in Words
    <3>1. /\ Apart(here, name) /\ name.word = <<d>> /\ name.found /\ name.end = p + 1
          /\ name.index = 2 * t + 2 + 1 /\ name.losc = here.losc
          /\ \A i \in DOMAIN here.command : i # p + 1 => name.command[i] = here.command[i]
          /\ ~name.error_types[1]
          /\ name.error_types[2] = here.error_types[2]
      <4>1. d \in Words \cup {">", "<", "2>"} /\ ~IsOp(d)
        BY <2>1, <2>9
      <4>2. /\ Apart(here, name) /\ name.word = <<d>> /\ name.found /\ name.end = p + 1
            /\ name.index = here.index + 1 /\ name.losc = here.losc
            /\ \A i \in DOMAIN here.command : i # p + 1 => name.command[i] = here.command[i]
            /\ name.error_types[1] = here.error_types[1]
            /\ name.error_types[2] = (here.error_types[2] \/ here.redirection_seen[0])
        BY <2>7, <4>1
      <4>3. name.error_types[2] = here.error_types[2]
        BY <1>7, <4>2 DEF Scan
      <4> QED BY <1>7, <4>2, <4>3
    <3>2. ~name.error_types[2]
      <4>1. ~(2 * t + 2 > Len(line))
        BY <1>1, <1>13
      <4> QED BY <1>7, <3>1, <4>1
    <3>3. /\ t + 1 < Tokens(line) /\ t + 2 <= Tokens(line) /\ t + 2 <= Len(line)
          /\ t + 2 \in Nat
      <4>1. t + 1 < Tokens(line) /\ Tokens(line) \in Nat
        BY <1>1, <2>1, <2>9, Size
      <4> QED BY <1>1, <1>13, <4>1
    <3>4. IsPart(line, w, t + 2)
      <4>1. IsPart(line, w, t)
        BY DEF ReadTo
      <4> QED BY <1>1, <1>4, <2>1, <2>9, <3>3, <4>1, OneMoreFile
    <3>5. toCheck = <<d>>
      BY <1>8, <3>1
    <3>6. HasFiles(t + 2)'
      <4> SUFFICES ASSUME NEW j \in 1 .. 3
                   PROVE  /\ scan'.std_files[j - 1] = FileOf(line, j, t + 2)
                          /\ scan'.losc[j - 1] <=> FileOf(line, j, t + 2) # <<>>
        BY <1>1 DEF HasFiles
      <4>1. j - 1 \in 0 .. 2 /\ (j - 1 = k - 1 <=> j = k)
        OBVIOUS
      <4>2. FileOf(line, j, t + 2) = IF j = k THEN <<d>> ELSE FileOf(line, j, t)
        BY <1>1, <1>4, <1>5, <2>1, <2>9, <3>3, OneMoreFileOf
      <4>3. /\ scan.std_files[j - 1] = FileOf(line, j, t)
            /\ scan.losc[j - 1] <=> FileOf(line, j, t) # <<>>
        BY DEF ReadTo, HasFiles
      <4>4. scan'.losc[j - 1] <=> (j = k \/ scan.losc[j - 1])
        BY <1>7, <1>8, <3>1, <4>1
      <4>5. scan'.std_files[j - 1] = IF j = k THEN scan.std_files[j - 1] \o <<d>>
                                              ELSE scan.std_files[j - 1]
        BY <1>7, <1>8, <3>1, <3>5, <4>1 DEF Apart
      <4>6. CASE j = k
        <5>1. FileOf(line, k, t) = <<>>
          BY <1>1, <1>4, <1>5, FirstFile
        <5>2. scan'.std_files[j - 1] = <<>> \o <<d>> /\ <<d>> # <<>>
          BY <4>3, <4>5, <4>6, <5>1
        <5>3. <<>> \o <<d>> = <<d>>
          OBVIOUS
        <5> QED BY <4>2, <4>4, <4>6, <5>2, <5>3
      <4>7. CASE j # k
        BY <4>2, <4>3, <4>4, <4>5, <4>7
      <4> QED BY <4>6, <4>7
    <3>7. /\ scan'.begin = 2 * (t + 2) + 1 /\ scan'.index = 2 * (t + 2)
      BY <1>3, <1>8, <3>1
    <3>8. \A i \in 2 * (t + 2) + 1 .. Len(line) : scan'.command[i] = line[i]
      <4> SUFFICES ASSUME NEW i \in 2 * (t + 2) + 1 .. Len(line)
                   PROVE  scan'.command[i] = line[i]
        OBVIOUS
      <4>1. i \in 1 .. Len(line) /\ i \in 2 * t + 3 .. Len(line) /\ i # 2 * t + 4
        BY <1>1
      <4>2. i # p + 1 /\ i \in DOMAIN here.command
        BY <1>1, <1>3, <1>7, <4>1
      <4> QED BY <1>4, <1>7, <1>8, <3>1, <4>1, <4>2
    <3>9. (\A i \in 1 .. 2 : ~scan.error_types[i])'
      <4>1. ~Invalid(scan')
        BY <1>8, <3>1, <3>2 DEF Invalid
      <4> QED BY <4>1, InvalidIs, Zenon
    <3>10. scan'.argv = Arguments(line, w)
      BY <1>7, <1>8, <3>1 DEF ReadTo, Apart
    <3>11. ~scan'.losc[3] /\ t + 2 # w
      <4>1. w <= t
        BY DEF ReadTo, IsPart
      <4> QED BY <1>7, <1>8, <3>1, <4>1
    <3>12. ReadTo(w, t + 2)'
      BY <1>1, <1>8, <3>4, <3>6, <3>7, <3>8, <3>9, <3>10, <3>11 DEF ReadTo
    <3> QED BY <3>3, <3>12
  <2> QED BY <2>1, <2>5, <2>6, <2>8, <2>9
<1> QED BY <1>11, <1>12, <1>13

(* The steps of getargs keep track of the tokens read; other steps leave the line. *)
LEMMA GetArgsReads ==
    ASSUME TypeOK, WaitInv, WordsRead, GetArgs
    PROVE  WordsRead'
<1>1. /\ Parsing /\ UNCHANGED <<line, stale>> /\ line \in Seq(Symbols) /\ Len(line) \in Nat
  <2>1. line \in Seq(Symbols)
    BY DEF TypeOK
  <2>2. UNCHANGED outside /\ pc \in {"parse", "word"}
    BY Zenon DEF GetArgs, NextWord, ParseEnds, ParseBackground, ParseArgument, ParseNothing,
       WildRead, ParseRedirection
  <2> QED BY <2>1, <2>2 DEF outside, Parsing
<1> SUFFICES ASSUME ~stale, Spaced(line), ~Repeats(line)
             PROVE  (Doomed' /\ IsLost) \/ IsRead'
  BY <1>1 DEF WordsRead, IsLost, IsRead
<1>2. (Doomed /\ IsLost) \/ IsRead
  BY <1>1 DEF WordsRead, IsLost, IsRead
<1>3. CASE Doomed /\ IsLost
  BY <1>3, DoomStays
<1>4. CASE IsRead
  <2>0. PICK t \in 0 .. Len(line) : \E w \in 0 .. t : ReadTo(w, t)
    BY <1>4 DEF IsRead
  <2>1. PICK w \in 0 .. t : ReadTo(w, t)
    BY <2>0
  <2>2. t \in Nat /\ w \in Nat /\ w <= t
    BY <1>1
  <2>3. CASE NextWord
    <3>1. (Doomed' /\ IsLost) \/ ReadTo(w, t)'
      BY <2>1, <2>2, <2>3, NextWordReads
    <3> QED BY <1>1, <3>1 DEF IsRead
  <2>4. CASE ParseEnds
    <3>1. ReadTo(w, t)'
      BY <2>1, <2>2, <2>4, ParseEndReads
    <3> QED BY <1>1, <3>1 DEF IsRead
  <2>5. CASE ParseBackground
    <3>1. (Doomed' /\ IsLost) \/ ReadTo(w, t)'
      BY <2>1, <2>2, <2>5, BackgroundReads
    <3> QED BY <1>1, <3>1 DEF IsRead
  <2>6. CASE ParseArgument
    <3>1. ReadTo(w + 1, t + 1)' /\ t + 1 <= Len(line) /\ w = t
      BY <2>1, <2>2, <2>6, ArgumentReads
    <3>2. t + 1 \in 0 .. Len(line) /\ w + 1 \in 0 .. t + 1
      BY <1>1, <2>2, <3>1
    <3> QED BY <1>1, <3>1, <3>2 DEF IsRead
  <2>7. ASSUME NEW k \in 1 .. 3, ParseRedirection(k)
        PROVE  (Doomed' /\ IsLost) \/ IsRead'
    <3>1. (Doomed' /\ IsLost) \/ (ReadTo(w, t + 2)' /\ t + 2 <= Len(line))
      BY <2>1, <2>2, <2>7, RedirectionReads
    <3>2. t + 2 <= Len(line) => t + 2 \in 0 .. Len(line) /\ w \in 0 .. t + 2
      BY <1>1, <2>2
    <3> QED BY <1>1, <3>1, <3>2 DEF IsRead
  <2>8. ~ParseNothing /\ ~WildRead
    BY <2>1, <2>2, NothingReads
  <2> QED BY <2>3, <2>4, <2>5, <2>6, <2>7, <2>8 DEF GetArgs
<1> QED BY <1>2, <1>3, <1>4

LEMMA ReadLineReads ==
    ASSUME TypeOK, WaitInv, ReadLine
    PROVE  WordsRead'
<1> SUFFICES ASSUME ~stale', Spaced(line') PROVE IsRead'
  BY DEF WordsRead, IsRead
<1>1. PICK l \in Lines : line' = l /\ scan' = [scan EXCEPT !.command = l]
  BY DEF ReadLine
<1>2. l \in Seq(Symbols) /\ Len(l) \in Nat /\ Spaced(l)
  BY <1>1, LinesAssumption
<1>3. scan \in Scan /\ scan = Reset(scan.losc[3]) /\ ~scan.losc[3] /\ pc' = "parse"
  BY DEF TypeOK, WaitInv, Fresh, ReadLine
<1>4. /\ scan.argv = <<>> /\ scan.begin = 1 /\ scan.index = 0
      /\ \A i \in 0 .. 2 : ~scan.losc[i] /\ scan.std_files[i] = <<>>
      /\ \A i \in 1 .. 2 : ~scan.error_types[i]
      /\ ~scan.redirection_seen[0] /\ ~scan.redirection_seen[1]
  BY <1>3 DEF Reset
<1>5. /\ scan'.command = l /\ scan'.argv = scan.argv /\ scan'.losc = scan.losc
      /\ scan'.begin = scan.begin /\ scan'.index = scan.index
      /\ scan'.std_files = scan.std_files /\ scan'.error_types = scan.error_types
      /\ scan'.redirection_seen = scan.redirection_seen
  BY <1>1, <1>3 DEF Scan
<1>6. IsPart(l, 0, 0) /\ Arguments(l, 0) = <<>>
  BY <1>2, NoPart, ArgumentsGrow
<1>7. HasFiles(0)'
  <2> SUFFICES ASSUME NEW k \in 1 .. 3
               PROVE  /\ scan'.std_files[k - 1] = FileOf(line', k, 0)
                      /\ scan'.losc[k - 1] <=> FileOf(line', k, 0) # <<>>
    BY DEF HasFiles
  <2>1. k - 1 \in 0 .. 2
    OBVIOUS
  <2>2. FileOf(l, k, 0) = <<>>
    BY <1>2, FilesGrow
  <2> QED BY <1>1, <1>4, <1>5, <2>1, <2>2
<1>8. 2 * 0 + 1 = 1 /\ 2 * 0 = 0
  OBVIOUS
<1>9. ReadTo(0, 0)'
  BY <1>1, <1>3, <1>4, <1>5, <1>6, <1>7, <1>8 DEF ReadTo
<1>10. 0 \in 0 .. Len(l) /\ 0 \in 0 .. 0
  BY <1>2
<1> QED BY <1>1, <1>9, <1>10 DEF IsRead

LEMMA WordsReadSteps == TypeOK /\ ShellInv /\ [Next]_vars => WordsRead'
<1> SUFFICES ASSUME TypeOK, WaitInv, WordsRead, [Next]_vars PROVE WordsRead'
  BY DEF ShellInv
<1>1. CASE ReadLine
  BY <1>1, ReadLineReads
<1>2. CASE GetArgs
  BY <1>2, GetArgsReads
<1>3. CASE ~Parsing'
  BY <1>3 DEF WordsRead
<1>4. CASE UNCHANGED <<pc, line, scan, stale>>
  BY <1>4 DEF WordsRead, Parsing, Doomed, ReadTo, HasFiles
<1>5. \/ ReadLine \/ GetArgs \/ ~Parsing' \/ UNCHANGED <<pc, line, scan, stale>>
  BY DEF Next, ShellStep, SkipLine, Refuse, Fork, ForkFails, Waitpid, EndOfInput, WaitAny,
     Exit, ChildRuns, ChildFails, ProgramEnds, Becomes, NextLine, Parsing, vars
<1> QED BY <1>1, <1>2, <1>3, <1>4, <1>5

-----------------------------------------------------------------------------
(* The theorems. *)

(* Types hold and so does the invariant: losc[3] is set for a reason, main waits for the
   only child that may run a program of a line without an &, and of a line of words the
   tokens read so far are in argv and std_files, or the line will be refused. *)
THEOREM ShellHolds == Spec => [](TypeOK /\ ShellInv)
<1>1. Init => TypeOK /\ ShellInv
  BY InitHolds DEF Init, ShellInv, WordsRead, Parsing
<1>2. TypeOK /\ ShellInv /\ [Next]_vars => TypeOK' /\ ShellInv'
  BY StepHolds, WordsReadSteps DEF ShellInv
<1> QED BY <1>1, <1>2, PTL DEF Spec

(* main and getargs keep the types of the globals, and main calls waitpid only with a
   pid that fork gave it (main, 182-224). *)
THEOREM ShellTypes == Spec => []TypeOK
BY ShellHolds, PTL

(* A program of a line without an & runs only while main waits for it (main, 215-222). *)
THEOREM WaitsForTheForeground == Spec => []ForegroundWaits
<1>1. ShellInv => ForegroundWaits
  BY DEF ShellInv, WaitInv, WaitedFor, MayRun, ForegroundWaits
<1> QED BY <1>1, ShellHolds, PTL

(* After a line with an &, no later line starts a program: reset leaves losc[3] set,
   and getargs then keeps no arguments (reset, 527; getargs, 252-273). *)
THEOREM NoProgramAfterBackground == Spec => NothingAfterBackground
<1>1. ASSUME TypeOK, ShellInv, [Next]_vars
      PROVE  [stale => \A p \in Pids :
                  children[p] = NoChild => children'[p].argv = <<>>]_vars
  <2> SUFFICES ASSUME stale, NEW p \in Pids, children[p] = NoChild
               PROVE  children'[p].argv = <<>>
    OBVIOUS
  <2>1. children \in [Pids -> Child]
    BY <1>1 DEF TypeOK
  <2>2. NoChild.argv = <<>> /\ NoChild.status = "none"
    BY DEF NoChild
  <2>3. CASE children' = children
    BY <2>2, <2>3
  <2>4. CASE Waitpid \/ WaitAny
    BY <2>1, <2>2, <2>4 DEF Waitpid, WaitAny
  <2>5. CASE Fork
    <3>1. pc = "parsed" /\ StaleIsEmpty
      BY <1>1, <2>5, Zenon DEF ShellInv, WaitInv, Fork, Accepted
    <3>2. scan.argv = <<>>
      BY <3>1 DEF StaleIsEmpty, Parsing
    <3>3. PICK q \in Pids :
            children' = [children EXCEPT ![q] =
              [argv |-> scan.argv,
               opens |-> {i \in 0 .. 2 : scan.losc[i]}, std_files |-> scan.std_files,
               asked |-> LineAsked, status |-> "forked"]]
      BY <2>5 DEF Fork
    <3> QED BY <2>1, <2>2, <3>2, <3>3
  <2>6. ASSUME NEW q \in Pids, ChildRuns(q) \/ ChildFails(q) \/ ProgramEnds(q)
        PROVE  children'[p].argv = <<>>
    <3>1. p # q
      BY <2>2, <2>6 DEF ChildRuns, ChildFails, ProgramEnds
    <3>2. \E child : children' = [children EXCEPT ![q] = child]
      BY <2>6 DEF ChildRuns, ChildFails, ProgramEnds, Becomes
    <3>3. children'[p] = children[p]
      BY <3>1, <3>2, <2>1
    <3> QED BY <2>2, <3>3
  <2> QED BY <1>1, <2>3, <2>4, <2>5, <2>6 DEF Next, ShellStep, ReadLine, SkipLine, GetArgs,
     NextWord, ParseEnds, ParseBackground, ParseRedirection, ParseArgument, ParseNothing,
     WildRead, Refuse, ForkFails, EndOfInput, Exit, outside, vars
<1> QED BY <1>1, ShellHolds, PTL DEF Spec, NothingAfterBackground

(* As long as no earlier line had an &, getargs takes every command apart into its own
   program, arguments, files and & (getargs, 243-390; getword, 394-480). *)
THEOREM EveryCommandIsUnderstood == Spec => []RunsAsWritten
<1>1. TypeOK /\ ShellInv => RunsAsWritten
  <2> SUFFICES ASSUME TypeOK, ShellInv, pc = "parsed", ~stale,
                      NEW w \in 0 .. Len(line), IsCommand(line, w)
               PROVE  /\ Accepted /\ scan.argv = Arguments(line, w)
                      /\ HasFiles(Tokens(line))
                      /\ scan.losc[3] <=> HasAmp(line)
    BY DEF RunsAsWritten, MeansItsLine
  <2>1. /\ line \in Seq(Symbols) /\ w \in Nat /\ Len(line) \in Nat
        /\ Spaced(line) /\ IsPart(line, w, Tokens(line))
    BY DEF TypeOK, IsCommand
  <2>2. ~Repeats(line)
    BY <2>1, CommandRepeatsNothing
  <2>3. PICK t \in 0 .. Len(line) : \E v \in 0 .. t : ReadTo(v, t)
    BY <2>1, <2>2 DEF ShellInv, WordsRead, Parsing
  <2>4. PICK v \in 0 .. t : ReadTo(v, t)
    BY <2>3
  <2>5. /\ IsPart(line, v, Tokens(line)) /\ t = Tokens(line) /\ scan.argv = Arguments(line, v)
        /\ HasFiles(t) /\ scan.losc[3] = HasAmp(line) /\ Accepted
    BY <2>4 DEF ReadTo, Accepted
  <2>6. v = w
    BY <2>1, <2>5, OneReading
  <2> QED BY <2>5, <2>6
<1> QED BY <1>1, ShellHolds, PTL

(* A line of words that is no command starts no program, whatever the lines before it
   were: behind an & there are no arguments (getargs, 252-273; execute, 120-170). *)
THEOREM NoOtherLineRuns == Spec => []RefusesTheRest
<1>1. TypeOK /\ ShellInv => RefusesTheRest
  <2> SUFFICES ASSUME TypeOK, ShellInv, Accepted, Spaced(line), ~Repeats(line),
                      scan.argv # <<>>,
                      \A k \in 0 .. 2 : scan.losc[k] => scan.std_files[k] # <<>>
               PROVE  \E w \in 0 .. Len(line) : IsCommand(line, w)
    BY DEF RefusesTheRest
  <2>1. pc = "parsed" /\ ~Doomed /\ Len(line) \in Nat
    BY DEF Accepted, Doomed, TypeOK
  <2>2. ~stale
    BY <2>1 DEF ShellInv, WaitInv, StaleIsEmpty, Parsing
  <2>3. PICK t \in 0 .. Len(line) : \E w \in 0 .. t : ReadTo(w, t)
    BY <2>1, <2>2 DEF ShellInv, WordsRead, Parsing
  <2>4. PICK w \in 0 .. t : ReadTo(w, t)
    BY <2>3
  <2>5. w \in 0 .. Len(line) /\ IsPart(line, w, Tokens(line))
    BY <2>1, <2>4 DEF ReadTo
  <2> QED BY <2>5 DEF IsCommand
<1> QED BY <1>1, ShellHolds, PTL

=============================================================================
