------------------------------- MODULE Shell -------------------------------
(***************************************************************************)
(* The shell of src/shell: main reads a line, getargs takes it apart one   *)
(* getword at a time, execute forks a child that opens the line's files    *)
(* and becomes its program, main waits for the child unless losc[3] calls  *)
(* it a background one, and reset makes it ready for the next line.  A     *)
(* line is a sequence of symbols, one for each piece the parser tells      *)
(* apart: a word, a blank, ">", "<", "2>", "&", and "\\" for a backslash   *)
(* before a character it may not escape.  Escaped characters are parts of  *)
(* words.  The source's TRUE and FALSE are 0 and 1; here they are Boolean. *)
(*                                                                         *)
(* A line is shorter than MAX and the memory behind it is zero (calloc).   *)
(* Reads through the uninitialised pointer `end' are WildRead; the         *)
(* uninitialised array toCheck is empty or holds Junk.                     *)
(***************************************************************************)
EXTENDS Naturals, Sequences

CONSTANTS
    Words,      \* pieces of text without special characters
    Lines,      \* the lines that can come from stdin
    Pids,       \* the process table
    NoPid,
    Junk

Nul == "nul"
Symbols == Words \cup {" ", ">", "<", "2>", "&", "\\"}
Operators == <<">", "<", "2>">>      \* of losc[0], losc[1], losc[2]
Text == Seq(Symbols \cup {Nul, Junk})

ASSUME LinesAssumption == Lines \subseteq Seq(Symbols)
ASSUME SymbolsAssumption ==
    /\ Words \cap {" ", ">", "<", "2>", "&", "\\", Nul, Junk} = {}
    /\ Junk \notin Symbols \cup {Nul} /\ NoPid \notin Pids

VARIABLES
    pc,                \* where main is
    line,              \* the line being handled, as it was read
    scan,              \* the globals losc, error_types and std_files, and the
                       \* locals of getargs and getword
    do_not_execute,
    children,          \* the children not waited for yet, by pid
    child_pid,         \* the child that main waits for
    stale              \* losc[3] when main read the line (history)

vars == <<pc, line, scan, do_not_execute, children, child_pid, stale>>

Scan == [losc : [0 .. 3 -> BOOLEAN],        \* >, <, 2> and & were seen
         error_types : [1 .. 2 -> BOOLEAN], \* bad escape, invalid syntax
         std_files : [0 .. 2 -> Text],
         command : Text, begin : Nat, end : Nat, index : Nat,
         redirection_seen : [0 .. 1 -> BOOLEAN],
         argv : Seq(Text), word : Text, found : BOOLEAN]

(* begin is getargs's pointer `command', a position from 1; `end' is 0 while it is
   uninitialised.  losc[3] survives a reset. *)
Reset(background) ==
    [losc |-> [i \in 0 .. 3 |-> i = 3 /\ background],
     error_types |-> [i \in 1 .. 2 |-> FALSE],
     std_files |-> [i \in 0 .. 2 |-> <<>>],
     command |-> <<>>, begin |-> 1, end |-> 0, index |-> 0,
     redirection_seen |-> [i \in 0 .. 1 |-> FALSE],
     argv |-> <<>>, word |-> <<>>, found |-> FALSE]

(* error_types[0] is set in children only. *)
Child == [argv : Seq(Text), opens : SUBSET (0 .. 2), std_files : [0 .. 2 -> Text],
          asked : BOOLEAN,         \* the child's own line has an & (history)
          status : {"none", "forked", "running", "ended"}]
NoChild == [argv |-> <<>>, opens |-> {}, std_files |-> [i \in 0 .. 2 |-> <<>>],
            asked |-> FALSE, status |-> "none"]

Init ==
    /\ pc = "read" /\ line = <<>> /\ scan = Reset(FALSE) /\ do_not_execute = FALSE
    /\ children = [p \in Pids |-> NoChild] /\ child_pid = NoPid /\ stale = FALSE

(***************************************************************************)
(* getword reads s.command from position p: a word from `start' to `stop'. *)
(* `word' is what it leaves in its word, `found' whether it returns it and *)
(* not NULL.                                                               *)
(***************************************************************************)
At(command, p) == IF p \in DOMAIN command THEN command[p] ELSE Nul

FirstFrom(command, p, S) ==
    CHOOSE q \in p .. p + Len(command) :
        At(command, q) \in S /\ \A r \in p .. q - 1 : At(command, r) \notin S

TakeWord(s, p, start, stop) ==
    LET last == At(s.command, stop)
        word == SubSeq(s.command, start, stop - 1)
        operator == \E k \in 1 .. 3 : word = <<Operators[k]>>
    IN  CASE last = "&" ->
               [s EXCEPT !.word = word, !.found = TRUE, !.end = stop + 1,
                         !.index = @ + (stop + 1 - p),
                         !.error_types[2] = @ \/ s.losc[3], !.losc[3] = TRUE]
          [] last = "\\" ->
               [s EXCEPT !.word = word, !.found = FALSE,
                         !.index = @ + (stop + 1 - p), !.error_types[1] = TRUE]
          [] last \in {" ", Nul} /\ start = stop ->
               [s EXCEPT !.word = <<>>, !.found = FALSE, !.index = @ + (start - p)]
          [] OTHER ->
               [s EXCEPT !.word = word, !.found = TRUE, !.end = stop,
                         !.index = @ + (stop - p),
                         !.command = [i \in DOMAIN s.command |->
                                        IF i = stop THEN Nul ELSE s.command[i]],
                         !.error_types[2] = \/ @
                                            \/ s.redirection_seen[1] /\ operator
                                            \/ s.redirection_seen[0] /\ ~operator,
                         !.redirection_seen[0] = FALSE]

GetWord(s, p) ==
    LET start == FirstFrom(s.command, p, (Symbols \cup {Nul}) \ {" "})
    IN  TakeWord(s, p, start, FirstFrom(s.command, start, {" ", Nul, "&", "\\"}))

(***************************************************************************)
(* getargs: each turn of its loop calls getword and goes on by what it got.*)
(***************************************************************************)
outside == <<line, do_not_execute, children, child_pid, stale>>

NextWord ==
    /\ pc = "parse" /\ scan.index < Len(line) /\ scan.begin # 0
    /\ scan' = GetWord(scan, scan.begin) /\ pc' = "word"
    /\ UNCHANGED outside

ParseEnds ==
    /\ pc = "parse" /\ scan.index >= Len(line)
    /\ pc' = "parsed"
    /\ UNCHANGED <<scan, outside>>

\* mutant of ParseBackground: what follows the & goes unnoticed
ParseBackgroundAnywhere ==
    /\ pc = "word" /\ scan.losc[3] /\ scan.end # 0
    /\ scan' = GetWord(scan, scan.end) /\ pc' = "parsed"
    /\ UNCHANGED outside

(* losc[3] is set, by this word or by an earlier line: nothing may follow. *)
ParseBackground ==
    /\ pc = "word" /\ scan.losc[3] /\ scan.end # 0
    /\ LET rest == GetWord(scan, scan.end)
       IN  scan' = [rest EXCEPT !.error_types[2] = @ \/ rest.word # <<>>]
    /\ pc' = "parsed"
    /\ UNCHANGED outside

IsOperator(k) ==
    /\ ~scan.losc[3] /\ At(scan.command, scan.begin) = Operators[k]
    /\ k = 3 => scan.word = <<"2>">> /\ scan.found

(* The next word is appended to the name of the k-th file. *)
ParseRedirection(k) ==
    /\ pc = "word" /\ IsOperator(k) /\ scan.end # 0
    /\ LET here == [scan EXCEPT !.losc[k - 1] = TRUE, !.index = @ + 1,
                                !.error_types[2] = @ \/ scan.index + 1 > Len(line),
                                !.redirection_seen[1] = TRUE]
           name == GetWord(here, scan.end + 1)
       IN  \E toCheck \in IF name.found THEN {name.word} ELSE {<<>>, <<Junk>>} :
             scan' = [name EXCEPT !.std_files[k - 1] = @ \o toCheck,
                                  !.redirection_seen[0] = TRUE,
                                  !.redirection_seen[1] = FALSE,
                                  !.begin = name.end + 1, !.index = @ + 1]
    /\ pc' = "parse"
    /\ UNCHANGED outside

\* mutant of ParseArgument: losc[3] is looked at after the word has been added
ParseArgumentAnyway ==
    /\ pc = "word" /\ (\A k \in 1 .. 3 : ~IsOperator(k))
    /\ scan.word # <<>>
    /\ scan' = [scan EXCEPT !.argv = Append(@, scan.word), !.index = @ + 1,
                            !.begin = IF scan.end = 0 THEN 0 ELSE scan.end + 1]
    /\ pc' = "parse"
    /\ UNCHANGED outside

ParseArgument ==
    /\ pc = "word" /\ ~scan.losc[3] /\ (\A k \in 1 .. 3 : ~IsOperator(k))
    /\ scan.word # <<>>
    /\ scan' = [scan EXCEPT !.argv = Append(@, scan.word), !.index = @ + 1,
                            !.begin = IF scan.end = 0 THEN 0 ELSE scan.end + 1]
    /\ pc' = "parse"
    /\ UNCHANGED outside

\* mutant of ParseNothing: an empty word is skipped, and its blanks are not counted
SkipNothing ==
    /\ pc = "word" /\ ~scan.losc[3] /\ (\A k \in 1 .. 3 : ~IsOperator(k))
    /\ scan.word = <<>>
    /\ scan' = [scan EXCEPT !.index = scan.begin - 1] /\ pc' = "parse"
    /\ UNCHANGED outside

ParseNothing ==
    /\ pc = "word" /\ ~scan.losc[3] /\ (\A k \in 1 .. 3 : ~IsOperator(k))
    /\ scan.word = <<>>
    /\ pc' = "parsed"
    /\ UNCHANGED <<scan, outside>>

(* getargs reads from where `end' happens to point: the shell crashes, or finds
   nothing there, or something. *)
WildRead ==
    /\ \/ pc = "parse" /\ scan.index < Len(line) /\ scan.begin = 0
       \/ pc = "word" /\ scan.end = 0 /\ (scan.losc[3] \/ \E k \in 1 .. 3 : IsOperator(k))
    /\ \/ pc' = "crashed" /\ scan' = scan
       \/ \E invalid, background \in BOOLEAN :
            /\ scan' = [scan EXCEPT !.error_types[2] = @ \/ invalid,
                                    !.losc[3] = @ \/ background]
            /\ pc' = "parsed"
    /\ UNCHANGED outside

GetArgs == \/ NextWord \/ ParseEnds \/ ParseBackground \/ ParseArgument
           \/ ParseNothing \/ WildRead \/ \E k \in 1 .. 3 : ParseRedirection(k)

(***************************************************************************)
(* main and execute.                                                       *)
(***************************************************************************)
\* mutant of NextLine: the names of the files are not cleared
NextLineKeepsNames(refused) ==
    /\ pc' = "read" /\ line' = <<>> /\ child_pid' = NoPid
    /\ scan' = [Reset(scan.losc[3]) EXCEPT !.std_files = scan.std_files]
    /\ do_not_execute' = (refused /\ scan.losc[3])

(* reset, and back to the top of the loop. *)
NextLine(refused) ==
    /\ pc' = "read" /\ line' = <<>> /\ child_pid' = NoPid
    /\ scan' = Reset(scan.losc[3])
    /\ do_not_execute' = (refused /\ scan.losc[3])

ReadLine ==
    /\ pc = "read" /\ ~do_not_execute
    /\ \E l \in Lines : line' = l /\ scan' = [scan EXCEPT !.command = l]
    /\ pc' = "parse" /\ stale' = scan.losc[3]
    /\ UNCHANGED <<do_not_execute, children, child_pid>>

SkipLine ==
    /\ pc = "read" /\ do_not_execute
    /\ NextLine(do_not_execute)
    /\ UNCHANGED <<children, stale>>

Refuse ==
    /\ pc = "parsed" /\ \E i \in 1 .. 2 : scan.error_types[i]
    /\ NextLine(TRUE)
    /\ UNCHANGED <<children, stale>>

LineAsked == \E i \in DOMAIN line : line[i] = "&"
Accepted == pc = "parsed" /\ \A i \in 1 .. 2 : ~scan.error_types[i]

(* The child has a copy of the globals; the parent waits if losc[3] is not set. *)
Fork ==
    /\ Accepted
    /\ \E p \in Pids :
         /\ children[p] = NoChild
         /\ children' = [children EXCEPT ![p] =
              [argv |-> scan.argv,
               opens |-> {i \in 0 .. 2 : scan.losc[i]}, std_files |-> scan.std_files,
               asked |-> LineAsked, status |-> "forked"]]
         /\ IF scan.losc[3]
            THEN NextLine(FALSE)
            ELSE pc' = "wait" /\ child_pid' = p /\ UNCHANGED <<line, scan, do_not_execute>>
    /\ UNCHANGED stale

\* mutant of ForkFails: -1 is taken for a child
ForkUnchecked ==
    /\ Accepted
    /\ pc' = "wait" /\ child_pid' = NoPid
    /\ UNCHANGED <<line, scan, do_not_execute, children, stale>>

ForkFails ==
    /\ Accepted
    /\ NextLine(FALSE)
    /\ UNCHANGED <<children, stale>>

\* mutant of Waitpid: WNOHANG
WaitpidNoHang ==
    /\ pc = "wait"
    /\ NextLine(FALSE)
    /\ UNCHANGED <<children, stale>>

Waitpid ==
    /\ pc = "wait" /\ children[child_pid].status = "ended"
    /\ children' = [children EXCEPT ![child_pid] = NoChild]
    /\ NextLine(FALSE)
    /\ UNCHANGED stale

EndOfInput ==
    /\ pc = "read"
    /\ pc' = "exit"
    /\ UNCHANGED <<scan, outside>>

(* do_exit: while (wait(NULL) > 0), then exit. *)
WaitAny ==
    /\ pc = "exit"
    /\ \E p \in Pids : /\ children[p].status = "ended"
                      /\ children' = [children EXCEPT ![p] = NoChild]
    /\ UNCHANGED <<pc, line, scan, do_not_execute, child_pid, stale>>

Exit ==
    /\ pc = "exit" /\ \A p \in Pids : children[p] = NoChild
    /\ pc' = "exited"
    /\ UNCHANGED <<scan, outside>>

ShellStep == \/ ReadLine \/ SkipLine \/ GetArgs \/ Refuse \/ Fork \/ ForkFails
             \/ Waitpid \/ EndOfInput \/ WaitAny \/ Exit

(***************************************************************************)
(* A child: its program replaces it if there is one and every file opens.  *)
(***************************************************************************)
Becomes(p, child) ==
    /\ children' = [children EXCEPT ![p] = child]
    /\ UNCHANGED <<pc, line, scan, do_not_execute, child_pid, stale>>

ChildRuns(p) ==
    /\ children[p].status = "forked" /\ children[p].argv # <<>>
    /\ \A k \in children[p].opens : children[p].std_files[k] # <<>>
    /\ Becomes(p, [NoChild EXCEPT !.asked = children[p].asked, !.status = "running"])

(* A file does not open, there is no such program, or execvp has no name to read. *)
ChildFails(p) ==
    /\ children[p].status = "forked"
    /\ Becomes(p, [NoChild EXCEPT !.status = "ended"])

ProgramEnds(p) ==
    /\ children[p].status = "running"
    /\ Becomes(p, [NoChild EXCEPT !.status = "ended"])

Next == ShellStep \/ \E p \in Pids : ChildRuns(p) \/ ChildFails(p) \/ ProgramEnds(p)

Spec == Init /\ [][Next]_vars
FairSpec == Spec /\ WF_vars(GetArgs)

(***************************************************************************)
(* What a line means.  A line of words with one blank between each two is  *)
(* a command if it is a program with arguments, then files, each operator  *)
(* at most once and with a name, then perhaps an &.                        *)
(***************************************************************************)
Spaced(l) == /\ Len(l) % 2 = 1
             /\ \A i \in DOMAIN l : l[i] = " " <=> i % 2 = 0
Token(l, i) == l[2 * i - 1]
HasAmp(l) == l # <<>> /\ l[Len(l)] = "&"
Tokens(l) == (Len(l) + 1) \div 2 - (IF HasAmp(l) THEN 1 ELSE 0)

(* The first t tokens are a program and its arguments, w tokens, and then files. *)
IsPart(l, w, t) ==
    /\ w <= t /\ t <= Tokens(l) /\ (t - w) % 2 = 0
    /\ \A i \in 1 .. w : Token(l, i) \in Words
    /\ \A i \in w + 1 .. t :
          IF (i - w) % 2 = 0
          THEN Token(l, i) \in Words
          ELSE /\ \E k \in 1 .. 3 : Token(l, i) = Operators[k]
               /\ \A j \in w + 1 .. i - 1 : Token(l, i) # Token(l, j)
IsCommand(l, w) == Spaced(l) /\ IsPart(l, w, Tokens(l))

Arguments(l, w) == [i \in 1 .. w |-> <<Token(l, i)>>]
FileOf(l, k, t) ==      \* the k-th file, if it is among the first t tokens
    LET at == {i \in 1 .. t : Token(l, i) = Operators[k]}
    IN  IF at = {} THEN <<>> ELSE <<Token(l, 1 + CHOOSE i \in at : TRUE)>>

Repeats(l) == \E i, j \in DOMAIN l : i # j /\ l[i] = l[j] /\ l[i] \in {">", "<", "2>"}

(***************************************************************************)
(* Properties.                                                             *)
(***************************************************************************)
(* Every variable keeps its type, and main waits only for a child it has. *)
TypeOK ==
    /\ pc \in {"read", "parse", "word", "parsed", "wait", "exit", "exited", "crashed"}
    /\ line \in Seq(Symbols) /\ scan \in Scan /\ do_not_execute \in BOOLEAN
    /\ children \in [Pids -> Child] /\ child_pid \in Pids \cup {NoPid}
    /\ stale \in BOOLEAN /\ (pc = "wait" => child_pid \in Pids)

HasFiles(t) ==
    \A k \in 1 .. 3 : /\ scan.std_files[k - 1] = FileOf(line, k, t)
                      /\ scan.losc[k - 1] <=> FileOf(line, k, t) # <<>>

MeansItsLine ==
    \A w \in 0 .. Len(line) : IsCommand(line, w) =>
        /\ Accepted
        /\ scan.argv = Arguments(line, w)
        /\ HasFiles(Tokens(line))
        /\ scan.losc[3] <=> HasAmp(line)

(* As long as no earlier line had an &, every command is taken apart into its own
   program, arguments, files and &, whatever the lines before it left behind. *)
RunsAsWritten == pc = "parsed" /\ ~stale => MeansItsLine

(* The same whatever the earlier lines were: reset "makes the shell ready for the
   next command".  It does not after an &. *)
EveryLineRuns == pc = "parsed" => MeansItsLine

(* A line of words that is not a command starts no program. *)
RefusesTheRest ==
    /\ Accepted /\ Spaced(line) /\ ~Repeats(line) /\ scan.argv # <<>>
    /\ \A k \in 0 .. 2 : scan.losc[k] => scan.std_files[k] # <<>>
    => \E w \in 0 .. Len(line) : IsCommand(line, w)

(* A program of a line without an & runs only while main waits for it. *)
ForegroundWaits ==
    \A p \in Pids : children[p].status = "running" /\ ~children[p].asked
                     => pc = "wait" /\ child_pid = p

(* Once a line with an & has been read, main forks no child with a program. *)
NothingAfterBackground ==
    [][stale => \A p \in Pids : children[p] = NoChild => children'[p].argv = <<>>]_vars

(* The inductive invariant behind the last two.  Between two lines everything but
   losc[3] is as reset leaves it.  The command that is taken apart is
   the line, with words cut off; losc[3] is set because the line has an &, or an
   earlier one had and there are no arguments, or by a wild read, and then there are
   no arguments or an error; and a child that has or may get a program of a line
   without an & is the one main waits for. *)
Parsing == pc \in {"parse", "word", "parsed"}

CommandIsLine ==
    Parsing => /\ DOMAIN scan.command = DOMAIN line
               /\ \A i \in DOMAIN line : scan.command[i] \in {line[i], Nul}

Fresh == pc = "read" => scan = Reset(scan.losc[3])

EndIsKnown ==
    /\ pc = "parse" => /\ scan.begin = 0 => scan.end = 0 /\ scan.error_types[1]
                       /\ scan.end = 0 => scan.begin = 0 \/ scan.argv = <<>>
    /\ pc = "word" => /\ scan.begin # 0
                      /\ scan.end = 0 => /\ scan.argv = <<>>
                                         /\ scan.word # <<>> => scan.error_types[1]

BackgroundAsked ==
    Parsing /\ scan.losc[3] /\ scan.argv # <<>> => LineAsked \/ scan.error_types[1]

StaleIsEmpty == Parsing /\ stale => scan.losc[3] /\ scan.argv = <<>>

MayRun(p) == \/ children[p].status = "running"
             \/ children[p].status = "forked" /\ children[p].argv # <<>>

WaitedFor ==
    \A p \in Pids : MayRun(p) /\ ~children[p].asked => pc = "wait" /\ child_pid = p

WaitInv == /\ Fresh /\ CommandIsLine /\ EndIsKnown /\ BackgroundAsked /\ StaleIsEmpty
           /\ WaitedFor

(* The inductive invariant behind the first two: of a line of words, the tokens read so
   far are in argv and std_files, or it is no command and that is known.
   The t tokens before the one at `begin' have been taken apart. *)
ReadTo(w, t) ==
    /\ IsPart(line, w, t)
    /\ \A i \in 1 .. 2 : ~scan.error_types[i]
    /\ scan.argv = Arguments(line, w) /\ HasFiles(t)
    /\ pc \in {"parse", "word"} =>
         /\ scan.begin = 2 * t + 1 /\ ~scan.redirection_seen[1]
         /\ \A i \in 2 * t + 1 .. Len(line) :
               \/ scan.command[i] = line[i]
               \/ i = 2 * t + 2 /\ pc = "word" /\ ~scan.losc[3]
    /\ pc = "parse" => /\ scan.index = 2 * t /\ ~scan.losc[3]
                       /\ scan.redirection_seen[0] <=> t # w
    /\ pc = "word" =>
         /\ 2 * t < Len(line) /\ scan.index = 2 * t + 1 /\ scan.end = 2 * t + 2
         /\ scan.losc[3] <=> line[2 * t + 1] = "&"
         /\ ~scan.losc[3] =>
               /\ scan.word = <<line[2 * t + 1]>> /\ scan.found
               /\ ~scan.redirection_seen[0]
               /\ \/ t = w /\ line[2 * t + 1] \in Words
                  \/ \E k \in 1 .. 3 : line[2 * t + 1] = Operators[k]
    /\ pc = "parsed" => t = Tokens(line) /\ scan.losc[3] = HasAmp(line)

(* No program will be started. *)
Doomed ==
    \/ \E i \in 1 .. 2 : scan.error_types[i]
    \/ scan.losc[3] /\ \E k \in 0 .. 2 : scan.losc[k] /\ scan.std_files[k] = <<>>

WordsRead ==
    (Parsing /\ ~stale /\ Spaced(line) /\ ~Repeats(line)) =>
        \/ Doomed /\ \A w \in 0 .. Len(line) : ~IsCommand(line, w)
        \/ \E t \in 0 .. Len(line) : \E w \in 0 .. t : ReadTo(w, t)

ShellInv == WaitInv /\ WordsRead

(* getargs gets to the end of every line, or crashes. *)
LineEnds == pc = "parse" ~> pc \in {"parsed", "crashed"}

==============================================================================
