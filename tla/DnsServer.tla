------------------------------- MODULE DnsServer -----------------------------
(***************************************************************************)
(* The name server that src/dns/3600dns.c asks (external): what it knows,  *)
(* what its answers mean, and the bytes it writes them in, with names      *)
(* shortened to pointers or in full.                                       *)
(***************************************************************************)
EXTENDS DnsWire

CONSTANT Zone   \* the answers the server may give for each name it knows

(***************************************************************************)
(* A record belongs to a name; its data are four bytes for an address, a   *)
(* name for a CNAME, any bytes for another type.                           *)
(***************************************************************************)
NoSuchName == [aa |-> 1, tc |-> 0, rcode |-> 3, compress |-> FALSE, records |-> <<>>]
ServerFailure == [aa |-> 0, tc |-> 0, rcode |-> 2, compress |-> FALSE,
                  records |-> <<>>]

Answers(name) == {ServerFailure} \cup IF name \in DOMAIN Zone THEN Zone[name] ELSE {NoSuchName}

\* the name in the question, read as the standard says
QuestionOf(m) ==
    LET labels[at \in Nat] ==
          IF ByteAt(m, at) = 0 THEN <<>>
          ELSE <<BytesAt(m, at + 1, ByteAt(m, at))>> \o labels[at + 1 + ByteAt(m, at)]
    IN  labels[HeaderLength]

-----------------------------------------------------------------------------
(***************************************************************************)
(* A message as it grows: its bytes, and where the names are that a later  *)
(* one may end with a pointer to (none if the server does not compress).   *)
(***************************************************************************)
AppendName(message, name) ==
    LET labels == Len(name)
        end(i) == SubSeq(name, i, labels)
        known == {i \in 1 .. labels : \E e \in message.table : e.name = end(i)}
        cut == IF known = {} THEN labels + 1 ELSE Min(known)
        pointer == 192 * 256 + (CHOOSE e \in message.table : e.name = end(cut)).at
        at(i) == Len(message.bytes) + Len(LabelBytes(SubSeq(name, 1, i - 1)))
    IN  [message EXCEPT
           !.bytes = @ \o LabelBytes(SubSeq(name, 1, cut - 1))
                       \o IF cut > labels THEN <<0>> ELSE Word(pointer),
           !.table = IF message.compress
                     THEN @ \cup {[name |-> end(i), at |-> at(i)] : i \in 1 .. cut - 1} ELSE @]

AppendBytes(message, bytes) == [message EXCEPT !.bytes = @ \o bytes]

AppendRecord(message, r) ==
    LET fixed == Word(r.type) \o Word(1) \o Word(0) \o Word(60)
        owned == AppendBytes(AppendName(message, r.owner), fixed)
        length(written) == Len(written.bytes) - Len(owned.bytes)
        named == AppendName(AppendBytes(owned, Word(0)), r.data)
    IN  IF r.type # TypeCname THEN AppendBytes(owned, Word(Len(r.data)) \o r.data)
        ELSE LET rdlength == length(named) - 2
                 at == Len(owned.bytes)
             IN  [named EXCEPT !.bytes = owned.bytes \o Word(rdlength)
                                           \o SubSeq(@, at + 3, Len(@))]

\* the question is copied
Message(query, answer) ==
    LET p == [id |-> WordAt(query, 0), qr |-> 1, opcode |-> 0, aa |-> answer.aa,
              tc |-> answer.tc, rd |-> 1, ra |-> 1, rcode |-> answer.rcode, qdcount |-> 1,
              ancount |-> Len(answer.records)]
        name == QuestionOf(query)
        start == [bytes |-> Header(p), table |-> {}, compress |-> answer.compress]
        asked == AppendBytes(AppendName(start, name), Word(SETUP.qtype) \o Word(SETUP.qclass))
        written[i \in Nat] ==
          IF i = 0 THEN asked ELSE AppendRecord(written[i - 1], answer.records[i])
    IN  written[Len(answer.records)].bytes

-----------------------------------------------------------------------------
(* What an answer means: the lines that should be printed for it. *)

Text(name) == Tail(FlattenSeq([i \in 1 .. Len(name) |-> <<Dot>> \o name[i]]))

LineFor(r, aa) ==
    CASE r.type = TypeA -> Line([atype |-> TypeA, rdata |-> r.data], aa)
      [] r.type = TypeCname -> Line([atype |-> TypeCname, rdata |-> Text(r.data)], aa)
      [] OTHER -> Line([atype |-> 0, rdata |-> <<>>], aa)

Meant(answer) ==
    [i \in 1 .. Len(answer.records) |-> LineFor(answer.records[i], answer.aa)]

\* no record of another type stands before the i-th
Readable(answer, i) == \A k \in 1 .. i - 1 : answer.records[k].type \in {TypeA, TypeCname}

(***************************************************************************)
(* As many lines as records, and the right ones up to the first record of  *)
(* a type that is neither A nor CNAME.                                     *)
(***************************************************************************)
Tells(lines, answer) ==
    /\ Len(lines) = Len(answer.records)
    /\ \A i \in 1 .. Len(lines) : Readable(answer, i) => lines[i] = Meant(answer)[i]

\* the name that a name on the command line stands for in a query
Asked(name) ==
    LET empty == {i \in 1 .. Len(name) : name[i] = <<>>}
    IN  IF empty = {} THEN name ELSE SubSeq(name, 1, Min(empty) - 1)

MayTell(name, lines) == \E answer \in Answers(Asked(name)) : Tells(lines, answer)

Told(answer) == [how |-> "answered", lines |-> Meant(answer)]

(***************************************************************************)
(* The client prints nothing but what an answer tells, and all of it if it *)
(* can read all of it and the name is not the root's.                      *)
(***************************************************************************)
Understands(query, name, answer) ==
    \E end \in {Process(Message(query, answer))} :
        /\ end.how = "answered" => Tells(end.lines, answer)
        /\ Asked(name) # <<>> /\ Readable(answer, Len(answer.records)) => end = Told(answer)
==============================================================================
