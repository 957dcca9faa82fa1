-------------------------------- MODULE DnsWire ------------------------------
(***************************************************************************)
(* What src/dns/3600dns.c sends and what it makes of the bytes it          *)
(* receives.  A message is a sequence of bytes; the offsets of the code    *)
(* count from 0.  A name on the command line is what strsep cuts it into:  *)
(* a sequence of labels, each a sequence of characters.                    *)
(***************************************************************************)
EXTENDS Integers, Sequences, SequencesExt

Dot == 46                       \* '.'
TypeA == 1                      \* atype 0x0001
TypeCname == 5                  \* atype 0x0005
HeaderLength == 12

Word(n) == <<n \div 256, n % 256>>

\* a C string ends at its first NUL
CString(bytes) ==
    LET ends == {i \in 1 .. Len(bytes) : bytes[i] = 0}
    IN  IF ends = {} THEN bytes ELSE SubSeq(bytes, 1, Min(ends) - 1)

-----------------------------------------------------------------------------
(* The query. *)

\* each label with its length in front of it
LabelBytes(name) == FlattenSeq([i \in 1 .. Len(name) |-> <<Len(name[i])>> \o name[i]])

\* pushed with strlen(qname) + 1: an empty label, whose length is 0, is the end
QName(name) == CString(LabelBytes(name)) \o <<0>>

Flags(p) ==
    p.qr * 2^15 + p.opcode * 2^11 + p.aa * 2^10 + p.tc * 2^9 + p.rd * 2^8 + p.ra * 2^7
    + p.rcode

Header(p) ==
    Word(p.id) \o Word(Flags(p)) \o Word(p.qdcount) \o Word(p.ancount) \o Word(0) \o Word(0)

SETUP == [id |-> 1337, qr |-> 0, opcode |-> 0, aa |-> 0, tc |-> 0, rd |-> 1, ra |-> 0,
          rcode |-> 0, qdcount |-> 1, ancount |-> 0, qtype |-> 1, qclass |-> 1]

\* create_packet_to_send
CreatePacket(p, qname) == Header(p) \o qname \o Word(p.qtype) \o Word(p.qclass)

Query(name) == CreatePacket(SETUP, QName(name))

-----------------------------------------------------------------------------
(* The response, in a buffer of zeros that no datagram fills. *)

ByteAt(m, at) == IF at < Len(m) THEN m[at + 1] ELSE 0
WordAt(m, at) == ByteAt(m, at) * 256 + ByteAt(m, at + 1)
BytesAt(m, at, count) == [i \in 1 .. count |-> ByteAt(m, at + i - 1)]

\* mutant of ReadName: the NUL at the end of a name is not pulled
ReadNameToNul(m) ==
    LET read[at \in Nat, calls \in Nat] ==
          LET length == ByteAt(m, at)
              after == at + 1 + length
              label == BytesAt(m, at + 1, length)
          IN  IF calls = 0 THEN [name |-> <<>>, next |-> at, returns |-> FALSE]
              ELSE IF length >= 192
                   THEN [read[WordAt(m, at) % 2^14, calls - 1] EXCEPT !.next = at + 2]
              ELSE IF ByteAt(m, after) = 0
                   THEN [name |-> label, next |-> after, returns |-> TRUE]
              ELSE LET rest == read[after, calls - 1]
                   IN  [rest EXCEPT !.name = label \o <<Dot>> \o rest.name]
    IN  [at \in Nat |-> read[at, Len(m) + 1]]

(***************************************************************************)
(* read_name, the call after which that many may follow: the name, where   *)
(* the next field begins, and whether it returns.  Calls that outnumber    *)
(* the bytes have met a pointer twice and go on until the stack is full.   *)
(***************************************************************************)
ReadName(m) ==
    LET read[at \in Nat, calls \in Nat] ==
          LET length == ByteAt(m, at)
              after == at + 1 + length
              label == BytesAt(m, at + 1, length)
          IN  IF calls = 0 THEN [name |-> <<>>, next |-> at, returns |-> FALSE]
              ELSE IF length >= 192
                   THEN [read[WordAt(m, at) % 2^14, calls - 1] EXCEPT !.next = at + 2]
              ELSE IF ByteAt(m, after) = 0
                   THEN [name |-> label, next |-> after + 1, returns |-> TRUE]
              ELSE LET rest == read[after, calls - 1]
                   IN  [rest EXCEPT !.name = label \o <<Dot>> \o rest.name]
    IN  [at \in Nat |-> read[at, Len(m) + 1]]

(***************************************************************************)
(* read_answers and set_answer: two bytes each of type, class and rdlength *)
(* and four of ttl, in whatever order, are passed over.  Of a record of    *)
(* another type the data is not.                                           *)
(***************************************************************************)
ReadAnswers(m, from, count) ==
    LET read[i \in 0 .. count] ==
          IF i = 0 THEN [next |-> from, answers |-> <<>>, returns |-> TRUE]
          ELSE LET before == read[i - 1]
                   owner == ReadName(m)[before.next]
                   atype == WordAt(m, owner.next)
                   rdata == owner.next + 10
                   name == ReadName(m)[rdata]
               IN  CASE atype = TypeA ->
                          [next |-> rdata + 4, returns |-> before.returns /\ owner.returns,
                           answers |-> Append(before.answers,
                                         [atype |-> TypeA, rdata |-> BytesAt(m, rdata, 4)])]
                     [] atype = TypeCname ->
                          [next |-> name.next,
                           returns |-> before.returns /\ owner.returns /\ name.returns,
                           answers |-> Append(before.answers,
                                         [atype |-> TypeCname, rdata |-> CString(name.name)])]
                     [] OTHER ->
                          [next |-> rdata, returns |-> before.returns /\ owner.returns,
                           answers |-> Append(before.answers, [atype |-> 0, rdata |-> <<>>])]
    IN  read[count]

\* read_response
ReadResponse(m) ==
    LET flags == WordAt(m, 2)
        ancount == WordAt(m, 6)
        qname == ReadName(m)[HeaderLength]
        answers == ReadAnswers(m, qname.next + 4, ancount)
    IN  [id |-> WordAt(m, 0), qr |-> flags \div 2^15, opcode |-> (flags \div 2^11) % 16,
         aa |-> (flags \div 2^10) % 2, rd |-> (flags \div 2^8) % 2,
         qdcount |-> WordAt(m, 4), ancount |-> ancount,
         qtype |-> WordAt(m, qname.next), qclass |-> WordAt(m, qname.next + 2),
         answers |-> answers.answers, returns |-> qname.returns /\ answers.returns]

\* print_response, and whether the server is an authority
Line(answer, aa) == [atype |-> answer.atype, rdata |-> answer.rdata, aa |-> aa]

(***************************************************************************)
(* What main makes of the bytes: how it ends and what it prints.  NOTFOUND *)
(* is an answer without lines.                                             *)
(***************************************************************************)
Ended(how) == [how |-> how, lines |-> <<>>]

\* mutant of Checked: the id is not compared
CheckedAnyId(r) ==
    LET expected == r.opcode = 0 /\ r.rd = 1 /\ r.qr = 1 /\ r.qdcount = 1
                    /\ r.qtype = SETUP.qtype /\ r.qclass = SETUP.qclass
    IN  CASE ~r.returns -> Ended("crash")
          [] r.returns /\ ~expected -> Ended("error")
          [] OTHER -> [how |-> "answered",
                       lines |-> [i \in 1 .. r.ancount |-> Line(r.answers[i], r.aa)]]

Checked(r) ==
    LET expected == r.opcode = 0 /\ r.rd = 1 /\ r.qr = 1 /\ r.qdcount = 1
                    /\ r.qtype = SETUP.qtype /\ r.qclass = SETUP.qclass
    IN  CASE ~r.returns -> Ended("crash")
          [] r.returns /\ r.id # SETUP.id -> Ended("not ours")
          [] r.returns /\ r.id = SETUP.id /\ ~expected -> Ended("error")
          [] OTHER -> [how |-> "answered",
                       lines |-> [i \in 1 .. r.ancount |-> Line(r.answers[i], r.aa)]]

Process(m) == Checked(ReadResponse(m))
==============================================================================
