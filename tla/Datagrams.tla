------------------------------ MODULE Datagrams ------------------------------
(***************************************************************************)
(* The wire format shared by 3600send and 3600recv (src/tcp/3600sendrecv.h *)
(* and 3600sendrecv.c).  A payload is abstracted to the number of the      *)
(* block of stdin it carries.                                              *)
(***************************************************************************)
EXTENDS Integers

CONSTANTS
    Blocks,      \* how many times read(0, ...) returns data before it returns 0
    WindowSize,  \* MAX_WINDOW_SIZE
    MaxWord,     \* the largest value of an unsigned int
    ByteSwap,    \* what htonl and ntohl do on a little-endian machine
    Spill,       \* how many following slots a byte-swapped length overruns
    Patience     \* sender rounds (about 1 s each) in the receiver's 30 s timeout

Word == 0 .. MaxWord

ASSUME ConstantsAssumption ==
    /\ Blocks \in Nat
    /\ WindowSize \in Nat \ {0}
    /\ MaxWord \in Nat /\ Blocks + WindowSize + 2 <= MaxWord
    /\ ByteSwap \in [Word -> Word]
    /\ \A x \in Word : ByteSwap[ByteSwap[x]] = x
    /\ Spill \in Nat
    /\ Patience \in Nat

Block == 1 .. Blocks
None == 0          \* no payload, a slot whose data_lengths entry is 0
Garbage == -1      \* bytes that are no block of the input

Slots == 0 .. (WindowSize - 1)
SlotOf(seq) == seq % WindowSize

(***************************************************************************)
(* unsigned arithmetic on sequence numbers                                 *)
(***************************************************************************)
Increment(seq) == (seq + 1) % (MaxWord + 1)
Distance(seq, from) == (seq - from) % (MaxWord + 1)

(***************************************************************************)
(* A datagram as it travels: the sequence field is in network order.       *)
(* "empty" is the zero-length datagram that sendto sends for a length 0.   *)
(***************************************************************************)
Datagram == [kind : {"data", "eof", "empty"}, sequence : Word, block : Block \cup {None}]

MakeHeader(kind, seq, block) ==
    [kind |-> kind, sequence |-> ByteSwap[seq], block |-> block]

EmptyDatagram == [kind |-> "empty", sequence |-> 0, block |-> None]

Ack == [sequence : Word]
MakeAck(seq) == [sequence |-> ByteSwap[seq]]

(***************************************************************************)
(* The receiver's buffer.  get_header converts the fields in place, so a   *)
(* second call on the same bytes converts them back: hostOrder says which  *)
(* way round the length and the sequence number are.                       *)
(***************************************************************************)
Buffer == [magic : BOOLEAN, eof : BOOLEAN, hostOrder : BOOLEAN,
           sequence : Word, block : Block \cup {None}]

\* malloc'ed and never written: its bytes do not hold MAGIC
FreshBuffer == [magic |-> FALSE, eof |-> FALSE, hostOrder |-> FALSE,
                sequence |-> 0, block |-> None]

\* recvfrom: a zero-length datagram leaves the buffer as it was
Fill(buf, m) ==
    IF m.kind = "empty" THEN buf
    ELSE [magic |-> TRUE, eof |-> m.kind = "eof", hostOrder |-> FALSE,
          sequence |-> m.sequence, block |-> m.block]

GetHeader(buf) ==
    [buf EXCEPT !.sequence = ByteSwap[@], !.hostOrder = ~@]

\* what the length field makes of the bytes behind the header
Payload(buf) == IF buf.hostOrder \/ buf.block = None THEN buf.block ELSE Garbage
==============================================================================
