------------------------------ MODULE Receiver -------------------------------
(***************************************************************************)
(* 3600recv (src/tcp/3600recv.c): one datagram at a time, in-order blocks  *)
(* are written to stdout, later ones are kept in a slot until their turn,  *)
(* and every datagram is answered with the next number expected.           *)
(***************************************************************************)
EXTENDS Network, Sequences

VARIABLES
    rcvSequence,  \* sequence: the next number expected
    stored,       \* data_lengths and all_data: what a slot holds, None for length 0
    rcvBuffer,    \* buf, one buffer reused for every recvfrom
    output,       \* what has been written to stdout
    rcvPc         \* where receive_packet and write_data are

receiverVars == <<rcvSequence, stored, rcvBuffer, output, rcvPc>>

ReceiverInit ==
    /\ rcvSequence = 1
    /\ stored = [s \in Slots |-> None]
    /\ rcvBuffer = FreshBuffer
    /\ output = << >>
    /\ rcvPc = "select"

Write(data) == output' = IF data = None THEN output ELSE Append(output, data)

-----------------------------------------------------------------------------
(* write_data *)

\* mutant of WriteInOrder: a gap before the packet goes unnoticed
WriteAcrossGap(buf) ==
    /\ buf.sequence >= rcvSequence
    /\ Write(Payload(buf))
    /\ rcvSequence' = Increment(rcvSequence)
    /\ rcvPc' = "drain"
    /\ UNCHANGED stored

WriteInOrder(buf) ==
    /\ buf.sequence = rcvSequence
    /\ Write(Payload(buf))
    /\ rcvSequence' = Increment(rcvSequence)
    /\ rcvPc' = "drain"
    /\ UNCHANGED stored

\* memcpy of a true length stays inside the slot
StoreInSlot(buf, slot) ==
    /\ Payload(buf) # Garbage
    /\ stored' = [stored EXCEPT ![slot] = Payload(buf)]
    /\ rcvPc' = "ack"

\* memcpy of a byte-swapped length runs over the data of the next slots
StoreOverrun(buf, slot) ==
    /\ Payload(buf) = Garbage
    /\ \E over \in 0 .. Spill :
         /\ slot + over < WindowSize
         /\ stored' = [s \in Slots |->
                         IF s = slot \/ (s \in slot .. slot + over /\ stored[s] # None)
                         THEN Garbage ELSE stored[s]]
    /\ rcvPc' = "ack"

\* memcpy past the end of all_data: a crash, or whatever lies behind it, the
\* lengths among it, is overwritten
StorePastEnd(buf, slot) ==
    /\ Payload(buf) = Garbage
    /\ slot + Spill >= WindowSize
    /\ \/ rcvPc' = "failed" /\ UNCHANGED stored
       \/ \E hit \in [Slots -> {"kept", "zeroed", "forged"}] :
            /\ stored' = [s \in Slots |->
                            CASE s = slot \/ hit[s] = "forged" -> Garbage
                              [] s # slot /\ hit[s] = "zeroed" -> None
                              [] OTHER -> stored[s]]
            /\ rcvPc' = "ack"

StoreOutOfOrder(buf) ==
    LET slot == SlotOf(buf.sequence)
    IN  /\ buf.sequence > rcvSequence
        /\ stored[slot] = None
        /\ StoreInSlot(buf, slot) \/ StoreOverrun(buf, slot) \/ StorePastEnd(buf, slot)
        /\ UNCHANGED <<rcvSequence, output>>

Ignore(buf) ==
    /\ \/ buf.sequence < rcvSequence
       \/ buf.sequence > rcvSequence /\ stored[SlotOf(buf.sequence)] # None
    /\ rcvPc' = "ack"
    /\ UNCHANGED <<rcvSequence, stored, output>>

WriteData(buf) == WriteInOrder(buf) \/ StoreOutOfOrder(buf) \/ Ignore(buf)

-----------------------------------------------------------------------------
(* receive_packet and handle_received_packet *)

HandleReceivedPacket(buf) ==
    IF buf.magic THEN WriteData(buf)
    ELSE UNCHANGED <<rcvSequence, stored, output, rcvPc>>

ReceivePacket(m) ==
    /\ rcvPc = "select"
    /\ m \in toReceiver
    /\ toReceiver' \in Remaining(toReceiver, m)
    /\ LET buf == GetHeader(Fill(rcvBuffer, m))
       IN  rcvBuffer' = buf /\ HandleReceivedPacket(buf)
    /\ quiet' = 0
    /\ UNCHANGED toSender

\* mutant of DrainSlot: sequence is counted up before the slot is cleared
DrainThenClearNext ==
    /\ rcvPc = "drain"
    /\ stored[SlotOf(rcvSequence)] # None
    /\ Write(stored[SlotOf(rcvSequence)])
    /\ stored' = [stored EXCEPT ![SlotOf(Increment(rcvSequence))] = None]
    /\ rcvSequence' = Increment(rcvSequence)
    /\ UNCHANGED <<rcvBuffer, rcvPc>>
    /\ UNCHANGED networkVars

\* one turn of write_data's loop over the blocks kept for later
DrainSlot ==
    /\ rcvPc = "drain"
    /\ stored[SlotOf(rcvSequence)] # None
    /\ Write(stored[SlotOf(rcvSequence)])
    /\ stored' = [stored EXCEPT ![SlotOf(rcvSequence)] = None]
    /\ rcvSequence' = Increment(rcvSequence)
    /\ UNCHANGED <<rcvBuffer, rcvPc>>
    /\ UNCHANGED networkVars

Answering ==
    \/ rcvPc = "ack"
    \/ rcvPc = "drain" /\ stored[SlotOf(rcvSequence)] = None

\* mutant of SendAck: acknowledges the packet it still waits for
SendAckAhead(lost) ==
    /\ Answering
    /\ toSender' = Transmit(toSender, MakeAck(Increment(rcvSequence)), lost)
    /\ rcvPc' = IF rcvBuffer.eof THEN "exited" ELSE "select"
    /\ UNCHANGED <<rcvSequence, stored, rcvBuffer, output, toReceiver, quiet>>

SendAck(lost) ==
    /\ Answering
    /\ toSender' = Transmit(toSender, MakeAck(rcvSequence), lost)
    /\ rcvPc' = IF rcvBuffer.eof THEN "exited" ELSE "select"
    /\ UNCHANGED <<rcvSequence, stored, rcvBuffer, output, toReceiver, quiet>>

ReceiverStep ==
    \/ \E m \in toReceiver : ReceivePacket(m)
    \/ DrainSlot
    \/ \E lost \in BOOLEAN : SendAck(lost)
==============================================================================
