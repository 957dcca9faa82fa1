------------------------------ MODULE Transfer -------------------------------
(***************************************************************************)
(* One transfer: 3600send, 3600recv and the network between them.          *)
(***************************************************************************)
EXTENDS Sender, Receiver

vars == <<sndSequence, lastAcked, window, packetLengths, done, sndPc, sendIndex,
          rcvSequence, stored, rcvBuffer, output, rcvPc, toReceiver, toSender, quiet>>

Init ==
    /\ SenderInit
    /\ ReceiverInit
    /\ NetworkInit

\* select returns 0 after 30 s: Patience silent rounds of a live sender
ReceiverTimeout ==
    /\ rcvPc = "select"
    /\ quiet = Patience \/ sndPc \in {"exited", "failed"}
    /\ rcvPc' = "failed"
    /\ UNCHANGED <<rcvSequence, stored, rcvBuffer, output>>
    /\ UNCHANGED senderVars /\ UNCHANGED networkVars

BySender(A) == A /\ UNCHANGED receiverVars
ByReceiver(A) == A /\ UNCHANGED senderVars

Next ==
    \/ BySender(SenderStep)
    \/ ByReceiver(ReceiverStep)
    \/ ReceiverTimeout

Spec == Init /\ [][Next]_vars

-----------------------------------------------------------------------------
(***************************************************************************)
(* Fairness.  The two loops keep running.  The network loses any number of *)
(* datagrams but not every copy of a packet, or every acknowledgement,     *)
(* that is sent for ever, and it delivers what it has not lost.            *)
(***************************************************************************)
DatagramsOfStream ==
    {MakeHeader("data", q, q) : q \in Block}
      \cup {EmptyDatagram, MakeHeader("eof", Blocks + 1, None)}

\* the last copy of a duplicated datagram
ReceiveLast(m) == ReceivePacket(m) /\ m \notin toReceiver'

Fairness ==
    /\ WF_vars(BySender(SenderStep))
    /\ WF_vars(BySender(AckTimeout))
    /\ WF_vars(ByReceiver(DrainSlot \/ \E lost \in BOOLEAN : SendAck(lost)))
    /\ WF_vars(ReceiverTimeout)
    /\ SF_vars(ByReceiver(SendAck(FALSE)))
    /\ \A q \in Block : SF_vars(BySender(SendPacket(q, FALSE)))
    /\ \A m \in DatagramsOfStream : SF_vars(ByReceiver(ReceiveLast(m)))
    /\ \A q \in 1 .. Blocks + 1 : SF_vars(BySender(ReceiveAck(MakeAck(q))))

FairSpec == Spec /\ Fairness

-----------------------------------------------------------------------------
(***************************************************************************)
(* Zero-length datagrams are only sent while slot 0 is still Blank, so     *)
(* only for inputs shorter than the window.  Each makes the receiver read  *)
(* its buffer a second time, byte-swapped.  For the sizes where the        *)
(* swapped numbers fall on slots the stream never reaches, this is         *)
(* harmless (for MAX_WINDOW_SIZE 2000 and real htonl: up to 50 blocks).    *)
(***************************************************************************)
SwapsMissTheStream ==
    \A q \in Block :
        /\ ByteSwap[q] > Blocks + 2
        /\ SlotOf(ByteSwap[q]) + Spill < WindowSize
        /\ \A r \in 1 .. Blocks + 2, k \in 0 .. Spill :
             SlotOf(r) # SlotOf(ByteSwap[q]) + k

CleanStream == WindowSize <= Blocks \/ SwapsMissTheStream

-----------------------------------------------------------------------------
(* Types of all variables of the transfer. *)
TypeOK ==
    /\ sndSequence \in 1 .. Blocks + 1
    /\ lastAcked \in Word
    /\ window \in [Slots -> Block \cup {Blank, NullPointer}]
    /\ packetLengths \in [Slots -> {0, 1}]
    /\ done \in BOOLEAN
    /\ sndPc \in {"load", "send", "acks", "final", "exited", "failed"}
    /\ sendIndex \in Word
    /\ rcvSequence \in Word
    /\ stored \in [Slots -> Block \cup {None, Garbage}]
    /\ rcvBuffer \in Buffer
    /\ output \in Seq(Block \cup {Garbage})
    /\ rcvPc \in {"select", "drain", "ack", "exited", "failed"}
    /\ toReceiver \subseteq Datagram
    /\ toSender \subseteq Ack
    /\ quiet \in 0 .. Patience

(***************************************************************************)
(* What 3600recv writes is a prefix of what 3600send read: no block is     *)
(* lost, repeated, swapped or forged, whatever the network reorders and    *)
(* duplicates (write_data).                                                *)
(***************************************************************************)
OutputIsPrefix == \A k \in 1 .. Len(output) : output[k] = k

(***************************************************************************)
(* Everything below the sender's last_acked_packet, and below any          *)
(* acknowledgement still in flight from a receiver that has not seen the   *)
(* end, is on the receiver's stdout: nothing is dropped from the window    *)
(* too early (receive_acknowledgements, handle_received_packet).           *)
(***************************************************************************)
AckedIsWritten ==
    /\ lastAcked <= Len(output) + 1
    /\ rcvPc # "exited" =>
         \A a \in toSender : ByteSwap[a.sequence] <= Len(output) + 1

(***************************************************************************)
(* When either program ends with status 0 all blocks of stdin are on the   *)
(* receiver's stdout (main of 3600send, handle_received_packet).           *)
(***************************************************************************)
SuccessMeansDelivered ==
    sndPc \in {"final", "exited"} \/ rcvPc = "exited" => Len(output) = Blocks

(***************************************************************************)
(* A packet is thrown away as IGNORED only when its block is written or is *)
(* the very block kept in its slot: no two blocks the receiver can be      *)
(* offered share a slot (write_data).                                      *)
(***************************************************************************)
IgnoredIsHeld ==
    \A m \in toReceiver :
        LET seq == ByteSwap[m.sequence]
        IN  m.kind = "data" /\ seq > rcvSequence /\ stored[SlotOf(seq)] # None
              => stored[SlotOf(seq)] = m.block

(***************************************************************************)
(* A block kept out of order stays in its slot until it is written: no     *)
(* other packet and no overrun replaces it (write_data).                   *)
(***************************************************************************)
KeptUntilWritten ==
    [][\A s \in Slots : stored[s] \in Block =>
          stored'[s] = stored[s] \/ stored[s] <= Len(output')]_vars

(***************************************************************************)
(* Every packet loaded and not acknowledged is still in the window, where  *)
(* send_packets finds it again (load_packets_into_window).                 *)
(***************************************************************************)
UnackedInWindow ==
    \A q \in Block :
        lastAcked <= q /\ q < sndSequence =>
            window[SlotOf(q)] = q /\ packetLengths[SlotOf(q)] > 0

(***************************************************************************)
(* sendto is never given the null pointer that end of file left in a slot, *)
(* so the sender does not exit with status 1 (send_packets).               *)
(***************************************************************************)
SenderNeverFails == sndPc # "failed"

(***************************************************************************)
(* The sender ends, unless the receiver gives up (main of 3600send).       *)
(***************************************************************************)
SenderEnds == <>(sndPc \in {"exited", "failed"} \/ rcvPc = "failed")

(***************************************************************************)
(* The receiver always ends, by the eof header or by its timeout.          *)
(***************************************************************************)
ReceiverEnds == <>(rcvPc \in {"exited", "failed"})

-----------------------------------------------------------------------------
(***************************************************************************)
(* The inductive invariant behind the safety properties.  Promised is the  *)
(* number the receiver last answered with or, once it is out of write_data,*)
(* is about to answer with: acknowledgements do not pass it, and kept and  *)
(* arriving blocks are at most WindowSize above it.                        *)
(***************************************************************************)
Promised == IF rcvPc = "drain" THEN rcvSequence - 1 ELSE rcvSequence

SwappedSlot(s) ==
    \E q \in Block, k \in 0 .. Spill : s = SlotOf(ByteSwap[q]) + k

SenderInv ==
    /\ done => sndSequence = Blocks + 1
    /\ lastAcked <= Promised
    /\ \A s \in Slots :
         /\ window[s] < sndSequence /\ window[s] <= lastAcked + WindowSize
         /\ packetLengths[s] > 0 => window[s] # Blank
    /\ \A q \in Block : q < sndSequence => packetLengths[SlotOf(q)] > 0
    /\ sndPc = "send" /\ sendIndex = 0 /\ WindowSize <= Blocks => WindowSize < sndSequence
    /\ sndPc \in {"final", "exited"} => Finished

ArrivalInv(m) ==
    /\ m.kind = "data" => /\ m.block \in Block
                          /\ m.sequence = ByteSwap[m.block]
                          /\ m.block < sndSequence
                          /\ m.block <= lastAcked + WindowSize
    /\ m.kind = "eof" => /\ m = MakeHeader("eof", Blocks + 1, None)
                         /\ sndPc = "exited"
    /\ m.kind = "empty" => Blocks < WindowSize

FlightInv ==
    /\ \A m \in toReceiver : ArrivalInv(m)
    /\ \A a \in toSender : ByteSwap[a.sequence] <= Promised

BufferInv ==
    IF rcvBuffer.eof
    THEN /\ rcvSequence = Blocks + 2 /\ Len(output) = Blocks
         /\ sndPc = "exited" /\ rcvPc \in {"drain", "exited"}
    ELSE /\ rcvSequence = Len(output) + 1 /\ rcvSequence <= sndSequence
         /\ rcvPc # "exited"
         /\ rcvBuffer.magic =>
              /\ rcvBuffer.block \in Block
              /\ rcvBuffer.block < sndSequence
              /\ rcvBuffer.block <= lastAcked + WindowSize
              /\ IF rcvBuffer.hostOrder THEN rcvBuffer.sequence = rcvBuffer.block
                 ELSE /\ rcvBuffer.sequence = ByteSwap[rcvBuffer.block]
                      /\ Blocks < WindowSize

KeptInv ==
    \A s \in Slots :
        /\ stored[s] \in Block =>
             /\ SlotOf(stored[s]) = s /\ stored[s] < sndSequence
             /\ Promised < stored[s] /\ stored[s] <= Promised + WindowSize
        /\ stored[s] = Garbage => Blocks < WindowSize /\ SwappedSlot(s)

TransferInv ==
    /\ TypeOK /\ SenderInv /\ FlightInv /\ BufferInv /\ KeptInv
    /\ OutputIsPrefix

-----------------------------------------------------------------------------
(* The transfer implements a reliable stream. *)
Status(pc) ==
    CASE pc = "exited" -> "succeeded"
      [] pc = "failed" -> "failed"
      [] OTHER -> "running"

Stream == INSTANCE ReliableStream WITH
              sender <- Status(sndPc), receiver <- Status(rcvPc)

(***************************************************************************)
(* Every step of the two programs and the network is a step of the         *)
(* reliable stream or leaves it alone.                                     *)
(***************************************************************************)
ImplementsStream == Stream!Spec
==============================================================================
