----------------------------- MODULE StreamProofs -----------------------------
(***************************************************************************)
(* What a transfer does: a clean stream implements ReliableStream, and     *)
(* what the two windows keep, the sender's on inputs that fit into it, the *)
(* receiver's on every clean stream.                                       *)
(***************************************************************************)
EXTENDS TransferProofs

(* What the program counters mean for a caller of the programs. *)
LEMMA StatusOfPc ==
    /\ Status("exited") = "succeeded"
    /\ Status("failed") = "failed"
    /\ \A pc : pc # "exited" /\ pc # "failed" => Status(pc) = "running"
BY DEF Status

LEMMA InitRefines == Init => Stream!Init
BY StatusOfPc DEF Init, SenderInit, ReceiverInit, Stream!Init

(* Only the last eof header and a null pointer end the sender. *)
LEMMA SenderStepRefines ==
    TransferInv /\ BySender(SenderStep) => [Stream!Next]_Stream!vars
<1> SUFFICES ASSUME TransferInv, SenderStep, UNCHANGED receiverVars
             PROVE  [Stream!Next]_Stream!vars
  BY DEF BySender
<1>1. output' = output /\ rcvPc' = rcvPc  BY DEF receiverVars
<1>2. CASE sndPc' \notin {"exited", "failed"} /\ sndPc \notin {"exited", "failed"}
  BY <1>1, <1>2, StatusOfPc DEF Stream!vars
<1>3. CASE SendFails
  BY <1>1, <1>3, StatusOfPc DEF SendFails, Stream!Next, Stream!SenderFails
<1>4. ASSUME NEW lost \in BOOLEAN, SendFinalPacket(lost)
      PROVE  [Stream!Next]_Stream!vars
  <2>1. sndPc = "final" /\ sndPc' = "exited"  BY <1>4 DEF SendFinalPacket
  <2>2. SuccessMeansDelivered  BY InvGivesSuccess
  <2>3. Len(output) = Blocks  BY <2>1, <2>2 DEF SuccessMeansDelivered
  <2> QED BY <1>1, <2>1, <2>3, StatusOfPc
          DEF Stream!Next, Stream!SenderSucceeds, Stream!Complete
<1>5. SendFails \/ (\E lost \in BOOLEAN : SendFinalPacket(lost))
      \/ (sndPc' \notin {"exited", "failed"} /\ sndPc \notin {"exited", "failed"})
  BY DEF SenderStep, LoadPacket, LoadEndOfFile, WindowFull, BeginSending, SendPacket,
         WindowSent, ReceiveAck, AckTimeout
<1> QED BY <1>2, <1>3, <1>4, <1>5

(* A datagram delivers at most the block that is next. *)
LEMMA ReceiveRefines ==
    ASSUME CleanStream, TransferInv, NEW m \in toReceiver, ReceivePacket(m),
           UNCHANGED senderVars, TransferInv'
    PROVE  [Stream!Next]_Stream!vars
<1> DEFINE buf == GetHeader(Fill(rcvBuffer, m))
<1> USE ConstantsAssumption
<1>1. rcvPc = "select" /\ rcvBuffer' = buf /\ HandleReceivedPacket(buf)
  BY DEF ReceivePacket
<1>2. buf.magic /\ ~buf.eof => Payload(buf) # None
  <2>1. TypeOK /\ SenderInv /\ FlightInv /\ BufferInv  BY DEF TransferInv
  <2>2. buf.magic /\ ~buf.eof =>
          /\ buf.block \in Block
          /\ IF buf.hostOrder THEN Payload(buf) = buf.block ELSE Payload(buf) = Garbage
    BY <1>1, <2>1, BufferAfterReceive
  <2> QED BY <2>2 DEF Block, None, Garbage
<1>3. buf.magic /\ buf.eof => Payload(buf) = None
  <2>1. TypeOK /\ SenderInv /\ FlightInv /\ BufferInv  BY DEF TransferInv
  <2> QED BY <1>1, <2>1, BufferAfterReceive
<1>4. Status(sndPc') = Status(sndPc)  BY DEF senderVars
<1>5. output \in Seq(Block \cup {Garbage}) /\ output' \in Seq(Block \cup {Garbage})
      /\ OutputIsPrefix'
  BY DEF TransferInv, TypeOK
<1> HIDE DEF buf
<1>6. CASE ~buf.magic
  BY <1>1, <1>4, <1>6 DEF HandleReceivedPacket, Stream!vars
<1>7. CASE buf.magic /\ WriteInOrder(buf)
  <2>1. rcvPc' = "drain" /\ Write(Payload(buf))  BY <1>7 DEF WriteInOrder
  <2>2. Status(rcvPc) = "running" /\ Status(rcvPc') = "running"
    BY <1>1, <2>1, StatusOfPc
  <2>3. CASE buf.eof
    BY <1>3, <1>4, <1>7, <2>1, <2>2, <2>3 DEF Write, Stream!vars
  <2>4. CASE ~buf.eof
    <3> DEFINE data == Payload(buf)
    <3>1. output' = Append(output, data)  BY <1>2, <1>7, <2>1, <2>4 DEF Write
    <3>2. Len(output) \in Nat /\ Len(output') = Len(output) + 1
          /\ output'[Len(output) + 1] = data
      <4> HIDE DEF data
      <4> QED BY <1>5, <3>1
    <3>3. data = Len(output) + 1  BY <1>5, <3>2 DEF OutputIsPrefix
    <3>4. Len(output) < Blocks
      <4>1. BufferInv' /\ TypeOK'  BY DEF TransferInv
      <4>2. Len(output') <= Blocks
        BY <1>1, <2>4, <3>2, <4>1 DEF BufferInv, TypeOK
      <4> QED BY <3>2, <4>2
    <3> QED BY <1>4, <2>2, <3>1, <3>3, <3>4 DEF Stream!Next, Stream!DeliverNext
  <2> QED BY <2>3, <2>4
<1>8. CASE buf.magic /\ (StoreOutOfOrder(buf) \/ Ignore(buf))
  <2>1. output' = output  BY <1>8 DEF StoreOutOfOrder, Ignore
  <2>2. rcvPc' = "ack" \/ rcvPc' = "failed"
    BY <1>8 DEF StoreOutOfOrder, Ignore, StoreInSlot, StoreOverrun, StorePastEnd
  <2> QED BY <1>1, <1>4, <2>1, <2>2, StatusOfPc
          DEF Stream!vars, Stream!Next, Stream!ReceiverFails
<1> QED BY <1>1, <1>6, <1>7, <1>8 DEF HandleReceivedPacket, WriteData

(* The receiver ends with success only after the sender has. *)
LEMMA AnswerRefines ==
    ASSUME TransferInv, NEW lost \in BOOLEAN, SendAck(lost), UNCHANGED senderVars
    PROVE  [Stream!Next]_Stream!vars
<1>1. /\ rcvPc \in {"ack", "drain"} /\ output' = output
      /\ rcvPc' = IF rcvBuffer.eof THEN "exited" ELSE "select"
      /\ sndPc' = sndPc
  BY DEF SendAck, Answering, senderVars
<1>2. BufferInv  BY DEF TransferInv
<1>3. CASE rcvBuffer.eof
  BY <1>1, <1>2, <1>3, StatusOfPc
  DEF BufferInv, Stream!Next, Stream!ReceiverSucceeds, Stream!Complete
<1>4. CASE ~rcvBuffer.eof
  BY <1>1, <1>4, StatusOfPc DEF Stream!vars
<1> QED BY <1>3, <1>4

LEMMA NextRefines ==
    CleanStream /\ TransferInv /\ TransferInv' /\ [Next]_vars => [Stream!Next]_Stream!vars
<1> SUFFICES ASSUME CleanStream, TransferInv, TransferInv', [Next]_vars
             PROVE  [Stream!Next]_Stream!vars
  OBVIOUS
<1>1. CASE BySender(SenderStep)  BY <1>1, SenderStepRefines
<1>2. CASE ByReceiver(ReceiverStep)
  <2>1. UNCHANGED senderVars  BY <1>2 DEF ByReceiver
  <2>2. CASE DrainSlot
    <3>1. TypeOK' /\ BufferInv' /\ TypeOK  BY DEF TransferInv
    <3>2. /\ ~rcvBuffer.eof /\ output' = Append(output, Len(output) + 1)
          /\ rcvBuffer' = rcvBuffer /\ rcvPc' = rcvPc /\ rcvPc = "drain" /\ sndPc' = sndPc
      BY <2>1, <2>2, <3>1, DrainKeepsInv DEF DrainSlot, senderVars
    <3>3. Len(output) \in Nat /\ Len(output') = Len(output) + 1
      BY <3>1, <3>2 DEF TypeOK
    <3>4. Len(output) < Blocks
      BY <3>1, <3>2, <3>3, ConstantsAssumption DEF BufferInv, TypeOK
    <3> QED BY <3>2, <3>4, StatusOfPc DEF Stream!Next, Stream!DeliverNext
  <2> QED BY <1>2, <2>1, <2>2, ReceiveRefines, AnswerRefines DEF ByReceiver, ReceiverStep
<1>3. CASE ReceiverTimeout
  BY <1>3, StatusOfPc
  DEF ReceiverTimeout, senderVars, Stream!Next, Stream!ReceiverFails
<1>4. CASE UNCHANGED vars
  BY <1>4 DEF vars, Stream!vars
<1> QED BY <1>1, <1>2, <1>3, <1>4 DEF Next

(***************************************************************************)
(* The two programs implement a reliable stream: every step delivers the   *)
(* next block, ends one of the programs in an order the stream allows, or  *)
(* is invisible.                                                           *)
(***************************************************************************)
THEOREM Refinement == CleanStream => (Spec => ImplementsStream)
<1> SUFFICES ASSUME CleanStream PROVE Spec => ImplementsStream
  OBVIOUS
<1>1. TransferInv /\ TransferInv' /\ [Next]_vars => [Stream!Next]_Stream!vars
  BY NextRefines
<1>2. Spec => []TransferInv  BY InvariantHolds
<1> QED BY <1>1, <1>2, InitRefines, PTL DEF Spec, ImplementsStream, Stream!Spec

-----------------------------------------------------------------------------
(***************************************************************************)
(* An input shorter than the window never wraps around: a packet's slot is *)
(* its number, and the null pointer of end of file lands on a free slot.   *)
(***************************************************************************)
ShortInv ==
    /\ TypeOK
    /\ \A q \in Block : q < sndSequence => window[q] = q /\ packetLengths[q] > 0
    /\ \A s \in Slots : packetLengths[s] > 0 => s \in Block /\ s < sndSequence
    /\ sndPc # "failed"

(* A short input's packets are their own slots. *)
LEMMA OwnSlot == Blocks < WindowSize => \A q \in Block : SlotOf(q) = q /\ q \in Slots
<1> SUFFICES ASSUME Blocks < WindowSize, NEW q \in Block PROVE SlotOf(q) = q /\ q \in Slots
  OBVIOUS
<1>1. q \in Nat /\ WindowSize \in Nat \ {0} /\ q < WindowSize
  BY ConstantsAssumption DEF Block
<1>2. q % WindowSize = q  BY <1>1
<1> QED BY <1>1, <1>2 DEF SlotOf, Slots

LEMMA ShortInvKept == Blocks < WindowSize /\ ShortInv /\ [Next]_vars => ShortInv'
<1> SUFFICES ASSUME Blocks < WindowSize, ShortInv, [Next]_vars PROVE ShortInv'
  OBVIOUS
<1> USE ConstantsAssumption
<1>1. TypeOK  BY DEF ShortInv
<1>2. TypeOK'
  BY <1>1, SenderTypeOK, ReceiverTypeOK DEF Next, vars, TypeOK
<1>3. CASE LoadPacket
  <2>1. sndSequence \in Block /\ sndSequence \in Word /\ sndSequence < MaxWord
    BY <1>1, <1>3 DEF LoadPacket, TypeOK, Block, Word
  <2>2. SlotOf(sndSequence) = sndSequence /\ sndSequence \in Slots  BY <2>1, OwnSlot
  <2>3. /\ sndSequence' = sndSequence + 1 /\ sndPc' = sndPc
        /\ window' = [window EXCEPT ![sndSequence] = sndSequence]
        /\ packetLengths' = [packetLengths EXCEPT ![sndSequence] = 1]
    BY <1>3, <2>1, <2>2, IncrementWord DEF LoadPacket
  <2>4. ASSUME NEW q \in Block, q < sndSequence'
        PROVE  window'[q] = q /\ packetLengths'[q] > 0
    <3>1. q \in Slots  BY OwnSlot
    <3>2. CASE q = sndSequence  BY <1>1, <2>3, <3>1, <3>2 DEF TypeOK
    <3>3. CASE q # sndSequence
      <4>1. q < sndSequence  BY <1>1, <2>3, <2>4, <3>3 DEF TypeOK, Block
      <4> QED BY <1>1, <2>3, <3>1, <3>3, <4>1 DEF ShortInv, TypeOK
    <3> QED BY <3>2, <3>3
  <2>5. ASSUME NEW s \in Slots, packetLengths'[s] > 0
        PROVE  s \in Block /\ s < sndSequence'
    <3>1. CASE s = sndSequence  BY <1>1, <2>1, <2>3, <3>1 DEF TypeOK
    <3>2. CASE s # sndSequence
      <4>1. packetLengths[s] > 0  BY <1>1, <2>3, <2>5, <3>2 DEF TypeOK
      <4> QED BY <1>1, <2>3, <4>1 DEF ShortInv, TypeOK, Slots
    <3> QED BY <3>1, <3>2
  <2> QED BY <1>2, <2>3, <2>4, <2>5 DEF ShortInv
<1>4. CASE LoadEndOfFile
  <2>1. SlotOf(sndSequence) \in Slots /\ sndSequence = Blocks + 1
    BY <1>1, <1>4, SlotOfType DEF LoadEndOfFile, TypeOK
  <2>2. SlotOf(sndSequence) \notin Block
    <3>1. CASE Blocks + 1 = WindowSize
      <4>1. SlotOf(sndSequence) = 0  BY <2>1, <3>1 DEF SlotOf
      <4> QED BY <4>1 DEF Block
    <3>2. CASE Blocks + 1 # WindowSize
      <4>1. sndSequence \in Nat /\ sndSequence < WindowSize  BY <2>1, <3>2
      <4>2. sndSequence % WindowSize = sndSequence  BY <4>1
      <4> QED BY <2>1, <4>2 DEF SlotOf, Block
    <3> QED BY <3>1, <3>2
  <2>3. \A q \in Block : q \in Slots /\ window'[q] = window[q]
    BY <1>1, <1>4, <2>1, <2>2, OwnSlot DEF LoadEndOfFile, TypeOK
  <2>4. sndPc' = "send" /\ sndSequence' = sndSequence /\ packetLengths' = packetLengths
    BY <1>4 DEF LoadEndOfFile, BeginSending
  <2> QED BY <1>2, <2>3, <2>4 DEF ShortInv
<1>5. CASE SendFails
  <2>1. /\ SlotOf(sendIndex) \in Slots
        /\ window[SlotOf(sendIndex)] = NullPointer /\ packetLengths[SlotOf(sendIndex)] > 0
    BY <1>1, <1>5, SlotOfType DEF SendFails, SendFaults, TypeOK, Word
  <2> QED BY <2>1 DEF ShortInv, NullPointer, Block
<1>6. ASSUME UNCHANGED <<sndSequence, window, packetLengths>>, sndPc' # "failed"
      PROVE  ShortInv'
  BY <1>2, <1>6 DEF ShortInv
<1>7. LoadPacket \/ LoadEndOfFile \/ SendFails
      \/ (UNCHANGED <<sndSequence, window, packetLengths>> /\ sndPc' # "failed")
  <2>1. sndPc # "failed"  BY DEF ShortInv
  <2> QED BY <2>1 DEF Next, BySender, ByReceiver, SenderStep, WindowFull, BeginSending,
          SendPacket, WindowSent, ReceiveAck, AckTimeout, SendFinalPacket,
          ReceiverTimeout, senderVars, vars
<1> QED BY <1>3, <1>4, <1>5, <1>6, <1>7

(* On an input that fits into the window the invariant of the window holds. *)
LEMMA ShortInvHolds == Blocks < WindowSize => (Spec => []ShortInv)
<1> SUFFICES ASSUME Blocks < WindowSize PROVE Spec => []ShortInv
  OBVIOUS
<1>1. Init => ShortInv
  BY InitTypeOK, ConstantsAssumption DEF Init, SenderInit, ShortInv, Block
<1>2. ShortInv /\ [Next]_vars => ShortInv'  BY ShortInvKept
<1> QED BY <1>1, <1>2, PTL DEF Spec

(***************************************************************************)
(* An input shorter than MAX_WINDOW_SIZE packets is retransmittable: every *)
(* packet that is not acknowledged is in the window, whatever the network  *)
(* does (load_packets_into_window).                                        *)
(***************************************************************************)
THEOREM ShortStreamKept == Blocks < WindowSize => (Spec => []UnackedInWindow)
<1> SUFFICES ASSUME Blocks < WindowSize PROVE Spec => []UnackedInWindow
  OBVIOUS
<1>1. ShortInv => UnackedInWindow  BY OwnSlot DEF ShortInv, UnackedInWindow
<1> QED BY <1>1, ShortInvHolds, PTL

(***************************************************************************)
(* For such an input sendto never gets the null pointer of end of file, so *)
(* the sender does not exit with status 1 (send_packets).                  *)
(***************************************************************************)
THEOREM ShortStreamSends == Blocks < WindowSize => (Spec => []SenderNeverFails)
<1> SUFFICES ASSUME Blocks < WindowSize PROVE Spec => []SenderNeverFails
  OBVIOUS
<1>1. ShortInv => SenderNeverFails  BY DEF ShortInv, SenderNeverFails
<1> QED BY <1>1, ShortInvHolds, PTL

-----------------------------------------------------------------------------
(* The slot of a block that is kept is none a swapped number hits. *)
LEMMA KeptSlotIsClean ==
    ASSUME CleanStream, TransferInv, NEW s \in Slots, stored[s] \in Block
    PROVE  Blocks < WindowSize => ~SwappedSlot(s)
<1>1. SlotOf(stored[s]) = s  BY DEF TransferInv, KeptInv
<1>2. stored[s] \in 1 .. Blocks + 2  BY ConstantsAssumption DEF Block
<1> QED BY <1>1, <1>2, SwapsMiss

LEMMA StepKeeps ==
    ASSUME CleanStream, TransferInv, TransferInv', [Next]_vars,
           NEW s \in Slots, stored[s] \in Block
    PROVE  stored'[s] = stored[s] \/ stored[s] <= Len(output')
<1> USE ConstantsAssumption
<1>1. CASE DrainSlot /\ UNCHANGED senderVars
  <2>1. TypeOK /\ TypeOK'  BY DEF TransferInv
  <2>2. output' = Append(output, Len(output) + 1)  BY <1>1, <2>1, DrainKeepsInv
  <2>3. CASE s # SlotOf(rcvSequence)
    BY <1>1, <2>1, <2>3 DEF DrainSlot, TypeOK
  <2>4. CASE s = SlotOf(rcvSequence)
    <3>1. output' = Append(output, stored[s])
      BY <1>1, <2>4 DEF DrainSlot, Write
    <3> DEFINE kept == stored[s]
    <3>2. output \in Seq(Block \cup {Garbage}) /\ kept \in Block  BY <2>1 DEF TypeOK
    <3>3. kept = Len(output) + 1 /\ Len(output') = Len(output) + 1
      <4>1. output' = Append(output, kept)  BY <3>1
      <4> HIDE DEF kept
      <4>2. Len(output) \in Nat /\ output'[Len(output) + 1] = kept
        BY <3>2, <4>1
      <4>3. output'[Len(output) + 1] = Len(output) + 1 /\ Len(output') = Len(output) + 1
        BY <2>2, <3>2
      <4> QED BY <4>2, <4>3
    <3> QED BY <3>2, <3>3 DEF Block
  <2> QED BY <2>3, <2>4
<1>2. ASSUME NEW m \in toReceiver, ReceivePacket(m), UNCHANGED senderVars
      PROVE  stored'[s] = stored[s]
  <2> DEFINE buf == GetHeader(Fill(rcvBuffer, m))
             slot == SlotOf(buf.sequence)
  <2>1. TypeOK /\ SenderInv /\ FlightInv /\ BufferInv /\ rcvPc = "select"
        /\ HandleReceivedPacket(buf)
    BY <1>2 DEF TransferInv, ReceivePacket
  <2>2. buf \in Buffer
        /\ (buf.magic /\ Payload(buf) = Garbage =>
              /\ buf.block \in Block /\ buf.sequence = ByteSwap[buf.block]
              /\ Blocks < WindowSize)
    BY <2>1, BufferAfterReceive DEF Garbage, None, Block
  <2> HIDE DEF buf
  <2>3. CASE stored' = stored  BY <2>3
  <2>4. CASE buf.magic /\ StoreOutOfOrder(buf)
    <3>1. s # slot  BY <2>4 DEF StoreOutOfOrder, None, Block
    <3>2. CASE StoreInSlot(buf, slot)
      BY <2>1, <3>1, <3>2 DEF StoreInSlot, TypeOK
    <3>3. CASE StoreOverrun(buf, slot)
      <4>1. stored'[s] = stored[s] \/ stored'[s] = Garbage
        BY <3>3 DEF StoreOverrun
      <4>2. Blocks < WindowSize  BY <2>2, <2>4, <3>3 DEF StoreOverrun
      <4>3. stored'[s] # Garbage
        BY <4>2, KeptSlotIsClean DEF TransferInv, KeptInv, SwappedSlot, SlotOf, Slots, Block
      <4> QED BY <4>1, <4>3
    <3>4. ~StorePastEnd(buf, slot)
      <4> SUFFICES ASSUME StorePastEnd(buf, slot) PROVE FALSE
        OBVIOUS
      <4>1. slot = SlotOf(ByteSwap[buf.block]) /\ buf.block \in Block /\ Blocks < WindowSize
        BY <2>2, <2>4 DEF StorePastEnd
      <4>2. slot + Spill < WindowSize  BY <4>1, SwapsMiss
      <4>3. slot \in Nat  BY <2>2, SlotOfType DEF Buffer, Word, Slots
      <4> QED BY <4>2, <4>3 DEF StorePastEnd
    <3> QED BY <2>4, <3>2, <3>3, <3>4 DEF StoreOutOfOrder
  <2> QED BY <2>1, <2>3, <2>4 DEF HandleReceivedPacket, WriteData, WriteInOrder, Ignore
<1>3. CASE stored' = stored  BY <1>3
<1> QED
  BY <1>1, <1>2, <1>3
  DEF Next, BySender, ByReceiver, ReceiverStep, ReceiverTimeout, SendAck, receiverVars, vars

(***************************************************************************)
(* What the receiver keeps out of order it keeps until it has written it   *)
(* (write_data).                                                           *)
(***************************************************************************)
THEOREM KeptBlocksSurvive == CleanStream => (Spec => KeptUntilWritten)
<1> SUFFICES ASSUME CleanStream PROVE Spec => KeptUntilWritten
  OBVIOUS
<1> DEFINE Keeps == \A s \in Slots : stored[s] \in Block =>
                       stored'[s] = stored[s] \/ stored[s] <= Len(output')
<1>1. TransferInv /\ TransferInv' /\ [Next]_vars => [Keeps]_vars
  BY StepKeeps
<1>2. Spec => []TransferInv  BY InvariantHolds
<1> QED BY <1>1, <1>2, PTL DEF Spec, KeptUntilWritten
===============================================================================
