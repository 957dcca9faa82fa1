---------------------------- MODULE TransferProofs ----------------------------
(***************************************************************************)
(* Theorems about one transfer, for every input length, window size, word  *)
(* width and byte swap that ConstantsAssumption allows.                    *)
(***************************************************************************)
EXTENDS Transfer, TLAPS

-----------------------------------------------------------------------------
(* Arithmetic of slots and unsigned words. *)

(* Two numbers less than a window apart that share a slot are equal. *)
LEMMA SameSlot ==
    ASSUME NEW a \in Nat, NEW b \in Nat, NEW w \in Nat \ {0},
           a % w = b % w, a < b + w, b < a + w
    PROVE  a = b
<1>1. \A x \in Nat : x \div w \in Nat /\ x = w * (x \div w) + (x % w)
  OBVIOUS
<1>2. ASSUME NEW p \in Nat, NEW q \in Nat, p < q
      PROVE  w * p + w <= w * q
  <2>1. w * q = w * p + w * (q - p)  OBVIOUS
  <2>2. w * (q - p) >= w  BY <1>2
  <2> QED BY <2>1, <2>2
<1>3. ~(a \div w < b \div w)  BY <1>1, <1>2
<1>4. ~(b \div w < a \div w)  BY <1>1, <1>2
<1> QED BY <1>1, <1>3, <1>4

(* Every number has a slot. *)
LEMMA SlotOfType == \A x \in Nat : SlotOf(x) \in Slots
BY ConstantsAssumption DEF SlotOf, Slots

(* Unsigned increments stay unsigned, and do not wrap below MaxWord. *)
LEMMA IncrementWord ==
    \A x \in Word : Increment(x) \in Word /\ (x < MaxWord => Increment(x) = x + 1)
<1> SUFFICES ASSUME NEW x \in Word
             PROVE  Increment(x) \in Word /\ (x < MaxWord => Increment(x) = x + 1)
  OBVIOUS
<1>1. MaxWord \in Nat /\ x \in Nat  BY ConstantsAssumption DEF Word
<1>2. (x + 1) % (MaxWord + 1) \in 0 .. MaxWord  BY <1>1
<1>3. x < MaxWord => (x + 1) % (MaxWord + 1) = x + 1  BY <1>1
<1> QED BY <1>2, <1>3 DEF Increment, Word

(* The byte swap is one of words. *)
LEMMA ByteSwapWord ==
    \A x \in Word : ByteSwap[x] \in Word /\ ByteSwap[ByteSwap[x]] = x
BY ConstantsAssumption

-----------------------------------------------------------------------------
(* Types. *)

LEMMA InitTypeOK == Init => TypeOK
<1> SUFFICES ASSUME Init PROVE TypeOK
  OBVIOUS
<1> USE ConstantsAssumption DEF Init
<1>1. 0 \in Word /\ 1 \in Word /\ 1 \in 1 .. Blocks + 1 /\ 0 \in 0 .. Patience
  BY DEF Word
<1>2. FreshBuffer \in Buffer
  BY <1>1 DEF FreshBuffer, Buffer, None
<1>3. output \in Seq(Block \cup {Garbage})
  BY DEF ReceiverInit
<1> QED
  BY <1>1, <1>2, <1>3 DEF TypeOK, SenderInit, ReceiverInit, NetworkInit, Blank, None

(* A step of the sender keeps the types. *)
LEMMA SenderTypeOK == TypeOK /\ BySender(SenderStep) => TypeOK'
<1> SUFFICES ASSUME TypeOK, SenderStep, UNCHANGED receiverVars PROVE TypeOK'
  BY DEF BySender
<1> USE ConstantsAssumption DEF TypeOK, Word, Block, receiverVars, networkVars
<1>1. CASE LoadPacket
  <2>1. SlotOf(sndSequence) \in Slots  BY SlotOfType
  <2>2. sndSequence \in Word /\ sndSequence < MaxWord  BY <1>1 DEF LoadPacket
  <2>3. sndSequence' = sndSequence + 1  BY <1>1, <2>2, IncrementWord DEF LoadPacket
  <2> QED BY <1>1, <2>1, <2>3 DEF LoadPacket
<1>2. CASE LoadEndOfFile
  <2>1. SlotOf(sndSequence) \in Slots  BY SlotOfType
  <2> QED BY <1>2, <2>1 DEF LoadEndOfFile, BeginSending, NullPointer
<1>3. CASE WindowFull  BY <1>3 DEF WindowFull, BeginSending
<1>4. ASSUME NEW lost \in BOOLEAN, SendPacket(sendIndex, lost) PROVE TypeOK'
  <2>1. SlotOf(sendIndex) \in Slots  BY SlotOfType
  <2>2. SlotDatagram(SlotOf(sendIndex)) \in Datagram
    BY <1>4, <2>1, ByteSwapWord
    DEF SendPacket, SendFaults, SlotDatagram, MakeHeader, EmptyDatagram, Datagram,
        Blank, NullPointer, None
  <2>3. sendIndex' \in Word  BY <1>4, IncrementWord DEF SendPacket
  <2> QED BY <1>4, <2>2, <2>3 DEF SendPacket, Transmit
<1>5. CASE SendFails  BY <1>5 DEF SendFails
<1>6. CASE WindowSent  BY <1>6 DEF WindowSent
<1>7. ASSUME NEW a \in toSender, ReceiveAck(a) PROVE TypeOK'
  <2>1. ByteSwap[a.sequence] \in Word  BY <1>7, ByteSwapWord DEF Ack
  <2> QED BY <1>7, <2>1 DEF ReceiveAck, Remaining
<1>8. CASE AckTimeout  BY <1>8 DEF AckTimeout
<1>9. ASSUME NEW lost \in BOOLEAN, SendFinalPacket(lost) PROVE TypeOK'
  <2>1. MakeHeader("eof", sndSequence, None) \in Datagram
    BY ByteSwapWord DEF MakeHeader, Datagram, None
  <2> QED BY <1>9, <2>1 DEF SendFinalPacket, Transmit
<1> QED BY <1>1, <1>2, <1>3, <1>4, <1>5, <1>6, <1>7, <1>8, <1>9 DEF SenderStep

(* What write(1, ...) appends to the output. *)
LEMMA WriteEffect ==
    ASSUME NEW data \in Block \cup {None, Garbage},
           output \in Seq(Block \cup {Garbage}), Write(data)
    PROVE  /\ output' \in Seq(Block \cup {Garbage})
           /\ data = None => output' = output
           /\ data # None =>
                /\ Len(output') = Len(output) + 1
                /\ output'[Len(output) + 1] = data
                /\ \A k \in 1 .. Len(output) : output'[k] = output[k]
<1>1. CASE data = None  BY <1>1 DEF Write
<1>2. CASE data # None
  <2> DEFINE Items == Block \cup {Garbage}
  <2>1. data \in Items /\ output \in Seq(Items) /\ output' = Append(output, data)
    BY <1>2 DEF Write
  <2> HIDE DEF Items
  <2>2. /\ output' \in Seq(Items)
        /\ Len(output') = Len(output) + 1
        /\ output'[Len(output) + 1] = data
        /\ \A k \in 1 .. Len(output) : output'[k] = output[k]
    BY <2>1
  <2> QED BY <1>2, <2>2 DEF Items
<1> QED BY <1>1, <1>2

(* A step of the receiver, or its timeout, keeps the types. *)
LEMMA ReceiverTypeOK ==
    TypeOK /\ (ByReceiver(ReceiverStep) \/ ReceiverTimeout) => TypeOK'
<1> SUFFICES ASSUME TypeOK, ByReceiver(ReceiverStep) \/ ReceiverTimeout PROVE TypeOK'
  OBVIOUS
<1> USE ConstantsAssumption DEF TypeOK, Word, senderVars, networkVars
<1>1. ASSUME NEW m \in toReceiver, ReceivePacket(m), UNCHANGED senderVars PROVE TypeOK'
  <2> DEFINE buf == GetHeader(Fill(rcvBuffer, m))
  <2>1. buf \in Buffer
    <3>1. m \in Datagram  OBVIOUS
    <3>2. Fill(rcvBuffer, m) \in Buffer  BY <3>1 DEF Fill, Datagram, Buffer
    <3> QED BY <3>2, ByteSwapWord DEF GetHeader, Buffer
  <2>2. /\ Payload(buf) \in Block \cup {None, Garbage}
        /\ buf.sequence \in Word /\ SlotOf(buf.sequence) \in Slots
    BY <2>1, SlotOfType DEF Payload, Buffer
  <2> HIDE DEF buf
  <2>3. rcvBuffer' = buf /\ HandleReceivedPacket(buf)
    BY <1>1 DEF ReceivePacket, buf
  <2>4. toReceiver' \subseteq Datagram /\ toSender' = toSender /\ quiet' \in 0 .. Patience
    BY <1>1 DEF ReceivePacket, Remaining
  <2> SUFFICES ASSUME TRUE
               PROVE  /\ rcvSequence' \in Word
                      /\ stored' \in [Slots -> Block \cup {None, Garbage}]
                      /\ output' \in Seq(Block \cup {Garbage})
                      /\ rcvPc' \in {"select", "drain", "ack", "exited", "failed"}
    BY <1>1, <2>1, <2>3, <2>4
  <2>5. CASE WriteInOrder(buf)
    BY <2>2, <2>5, IncrementWord, WriteEffect DEF WriteInOrder
  <2>6. CASE StoreOutOfOrder(buf)
    <3> DEFINE slot == SlotOf(buf.sequence)
    <3>1. UNCHANGED <<rcvSequence, output>>  BY <2>6 DEF StoreOutOfOrder
    <3>2. CASE StoreInSlot(buf, slot)
      BY <2>2, <3>1, <3>2 DEF StoreInSlot
    <3>3. CASE StoreOverrun(buf, slot)
      BY <3>1, <3>3 DEF StoreOverrun
    <3>4. CASE StorePastEnd(buf, slot)
      BY <3>1, <3>4 DEF StorePastEnd, None
    <3> QED BY <2>6, <3>2, <3>3, <3>4 DEF StoreOutOfOrder
  <2>7. CASE Ignore(buf)  BY <2>7 DEF Ignore
  <2>8. CASE ~buf.magic
    BY <2>3, <2>8 DEF HandleReceivedPacket
  <2> QED BY <2>3, <2>5, <2>6, <2>7, <2>8 DEF HandleReceivedPacket, WriteData
<1>2. ASSUME DrainSlot, UNCHANGED senderVars PROVE TypeOK'
  <2>1. SlotOf(rcvSequence) \in Slots  BY SlotOfType
  <2>2. output' \in Seq(Block \cup {Garbage})  BY <1>2, <2>1, WriteEffect DEF DrainSlot
  <2> QED BY <1>2, <2>1, <2>2, IncrementWord DEF DrainSlot
<1>3. ASSUME NEW lost \in BOOLEAN, SendAck(lost), UNCHANGED senderVars PROVE TypeOK'
  BY <1>3, ByteSwapWord DEF SendAck, Transmit, MakeAck, Ack
<1>4. CASE ReceiverTimeout  BY <1>4 DEF ReceiverTimeout
<1> QED BY <1>1, <1>2, <1>3, <1>4 DEF ByReceiver, ReceiverStep

(***************************************************************************)
(* Every variable keeps its type, whatever the sizes: the slots stay in    *)
(* range and the unsigned numbers in a word (3600send.c, 3600recv.c).      *)
(***************************************************************************)
THEOREM TypeCorrect == Spec => []TypeOK
<1>1. TypeOK /\ [Next]_vars => TypeOK'
  <2>1. TypeOK /\ UNCHANGED vars => TypeOK'  BY DEF TypeOK, vars
  <2> QED BY <2>1, SenderTypeOK, ReceiverTypeOK DEF Next
<1> QED BY <1>1, InitTypeOK, PTL DEF Spec

-----------------------------------------------------------------------------
(* The inductive invariant. *)

(* On a clean stream no slot the stream reaches is one a swapped number hits. *)
LEMMA SwapsMiss ==
    ASSUME CleanStream, Blocks < WindowSize
    PROVE  /\ \A q \in Block : /\ ByteSwap[q] > Blocks + 2
                               /\ SlotOf(ByteSwap[q]) + Spill < WindowSize
           /\ \A r \in 1 .. Blocks + 2 : ~SwappedSlot(SlotOf(r))
<1>1. SwapsMissTheStream  BY ConstantsAssumption DEF CleanStream
<1> QED BY <1>1 DEF SwapsMissTheStream, SwappedSlot

(* The distance of two words in order is their difference. *)
LEMMA DistanceInOrder ==
    \A x \in Word, y \in Word : y <= x => Distance(x, y) = x - y
<1> SUFFICES ASSUME NEW x \in Word, NEW y \in Word, y <= x PROVE Distance(x, y) = x - y
  OBVIOUS
<1>1. MaxWord \in Nat /\ x \in Nat /\ y \in Nat /\ x - y \in Nat /\ x - y < MaxWord + 1
  BY ConstantsAssumption DEF Word
<1>2. (x - y) % (MaxWord + 1) = x - y  BY <1>1
<1> QED BY <1>2 DEF Distance

LEMMA InitInv == Init => TransferInv
<1> SUFFICES ASSUME Init PROVE TransferInv
  OBVIOUS
<1>1. TypeOK  BY InitTypeOK
<1> QED
  BY <1>1, ConstantsAssumption
  DEF Init, SenderInit, ReceiverInit, NetworkInit, TransferInv, SenderInv, FlightInv,
      BufferInv, KeptInv, OutputIsPrefix, Promised, FreshBuffer, Blank, None, Garbage, Block

(***************************************************************************)
(* The parts of the invariant about the receiver survive a step of the     *)
(* sender that moves its numbers upwards only.                             *)
(***************************************************************************)
LEMMA SenderFrame ==
    ASSUME TypeOK, TypeOK', FlightInv, BufferInv, KeptInv, OutputIsPrefix,
           UNCHANGED receiverVars, sndPc # "exited",
           sndSequence <= sndSequence', lastAcked <= lastAcked'
    PROVE  /\ Promised' = Promised
           /\ BufferInv' /\ KeptInv' /\ OutputIsPrefix'
           /\ \A m \in toReceiver : ArrivalInv(m)'
<1> USE ConstantsAssumption DEF receiverVars
<1>1. Promised' = Promised  BY DEF Promised
<1>2. OutputIsPrefix'  BY DEF OutputIsPrefix
<1>3. KeptInv'  BY <1>1 DEF KeptInv, TypeOK, Block
<1>4. BufferInv'
  <2>1. rcvBuffer.block \in Block \cup {None}  BY DEF TypeOK, Buffer
  <2>2. CASE rcvBuffer.eof
    BY <2>2 DEF BufferInv
  <2>3. CASE ~rcvBuffer.eof
    <3>1. rcvSequence' <= sndSequence'
      BY <2>3 DEF BufferInv, TypeOK, Word
    <3>2. rcvBuffer.magic =>
             rcvBuffer.block < sndSequence' /\ rcvBuffer.block <= lastAcked' + WindowSize
      <4>1. /\ lastAcked \in Int /\ lastAcked' \in Int /\ WindowSize \in Int
            /\ sndSequence \in Int /\ sndSequence' \in Int
        BY DEF TypeOK, Word
      <4>2. rcvBuffer.block \in Int  BY <2>1 DEF Block, None
      <4>3. rcvBuffer.magic =>
               rcvBuffer.block < sndSequence /\ rcvBuffer.block <= lastAcked + WindowSize
        BY <2>3 DEF BufferInv
      <4> QED BY <4>1, <4>2, <4>3
    <3> QED BY <2>3, <3>1, <3>2 DEF BufferInv
  <2> QED BY <2>2, <2>3
<1>5. ASSUME NEW m \in toReceiver PROVE ArrivalInv(m)'
  <2>1. ArrivalInv(m)  BY DEF FlightInv
  <2> QED BY <2>1 DEF ArrivalInv, TypeOK, Word, Block, MakeHeader
<1> QED BY <1>1, <1>2, <1>3, <1>4, <1>5

(* While the sender runs, what is acknowledged is at most what it has loaded. *)
LEMMA AckedIsLoaded ==
    ASSUME TypeOK, SenderInv, BufferInv, sndPc # "exited"
    PROVE  lastAcked <= sndSequence /\ Distance(sndSequence, lastAcked) = sndSequence - lastAcked
<1>1. lastAcked <= sndSequence
  BY DEF TypeOK, SenderInv, BufferInv, Promised, Word
<1>2. sndSequence \in Word /\ lastAcked \in Word
  BY ConstantsAssumption DEF TypeOK, Word
<1> QED BY <1>1, <1>2, DistanceInOrder

(* A step of the sender keeps the invariant. *)
LEMMA SenderKeepsInv == TransferInv /\ BySender(SenderStep) => TransferInv'
<1> SUFFICES ASSUME TransferInv, SenderStep, UNCHANGED receiverVars PROVE TransferInv'
  BY DEF BySender
<1>1. SenderInv /\ FlightInv /\ BufferInv /\ KeptInv /\ OutputIsPrefix
  BY DEF TransferInv
<1>t. TypeOK  BY DEF TransferInv
<1>2. TypeOK'  BY <1>t, SenderTypeOK DEF BySender
<1> USE <1>t, ConstantsAssumption DEF TypeOK, Word, Block, networkVars
<1> SUFFICES ASSUME TRUE
             PROVE  /\ sndPc # "exited"
                    /\ sndSequence <= sndSequence' /\ lastAcked <= lastAcked'
                    /\ SenderInv'
                    /\ Promised' = Promised => FlightInv'
  BY <1>1, <1>2, SenderFrame DEF TransferInv
<1>3. Promised' = Promised  BY DEF Promised, receiverVars
<1>4. \A s : s \in Slots => window[s] < sndSequence /\ window[s] <= lastAcked + WindowSize
  BY <1>1 DEF SenderInv
<1>5. sndPc # "exited" /\ sndSequence <= sndSequence' /\ lastAcked <= lastAcked'
      /\ toReceiver' = toReceiver /\ toSender' \subseteq toSender => FlightInv'
  BY <1>1, <1>2, <1>3, SenderFrame DEF FlightInv
<1>6. CASE LoadPacket
  <2>1. sndSequence' = sndSequence + 1 /\ lastAcked' = lastAcked /\ sndPc = "load"
        /\ sndPc' = "load" /\ sndSequence <= Blocks /\ done' = done
    BY <1>6, IncrementWord DEF LoadPacket
  <2>2. sndSequence <= lastAcked + WindowSize
    BY <1>1, <1>6, <2>1, AckedIsLoaded DEF LoadPacket, WindowOpen
  <2>3. SlotOf(sndSequence) \in Slots  BY SlotOfType
  <2>4. \A q \in Block : q < sndSequence => SlotOf(q) \in Slots /\ packetLengths[SlotOf(q)] > 0
    BY <1>1, SlotOfType DEF SenderInv
  <2>5. ASSUME NEW s \in Slots
        PROVE  /\ window'[s] < sndSequence' /\ window'[s] <= lastAcked' + WindowSize
               /\ packetLengths'[s] > 0 => window'[s] # Blank
    BY <1>1, <1>4, <1>6, <2>1, <2>2, <2>3 DEF SenderInv, LoadPacket, Blank, NullPointer
  <2>6. ASSUME NEW q \in Block, q < sndSequence'
        PROVE  packetLengths'[SlotOf(q)] > 0
    BY <1>6, <2>1, <2>3, <2>4, <2>6 DEF LoadPacket
  <2>7. SenderInv'
    BY <1>1, <1>3, <2>1, <2>5, <2>6 DEF SenderInv
  <2> QED BY <1>5, <1>6, <2>1, <2>7 DEF LoadPacket
<1>7. CASE LoadEndOfFile
  <2>1. SlotOf(sndSequence) \in Slots  BY SlotOfType
  <2>2. SenderInv'
    BY <1>1, <1>3, <1>7, <2>1
    DEF SenderInv, LoadEndOfFile, BeginSending, NullPointer, Blank
  <2> QED BY <1>5, <1>7, <2>2 DEF LoadEndOfFile, BeginSending
<1>8. CASE WindowFull
  <2>1. sndPc = "load" /\ sndSequence - lastAcked >= WindowSize + 1
    BY <1>1, <1>8, AckedIsLoaded DEF WindowFull, WindowOpen
  <2>2. SenderInv'
    BY <1>1, <1>3, <1>8, <2>1 DEF SenderInv, WindowFull, BeginSending
  <2> QED BY <1>5, <1>8, <2>2 DEF WindowFull, BeginSending
<1>9. ASSUME NEW lost \in BOOLEAN, SendPacket(sendIndex, lost)
      PROVE  /\ sndPc # "exited"
             /\ sndSequence <= sndSequence' /\ lastAcked <= lastAcked'
             /\ SenderInv'
             /\ Promised' = Promised => FlightInv'
  <2> DEFINE slot == SlotOf(sendIndex)
             m == SlotDatagram(slot)
  <2>1. slot \in Slots  BY SlotOfType
  <2>2. sndPc = "send" /\ sendIndex < sndSequence /\ ~SendFaults(slot)
        /\ UNCHANGED <<sndSequence, lastAcked, window, packetLengths, done, sndPc, toSender>>
        /\ sendIndex' = sendIndex + 1
        /\ toReceiver' = Transmit(toReceiver, m, lost)
    BY <1>9, IncrementWord DEF SendPacket
  <2>3. SenderInv'
    BY <1>1, <1>3, <2>2 DEF SenderInv, Finished
  <2>4. ASSUME packetLengths[slot] = 0 PROVE ArrivalInv(m)
    <3>1. CASE sendIndex = 0
      <4>1. SlotOf(WindowSize) = 0 /\ SlotOf(0) = 0  BY DEF SlotOf
      <4> QED BY <1>1, <2>2, <2>4, <3>1, <4>1
              DEF SenderInv, ArrivalInv, SlotDatagram, EmptyDatagram
    <3>2. CASE sendIndex # 0
      BY <1>1, <2>2, <2>4, <3>2 DEF SenderInv
    <3> QED BY <3>1, <3>2
  <2>5. ASSUME packetLengths[slot] # 0 PROVE ArrivalInv(m)
    <3>1. window[slot] \in Block
      BY <1>1, <2>1, <2>2, <2>5 DEF SenderInv, SendFaults
    <3>2. m = MakeHeader("data", window[slot], window[slot])
      BY <2>5 DEF SlotDatagram
    <3>3. /\ m.kind = "data" /\ m.sequence = ByteSwap[window[slot]]
          /\ m.block = window[slot]
      BY <3>2 DEF MakeHeader
    <3> QED BY <1>4, <2>1, <3>1, <3>3 DEF ArrivalInv
  <2>6. ArrivalInv(m)  BY <2>4, <2>5
  <2>7. \A n : ArrivalInv(n) => ArrivalInv(n)'
    BY <2>2 DEF ArrivalInv
  <2>8. \A n \in toReceiver' : ArrivalInv(n)
    BY <1>1, <2>2, <2>6 DEF FlightInv, Transmit
  <2>9. FlightInv'
    BY <1>1, <1>3, <2>2, <2>7, <2>8 DEF FlightInv
  <2> QED BY <2>2, <2>3, <2>9
<1>10. CASE SendFails
  BY <1>1, <1>3, <1>5, <1>10 DEF SendFails, SenderInv
<1>11. CASE WindowSent
  BY <1>1, <1>3, <1>5, <1>11 DEF WindowSent, SenderInv
<1>12. ASSUME NEW a \in toSender, ReceiveAck(a)
       PROVE  /\ sndPc # "exited"
              /\ sndSequence <= sndSequence' /\ lastAcked <= lastAcked'
              /\ SenderInv'
              /\ Promised' = Promised => FlightInv'
  <2>1. ByteSwap[a.sequence] \in Word  BY ByteSwapWord DEF Ack
  <2>2. ByteSwap[a.sequence] <= Promised  BY <1>1 DEF FlightInv
  <2>3. lastAcked <= lastAcked' /\ lastAcked' <= Promised /\ sndPc = "acks"
    BY <1>1, <1>12, <2>1, <2>2 DEF ReceiveAck, SenderInv
  <2>4. SenderInv'
    <3>1. UNCHANGED <<sndSequence, window, packetLengths, done, sndPc, sendIndex>>
      BY <1>12 DEF ReceiveAck
    <3>2. \A s \in Slots : window[s] \in Int /\ window[s] <= lastAcked' + WindowSize
      <4>1. lastAcked \in Int /\ lastAcked' \in Int /\ WindowSize \in Int
        BY <1>2
      <4>2. \A s \in Slots : window[s] \in Int  BY DEF Blank, NullPointer
      <4> QED BY <1>4, <2>3, <4>1, <4>2
    <3> QED BY <1>1, <1>3, <2>3, <3>1, <3>2 DEF SenderInv
  <2> QED BY <1>5, <1>12, <2>3, <2>4 DEF ReceiveAck, Remaining
<1>13. CASE AckTimeout
  BY <1>1, <1>3, <1>5, <1>13 DEF AckTimeout, SenderInv, Finished
<1>14. ASSUME NEW lost \in BOOLEAN, SendFinalPacket(lost)
       PROVE  /\ sndPc # "exited"
              /\ sndSequence <= sndSequence' /\ lastAcked <= lastAcked'
              /\ SenderInv'
              /\ Promised' = Promised => FlightInv'
  <2>1. sndSequence = Blocks + 1  BY <1>1, <1>14 DEF SendFinalPacket, SenderInv, Finished
  <2>2. SenderInv'
    BY <1>1, <1>3, <1>14 DEF SendFinalPacket, SenderInv, Finished
  <2>3. \A n \in toReceiver : ArrivalInv(n)'
    BY <1>1, <1>14 DEF FlightInv, ArrivalInv, SendFinalPacket
  <2>4. ArrivalInv(MakeHeader("eof", sndSequence, None))'
    BY <1>14, <2>1 DEF ArrivalInv, MakeHeader, SendFinalPacket
  <2>5. FlightInv'
    BY <1>1, <1>3, <1>14, <2>3, <2>4 DEF FlightInv, Transmit, SendFinalPacket
  <2> QED BY <1>14, <2>2, <2>5 DEF SendFinalPacket
<1> QED
  BY <1>6, <1>7, <1>8, <1>9, <1>10, <1>11, <1>12, <1>13, <1>14 DEF SenderStep

(***************************************************************************)
(* What the receiver's buffer can hold after recvfrom and get_header: the  *)
(* eof header, a packet the right way round or one converted twice.        *)
(***************************************************************************)
LEMMA BufferAfterReceive ==
    ASSUME TypeOK, SenderInv, FlightInv, BufferInv, rcvPc = "select",
           NEW m \in toReceiver
    PROVE  LET buf == GetHeader(Fill(rcvBuffer, m))
           IN  /\ buf \in Buffer
               /\ ~buf.magic => ~buf.eof
               /\ buf.magic /\ buf.eof =>
                    buf.sequence = Blocks + 1 /\ Payload(buf) = None /\ sndPc = "exited"
               /\ buf.magic /\ ~buf.eof =>
                    /\ buf.block \in Block /\ buf.block < sndSequence
                    /\ buf.block <= lastAcked + WindowSize
                    /\ IF buf.hostOrder
                       THEN buf.sequence = buf.block /\ Payload(buf) = buf.block
                       ELSE /\ buf.sequence = ByteSwap[buf.block] /\ Payload(buf) = Garbage
                            /\ Blocks < WindowSize
<1> DEFINE buf == GetHeader(Fill(rcvBuffer, m))
<1> USE ConstantsAssumption
<1>1. rcvBuffer \in Buffer /\ m \in Datagram /\ ArrivalInv(m)
  BY DEF TypeOK, FlightInv
<1>2. ~rcvBuffer.eof /\ (rcvBuffer.magic => rcvBuffer.block \in Block)
  BY DEF BufferInv
<1>3. /\ \A q \in Block : q \in Word /\ q # None
      /\ Blocks + 1 \in Word
  BY DEF Block, Word, None
<1>4. CASE m.kind = "empty"
  <2>1. buf = [rcvBuffer EXCEPT !.sequence = ByteSwap[@], !.hostOrder = ~@]
    BY <1>4 DEF GetHeader, Fill
  <2>2. /\ buf \in Buffer
        /\ buf.magic = rcvBuffer.magic /\ buf.eof = rcvBuffer.eof
        /\ buf.block = rcvBuffer.block /\ buf.hostOrder = ~rcvBuffer.hostOrder
        /\ buf.sequence = ByteSwap[rcvBuffer.sequence]
    BY <1>1, <2>1, ByteSwapWord DEF Buffer
  <2> HIDE DEF buf
  <2>3. Blocks < WindowSize  BY <1>1, <1>4 DEF ArrivalInv
  <2>4. rcvBuffer.magic =>
          /\ rcvBuffer.block < sndSequence /\ rcvBuffer.block <= lastAcked + WindowSize
          /\ IF rcvBuffer.hostOrder THEN rcvBuffer.sequence = rcvBuffer.block
             ELSE rcvBuffer.sequence = ByteSwap[rcvBuffer.block]
    BY <1>2 DEF BufferInv
  <2>5. rcvBuffer.magic =>
          ByteSwap[ByteSwap[rcvBuffer.block]] = rcvBuffer.block
    BY <1>2, <1>3, ByteSwapWord
  <2> QED BY <1>2, <1>3, <2>2, <2>3, <2>4, <2>5 DEF Payload, buf
<1>5. CASE m.kind # "empty"
  <2>1. Fill(rcvBuffer, m) = [magic |-> TRUE, eof |-> m.kind = "eof", hostOrder |-> FALSE,
                              sequence |-> m.sequence, block |-> m.block]
    BY <1>5 DEF Fill
  <2>2. /\ buf \in Buffer /\ buf.magic /\ buf.hostOrder
        /\ buf.eof = (m.kind = "eof")
        /\ buf.sequence = ByteSwap[m.sequence] /\ buf.block = m.block
    <3> DEFINE filled == Fill(rcvBuffer, m)
    <3>1. /\ filled \in Buffer /\ filled.magic /\ ~filled.hostOrder
          /\ filled.eof = (m.kind = "eof")
          /\ filled.sequence = m.sequence /\ filled.block = m.block
      BY <1>1, <2>1 DEF Buffer, Datagram
    <3> HIDE DEF filled
    <3>2. /\ buf \in Buffer
          /\ buf.magic = filled.magic /\ buf.eof = filled.eof
          /\ buf.block = filled.block /\ buf.hostOrder = ~filled.hostOrder
          /\ buf.sequence = ByteSwap[filled.sequence]
      <4>1. buf = [filled EXCEPT !.sequence = ByteSwap[@], !.hostOrder = ~@]
        BY DEF GetHeader, filled
      <4> HIDE DEF buf
      <4> QED BY <3>1, <4>1, ByteSwapWord DEF Buffer
    <3> HIDE DEF buf
    <3> QED BY <3>1, <3>2
  <2> HIDE DEF buf
  <2>3. CASE m.kind = "eof"
    <3>1. m.sequence = ByteSwap[Blocks + 1] /\ m.block = None /\ sndPc = "exited"
      BY <1>1, <2>3 DEF ArrivalInv, MakeHeader
    <3>2. ByteSwap[m.sequence] = Blocks + 1  BY <1>3, <3>1, ByteSwapWord
    <3> QED BY <2>2, <2>3, <3>1, <3>2 DEF Payload, buf
  <2>4. CASE m.kind = "data"
    <3>1. /\ m.block \in Block /\ m.sequence = ByteSwap[m.block]
          /\ m.block < sndSequence /\ m.block <= lastAcked + WindowSize
      BY <1>1, <2>4 DEF ArrivalInv
    <3>2. ByteSwap[m.sequence] = m.block  BY <1>3, <3>1, ByteSwapWord
    <3> QED BY <2>2, <2>4, <3>1, <3>2 DEF Payload, buf
  <2> QED BY <1>1, <1>5, <2>3, <2>4 DEF Datagram
<1> QED BY <1>4, <1>5

(* Everything in flight stays possible when the receiver alone moves on. *)
LEMMA ReceiverFrame ==
    ASSUME TypeOK, SenderInv, FlightInv, UNCHANGED senderVars,
           Promised' \in Int, Promised <= Promised', rcvSequence \in Int,
           toReceiver' \subseteq toReceiver
    PROVE  /\ SenderInv'
           /\ toSender' = toSender => FlightInv'
<1>1. Promised \in Int  BY DEF Promised
<1>2. SenderInv'
  BY <1>1 DEF SenderInv, senderVars, TypeOK, Word, Finished
<1>3. \A m : ArrivalInv(m) => ArrivalInv(m)'
  BY DEF ArrivalInv, senderVars
<1>4. \A a \in toSender : ByteSwap[a.sequence] \in Word
  BY ByteSwapWord DEF TypeOK, Ack
<1>5. ASSUME toSender' = toSender PROVE FlightInv'
  BY <1>1, <1>3, <1>4, <1>5 DEF FlightInv, Word
<1> QED BY <1>2, <1>5

(* Receiving one datagram keeps the invariant. *)
LEMMA ReceiveKeepsInv ==
    ASSUME CleanStream, TransferInv, NEW m \in toReceiver, ReceivePacket(m),
           UNCHANGED senderVars, TypeOK'
    PROVE  TransferInv'
<1> DEFINE buf == GetHeader(Fill(rcvBuffer, m))
<1> USE ConstantsAssumption
<1>1. TypeOK /\ SenderInv /\ FlightInv /\ BufferInv /\ KeptInv /\ OutputIsPrefix
  BY DEF TransferInv
<1>2. /\ rcvPc = "select" /\ rcvBuffer' = buf
      /\ HandleReceivedPacket(buf)
      /\ toReceiver' \subseteq toReceiver /\ toSender' = toSender
  BY DEF ReceivePacket, Remaining
<1>3. /\ buf \in Buffer
      /\ ~buf.magic => ~buf.eof
      /\ buf.magic /\ buf.eof =>
           buf.sequence = Blocks + 1 /\ Payload(buf) = None /\ sndPc = "exited"
      /\ buf.magic /\ ~buf.eof =>
           /\ buf.block \in Block /\ buf.block < sndSequence
           /\ buf.block <= lastAcked + WindowSize
           /\ IF buf.hostOrder
              THEN buf.sequence = buf.block /\ Payload(buf) = buf.block
              ELSE /\ buf.sequence = ByteSwap[buf.block] /\ Payload(buf) = Garbage
                   /\ Blocks < WindowSize
  BY <1>1, <1>2, BufferAfterReceive
<1> HIDE DEF buf
<1>4. /\ rcvSequence = Len(output) + 1 /\ rcvSequence <= sndSequence
      /\ Promised = rcvSequence
  BY <1>1, <1>2 DEF BufferInv, Promised
<1>5. /\ rcvSequence \in Nat /\ sndSequence \in 1 .. Blocks + 1 /\ lastAcked \in Nat
      /\ Len(output) \in Nat /\ Blocks \in Nat /\ WindowSize \in Nat \ {0}
      /\ rcvSequence < MaxWord
      /\ rcvSequence \in Word
      /\ lastAcked <= rcvSequence
  <2>1. Len(output) \in Nat  BY <1>1 DEF TypeOK
  <2> QED BY <1>1, <1>4, <2>1 DEF TypeOK, Word, SenderInv
<1>6. sndSequence' = sndSequence /\ lastAcked' = lastAcked /\ sndPc' = sndPc
  BY DEF senderVars
<1>7. SUFFICES Promised' = Promised /\ BufferInv' /\ KeptInv' /\ OutputIsPrefix'
  BY <1>1, <1>2, <1>4, <1>5, ReceiverFrame DEF TransferInv
<1>8. CASE ~buf.magic
  <2>1. UNCHANGED <<rcvSequence, stored, output, rcvPc>>
    BY <1>2, <1>8 DEF HandleReceivedPacket
  <2> QED BY <1>1, <1>2, <1>3, <1>4, <1>6, <1>8, <2>1
          DEF Promised, BufferInv, KeptInv, OutputIsPrefix
<1>9. CASE buf.magic /\ buf.eof
  <2>1. rcvSequence = Blocks + 1
    <3>1. lastAcked = Blocks + 1
      BY <1>1, <1>3, <1>5, <1>9 DEF SenderInv, Finished
    <3> QED BY <1>4, <1>5, <3>1
  <2>2. WriteInOrder(buf)
    BY <1>2, <1>3, <1>5, <1>9, <2>1
    DEF HandleReceivedPacket, WriteData, StoreOutOfOrder, Ignore
  <2>3. /\ output' = output /\ stored' = stored /\ rcvPc' = "drain"
        /\ rcvSequence' = Blocks + 2
    BY <1>3, <1>5, <1>9, <2>1, <2>2, IncrementWord DEF WriteInOrder, Write
  <2>4. Promised' = Promised  BY <1>4, <1>5, <2>1, <2>3 DEF Promised
  <2>5. BufferInv'
    BY <1>2, <1>3, <1>4, <1>5, <1>6, <1>9, <2>1, <2>3 DEF BufferInv
  <2> QED BY <1>1, <1>6, <2>3, <2>4, <2>5 DEF KeptInv, OutputIsPrefix
<1>10. CASE buf.magic /\ ~buf.eof /\ buf.sequence = rcvSequence
  <2>1. buf.hostOrder
    <3> SUFFICES ASSUME ~buf.hostOrder PROVE FALSE
      OBVIOUS
    <3>1. ByteSwap[buf.block] > Blocks + 2  BY <1>3, <1>10, SwapsMiss
    <3> QED BY <1>3, <1>4, <1>5, <1>10, <3>1
  <2>2. buf.block = rcvSequence /\ Payload(buf) = rcvSequence /\ rcvSequence < sndSequence
    BY <1>3, <1>10, <2>1
  <2>3. WriteInOrder(buf)
    BY <1>2, <1>5, <1>10 DEF HandleReceivedPacket, WriteData, StoreOutOfOrder, Ignore
  <2>4. /\ stored' = stored /\ rcvPc' = "drain" /\ Write(rcvSequence)
        /\ rcvSequence' = rcvSequence + 1
    BY <1>5, <2>2, <2>3, IncrementWord DEF WriteInOrder
  <2>5. /\ output \in Seq(Block \cup {Garbage})
        /\ rcvSequence \in Block /\ rcvSequence # None
    BY <1>1, <1>3, <1>10, <2>2 DEF TypeOK, Block, None
  <2>6. /\ Len(output') = Len(output) + 1
        /\ output'[Len(output) + 1] = rcvSequence
        /\ \A k \in 1 .. Len(output) : output'[k] = output[k]
    BY <2>4, <2>5, WriteEffect
  <2>7. OutputIsPrefix'
    BY <1>1, <1>4, <1>5, <2>6 DEF OutputIsPrefix
  <2>8. Promised' = Promised  BY <1>4, <1>5, <2>4 DEF Promised
  <2>9. BufferInv'
    BY <1>2, <1>3, <1>4, <1>5, <1>6, <1>10, <2>1, <2>2, <2>4, <2>6 DEF BufferInv
  <2> QED BY <1>1, <1>6, <2>4, <2>7, <2>8, <2>9 DEF KeptInv
<1>11. CASE buf.magic /\ ~buf.eof /\ buf.sequence # rcvSequence
  <2> DEFINE slot == SlotOf(buf.sequence)
  <2>1. StoreOutOfOrder(buf) \/ Ignore(buf)
    BY <1>2, <1>11 DEF HandleReceivedPacket, WriteData, WriteInOrder
  <2>2. UNCHANGED <<rcvSequence, output>>
    BY <2>1 DEF StoreOutOfOrder, Ignore
  <2>3. rcvPc' = "ack" => Promised' = Promised /\ BufferInv' /\ OutputIsPrefix'
    BY <1>1, <1>2, <1>3, <1>4, <1>6, <1>11, <2>2 DEF Promised, BufferInv, OutputIsPrefix
  <2>4. CASE Ignore(buf)
    <3>1. rcvPc' = "ack" /\ stored' = stored  BY <2>4 DEF Ignore
    <3> QED BY <1>1, <1>6, <2>3, <3>1 DEF KeptInv
  <2>5. CASE StoreOutOfOrder(buf) /\ buf.hostOrder
    <3>1. buf.sequence = buf.block /\ Payload(buf) = buf.block /\ buf.block # Garbage
          /\ buf.block \in Nat
      BY <1>3, <1>11, <2>5 DEF Block, Garbage
    <3>2. StoreInSlot(buf, slot) /\ rcvSequence < buf.block
      BY <2>5, <3>1, <1>5 DEF StoreOutOfOrder, StoreOverrun, StorePastEnd
    <3>3. rcvPc' = "ack" /\ stored' = [stored EXCEPT ![slot] = buf.block]
      BY <3>1, <3>2 DEF StoreInSlot
    <3>4. slot = SlotOf(buf.block)  BY <3>1
    <3>5. ASSUME NEW s \in Slots
          PROVE  /\ stored'[s] \in Block =>
                      /\ SlotOf(stored'[s]) = s /\ stored'[s] < sndSequence
                      /\ Promised < stored'[s] /\ stored'[s] <= Promised + WindowSize
                 /\ stored'[s] = Garbage => Blocks < WindowSize /\ SwappedSlot(s)
      <4>1. CASE s = slot
        <5>1. stored'[s] = buf.block  BY <1>1, <3>3, <4>1 DEF TypeOK
        <5>2. buf.block < sndSequence /\ buf.block <= lastAcked + WindowSize
          BY <1>3, <1>11
        <5>3. buf.block <= Promised + WindowSize /\ Promised < buf.block
          BY <1>4, <1>5, <3>1, <3>2, <5>2
        <5> QED BY <3>1, <3>4, <4>1, <5>1, <5>2, <5>3
      <4>2. CASE s # slot
        <5>1. stored'[s] = stored[s]  BY <1>1, <3>3, <4>2 DEF TypeOK
        <5> QED BY <1>1, <5>1 DEF KeptInv
      <4> QED BY <4>1, <4>2
    <3>6. Promised' = Promised  BY <2>3, <3>3
    <3>7. KeptInv'  BY <1>6, <3>5, <3>6 DEF KeptInv, SwappedSlot, SlotOf, Slots, Block
    <3> QED BY <2>3, <3>3, <3>7
  <2>6. CASE StoreOutOfOrder(buf) /\ ~buf.hostOrder
    <3>1. /\ buf.block \in Block /\ slot = SlotOf(ByteSwap[buf.block])
          /\ Payload(buf) = Garbage /\ Blocks < WindowSize
      BY <1>3, <1>11, <2>6
    <3>2. slot + Spill < WindowSize  BY <3>1, SwapsMiss
    <3>3. slot \in Nat
      BY <1>3, SlotOfType DEF Buffer, Word, Slots
    <3>4. StoreOverrun(buf, slot)
      BY <2>6, <3>1, <3>2, <3>3 DEF StoreOutOfOrder, StoreInSlot, StorePastEnd
    <3>5. rcvPc' = "ack"  BY <3>4 DEF StoreOverrun
    <3>6. PICK over \in 0 .. Spill :
            stored' = [s \in Slots |->
                         IF s = slot \/ (s \in slot .. slot + over /\ stored[s] # None)
                         THEN Garbage ELSE stored[s]]
      BY <3>4 DEF StoreOverrun
    <3>7. ASSUME NEW s \in Slots
          PROVE  stored'[s] = stored[s] \/ (stored'[s] = Garbage /\ SwappedSlot(s))
      <4>1. CASE s \in slot .. slot + over
        <5>1. s - slot \in 0 .. Spill /\ s = slot + (s - slot)
          BY <3>3, <3>6, <4>1 DEF Slots
        <5>2. SwappedSlot(s)  BY <3>1, <5>1 DEF SwappedSlot
        <5> QED BY <3>6, <5>2
      <4>2. CASE s \notin slot .. slot + over
        BY <3>3, <3>6, <4>2
      <4> QED BY <4>1, <4>2
    <3>8. Promised' = Promised  BY <2>3, <3>5
    <3>9. Garbage \notin Block  BY DEF Garbage, Block
    <3>10. KeptInv'
      BY <1>1, <1>6, <3>1, <3>7, <3>8, <3>9 DEF KeptInv, SwappedSlot, SlotOf, Slots, Block
    <3> QED BY <2>3, <3>5, <3>10
  <2> QED BY <2>1, <2>4, <2>5, <2>6
<1> QED BY <1>8, <1>9, <1>10, <1>11

(* Writing a kept block keeps the invariant: it is the block that is due. *)
LEMMA DrainKeepsInv ==
    ASSUME CleanStream, TransferInv, DrainSlot, UNCHANGED senderVars, TypeOK'
    PROVE  TransferInv' /\ ~rcvBuffer.eof /\ output' = Append(output, Len(output) + 1)
<1> DEFINE slot == SlotOf(rcvSequence)
<1> USE ConstantsAssumption
<1>1. TypeOK /\ SenderInv /\ FlightInv /\ BufferInv /\ KeptInv /\ OutputIsPrefix
  BY DEF TransferInv
<1>2. /\ rcvPc = "drain" /\ rcvPc' = "drain" /\ rcvBuffer' = rcvBuffer
      /\ stored[slot] # None /\ Write(stored[slot])
      /\ stored' = [stored EXCEPT ![slot] = None]
      /\ toReceiver' = toReceiver /\ toSender' = toSender
      /\ rcvSequence' = Increment(rcvSequence)
  BY DEF DrainSlot, networkVars
<1>3. /\ rcvSequence \in Nat /\ WindowSize \in Nat \ {0} /\ Blocks \in Nat
      /\ Promised = rcvSequence - 1
      /\ slot \in Slots /\ Len(output) \in Nat
  <2>1. Len(output) \in Nat  BY <1>1 DEF TypeOK
  <2> QED BY <1>1, <1>2, <2>1, SlotOfType DEF TypeOK, Word, Promised
<1>4. rcvSequence \in 1 .. Blocks + 2
  BY <1>1, <1>3 DEF BufferInv, TypeOK
<1>5. stored[slot] \in Block
  <2>1. stored[slot] \in Block \cup {None, Garbage}  BY <1>1, <1>3 DEF TypeOK
  <2>2. stored[slot] # Garbage
    <3> SUFFICES ASSUME stored[slot] = Garbage PROVE FALSE
      OBVIOUS
    <3>1. Blocks < WindowSize /\ SwappedSlot(slot)  BY <1>1, <1>3 DEF KeptInv
    <3> QED BY <1>4, <3>1, SwapsMiss
  <2> QED BY <1>2, <2>1, <2>2
<1>6. stored[slot] = rcvSequence
  <2>1. /\ SlotOf(stored[slot]) = SlotOf(rcvSequence)
        /\ rcvSequence - 1 < stored[slot] /\ stored[slot] <= rcvSequence - 1 + WindowSize
    BY <1>1, <1>3, <1>5 DEF KeptInv
  <2>2. stored[slot] \in Nat  BY <1>5 DEF Block
  <2> DEFINE kept == stored[slot]
  <2>3. kept % WindowSize = rcvSequence % WindowSize
    BY <2>1 DEF SlotOf
  <2> HIDE DEF kept
  <2>4. kept \in Nat /\ kept < rcvSequence + WindowSize /\ rcvSequence < kept + WindowSize
    BY <1>3, <2>1, <2>2 DEF kept
  <2>5. kept = rcvSequence  BY <1>3, <2>3, <2>4, SameSlot
  <2> QED BY <2>5 DEF kept
<1>7. rcvSequence < sndSequence
  BY <1>1, <1>3, <1>5, <1>6 DEF KeptInv
<1>8. ~rcvBuffer.eof
  BY <1>1, <1>3, <1>5, <1>6 DEF BufferInv, Block
<1>9. rcvSequence = Len(output) + 1
  BY <1>1, <1>8 DEF BufferInv
<1>10. rcvSequence' = rcvSequence + 1 /\ Promised' = rcvSequence
  <2>1. rcvSequence \in Word /\ rcvSequence < MaxWord  BY <1>3, <1>4 DEF Word
  <2>2. rcvSequence' = rcvSequence + 1  BY <1>2, <2>1, IncrementWord
  <2> QED BY <1>2, <1>3, <2>2 DEF Promised
<1>11. sndSequence' = sndSequence /\ lastAcked' = lastAcked /\ sndPc' = sndPc
  BY DEF senderVars
<1>12. /\ Len(output') = Len(output) + 1
       /\ output'[Len(output) + 1] = rcvSequence
       /\ \A k \in 1 .. Len(output) : output'[k] = output[k]
  <2>1. output \in Seq(Block \cup {Garbage})  BY <1>1 DEF TypeOK
  <2> QED BY <1>2, <1>5, <1>6, <2>1, WriteEffect DEF Block, None
<1>13. OutputIsPrefix'
  BY <1>1, <1>3, <1>9, <1>12 DEF OutputIsPrefix
<1>14. BufferInv'
  <2>1. rcvSequence' <= sndSequence'
    BY <1>1, <1>3, <1>7, <1>10, <1>11 DEF TypeOK
  <2> QED BY <1>1, <1>2, <1>3, <1>8, <1>9, <1>10, <1>11, <1>12, <2>1 DEF BufferInv
<1>15. KeptInv'
  <2> SUFFICES ASSUME NEW s \in Slots
               PROVE  /\ stored'[s] \in Block =>
                           /\ SlotOf(stored'[s]) = s /\ stored'[s] < sndSequence
                           /\ rcvSequence < stored'[s]
                           /\ stored'[s] <= rcvSequence + WindowSize
                      /\ stored'[s] = Garbage => Blocks < WindowSize /\ SwappedSlot(s)
    BY <1>10, <1>11 DEF KeptInv, SwappedSlot, SlotOf, Slots, Block
  <2>1. CASE s = slot
    <3>1. stored'[s] = None  BY <1>1, <1>2, <2>1 DEF TypeOK
    <3> QED BY <3>1 DEF None, Block, Garbage
  <2>2. CASE s # slot
    <3>1. stored'[s] = stored[s]  BY <1>1, <1>2, <2>2 DEF TypeOK
    <3>2. stored[s] \in Block => stored[s] \in Nat /\ stored[s] # rcvSequence
      BY <1>1, <2>2 DEF KeptInv, Block
    <3> QED BY <1>1, <1>3, <3>1, <3>2 DEF KeptInv
  <2> QED BY <2>1, <2>2
<1>16. SenderInv' /\ FlightInv'
  BY <1>1, <1>2, <1>3, <1>10, ReceiverFrame
<1>17. output' = Append(output, Len(output) + 1)
  BY <1>2, <1>6, <1>9 DEF Write
<1> QED BY <1>8, <1>13, <1>14, <1>15, <1>16, <1>17 DEF TransferInv

(* Answering keeps the invariant: nothing is promised that is not written. *)
LEMMA AckKeepsInv ==
    ASSUME CleanStream, TransferInv, NEW lost \in BOOLEAN, SendAck(lost),
           UNCHANGED senderVars, TypeOK'
    PROVE  TransferInv'
<1> USE ConstantsAssumption
<1>1. TypeOK /\ SenderInv /\ FlightInv /\ BufferInv /\ KeptInv /\ OutputIsPrefix
  BY DEF TransferInv
<1>2. /\ Answering
      /\ toSender' = Transmit(toSender, MakeAck(rcvSequence), lost)
      /\ rcvPc' = IF rcvBuffer.eof THEN "exited" ELSE "select"
      /\ UNCHANGED <<rcvSequence, stored, rcvBuffer, output, toReceiver>>
  BY DEF SendAck
<1>3. sndSequence' = sndSequence /\ lastAcked' = lastAcked /\ sndPc' = sndPc
  BY DEF senderVars
<1>4. /\ rcvSequence \in Nat /\ rcvSequence \in Word
      /\ Promised' = rcvSequence /\ Promised <= rcvSequence /\ Promised \in Int
      /\ Promised = rcvSequence \/ (Promised = rcvSequence - 1
                                     /\ stored[SlotOf(rcvSequence)] = None)
  BY <1>1, <1>2 DEF TypeOK, Word, Promised, Answering
<1>5. SenderInv'  BY <1>1, <1>2, <1>4, ReceiverFrame
<1>6. OutputIsPrefix' /\ BufferInv'
  BY <1>1, <1>2, <1>3 DEF OutputIsPrefix, BufferInv
<1>7. KeptInv'
  <2>1. ASSUME NEW s \in Slots, stored[s] \in Block
        PROVE  rcvSequence < stored[s] /\ stored[s] <= rcvSequence + WindowSize
    <3>1. stored[s] \in Nat /\ stored[s] # None  BY <2>1 DEF Block, None
    <3>2. SlotOf(stored[s]) = s /\ Promised < stored[s] /\ stored[s] <= Promised + WindowSize
      BY <1>1, <2>1 DEF KeptInv
    <3> QED BY <1>4, <3>1, <3>2
  <2> QED BY <1>1, <1>2, <1>3, <1>4, <2>1 DEF KeptInv, SwappedSlot, SlotOf, Slots, Block
<1>8. FlightInv'
  <2>1. ByteSwap[MakeAck(rcvSequence).sequence] = rcvSequence
    BY <1>4, ByteSwapWord DEF MakeAck
  <2>2. \A a \in toSender : ByteSwap[a.sequence] \in Int /\ ByteSwap[a.sequence] <= Promised
    BY <1>1, ByteSwapWord DEF FlightInv, TypeOK, Ack, Word
  <2>3. \A a \in toSender' : ByteSwap[a.sequence] <= rcvSequence
    BY <1>2, <1>4, <2>1, <2>2 DEF Transmit
  <2>4. \A m \in toReceiver' : ArrivalInv(m)'
    BY <1>1, <1>2, <1>3 DEF FlightInv, ArrivalInv
  <2> QED BY <1>4, <2>3, <2>4 DEF FlightInv
<1> QED BY <1>5, <1>6, <1>7, <1>8 DEF TransferInv

(* Giving up keeps the invariant. *)
LEMMA TimeoutKeepsInv ==
    ASSUME TransferInv, ReceiverTimeout, TypeOK' PROVE TransferInv'
<1>1. UNCHANGED <<sndSequence, lastAcked, window, packetLengths, done, sndPc, sendIndex,
                  rcvSequence, stored, rcvBuffer, output, toReceiver, toSender>>
      /\ rcvPc = "select" /\ rcvPc' = "failed"
  BY DEF ReceiverTimeout, senderVars, networkVars
<1>2. Promised' = Promised  BY <1>1 DEF Promised
<1>3. SenderInv' /\ FlightInv' /\ KeptInv' /\ OutputIsPrefix'
  BY <1>1, <1>2 DEF TransferInv, SenderInv, FlightInv, ArrivalInv, KeptInv, SwappedSlot,
                    OutputIsPrefix, Finished
<1>4. BufferInv'
  BY <1>1 DEF TransferInv, BufferInv
<1> QED BY <1>3, <1>4 DEF TransferInv

LEMMA NextKeepsInv == CleanStream /\ TransferInv /\ [Next]_vars => TransferInv'
<1> SUFFICES ASSUME CleanStream, TransferInv, [Next]_vars PROVE TransferInv'
  OBVIOUS
<1>1. TypeOK  BY DEF TransferInv
<1>2. CASE BySender(SenderStep)  BY <1>2, SenderKeepsInv
<1>3. CASE ByReceiver(ReceiverStep)
  <2>1. TypeOK'  BY <1>1, <1>3, ReceiverTypeOK
  <2>2. UNCHANGED senderVars  BY <1>3 DEF ByReceiver
  <2> QED BY <1>3, <2>1, <2>2, ReceiveKeepsInv, DrainKeepsInv, AckKeepsInv
          DEF ByReceiver, ReceiverStep
<1>4. CASE ReceiverTimeout
  <2>1. TypeOK'  BY <1>1, <1>4, ReceiverTypeOK
  <2> QED BY <1>4, <2>1, TimeoutKeepsInv
<1>5. CASE UNCHANGED vars
  BY <1>5 DEF vars, TransferInv, TypeOK, SenderInv, FlightInv, ArrivalInv, BufferInv,
              KeptInv, SwappedSlot, OutputIsPrefix, Promised, Finished
<1> QED BY <1>2, <1>3, <1>4, <1>5 DEF Next

(***************************************************************************)
(* The inductive invariant holds of every transfer of a clean stream.      *)
(***************************************************************************)
THEOREM InvariantHolds == CleanStream => (Spec => []TransferInv)
<1> SUFFICES ASSUME CleanStream PROVE Spec => []TransferInv
  OBVIOUS
<1>1. TransferInv /\ [Next]_vars => TransferInv'  BY NextKeepsInv
<1> QED BY <1>1, InitInv, PTL DEF Spec

(***************************************************************************)
(* Integrity: whatever is lost, reordered, duplicated or retransmitted,    *)
(* the receiver's stdout is a prefix of the sender's stdin (write_data).   *)
(***************************************************************************)
THEOREM Integrity == CleanStream => (Spec => []OutputIsPrefix)
<1>1. TransferInv => OutputIsPrefix  BY DEF TransferInv
<1> QED BY <1>1, InvariantHolds, PTL

(* Promises are at most one above what is written. *)
LEMMA InvGivesAcked == TransferInv => AckedIsWritten
<1> SUFFICES ASSUME TransferInv PROVE AckedIsWritten
  OBVIOUS
<1> USE ConstantsAssumption
<1>1. TypeOK /\ SenderInv /\ FlightInv /\ BufferInv  BY DEF TransferInv
<1>2. Len(output) \in Nat /\ rcvSequence \in Nat /\ lastAcked \in Nat
      /\ sndSequence \in Nat
  <2>1. Len(output) \in Nat  BY <1>1 DEF TypeOK
  <2> QED BY <1>1, <2>1 DEF TypeOK, Word
<1>3. rcvPc # "exited" => Promised <= Len(output) + 1
  BY <1>1, <1>2 DEF BufferInv, Promised
<1>4. lastAcked <= Len(output) + 1
  <2>1. CASE rcvPc # "exited"
    BY <1>1, <1>2, <1>3, <2>1 DEF SenderInv, Promised
  <2>2. CASE rcvPc = "exited"
    BY <1>1, <1>2, <2>2 DEF SenderInv, BufferInv, Finished
  <2> QED BY <2>1, <2>2
<1>5. \A a \in toSender : ByteSwap[a.sequence] \in Int /\ ByteSwap[a.sequence] <= Promised
  BY <1>1, ByteSwapWord DEF FlightInv, TypeOK, Ack, Word
<1> QED BY <1>2, <1>3, <1>4, <1>5 DEF AckedIsWritten, Promised

(* The sender is sure of the end only when the receiver is there. *)
LEMMA InvGivesSuccess == TransferInv => SuccessMeansDelivered
<1> SUFFICES ASSUME TransferInv PROVE SuccessMeansDelivered
  OBVIOUS
<1> USE ConstantsAssumption
<1>1. TypeOK /\ SenderInv /\ BufferInv  BY DEF TransferInv
<1>2. Len(output) \in Nat /\ rcvSequence \in Nat /\ lastAcked \in Nat
  <2>1. Len(output) \in Nat  BY <1>1 DEF TypeOK
  <2> QED BY <1>1, <2>1 DEF TypeOK, Word
<1>3. CASE rcvBuffer.eof
  BY <1>1, <1>3 DEF BufferInv, SuccessMeansDelivered
<1>4. CASE ~rcvBuffer.eof
  BY <1>1, <1>2, <1>4 DEF SenderInv, BufferInv, Promised, Finished, SuccessMeansDelivered
<1> QED BY <1>3, <1>4

(* Two blocks of one slot are at least a window apart. *)
LEMMA InvGivesHeld == CleanStream /\ TransferInv => IgnoredIsHeld
<1> SUFFICES ASSUME CleanStream, TransferInv, NEW m \in toReceiver, m.kind = "data",
                    ByteSwap[m.sequence] > rcvSequence,
                    stored[SlotOf(ByteSwap[m.sequence])] # None
             PROVE  stored[SlotOf(ByteSwap[m.sequence])] = m.block
  BY DEF IgnoredIsHeld
<1> USE ConstantsAssumption
<1>1. TypeOK /\ SenderInv /\ FlightInv /\ KeptInv  BY DEF TransferInv
<1>2. /\ m.block \in Block /\ m.sequence = ByteSwap[m.block]
      /\ m.block <= lastAcked + WindowSize
  BY <1>1 DEF FlightInv, ArrivalInv
<1>3. ByteSwap[m.sequence] = m.block
  BY <1>2, ByteSwapWord DEF Block, Word
<1> DEFINE slot == SlotOf(m.block)
           held == stored[slot]
<1>4. m.block \in Nat /\ slot \in Slots  BY <1>2, SlotOfType DEF Block
<1>5. held \in Block
  <2>1. held \in Block \cup {None, Garbage} /\ held # None
    BY <1>1, <1>3, <1>4 DEF TypeOK
  <2>2. held # Garbage
    <3> SUFFICES ASSUME held = Garbage PROVE FALSE
      OBVIOUS
    <3>1. Blocks < WindowSize /\ SwappedSlot(slot)  BY <1>1, <1>4 DEF KeptInv
    <3>2. m.block \in 1 .. Blocks + 2  BY <1>2 DEF Block
    <3> QED BY <3>1, <3>2, SwapsMiss
  <2> QED BY <2>1, <2>2
<1>6. /\ SlotOf(held) = slot /\ Promised < held /\ held <= Promised + WindowSize
  BY <1>1, <1>4, <1>5 DEF KeptInv
<1>7. held % WindowSize = m.block % WindowSize  BY <1>6 DEF SlotOf
<1>8. held \in Nat  BY <1>5 DEF Block
<1> HIDE DEF held
<1>9. Promised \in Int /\ Promised < m.block /\ m.block <= Promised + WindowSize
  BY <1>1, <1>2, <1>3, <1>4 DEF TypeOK, Word, SenderInv, Promised
<1>10. held < m.block + WindowSize /\ m.block < held + WindowSize
  BY <1>4, <1>6, <1>8, <1>9
<1>11. held = m.block
  BY <1>4, <1>7, <1>8, <1>10, SameSlot
<1> QED BY <1>3, <1>11 DEF held

(***************************************************************************)
(* Nothing is acknowledged before it is on stdout (handle_received_packet, *)
(* receive_acknowledgements).                                              *)
(***************************************************************************)
THEOREM AckSoundness == CleanStream => (Spec => []AckedIsWritten)
BY InvGivesAcked, InvariantHolds, PTL

(***************************************************************************)
(* A program that ends with status 0 does so after all blocks are written  *)
(* (main of 3600send, handle_received_packet).                             *)
(***************************************************************************)
THEOREM SuccessSoundness == CleanStream => (Spec => []SuccessMeansDelivered)
BY InvGivesSuccess, InvariantHolds, PTL

(***************************************************************************)
(* The receiver's slots never make it ignore a block it does not hold      *)
(* (write_data).                                                           *)
(***************************************************************************)
THEOREM SlotsAreEnough == CleanStream => (Spec => []IgnoredIsHeld)
<1> SUFFICES ASSUME CleanStream PROVE Spec => []IgnoredIsHeld
  OBVIOUS
<1>1. TransferInv => IgnoredIsHeld  BY InvGivesHeld
<1> QED BY <1>1, InvariantHolds, PTL
==============================================================================
