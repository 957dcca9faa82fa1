------------------------------- MODULE Sender --------------------------------
(***************************************************************************)
(* 3600send (src/tcp/3600send.c): rounds of load the window, send it, and  *)
(* collect acknowledgements for about a second, until all of stdin is      *)
(* acknowledged; then five eof headers.                                    *)
(***************************************************************************)
EXTENDS Network

VARIABLES
    sndSequence,    \* sequence: the number the next block read will get
    lastAcked,      \* last_acked_packet: the largest acknowledgement seen
    window,         \* window: the number of the packet a slot points at,
                    \*   Blank after the first malloc, NullPointer at end of file
    packetLengths,  \* packet_lengths: 0, or 1 for a positive length
    done,           \* read returned 0
    sndPc,          \* where main is
    sendIndex       \* i of send_packets

senderVars == <<sndSequence, lastAcked, window, packetLengths, done, sndPc, sendIndex>>

Blank == 0
NullPointer == -1

SenderInit ==
    /\ sndSequence = 1
    /\ lastAcked = 0
    /\ window = [s \in Slots |-> Blank]
    /\ packetLengths = [s \in Slots |-> 0]
    /\ done = FALSE
    /\ sndPc = "load"
    /\ sendIndex = 0

-----------------------------------------------------------------------------
(* load_packets_into_window *)

\* mutant of WindowOpen: room for one packet more
WindowOpenTwice == Distance(sndSequence, lastAcked) < WindowSize + 2

WindowOpen == Distance(sndSequence, lastAcked) < WindowSize + 1

\* mutant of BeginSending: packet last_acked_packet counts as acknowledged
BeginSendingPastAck == sndPc' = "send" /\ sendIndex' = lastAcked + 1

BeginSending == sndPc' = "send" /\ sendIndex' = lastAcked

\* mutant of LoadPacket: read's result 0 is not told from data
LoadPacketPastEnd ==
    /\ sndPc = "load" /\ WindowOpen
    /\ sndSequence <= Blocks + 1
    /\ window' = [window EXCEPT ![SlotOf(sndSequence)] = sndSequence]
    /\ packetLengths' = [packetLengths EXCEPT ![SlotOf(sndSequence)] = 1]
    /\ sndSequence' = Increment(sndSequence)
    /\ UNCHANGED <<lastAcked, done, sndPc, sendIndex>>
    /\ UNCHANGED networkVars

LoadPacket ==
    /\ sndPc = "load" /\ WindowOpen
    /\ sndSequence <= Blocks
    /\ window' = [window EXCEPT ![SlotOf(sndSequence)] = sndSequence]
    /\ packetLengths' = [packetLengths EXCEPT ![SlotOf(sndSequence)] = 1]
    /\ sndSequence' = Increment(sndSequence)
    /\ UNCHANGED <<lastAcked, done, sndPc, sendIndex>>
    /\ UNCHANGED networkVars

\* mutant of LoadEndOfFile: the null pointer goes to the slot of the last packet
LoadEndOfFileInLastSlot ==
    /\ sndPc = "load" /\ WindowOpen
    /\ sndSequence > Blocks
    /\ window' = [window EXCEPT ![SlotOf(sndSequence - 1)] = NullPointer]
    /\ done' = TRUE
    /\ BeginSending
    /\ UNCHANGED <<sndSequence, lastAcked, packetLengths>>
    /\ UNCHANGED networkVars

LoadEndOfFile ==
    /\ sndPc = "load" /\ WindowOpen
    /\ sndSequence > Blocks
    /\ window' = [window EXCEPT ![SlotOf(sndSequence)] = NullPointer]
    /\ done' = TRUE
    /\ BeginSending
    /\ UNCHANGED <<sndSequence, lastAcked, packetLengths>>
    /\ UNCHANGED networkVars

WindowFull ==
    /\ sndPc = "load" /\ ~WindowOpen
    /\ BeginSending
    /\ UNCHANGED <<sndSequence, lastAcked, window, packetLengths, done>>
    /\ UNCHANGED networkVars

-----------------------------------------------------------------------------
(* send_packets *)

\* sendto(window[i], packet_lengths[i])
SlotDatagram(slot) ==
    IF packetLengths[slot] = 0 THEN EmptyDatagram
    ELSE MakeHeader("data", window[slot], window[slot])

\* sendto reads no byte through a null pointer when the length is 0
SendFaults(slot) == window[slot] = NullPointer /\ packetLengths[slot] > 0

SendPacket(i, lost) ==
    /\ sndPc = "send" /\ sendIndex = i /\ i < sndSequence
    /\ ~SendFaults(SlotOf(i))
    /\ toReceiver' = Transmit(toReceiver, SlotDatagram(SlotOf(i)), lost)
    /\ sendIndex' = Increment(i)
    /\ UNCHANGED <<sndSequence, lastAcked, window, packetLengths, done, sndPc,
                   toSender, quiet>>

\* sendto fails with EFAULT and the sender exits with status 1
SendFails ==
    /\ sndPc = "send" /\ sendIndex < sndSequence
    /\ SendFaults(SlotOf(sendIndex))
    /\ sndPc' = "failed"
    /\ UNCHANGED <<sndSequence, lastAcked, window, packetLengths, done, sendIndex>>
    /\ UNCHANGED networkVars

WindowSent ==
    /\ sndPc = "send" /\ sendIndex >= sndSequence
    /\ sndPc' = "acks"
    /\ UNCHANGED <<sndSequence, lastAcked, window, packetLengths, done, sendIndex>>
    /\ UNCHANGED networkVars

-----------------------------------------------------------------------------
(* receive_acknowledgements and the test at the end of main's loop *)

\* mutant of ReceiveAck: an old acknowledgement takes last_acked_packet back
ReceiveAnyAck(a) ==
    /\ sndPc = "acks"
    /\ a \in toSender
    /\ toSender' \in Remaining(toSender, a)
    /\ lastAcked' = ByteSwap[a.sequence]
    /\ UNCHANGED <<sndSequence, window, packetLengths, done, sndPc, sendIndex,
                   toReceiver, quiet>>

ReceiveAck(a) ==
    /\ sndPc = "acks"
    /\ a \in toSender
    /\ toSender' \in Remaining(toSender, a)
    /\ LET acked == ByteSwap[a.sequence]
       IN  lastAcked' = IF acked > lastAcked THEN acked ELSE lastAcked
    /\ UNCHANGED <<sndSequence, window, packetLengths, done, sndPc, sendIndex,
                   toReceiver, quiet>>

\* mutant of Finished: the end of stdin is enough
FinishedAtEndOfFile == done

Finished == lastAcked = sndSequence /\ done

\* select counts t down to 0 over the whole round (Linux updates t)
AckTimeout ==
    /\ sndPc = "acks"
    /\ sndPc' = IF Finished THEN "final" ELSE "load"
    /\ quiet' = IF quiet < Patience THEN quiet + 1 ELSE quiet
    /\ UNCHANGED <<sndSequence, lastAcked, window, packetLengths, done, sendIndex,
                   toReceiver, toSender>>

-----------------------------------------------------------------------------
(* send_final_packet: five equal headers, lost when all five are; main returns 0 *)

SendFinalPacket(lost) ==
    /\ sndPc = "final"
    /\ toReceiver' = Transmit(toReceiver, MakeHeader("eof", sndSequence, None), lost)
    /\ sndPc' = "exited"
    /\ UNCHANGED <<sndSequence, lastAcked, window, packetLengths, done, sendIndex,
                   toSender, quiet>>

SenderStep ==
    \/ LoadPacket \/ LoadEndOfFile \/ WindowFull
    \/ \E lost \in BOOLEAN : SendPacket(sendIndex, lost)
    \/ SendFails \/ WindowSent
    \/ \E a \in toSender : ReceiveAck(a)
    \/ AckTimeout
    \/ \E lost \in BOOLEAN : SendFinalPacket(lost)
==============================================================================
