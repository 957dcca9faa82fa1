---------------------------- MODULE ReliableStream ----------------------------
(***************************************************************************)
(* What 3600send and 3600recv together promise, with no packet, window or  *)
(* acknowledgement in it: the blocks of the input reach the output once    *)
(* each and in order, and neither program reports success before all of    *)
(* them are there.                                                         *)
(***************************************************************************)
EXTENDS Integers, Sequences

CONSTANT Blocks

VARIABLES
    output,    \* the blocks written so far
    sender,    \* "running", "succeeded" (exit status 0) or "failed"
    receiver

vars == <<output, sender, receiver>>

Complete == Len(output) = Blocks

Init == output = << >> /\ sender = "running" /\ receiver = "running"

DeliverNext ==
    /\ receiver = "running" /\ Len(output) < Blocks
    /\ output' = Append(output, Len(output) + 1)
    /\ UNCHANGED <<sender, receiver>>

SenderSucceeds ==
    /\ sender = "running" /\ Complete
    /\ sender' = "succeeded"
    /\ UNCHANGED <<output, receiver>>

SenderFails ==
    /\ sender = "running"
    /\ sender' = "failed"
    /\ UNCHANGED <<output, receiver>>

ReceiverSucceeds ==
    /\ receiver = "running" /\ Complete
    /\ sender = "succeeded"
    /\ receiver' = "succeeded"
    /\ UNCHANGED <<output, sender>>

ReceiverFails ==
    /\ receiver = "running"
    /\ receiver' = "failed"
    /\ UNCHANGED <<output, sender>>

Next ==
    \/ DeliverNext \/ SenderSucceeds \/ SenderFails
    \/ ReceiverSucceeds \/ ReceiverFails

Spec == Init /\ [][Next]_vars
==============================================================================
