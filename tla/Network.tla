------------------------------- MODULE Network -------------------------------
(***************************************************************************)
(* UDP between the two programs.  A datagram that is sent is lost, or is   *)
(* in flight until it is received; a received one is gone or, duplicated,  *)
(* still in flight.  Datagrams in flight have no order.                    *)
(***************************************************************************)
EXTENDS Datagrams

VARIABLES
    toReceiver,   \* datagrams in flight to the receiver
    toSender,     \* acknowledgements in flight to the sender
    quiet         \* sender rounds since the receiver last got a datagram

networkVars == <<toReceiver, toSender, quiet>>

NetworkInit == toReceiver = {} /\ toSender = {} /\ quiet = 0

Transmit(flight, m, lost) == IF lost THEN flight ELSE flight \cup {m}
Remaining(flight, m) == {flight, flight \ {m}}
==============================================================================
