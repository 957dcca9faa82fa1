------------------------------ MODULE MCTransfer ------------------------------
(***************************************************************************)
(* Byte swaps of small words, for TLC to check Transfer with.              *)
(***************************************************************************)
EXTENDS Transfer

(***************************************************************************)
(* Words of two digits in base 8: the digits change places.  With 5 slots  *)
(* the swapped number of packet 1, 8, falls on slot 3.                     *)
(***************************************************************************)
SwapDigits == [x \in Word |-> IF x < 64 THEN (x % 8) * 8 + x \div 8 ELSE x]

(***************************************************************************)
(* A swap that moves 1 .. Blocks to slot WindowSize - 1 - Spill: like the  *)
(* real one on at most 50 blocks it misses the slots the stream uses.      *)
(***************************************************************************)
SwapToTail ==
    LET tail(q) == WindowSize * (q + 1) - 1 - Spill
    IN  [x \in Word |->
            IF x \in Block THEN tail(x)
            ELSE IF \E q \in Block : tail(q) = x THEN CHOOSE q \in Block : tail(q) = x
            ELSE x]
==============================================================================
