--------------------------- MODULE MCCleanTransfer ----------------------------
(***************************************************************************)
(* Transfer on inputs whose zero-length datagrams are harmless.            *)
(***************************************************************************)
EXTENDS MCTransfer

ASSUME CleanAssumption == CleanStream
==============================================================================
