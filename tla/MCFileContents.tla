---------------------------- MODULE MCFileContents ---------------------------
(***************************************************************************)
(* File contents on small disks.                                           *)
(***************************************************************************)
EXTENDS FileContents, MCFatFiles
==============================================================================
