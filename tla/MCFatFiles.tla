------------------------------ MODULE MCFatFiles -----------------------------
(***************************************************************************)
(* The filesystem on small disks.                                          *)
(***************************************************************************)
EXTENDS FatFiles

(***************************************************************************)
(* The words of the VCB: magic, blocksize, de_start, de_length, fat_start, *)
(* ...  Read as FAT entries none of them is an eof, and de_start is "used".*)
(* On the real disk they point at 120379059, 128, 0, 25, 25; here past the *)
(* FAT, and at low entries.                                                *)
(***************************************************************************)
VcbWords ==
    [b \in 0 .. PerFat - 1 |->
        CASE b = 0 -> [used |-> FALSE, eof |-> FALSE, next |-> FatSize]
          [] b = 1 -> [used |-> FALSE, eof |-> FALSE, next |-> 3]
          [] b = 2 -> [used |-> TRUE, eof |-> FALSE, next |-> 0]
          [] OTHER -> [used |-> FALSE, eof |-> FALSE, next |-> 1]]
==============================================================================
