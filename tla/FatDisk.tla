------------------------------- MODULE FatDisk -------------------------------
(***************************************************************************)
(* The image file of the filesystem: the structures of                     *)
(* src/filesystem/3600fs.h as 3600mkfs.c lays them out, and how 3600fs.c   *)
(* saves one directory or FAT entry.  FAT blocks are counted through, so   *)
(* that entry number and data block number are the same.                   *)
(***************************************************************************)
EXTENDS Integers

CONSTANTS
    Names,       \* file names, different in their first 27 characters
    NoName,      \* the empty name: a deleted file's, and what "/" names
    Junk,        \* the name mkfs leaves uninitialized
    DirLength,   \* de_length, MAX_FILES
    FatSize,     \* number of FAT entries and data blocks
    PerFat,      \* DATA_BLOCKS_PER_FAT
    BlockSize,   \* BLOCKSIZE
    MaxSize,     \* bound on file sizes
    Times,       \* values of the clock
    Tags,        \* what a call of write writes
    VcbEntry     \* the VCB, block 0, read as if it were FAT entries

Slots == 1 .. DirLength
Entries == 0 .. FatSize - 1
Beyond == FatSize          \* stands for every number past the FAT
END == 0

ASSUME DiskAssumption ==
    /\ DirLength \in Nat \ {0} /\ FatSize \in Nat \ {0}
    /\ PerFat \in Nat \ {0} /\ BlockSize \in Nat \ {0}
    /\ MaxSize \in Nat /\ BlockSize <= MaxSize /\ MaxSize \div 4 <= FatSize
    /\ 0 \in Times /\ Tags \subseteq Nat \ {0}
    /\ NoName \notin Names /\ Junk \notin Names \cup {NoName}

Fatent == [used : BOOLEAN, eof : BOOLEAN, next : 0 .. FatSize]

\* slash: the name begins with the "/" of a path
Dirent == [valid : BOOLEAN, name : Names \cup {NoName, Junk}, slash : BOOLEAN,
           first : Entries, size : 0 .. MaxSize, modified : Times, created : Times]

\* <<tag, k>>: block k of a file as a call wrote it; Rubbish: anything else
Rubbish == <<0, 0>>
Piece == {Rubbish} \cup Tags \X Nat

ASSUME VcbAssumption == VcbEntry \in [0 .. PerFat - 1 -> Fatent]

VARIABLES dirents, fat, data

disk == <<dirents, fat, data>>

ZeroEntry == [used |-> FALSE, eof |-> FALSE, next |-> 0]
UnusedEntry == [used |-> FALSE, eof |-> TRUE, next |-> END]
LastEntry == [used |-> TRUE, eof |-> TRUE, next |-> 0]
LinkTo(b) == [used |-> TRUE, eof |-> FALSE, next |-> b]

NewDirent(name, time) ==
    [valid |-> TRUE, name |-> name, slash |-> FALSE, first |-> END, size |-> 0,
     modified |-> time, created |-> time]

DeletedDirent ==
    [valid |-> FALSE, name |-> NoName, slash |-> FALSE, first |-> END,
     size |-> BlockSize, modified |-> 0, created |-> 0]

(***************************************************************************)
(* mkfs: d.name is never set, and only the first entry of a FAT block is.  *)
(***************************************************************************)
Format ==
    /\ \E name \in {NoName, Junk} :
         dirents = [s \in Slots |-> [DeletedDirent EXCEPT !.name = name, !.size = 0]]
    /\ fat = [b \in Entries |-> IF b % PerFat = 0 THEN UnusedEntry ELSE ZeroEntry]
    /\ data = [b \in Entries |-> Rubbish]

-----------------------------------------------------------------------------
(* savedirent, getfatent and savefatent *)

SaveDirent(d, s) == dirents' = [dirents EXCEPT ![s] = d] /\ UNCHANGED <<fat, data>>

\* a word of a dirent, read as the bit fields of a fatent
AsFatent(word) ==
    [used |-> word % 2 = 1, eof |-> (word \div 2) % 2 = 1, next |-> word \div 4]

(***************************************************************************)
(* savedirent(d, de_start + de_length) replaces the first FAT block by the *)
(* bytes of d: valid, first_block, size, and fields not modelled here.     *)
(***************************************************************************)
SavePastDirectory(d) ==
    /\ \E junk \in [{b \in Entries : b \in 3 .. PerFat - 1} -> Fatent] :
         fat' = [b \in Entries |->
                   CASE b >= PerFat -> fat[b]
                     [] b = 0 -> AsFatent(IF d.valid THEN 1 ELSE 0)
                     [] b = 1 /\ b < PerFat -> AsFatent(d.first)
                     [] b = 2 /\ b < PerFat -> AsFatent(d.size)
                     [] OTHER -> junk[b]]
    /\ UNCHANGED <<dirents, data>>

\* past the FAT lie data blocks and the end of the image
EntryAt(b) == IF b \in Entries THEN {fat[b]} ELSE Fatent

SaveFatent(e, b) ==
    IF b \in Entries THEN fat' = [fat EXCEPT ![b] = e] /\ UNCHANGED <<dirents, data>>
    ELSE /\ data' \in {data} \cup {[data EXCEPT ![x] = Rubbish] : x \in Entries}
         /\ UNCHANGED <<dirents, fat>>

\* getfatent with fat_start forgotten: the VCB, or a directory entry's bytes
Misread(b) == IF b < PerFat THEN {VcbEntry[b]} ELSE Fatent

StoreBlock(piece, b) == data' = [data EXCEPT ![b] = piece] /\ UNCHANGED <<dirents, fat>>
==============================================================================
