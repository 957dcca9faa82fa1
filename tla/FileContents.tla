----------------------------- MODULE FileContents ----------------------------
(***************************************************************************)
(* What programs on the mounted filesystem see: contents is what the files *)
(* should hold, by the comments on the handlers in src/filesystem/3600fs.c,*)
(* and FileRead what vfs_read gives them.                                  *)
(***************************************************************************)
EXTENDS FatFiles, Sequences

CONSTANT PageBlocks   \* MAX_SIZE_IN_BUF in blocks: the most vfs_read reads at once

ASSUME PageAssumption == PageBlocks \in Nat \ {0}

VARIABLE contents     \* the pieces a name's file holds; << >> if there is none

contentsVars == <<dirents, fat, data, call, contents>>

BlocksIn(bytes) == (bytes + BlockSize - 1) \div BlockSize

Become(name, pieces) == contents' = [contents EXCEPT ![name] = pieces]

\* bytes offset .. offset + size - 1 are replaced, and what lies between the
\* end and the offset is filled up
Overwritten(old, size, offset, tag) ==
    LET from == offset \div BlockSize
        end == from + BlocksIn(size)
    IN  [k \in 1 .. IF end > Len(old) THEN end ELSE Len(old) |->
            IF k \in from + 1 .. end THEN <<tag, k>>
            ELSE IF k <= Len(old) THEN old[k] ELSE Rubbish]

CInit == Init /\ contents = [n \in Names |-> << >>]

CCreate(n, t) == Create(n, t) /\ Become(n, << >>)

CWrite(n, size, offset, tag, t) ==
    Write(n, size, offset, tag, t) /\ Become(n, Overwritten(contents[n], size, offset, tag))

CDelete(n) == Delete(n) /\ Become(n, << >>)

CTruncate(n, size, t) ==
    /\ Truncate(n, size, t)
    /\ Become(n, SubSeq(contents[n], 1, BlocksIn(size)))

\* no crashes, and no renaming: it hides the file from vfs_read (ListedIsFound)
CNext ==
    \/ \E n \in Names, t \in Times : CCreate(n, t)
    \/ \E n \in Names, t \in Times : Utimens(n, t) /\ UNCHANGED contents
    \/ \E n \in Names, size \in Sizes, offset \in Offsets, tag \in Tags, t \in Times :
         CWrite(n, size, offset, tag, t)
    \/ \E n \in Names : CDelete(n)
    \/ \E n \in Names, size \in 0 .. MaxSize, t \in Times : CTruncate(n, size, t)
    \/ Step /\ UNCHANGED contents

CSpec == CInit /\ [][CNext]_contentsVars

(***************************************************************************)
(* A disk on which a file smaller than a block was created, written and    *)
(* deleted: block 0, whose number is END, stays used for ever.             *)
(***************************************************************************)
UsedDisk ==
    /\ dirents = [s \in Slots |->
                    [DeletedDirent EXCEPT !.size = IF s = 1 THEN BlockSize ELSE 0]]
    /\ fat = [b \in Entries |-> IF b = 0 THEN LastEntry
                                ELSE IF b % PerFat = 0 THEN UnusedEntry ELSE ZeroEntry]
    /\ \E tag \in Tags : data = [b \in Entries |-> IF b = 0 THEN <<tag, 1>> ELSE Rubbish]
    /\ call = Idle /\ contents = [n \in Names |-> << >>]

UsedSpec == UsedDisk /\ [][CNext]_contentsVars

-----------------------------------------------------------------------------
(***************************************************************************)
(* vfs_read at a page's offset: the first block of the file, whatever the  *)
(* offset, then what follows the block the offset is in.                   *)
(***************************************************************************)
PageRead(s, page) ==
    LET chain == Follow(dirents[s].first)
        from == page * PageBlocks
    IN  [i \in 1 .. PageBlocks |->
            IF i = 1 THEN data[dirents[s].first]
            ELSE IF fat[chain[from + i - 2]].eof THEN Rubbish
            ELSE data[chain[from + i - 1]]]

\* the kernel reads page by page and stops at st_size
FileRead(s) ==
    [k \in 1 .. BlocksIn(dirents[s].size) |->
        PageRead(s, (k - 1) \div PageBlocks)[((k - 1) % PageBlocks) + 1]]

(***************************************************************************)
(* Between calls, every file that getattr finds reads as what was written  *)
(* to it (vfs_read, vfs_write, vfs_truncate).                              *)
(***************************************************************************)
ReadsBack ==
    call = Idle => \A n \in Names, s \in Slots :
                     IsFound(s, n) => FileRead(s) = contents[n]
==============================================================================
