------------------------------- MODULE FatFiles ------------------------------
(***************************************************************************)
(* The FUSE handlers of src/filesystem/3600fs.c that change the disk, one  *)
(* action per block they write.  3600fs runs with -s: one call at a time.  *)
(***************************************************************************)
EXTENDS FatDisk, Iteration, FiniteSets

(***************************************************************************)
(* What may happen to the filesystem, besides plain calls on a disk with   *)
(* room:                                                                   *)
(*   "rename"   renaming,                                                  *)
(*   "rewrite"  writing elsewhere than at the start of an empty file,      *)
(*   "cut"      truncating a file to fewer blocks,                         *)
(*   "exhaust"  writing more than there are free blocks for,               *)
(*   "full"     creating a file when all directory slots are taken,        *)
(*   "stale"    a call for a name that getattr would not find: the kernel  *)
(*              keeps names for a second, and "/" it never asks about,     *)
(*   "crash"    3600fs is killed between two writes.                       *)
(***************************************************************************)
CONSTANTS Environment, Sizes, Offsets

Hazards == {"rename", "rewrite", "cut", "exhaust", "full", "stale", "crash"}

ASSUME CallsAssumption ==
    /\ Environment \subseteq Hazards
    /\ Sizes \subseteq Nat \ {0}
    /\ Offsets \subseteq {o \in 0 .. MaxSize : o % BlockSize = 0}

VARIABLE call   \* the local variables of the handler that is running

vars == <<dirents, fat, data, call>>

Stages == {"idle", "scan", "walk", "mark", "store", "free", "seek", "trim"}

Call == [pc : Stages,
         slot : Slots,               \* found_location
         dir : Dirent,               \* d
         tag : Tags \cup {0},        \* what buf holds
         start : Nat,                \* offset / BLOCKSIZE
         chunks : Nat,               \* how many blocks buf reaches into
         done : Nat,                 \* buf_counter / BLOCKSIZE
         left : Int,                 \* total_size; blocks to go in truncate
         scan : 0 .. FatSize,        \* position (i, j) in the FAT
         target : Entries,           \* data_block
         cursor : 0 .. FatSize,      \* first_offset
         entry : Fatent]             \* f or next, the entry at the cursor

Idle == [pc |-> "idle", slot |-> 1, dir |-> DeletedDirent, tag |-> 0, start |-> 0,
         chunks |-> 0, done |-> 0, left |-> 0, scan |-> 0, target |-> 0,
         cursor |-> 0, entry |-> ZeroEntry]

Init == Format /\ call = Idle

Return == call' = Idle

-----------------------------------------------------------------------------
(* The loop over the directory with which every handler begins. *)

Matches(s, name) == dirents[s].name = name /\ ~dirents[s].slash

IsFound(s, name) == Matches(s, name) /\ \A r \in 1 .. s - 1 : ~Matches(r, name)

NotFound(name) == \A s \in Slots : ~Matches(s, name)

IsFree(s) == ~dirents[s].valid /\ \A r \in 1 .. s - 1 : dirents[r].valid

\* vfs_readdir
Readdir == {s \in Slots : dirents[s].valid}

\* the handlers that save d at position i even when the loop has run out
SaveAnyway(name) ==
    /\ "stale" \in Environment
    /\ NotFound(name)
    /\ SavePastDirectory(dirents[DirLength])

-----------------------------------------------------------------------------
(* vfs_create, vfs_rename, vfs_chmod and vfs_chown, vfs_utimens *)

\* the kernel creates only what getattr does not find
Create(name, time) ==
    /\ call = Idle /\ NotFound(name)
    /\ \/ \E s \in Slots : IsFree(s) /\ SaveDirent(NewDirent(name, time), s)
       \/ /\ "full" \in Environment
          /\ \A s \in Slots : dirents[s].valid
          /\ SavePastDirectory(NewDirent(name, time))
    /\ UNCHANGED call

\* strncpy(d.name, to): with the slash
Rename(from, to) ==
    /\ "rename" \in Environment
    /\ call = Idle
    /\ \/ \E s \in Slots :
            /\ IsFound(s, from)
            /\ SaveDirent([dirents[s] EXCEPT !.name = to, !.slash = TRUE], s)
       \/ SaveAnyway(from)
    /\ UNCHANGED call

\* mode, user and group are not modelled
Chmod(name) == call = Idle /\ SaveAnyway(name) /\ UNCHANGED call

\* ts[1] goes to create_time
Utimens(name, time) ==
    /\ call = Idle
    /\ \/ \E s \in Slots :
            /\ IsFound(s, name)
            /\ SaveDirent([dirents[s] EXCEPT !.created = time], s)
       \/ SaveAnyway(name)
    /\ UNCHANGED call

-----------------------------------------------------------------------------
(* vfs_write *)

FreshFile(s, offset) == dirents[s].first = END /\ dirents[s].size = 0 /\ offset = 0

HasRoom(size) == Cardinality({b \in Entries : ~fat[b].used}) > size \div BlockSize

Write(name, size, offset, tag, time) ==
    /\ call = Idle
    /\ size > 0 /\ size + offset <= MaxSize
    /\ "exhaust" \in Environment \/ HasRoom(size)
    /\ \E s \in Slots :
         /\ IsFound(s, name)
         /\ "rewrite" \in Environment \/ FreshFile(s, offset)
         /\ LET d == [dirents[s] EXCEPT !.valid = TRUE, !.size = size + offset,
                                        !.modified = time]
            IN  /\ SaveDirent(d, s)
                /\ call' = [Idle EXCEPT !.pc = "scan", !.slot = s, !.dir = d, !.tag = tag,
                               !.start = offset \div BlockSize,
                               !.chunks = (size + BlockSize - 1) \div BlockSize,
                               !.left = size]

\* the loops over i and j stop at the next entry that is not used
NextUnused(b) ==
    /\ call.scan <= b /\ ~fat[b].used
    /\ \A k \in call.scan .. b - 1 : fat[k].used

\* mutant of TakeFirstBlock: first_block is not compared with END
TakeFirstBlockAgain ==
    /\ call.pc = "scan"
    /\ \E b \in Entries :
         /\ NextUnused(b)
         /\ LET d == [call.dir EXCEPT !.first = b]
            IN  /\ SaveDirent(d, call.slot)
                /\ call' = [call EXCEPT !.pc = "mark", !.dir = d, !.target = b]

TakeFirstBlock ==
    /\ call.pc = "scan" /\ call.dir.first = END
    /\ \E b \in Entries :
         /\ NextUnused(b)
         /\ LET d == [call.dir EXCEPT !.first = b]
            IN  /\ SaveDirent(d, call.slot)
                /\ call' = [call EXCEPT !.pc = "mark", !.dir = d, !.target = b]

TakeBlock ==
    /\ call.pc = "scan" /\ call.dir.first # END
    /\ \E b \in Entries, e \in EntryAt(call.dir.first) :
         /\ NextUnused(b)
         /\ call' = [call EXCEPT !.pc = "walk", !.target = b,
                       !.cursor = call.dir.first, !.entry = e]
    /\ UNCHANGED disk

WalkOn ==
    /\ call.pc = "walk" /\ ~call.entry.eof
    /\ \E e \in EntryAt(call.entry.next) :
         call' = [call EXCEPT !.cursor = call.entry.next, !.entry = e]
    /\ UNCHANGED disk

\* mutant of LinkBlock: the last entry is linked to itself
LinkToItself ==
    /\ call.pc = "walk" /\ call.entry.eof
    /\ SaveFatent(LinkTo(call.cursor), call.cursor)
    /\ call' = [call EXCEPT !.pc = "mark"]

LinkBlock ==
    /\ call.pc = "walk" /\ call.entry.eof
    /\ SaveFatent(LinkTo(call.target), call.cursor)
    /\ call' = [call EXCEPT !.pc = "mark"]

\* mutant of MarkBlock: used is not set
MarkBlockUnused ==
    /\ call.pc = "mark"
    /\ SaveFatent(UnusedEntry, call.target)
    /\ call' = [call EXCEPT !.pc = "store"]

MarkBlock ==
    /\ call.pc = "mark"
    /\ SaveFatent(LastEntry, call.target)
    /\ call' = [call EXCEPT !.pc = "store"]

\* mutant of StoreData: the block after the one that was taken
StoreInNextBlock ==
    /\ call.pc = "store"
    /\ StoreBlock(IF call.done < call.chunks THEN <<call.tag, call.start + call.done + 1>>
                  ELSE Rubbish, (call.target + 1) % FatSize)
    /\ IF call.left - BlockSize < 0 THEN Return
       ELSE call' = [call EXCEPT !.pc = "scan", !.scan = call.target + 1,
                       !.done = @ + 1, !.left = @ - BlockSize]

\* mutant of StoreData: the scan goes on one entry too far
StoreAndSkip ==
    /\ call.pc = "store"
    /\ StoreBlock(IF call.done < call.chunks THEN <<call.tag, call.start + call.done + 1>>
                  ELSE Rubbish, call.target)
    /\ IF call.left - BlockSize < 0 THEN Return
       ELSE call' = [call EXCEPT !.pc = "scan", !.scan = call.target + 2,
                       !.done = @ + 1, !.left = @ - BlockSize]

\* past the end of buf there is rubbish; a size that is a multiple of
\* BLOCKSIZE gets a block of it
StoreData ==
    /\ call.pc = "store"
    /\ StoreBlock(IF call.done < call.chunks THEN <<call.tag, call.start + call.done + 1>>
                  ELSE Rubbish, call.target)
    /\ IF call.left - BlockSize < 0 THEN Return
       ELSE call' = [call EXCEPT !.pc = "scan", !.scan = call.target + 1,
                       !.done = @ + 1, !.left = @ - BlockSize]

\* the FAT is full: the rest of buf is dropped
ScanEnds ==
    /\ call.pc = "scan"
    /\ \A b \in call.scan .. FatSize - 1 : fat[b].used
    /\ Return
    /\ UNCHANGED disk

-----------------------------------------------------------------------------
(* vfs_delete *)

Delete(name) ==
    /\ call = Idle
    /\ \E s \in Slots :
         /\ IsFound(s, name)
         /\ IF dirents[s].first = END THEN SaveDirent(DeletedDirent, s) /\ Return
            ELSE /\ call' = [Idle EXCEPT !.pc = "free", !.slot = s,
                                !.entry = fat[dirents[s].first]]
                 /\ UNCHANGED disk

\* next is read before its place is overwritten
FreeNext ==
    /\ call.pc = "free" /\ ~call.entry.eof
    /\ SaveFatent(UnusedEntry, call.entry.next)
    /\ \E e \in EntryAt(call.entry.next) : call' = [call EXCEPT !.entry = e]

\* mutant of DeleteDirent: only valid is reset
DeleteKeepsName ==
    /\ call.pc = "free" /\ call.entry.eof
    /\ SaveDirent([dirents[call.slot] EXCEPT !.valid = FALSE], call.slot)
    /\ Return

DeleteDirent ==
    /\ call.pc = "free" /\ call.entry.eof
    /\ SaveDirent(DeletedDirent, call.slot)
    /\ Return

-----------------------------------------------------------------------------
(* vfs_truncate *)

Truncate(name, size, time) ==
    /\ call = Idle
    /\ \E s \in Slots :
         /\ IsFound(s, name)
         /\ size <= dirents[s].size
         /\ SaveDirent([dirents[s] EXCEPT !.valid = TRUE, !.size = size, !.modified = time], s)
         /\ IF size \div BlockSize = dirents[s].size \div BlockSize THEN UNCHANGED call
            ELSE /\ "cut" \in Environment
                 /\ call' = [Idle EXCEPT !.pc = "seek", !.slot = s,
                               !.left = size \div BlockSize,
                               !.cursor = dirents[s].first,
                               !.entry = fat[dirents[s].first]]

SeekOn ==
    /\ call.pc = "seek" /\ ~call.entry.eof /\ call.left > 0
    /\ \E e \in EntryAt(call.entry.next) :
         call' = [call EXCEPT !.left = @ - 1, !.cursor = call.entry.next, !.entry = e]
    /\ UNCHANGED disk

\* return -1, with the new size already saved
SeekFails ==
    /\ call.pc = "seek" /\ call.entry.eof
    /\ Return
    /\ UNCHANGED disk

Cut ==
    /\ call.pc = "seek" /\ ~call.entry.eof /\ call.left = 0
    /\ SaveFatent(LastEntry, call.cursor)
    /\ \E e \in Misread(call.entry.next) : call' = [call EXCEPT !.pc = "trim", !.entry = e]

\* the cursor is still at the entry that was read before this one
TrimNext ==
    /\ call.pc = "trim" /\ ~call.entry.eof
    /\ SaveFatent(UnusedEntry, call.cursor)
    /\ \E b \in {call.entry.next} : \E e \in EntryAt(b)' :
         call' = [call EXCEPT !.cursor = b, !.entry = e]

TrimLast ==
    /\ call.pc = "trim" /\ call.entry.eof
    /\ SaveFatent(UnusedEntry, call.cursor)
    /\ Return

-----------------------------------------------------------------------------
\* killed and mounted again: vfs_mount reads the VCB and repairs nothing
Crash ==
    /\ "crash" \in Environment
    /\ call # Idle
    /\ Return
    /\ UNCHANGED disk

\* the rest of the call that is running
Step ==
    \/ TakeFirstBlock \/ TakeBlock \/ WalkOn \/ LinkBlock \/ MarkBlock \/ StoreData \/ ScanEnds
    \/ FreeNext \/ DeleteDirent
    \/ SeekOn \/ SeekFails \/ Cut \/ TrimNext \/ TrimLast

Begin ==
    \/ \E n \in Names, t \in Times : Create(n, t) \/ Utimens(n, t)
    \/ Utimens(NoName, 0)
    \/ \E n, m \in Names : n # m /\ Rename(n, m)
    \/ \E n \in Names \cup {NoName} : Chmod(n)
    \/ \E n \in Names, size \in Sizes, offset \in Offsets, tag \in Tags, t \in Times :
         Write(n, size, offset, tag, t)
    \/ \E n \in Names : Delete(n)
    \/ \E n \in Names, size \in 0 .. MaxSize, t \in Times : Truncate(n, size, t)

Next == Begin \/ Step \/ Crash

Spec == Init /\ [][Next]_vars

FairSpec == Spec /\ WF_vars(Step)

-----------------------------------------------------------------------------
(* Types of the disk and of a running call. *)
TypeOK ==
    /\ dirents \in [Slots -> Dirent]
    /\ fat \in [Entries -> Fatent]
    /\ data \in [Entries -> Piece]
    /\ call \in Call

HasBlocks(s) == dirents[s].valid /\ dirents[s].first # END

(***************************************************************************)
(* Between calls, every block can be given to at most one file so that the *)
(* first blocks, and what follows an owned block, are owned by the same    *)
(* file and marked used: no two files share a block, and no block of a     *)
(* file is free to be given away (vfs_write, vfs_delete).                  *)
(***************************************************************************)
Owns(own) ==
    /\ \A s \in Slots : HasBlocks(s) => own[dirents[s].first] = s
    /\ \A b \in Entries : own[b] # 0 =>
         /\ fat[b].used
         /\ ~fat[b].eof => fat[b].next \in Entries /\ own[fat[b].next] = own[b]

ChainsApart == call = Idle => \E own \in [Entries -> 0 .. DirLength] : Owns(own)

(***************************************************************************)
(* The same at every step: a write has saved its d and still has it in     *)
(* hand; the block it has linked but not marked, and what a delete has     *)
(* freed before it resets the directory entry, are not yet used.           *)
(***************************************************************************)
Writing == call.pc \in {"scan", "walk", "mark", "store"}

DirInHand ==
    Writing => dirents[call.slot] = call.dir /\ call.dir.valid /\ call.tag \in Tags

NamedIsValid == \A s \in Slots : dirents[s].name \in Names => dirents[s].valid

Unmarked(b) == call.pc = "mark" /\ b = call.target

OwnsInCall(own) ==
    /\ \A s \in Slots : HasBlocks(s) => own[dirents[s].first] = s
    /\ \A b \in Entries : own[b] # 0 /\ ~Unmarked(b) =>
         /\ fat[b].used \/ (call.pc = "free" /\ own[b] = call.slot)
         /\ ~fat[b].eof => fat[b].next \in Entries /\ own[fat[b].next] = own[b]
    /\ call.pc = "walk" =>
         /\ call.cursor \in Entries /\ call.entry = fat[call.cursor]
         /\ own[call.cursor] = call.slot
         /\ ~fat[call.target].used
    /\ call.pc = "free" /\ ~call.entry.eof =>
         call.entry.next \in Entries /\ own[call.entry.next] = call.slot
    /\ call.pc \in {"mark", "store"} => own[call.target] = call.slot

\* what a used block is linked to has a higher rank: no chain is a ring
Rises(rank) ==
    \A b \in Entries : fat[b].used /\ ~fat[b].eof =>
        fat[b].next \in Entries /\ rank[b] < rank[fat[b].next]

Acyclic == \E rank \in [Entries -> Nat] : Rises(rank)

ChainsInv ==
    /\ DirInHand
    /\ NamedIsValid
    /\ call.pc \notin {"seek", "trim"}
    /\ \E own \in [Entries -> 0 .. DirLength] : OwnsInCall(own)
    /\ Acyclic

\* the entry after e; the last entry is repeated, and so is what is past the FAT
After == [e \in 0 .. FatSize |-> IF e \notin Entries \/ fat[e].eof THEN e ELSE fat[e].next]

\* the entries of the chain that starts at b, from 0 on
Follow(b) == Iterate(After, b)

ChainOf(s) == {Follow(dirents[s].first)[k] : k \in 0 .. FatSize}

(***************************************************************************)
(* Between calls every chain comes to an entry with eof: the loops of      *)
(* vfs_read, vfs_write, vfs_delete and vfs_truncate over it end.           *)
(***************************************************************************)
ChainsEnd ==
    call = Idle => \A s \in Slots : HasBlocks(s) =>
                     \E b \in ChainOf(s) \cap Entries : fat[b].eof

(***************************************************************************)
(* A write changes no data block on the chain of another file (vfs_write). *)
(***************************************************************************)
OthersKeepTheirData ==
    [][\A s \in Slots : HasBlocks(s) /\ s # call.slot =>
          \A b \in ChainOf(s) \cap Entries : data'[b] = data[b]]_vars

(***************************************************************************)
(* A file that has a first block keeps it until it is deleted, whatever    *)
(* happens to the FAT: the d that a handler saves is never out of date.    *)
(***************************************************************************)
FirstBlockStays ==
    [][\A s \in Slots : HasBlocks(s) /\ dirents'[s].valid =>
          dirents'[s].first = dirents[s].first]_vars

(***************************************************************************)
(* A used block belongs to a file (vfs_delete's note that the blocks of a  *)
(* deleted file should be marked as free).                                 *)
(***************************************************************************)
NoLeak ==
    call = Idle => \A b \in Entries : fat[b].used =>
                     \E s \in Slots : dirents[s].valid /\ b \in ChainOf(s)

(***************************************************************************)
(* vfs_readdir, which looks at valid, and vfs_getattr, which looks at the  *)
(* name, agree: what is listed is found under one name, and what is found  *)
(* is listed.                                                              *)
(***************************************************************************)
ListedIsFound ==
    Readdir = {s \in Slots : \E name \in Names : IsFound(s, name)}

(***************************************************************************)
(* Every call returns (the loops of all handlers).                         *)
(***************************************************************************)
CallsReturn == call # Idle ~> call = Idle
==============================================================================
