---------------------------- MODULE FatChainProofs ---------------------------
(***************************************************************************)
(* Proof that no two files share a block, as long as files are not cut,    *)
(* the directory has room, names are not stale and 3600fs is not killed;   *)
(* and that files read back, as long as besides each is written once and   *)
(* there is room; for every directory, FAT, block size and bound.          *)
(***************************************************************************)
EXTENDS FatProofs, FileContents, IterationProofs, SequenceTheorems

USE DEF Slots, Entries, END

Damage == {"cut", "full", "stale", "crash"}

Owner == [Entries -> 0 .. DirLength]

(* A step that leaves the FAT alone and gives no file a first block leaves *)
(* every block with its owner.                                             *)
LEMMA SameOwners ==
    ASSUME NEW own \in Owner, OwnsInCall(own), call.pc \notin {"mark", "free"},
           fat' = fat, call'.pc \in {"idle", "scan"},
           \A s \in Slots : HasBlocks(s)' =>
              HasBlocks(s) /\ dirents'[s].first = dirents[s].first
    PROVE  OwnsInCall(own)'
  BY DEF OwnsInCall, Unmarked, HasBlocks

(* So does a step that saves a d with the same first block. *)
LEMMA SameFirstBlock ==
    ASSUME DiskOK, NEW own \in Owner, OwnsInCall(own), call.pc \notin {"mark", "free"},
           call'.pc \in {"idle", "scan"},
           NEW s \in Slots, NEW d \in Dirent, SaveDirent(d, s),
           d.first # END /\ d.valid => HasBlocks(s) /\ d.first = dirents[s].first
    PROVE  OwnsInCall(own)'
<1>1. dirents' = [dirents EXCEPT ![s] = d] /\ fat' = fat
  BY DEF SaveDirent
<1>2. ASSUME NEW r \in Slots, HasBlocks(r)'
      PROVE  HasBlocks(r) /\ dirents'[r].first = dirents[r].first
  <2>1. CASE r = s
    <3>1. dirents'[r] = d
      BY <1>1, <2>1 DEF DiskOK
    <3> QED BY <3>1, <2>1, <1>2 DEF HasBlocks
  <2>2. CASE r # s
    <3>1. dirents'[r] = dirents[r]
      BY <1>1, <2>2 DEF DiskOK
    <3> QED BY <3>1, <1>2 DEF HasBlocks
  <2> QED BY <2>1, <2>2
<1> QED BY <1>1, <1>2, SameOwners

(* An unused block has no owner. *)
LEMMA UnusedUnowned ==
    ASSUME NEW own \in Owner, OwnsInCall(own), call.pc \notin {"mark", "free"},
           NEW b \in Entries, ~fat[b].used
    PROVE  own[b] = 0
  BY DEF OwnsInCall, Unmarked

LEMMA FoundIsValid ==
    ASSUME NamedIsValid, NEW n \in Names, NEW s \in Slots, IsFound(s, n)
    PROVE  dirents[s].valid
  BY DEF NamedIsValid, IsFound, Matches

-----------------------------------------------------------------------------
(* The blocks taken by a write. *)

\* o is own, but for block b, which is given to s
Given(own, o, b, s) == o[b] = s /\ \A x \in Entries \ {b} : o[x] = own[x]

LEMMA TakeFirstBlockOwns ==
    ASSUME TypeOK, DirInHand, NEW own \in Owner, OwnsInCall(own), TakeFirstBlock
    PROVE  \E o \in Owner : OwnsInCall(o)' /\ Given(own, o, call'.target, call.slot)
<1>1. DiskOK /\ call \in Call
  BY TypeOKParts
<1>2. PICK b \in Entries :
        /\ NextUnused(b)
        /\ SaveDirent([call.dir EXCEPT !.first = b], call.slot)
        /\ call' = [call EXCEPT !.pc = "mark", !.dir = [call.dir EXCEPT !.first = b],
                                !.target = b]
  BY DEF TakeFirstBlock
<1> DEFINE d == [call.dir EXCEPT !.first = b]
<1>3. call.slot \in Slots /\ call.slot # 0 /\ d.first = b /\ call.pc = "scan"
  BY <1>1, DiskAssumption DEF Call, Dirent, TakeFirstBlock
<1>4. call'.pc = "mark" /\ call'.target = b /\ call'.slot = call.slot /\ fat' = fat
  BY <1>2, <1>1 DEF Call, SaveDirent
<1>5. dirents'[call.slot] = d /\ \A s \in Slots \ {call.slot} : dirents'[s] = dirents[s]
  BY <1>2, <1>1, <1>3 DEF SaveDirent, DiskOK
<1>6. own[b] = 0
  BY <1>2, <1>3, UnusedUnowned DEF NextUnused
<1>7. PICK new \in Owner : new = [own EXCEPT ![b] = call.slot]
  <2>1. call.slot \in 0 .. DirLength
    BY <1>3, DiskAssumption
  <2>2. [own EXCEPT ![b] = call.slot] \in Owner
    BY <2>1 DEF Owner
  <2> QED BY <2>2
<1> HIDE DEF d
<1>8. new[b] = call.slot /\ \A x \in Entries \ {b} : new[x] = own[x]
  BY <1>7 DEF Owner
<1>9. ASSUME NEW s \in Slots, HasBlocks(s)'
      PROVE  new[dirents'[s].first] = s
  <2>1. CASE s = call.slot
    BY <2>1, <1>3, <1>5, <1>8
  <2>2. CASE s # call.slot
    <3>1. HasBlocks(s) /\ dirents'[s].first = dirents[s].first
      BY <2>2, <1>5, <1>9 DEF HasBlocks
    <3>2. own[dirents[s].first] = s /\ dirents[s].first \in Entries /\ s # 0
      BY <3>1, <1>1, FoundSlot, DiskAssumption DEF OwnsInCall
    <3> QED BY <3>1, <3>2, <1>6, <1>8
  <2> QED BY <2>1, <2>2
<1>10. ASSUME NEW x \in Entries, new[x] # 0, ~Unmarked(x)'
       PROVE  /\ fat'[x].used
              /\ ~fat'[x].eof => fat'[x].next \in Entries /\ new[fat'[x].next] = new[x]
  <2>1. x # b /\ own[x] = new[x]
    BY <1>10, <1>4, <1>8 DEF Unmarked
  <2>2. fat[x].used /\ (~fat[x].eof => fat[x].next \in Entries /\ own[fat[x].next] = own[x])
    BY <2>1, <1>10, <1>3 DEF OwnsInCall, Unmarked
  <2> QED BY <2>1, <2>2, <1>4, <1>6, <1>8, <1>10
<1>11. OwnsInCall(new)'
  BY <1>4, <1>8, <1>9, <1>10 DEF OwnsInCall
<1> QED BY <1>4, <1>8, <1>11 DEF Given

LEMMA TakeBlockOwns ==
    ASSUME TypeOK, DirInHand, NEW own \in Owner, OwnsInCall(own), TakeBlock
    PROVE  OwnsInCall(own)'
<1>1. DiskOK /\ call \in Call
  BY TypeOKParts
<1>2. call.pc = "scan" /\ call.slot \in Slots /\ call.dir.first # END
  BY <1>1 DEF TakeBlock, Call
<1>3. HasBlocks(call.slot) /\ dirents[call.slot].first = call.dir.first
  BY <1>2 DEF DirInHand, Writing, HasBlocks
<1>4. call.dir.first \in Entries /\ own[call.dir.first] = call.slot
  BY <1>1, <1>2, <1>3, FoundSlot DEF OwnsInCall
<1>5. PICK b \in Entries, e \in EntryAt(call.dir.first) :
        /\ NextUnused(b)
        /\ call' = [call EXCEPT !.pc = "walk", !.target = b,
                                !.cursor = call.dir.first, !.entry = e]
  BY DEF TakeBlock
<1>6. e = fat[call.dir.first] /\ ~fat[b].used
  BY <1>4, <1>5 DEF EntryAt, NextUnused
<1>7. /\ call'.pc = "walk" /\ call'.target = b /\ call'.cursor = call.dir.first
      /\ call'.entry = e /\ call'.slot = call.slot
  BY <1>1, <1>5 DEF Call
<1>8. dirents' = dirents /\ fat' = fat
  BY DEF TakeBlock, disk
<1> QED BY <1>2, <1>4, <1>6, <1>7, <1>8 DEF OwnsInCall, HasBlocks, Unmarked

LEMMA WalkOnOwns ==
    ASSUME TypeOK, NEW own \in Owner, OwnsInCall(own), WalkOn
    PROVE  OwnsInCall(own)'
<1>1. DiskOK /\ call \in Call /\ call.pc = "walk"
  BY TypeOKParts DEF WalkOn
<1>2. /\ call.cursor \in Entries /\ call.entry = fat[call.cursor]
      /\ own[call.cursor] = call.slot /\ call.slot # 0 /\ ~fat[call.target].used
  BY <1>1, DiskAssumption DEF OwnsInCall, Call
<1>3. call.entry.next \in Entries /\ own[call.entry.next] = call.slot
  BY <1>1, <1>2 DEF OwnsInCall, Unmarked, WalkOn
<1>4. PICK e \in EntryAt(call.entry.next) :
        call' = [call EXCEPT !.cursor = call.entry.next, !.entry = e]
  BY DEF WalkOn
<1>5. e = fat[call.entry.next]
  BY <1>3, <1>4 DEF EntryAt
<1>6. /\ call'.pc = "walk" /\ call'.target = call.target /\ call'.cursor = call.entry.next
      /\ call'.entry = e /\ call'.slot = call.slot
  BY <1>1, <1>4 DEF Call
<1>7. dirents' = dirents /\ fat' = fat
  BY DEF WalkOn, disk
<1> QED BY <1>1, <1>2, <1>3, <1>5, <1>6, <1>7 DEF OwnsInCall, HasBlocks, Unmarked

LEMMA LinkBlockOwns ==
    ASSUME TypeOK, NEW own \in Owner, OwnsInCall(own), LinkBlock
    PROVE  \E o \in Owner : OwnsInCall(o)' /\ Given(own, o, call'.target, call.slot)
<1>1. DiskOK /\ call \in Call /\ call.pc = "walk"
  BY TypeOKParts DEF LinkBlock
<1>2. /\ call.cursor \in Entries /\ own[call.cursor] = call.slot
      /\ call.slot \in Slots /\ call.slot # 0
      /\ call.target \in Entries /\ ~fat[call.target].used
  BY <1>1, DiskAssumption DEF OwnsInCall, Call
<1>3. own[call.target] = 0
  BY <1>1, <1>2, UnusedUnowned
<1>4. PICK new \in Owner : new = [own EXCEPT ![call.target] = call.slot]
  BY <1>2, DiskAssumption DEF Owner
<1>5. new[call.target] = call.slot /\ \A x \in Entries \ {call.target} : new[x] = own[x]
  BY <1>2, <1>4 DEF Owner
<1>6. /\ dirents' = dirents
      /\ fat'[call.cursor] = LinkTo(call.target)
      /\ \A x \in Entries \ {call.cursor} : fat'[x] = fat[x]
  BY <1>1, <1>2 DEF LinkBlock, SaveFatent, DiskOK
<1>7. call'.pc = "mark" /\ call'.target = call.target /\ call'.slot = call.slot
  BY <1>1 DEF LinkBlock, Call
<1>8. ASSUME NEW s \in Slots, HasBlocks(s)'
      PROVE  new[dirents'[s].first] = s
  <2>1. HasBlocks(s) /\ dirents'[s].first = dirents[s].first
    BY <1>6, <1>8 DEF HasBlocks
  <2>2. own[dirents[s].first] = s /\ dirents[s].first \in Entries /\ s # 0
    BY <2>1, <1>1, FoundSlot, DiskAssumption DEF OwnsInCall
  <2> QED BY <2>1, <2>2, <1>3, <1>5
<1>9. ASSUME NEW x \in Entries, new[x] # 0, ~Unmarked(x)'
      PROVE  /\ fat'[x].used
             /\ ~fat'[x].eof => fat'[x].next \in Entries /\ new[fat'[x].next] = new[x]
  <2>1. x # call.target /\ own[x] = new[x]
    BY <1>9, <1>5, <1>7 DEF Unmarked
  <2>2. CASE x = call.cursor
    BY <2>1, <2>2, <1>2, <1>5, <1>6 DEF LinkTo
  <2>3. CASE x # call.cursor
    <3>1. fat[x].used /\ (~fat[x].eof => fat[x].next \in Entries /\ own[fat[x].next] = own[x])
      BY <2>1, <1>9, <1>1 DEF OwnsInCall, Unmarked
    <3> QED BY <2>1, <2>3, <3>1, <1>3, <1>5, <1>6, <1>9
  <2> QED BY <2>2, <2>3
<1>10. OwnsInCall(new)'
  BY <1>5, <1>7, <1>8, <1>9 DEF OwnsInCall
<1> QED BY <1>5, <1>7, <1>10 DEF Given

LEMMA MarkBlockOwns ==
    ASSUME TypeOK, NEW own \in Owner, OwnsInCall(own), MarkBlock
    PROVE  OwnsInCall(own)'
<1>1. DiskOK /\ call \in Call /\ call.pc = "mark"
  BY TypeOKParts DEF MarkBlock
<1>2. /\ dirents' = dirents /\ call'.pc = "store"
      /\ call'.target = call.target /\ call'.slot = call.slot
      /\ fat'[call.target] = LastEntry
      /\ \A x \in Entries \ {call.target} : fat'[x] = fat[x]
  BY <1>1 DEF MarkBlock, SaveFatent, DiskOK, Call
<1>3. ASSUME NEW x \in Entries, own[x] # 0
      PROVE  /\ fat'[x].used
             /\ ~fat'[x].eof => fat'[x].next \in Entries /\ own[fat'[x].next] = own[x]
  <2>1. CASE x = call.target
    BY <2>1, <1>2 DEF LastEntry
  <2>2. CASE x # call.target
    BY <2>2, <1>1, <1>2, <1>3 DEF OwnsInCall, Unmarked
  <2> QED BY <2>1, <2>2
<1> QED BY <1>1, <1>2, <1>3 DEF OwnsInCall, HasBlocks

-----------------------------------------------------------------------------
(* The blocks freed by a delete. *)

LEMMA DeleteOwns ==
    ASSUME TypeOK, NamedIsValid, NEW own \in Owner, OwnsInCall(own),
           NEW n \in Names, Delete(n)
    PROVE  OwnsInCall(own)'
<1>1. DiskOK /\ call \in Call /\ call.pc = "idle"
  BY TypeOKParts DEF Delete, Idle
<1>2. PICK s \in Slots :
        /\ IsFound(s, n)
        /\ \/ SaveDirent(DeletedDirent, s) /\ Return
           \/ /\ dirents[s].first # END /\ UNCHANGED disk
              /\ call' = [Idle EXCEPT !.pc = "free", !.slot = s,
                                      !.entry = fat[dirents[s].first]]
  BY DEF Delete
<1>3. CASE SaveDirent(DeletedDirent, s) /\ Return
  <2>1. call'.pc = "idle"
    BY <1>3 DEF Return, Idle
  <2>2. ~DeletedDirent.valid
    BY DEF DeletedDirent
  <2> QED BY <1>1, <1>3, <2>1, <2>2, DirentTypes, SameFirstBlock
<1>4. CASE /\ dirents[s].first # END /\ UNCHANGED disk
           /\ call' = [Idle EXCEPT !.pc = "free", !.slot = s, !.entry = fat[dirents[s].first]]
  <2>1. call'.pc = "free" /\ call'.slot = s /\ call'.entry = fat[dirents[s].first]
    BY <1>4 DEF Idle
  <2>2. dirents[s].first \in Entries /\ own[dirents[s].first] = s /\ s # 0
    BY <1>1, <1>2, <1>4, FoundIsValid, FoundSlot, DiskAssumption DEF OwnsInCall, HasBlocks
  <2>3. ~fat[dirents[s].first].eof =>
          /\ fat[dirents[s].first].next \in Entries
          /\ own[fat[dirents[s].first].next] = s
    BY <1>1, <2>2 DEF OwnsInCall, Unmarked
  <2>4. dirents' = dirents /\ fat' = fat
    BY <1>4 DEF disk
  <2> QED BY <1>1, <2>1, <2>3, <2>4 DEF OwnsInCall, HasBlocks, Unmarked
<1> QED BY <1>2, <1>3, <1>4

LEMMA FreeNextOwns ==
    ASSUME TypeOK, NEW own \in Owner, OwnsInCall(own), FreeNext
    PROVE  OwnsInCall(own)'
<1>1. DiskOK /\ call \in Call /\ call.pc = "free"
  BY TypeOKParts DEF FreeNext
<1> DEFINE b == call.entry.next
<1>2. b \in Entries /\ own[b] = call.slot /\ call.slot # 0
  BY <1>1, DiskAssumption DEF OwnsInCall, FreeNext, Call
<1>3. PICK e \in EntryAt(b) : call' = [call EXCEPT !.entry = e]
  BY DEF FreeNext
<1>4. e = fat[b]
  BY <1>2, <1>3 DEF EntryAt
<1>5. ~e.eof => e.next \in Entries /\ own[e.next] = call.slot
  BY <1>1, <1>2, <1>4 DEF OwnsInCall, Unmarked
<1>6. call'.pc = "free" /\ call'.slot = call.slot /\ call'.entry = e
  BY <1>1, <1>3 DEF Call
<1>7. dirents' = dirents /\ fat' = [fat EXCEPT ![b] = UnusedEntry]
  BY <1>2 DEF FreeNext, SaveFatent
<1>8. ASSUME NEW x \in Entries, own[x] # 0
      PROVE  /\ fat'[x].used \/ own[x] = call.slot
             /\ ~fat'[x].eof => fat'[x].next \in Entries /\ own[fat'[x].next] = own[x]
  <2>1. CASE x = b
    BY <2>1, <1>1, <1>2, <1>7 DEF DiskOK, UnusedEntry
  <2>2. CASE x # b
    <3>1. fat'[x] = fat[x]
      BY <2>2, <1>1, <1>7 DEF DiskOK
    <3> QED BY <3>1, <1>1, <1>8 DEF OwnsInCall, Unmarked
  <2> QED BY <2>1, <2>2
<1> QED BY <1>5, <1>6, <1>7, <1>8 DEF OwnsInCall, HasBlocks

(* What the deleted file owned, owned by nobody. *)
LEMMA DeleteDirentOwns ==
    ASSUME TypeOK, NEW own \in Owner, OwnsInCall(own), DeleteDirent
    PROVE  \E o \in Owner :
             /\ OwnsInCall(o)'
             /\ \A b \in Entries : o[b] = IF own[b] = call.slot THEN 0 ELSE own[b]
<1>1. DiskOK /\ call \in Call /\ call.pc = "free" /\ call.slot \in Slots
  BY TypeOKParts DEF DeleteDirent, Call
<1>2. PICK new \in Owner :
        new = [b \in Entries |-> IF own[b] = call.slot THEN 0 ELSE own[b]]
  <2>1. 0 \in 0 .. DirLength
    BY DiskAssumption
  <2>2. [b \in Entries |-> IF own[b] = call.slot THEN 0 ELSE own[b]] \in Owner
    BY <2>1 DEF Owner
  <2> QED BY <2>2
<1>3. \A b \in Entries : new[b] = IF own[b] = call.slot THEN 0 ELSE own[b]
  BY <1>2
<1>4. /\ dirents'[call.slot] = DeletedDirent /\ fat' = fat /\ call'.pc = "idle"
      /\ \A s \in Slots \ {call.slot} : dirents'[s] = dirents[s]
  BY <1>1 DEF DeleteDirent, SaveDirent, Return, Idle, DiskOK
<1>5. ASSUME NEW s \in Slots, HasBlocks(s)'
      PROVE  new[dirents'[s].first] = s
  <2>1. s # call.slot
    BY <1>4, <1>5 DEF HasBlocks, DeletedDirent
  <2>2. HasBlocks(s) /\ dirents'[s].first = dirents[s].first
    BY <2>1, <1>4, <1>5 DEF HasBlocks
  <2>3. own[dirents[s].first] = s /\ dirents[s].first \in Entries
    BY <2>2, <1>1, FoundSlot DEF OwnsInCall
  <2> QED BY <2>1, <2>2, <2>3, <1>3
<1>6. ASSUME NEW x \in Entries, new[x] # 0
      PROVE  /\ fat'[x].used
             /\ ~fat'[x].eof => fat'[x].next \in Entries /\ new[fat'[x].next] = new[x]
  <2>1. own[x] = new[x] /\ own[x] # call.slot
    BY <1>3, <1>6
  <2>2. fat[x].used /\ (~fat[x].eof => fat[x].next \in Entries /\ own[fat[x].next] = own[x])
    BY <2>1, <1>1, <1>6 DEF OwnsInCall, Unmarked
  <2> QED BY <2>1, <2>2, <1>3, <1>4
<1>7. OwnsInCall(new)'
  BY <1>4, <1>5, <1>6 DEF OwnsInCall
<1> QED BY <1>3, <1>7

-----------------------------------------------------------------------------
(* The steps that take and free no block. *)

LEMMA StoreDataOwns ==
    ASSUME TypeOK, NEW own \in Owner, OwnsInCall(own), StoreData
    PROVE  OwnsInCall(own)' /\ call'.pc \in {"idle", "scan"}
<1>1. call \in Call /\ call.pc = "store"
  BY TypeOKParts DEF StoreData
<1>2. dirents' = dirents /\ fat' = fat
  BY DEF StoreData, StoreBlock
<1>3. call'.pc \in {"idle", "scan"}
  <2>1. CASE Return
    BY <2>1 DEF Return, Idle
  <2>2. CASE call' = [call EXCEPT !.pc = "scan", !.scan = call.target + 1,
                                  !.done = @ + 1, !.left = @ - BlockSize]
    BY <2>2, <1>1 DEF Call
  <2> QED BY <2>1, <2>2 DEF StoreData
<1> QED BY <1>1, <1>2, <1>3, SameOwners DEF HasBlocks

LEMMA ScanEndsOwns ==
    ASSUME NEW own \in Owner, OwnsInCall(own), ScanEnds
    PROVE  OwnsInCall(own)' /\ call'.pc = "idle"
<1>1. dirents' = dirents /\ fat' = fat /\ call.pc = "scan" /\ call'.pc = "idle"
  BY DEF ScanEnds, Return, Idle, disk
<1> QED BY <1>1, SameOwners DEF HasBlocks

LEMMA CreateOwns ==
    ASSUME Environment \cap Damage = {}, TypeOK, NamedIsValid,
           NEW own \in Owner, OwnsInCall(own), NEW n \in Names, NEW t \in Times, Create(n, t)
    PROVE  OwnsInCall(own)' /\ NamedIsValid' /\ call'.pc = "idle"
<1>1. DiskOK /\ call.pc = "idle" /\ call'.pc = "idle"
  BY TypeOKParts DEF Create, Idle
<1>2. PICK s \in Slots : SaveDirent(NewDirent(n, t), s)
  BY DEF Create, Damage
<1>3. NewDirent(n, t).first = END /\ NewDirent(n, t).valid
  BY DEF NewDirent
<1>4. OwnsInCall(own)'
  BY <1>1, <1>2, <1>3, DirentTypes, SameFirstBlock
<1>5. NamedIsValid'
  BY <1>1, <1>2, <1>3 DEF NamedIsValid, SaveDirent, DiskOK
<1> QED BY <1>1, <1>4, <1>5

(* What a call does that finds s and saves it with its first block. *)
LEMMA SaveFoundOwns ==
    ASSUME DiskOK, NamedIsValid, NEW own \in Owner, OwnsInCall(own), call.pc = "idle",
           call'.pc \in {"idle", "scan"},
           NEW n \in Names, NEW s \in Slots, IsFound(s, n),
           NEW d \in Dirent, SaveDirent(d, s), d.valid, d.first = dirents[s].first
    PROVE  OwnsInCall(own)' /\ NamedIsValid'
<1>1. dirents[s].valid
  BY FoundIsValid
<1>2. OwnsInCall(own)'
  BY <1>1, SameFirstBlock DEF HasBlocks
<1>3. NamedIsValid'
  BY DEF NamedIsValid, SaveDirent, DiskOK
<1> QED BY <1>2, <1>3

LEMMA RenameOwns ==
    ASSUME Environment \cap Damage = {}, TypeOK, NamedIsValid,
           NEW own \in Owner, OwnsInCall(own), NEW n \in Names, NEW m \in Names, Rename(n, m)
    PROVE  OwnsInCall(own)' /\ NamedIsValid' /\ call'.pc = "idle"
<1>1. DiskOK /\ call.pc = "idle" /\ call'.pc = "idle"
  BY TypeOKParts DEF Rename, Idle
<1>2. PICK s \in Slots :
        /\ IsFound(s, n)
        /\ SaveDirent([dirents[s] EXCEPT !.name = m, !.slash = TRUE], s)
  BY DEF Rename, SaveAnyway, Damage
<1> DEFINE d == [dirents[s] EXCEPT !.name = m, !.slash = TRUE]
<1>3. d \in Dirent /\ d.first = dirents[s].first /\ d.valid = dirents[s].valid
  BY <1>1, FoundSlot DEF Dirent
<1>4. SaveDirent(d, s)
  BY <1>2
<1> HIDE DEF d
<1> QED BY <1>1, <1>2, <1>3, <1>4, FoundIsValid, SaveFoundOwns

LEMMA UtimensOwns ==
    ASSUME Environment \cap Damage = {}, TypeOK, NamedIsValid,
           NEW own \in Owner, OwnsInCall(own), NEW n \in Names \cup {NoName},
           NEW t \in Times, Utimens(n, t)
    PROVE  OwnsInCall(own)' /\ NamedIsValid' /\ call'.pc = "idle"
<1>1. DiskOK /\ call.pc = "idle" /\ call'.pc = "idle"
  BY TypeOKParts DEF Utimens, Idle
<1>2. PICK s \in Slots :
        IsFound(s, n) /\ SaveDirent([dirents[s] EXCEPT !.created = t], s)
  BY DEF Utimens, SaveAnyway, Damage
<1> DEFINE d == [dirents[s] EXCEPT !.created = t]
<1>3. /\ d \in Dirent /\ d.first = dirents[s].first /\ d.valid = dirents[s].valid
      /\ d.name = dirents[s].name
  BY <1>1, FoundSlot DEF Dirent
<1>4. SaveDirent(d, s)
  BY <1>2
<1> HIDE DEF d
<1>5. OwnsInCall(own)'
  BY <1>1, <1>3, <1>4, SameFirstBlock DEF HasBlocks
<1>6. NamedIsValid'
  BY <1>1, <1>3, <1>4 DEF NamedIsValid, SaveDirent, DiskOK
<1> QED BY <1>1, <1>5, <1>6

LEMMA WriteOwns ==
    ASSUME TypeOK, NamedIsValid, NEW own \in Owner, OwnsInCall(own),
           NEW n \in Names, NEW size \in Sizes, NEW offset \in Offsets,
           NEW tag \in Tags, NEW t \in Times, Write(n, size, offset, tag, t)
    PROVE  OwnsInCall(own)' /\ NamedIsValid' /\ call'.pc = "scan"
<1>1. DiskOK /\ call.pc = "idle" /\ size + offset \in 0 .. MaxSize
  BY TypeOKParts, CallsAssumption, DiskAssumption DEF Write, Idle
<1>2. PICK s \in Slots :
        /\ IsFound(s, n)
        /\ LET d == [dirents[s] EXCEPT !.valid = TRUE, !.size = size + offset, !.modified = t]
           IN  /\ SaveDirent(d, s)
               /\ call' = [Idle EXCEPT !.pc = "scan", !.slot = s, !.dir = d, !.tag = tag,
                              !.start = offset \div BlockSize,
                              !.chunks = (size + BlockSize - 1) \div BlockSize,
                              !.left = size]
  BY DEF Write
<1> DEFINE d == [dirents[s] EXCEPT !.valid = TRUE, !.size = size + offset, !.modified = t]
<1>3. d \in Dirent /\ d.first = dirents[s].first /\ d.valid
  BY <1>1, FoundSlot DEF Dirent
<1>4. SaveDirent(d, s) /\ call'.pc = "scan"
  BY <1>2 DEF Idle
<1> HIDE DEF d
<1> QED BY <1>1, <1>2, <1>3, <1>4, SaveFoundOwns

LEMMA TruncateOwns ==
    ASSUME Environment \cap Damage = {}, TypeOK, NamedIsValid,
           NEW own \in Owner, OwnsInCall(own), NEW n \in Names,
           NEW size \in 0 .. MaxSize, NEW t \in Times, Truncate(n, size, t)
    PROVE  OwnsInCall(own)' /\ NamedIsValid' /\ call'.pc = "idle"
<1>1. DiskOK /\ call.pc = "idle"
  BY TypeOKParts DEF Truncate, Idle
<1>2. PICK s \in Slots :
        /\ IsFound(s, n)
        /\ SaveDirent([dirents[s] EXCEPT !.valid = TRUE, !.size = size, !.modified = t], s)
        /\ UNCHANGED call
  BY DEF Truncate, Damage
<1> DEFINE d == [dirents[s] EXCEPT !.valid = TRUE, !.size = size, !.modified = t]
<1>3. d \in Dirent /\ d.first = dirents[s].first /\ d.valid
  BY <1>1, FoundSlot DEF Dirent
<1>4. SaveDirent(d, s) /\ call'.pc = "idle"
  BY <1>1, <1>2
<1> HIDE DEF d
<1> QED BY <1>1, <1>2, <1>3, <1>4, SaveFoundOwns

-----------------------------------------------------------------------------
(* No chain becomes a ring. *)

(* An entry that is unused or the last of its chain leads nowhere. *)
LEMMA SaveEndRises ==
    ASSUME DiskOK, NEW rank, Rises(rank), NEW b \in Entries, NEW e \in Fatent,
           ~e.used \/ e.eof, fat' = [fat EXCEPT ![b] = e]
    PROVE  Rises(rank)'
<1>1. fat'[b] = e /\ \A x \in Entries \ {b} : fat'[x] = fat[x]
  BY DEF DiskOK
<1> QED BY <1>1 DEF Rises

(* The block that is linked rises above the block that it is linked to: it was not
   used, so that nothing follows it. *)
LEMMA LinkBlockRises ==
    ASSUME TypeOK, NEW own \in Owner, OwnsInCall(own), LinkBlock,
           NEW rank \in [Entries -> Nat], Rises(rank)
    PROVE  Acyclic'
<1>1. DiskOK /\ call \in Call /\ call.pc = "walk"
  BY TypeOKParts DEF LinkBlock
<1>2. /\ call.cursor \in Entries /\ call.target \in Entries
      /\ ~fat[call.target].used /\ own[call.cursor] # 0
  BY <1>1, DiskAssumption DEF OwnsInCall, Call
<1>3. call.cursor # call.target
  BY <1>1, <1>2, UnusedUnowned
<1>4. /\ fat'[call.cursor] = LinkTo(call.target)
      /\ \A x \in Entries \ {call.cursor} : fat'[x] = fat[x]
  BY <1>1, <1>2 DEF LinkBlock, SaveFatent, DiskOK
<1>5. PICK r \in [Entries -> Nat] :
        r = [rank EXCEPT ![call.target] = rank[call.target] + rank[call.cursor] + 1]
  <2>1. rank[call.target] + rank[call.cursor] + 1 \in Nat
    BY <1>2
  <2>2. [rank EXCEPT ![call.target] = rank[call.target] + rank[call.cursor] + 1]
          \in [Entries -> Nat]
    BY <2>1
  <2> QED BY <2>2
<1>6. /\ r[call.target] >= rank[call.target] /\ r[call.target] > rank[call.cursor]
      /\ \A x \in Entries \ {call.target} : r[x] = rank[x]
  BY <1>2, <1>5
<1>7. ASSUME NEW b \in Entries, fat'[b].used, ~fat'[b].eof
      PROVE  fat'[b].next \in Entries /\ r[b] < r[fat'[b].next]
  <2>1. CASE b = call.cursor
    BY <2>1, <1>2, <1>3, <1>4, <1>6 DEF LinkTo
  <2>2. CASE b # call.cursor
    <3>1. b # call.target /\ fat'[b] = fat[b]
      BY <2>2, <1>2, <1>4, <1>7
    <3>2. fat[b].next \in Entries /\ rank[b] < rank[fat[b].next]
      BY <3>1, <1>7 DEF Rises
    <3>3. r[fat[b].next] >= rank[fat[b].next]
      BY <3>2, <1>6
    <3> QED BY <3>1, <3>2, <3>3, <1>5, <1>6
  <2> QED BY <2>1, <2>2
<1>8. Rises(r)'
  BY <1>7 DEF Rises
<1> QED BY <1>5, <1>8 DEF Acyclic

LEMMA StepRises ==
    ASSUME TypeOK, call.pc \notin {"seek", "trim"}, NEW own \in Owner, OwnsInCall(own),
           Acyclic, Step
    PROVE  Acyclic'
<1>1. DiskOK /\ call \in Call
  BY TypeOKParts
<1>2. PICK rank \in [Entries -> Nat] : Rises(rank)
  BY DEF Acyclic
<1>3. CASE LinkBlock
  BY <1>2, <1>3, LinkBlockRises
<1>4. CASE MarkBlock
  <2>1. call.target \in Entries /\ fat' = [fat EXCEPT ![call.target] = LastEntry]
    BY <1>1, <1>4 DEF MarkBlock, SaveFatent, Call
  <2>2. Rises(rank)'
    BY <1>1, <1>2, <2>1, FatentTypes, SaveEndRises DEF LastEntry
  <2> QED BY <1>2, <2>2 DEF Acyclic
<1>5. CASE FreeNext
  <2>1. call.entry.next \in Entries /\ fat' = [fat EXCEPT ![call.entry.next] = UnusedEntry]
    BY <1>5 DEF FreeNext, SaveFatent, OwnsInCall
  <2>2. Rises(rank)'
    BY <1>1, <1>2, <2>1, FatentTypes, SaveEndRises DEF UnusedEntry
  <2> QED BY <1>2, <2>2 DEF Acyclic
<1>6. CASE fat' = fat
  BY <1>6 DEF Acyclic, Rises
<1>7. ~(SeekOn \/ SeekFails \/ Cut \/ TrimNext \/ TrimLast)
  BY DEF SeekOn, SeekFails, Cut, TrimNext, TrimLast
<1> QED BY <1>3, <1>4, <1>5, <1>6, <1>7
        DEF Step, TakeFirstBlock, TakeBlock, WalkOn, StoreData, ScanEnds, DeleteDirent,
            SaveDirent, StoreBlock, disk

(* No call begins with a step that changes the FAT. *)
LEMMA BeginKeepsFat == ASSUME Environment \cap Damage = {}, Begin PROVE fat' = fat
<1>1. \A name : ~SaveAnyway(name)
  BY DEF SaveAnyway, Damage
<1>2. "full" \notin Environment
  BY DEF Damage
<1> QED BY <1>1, <1>2
        DEF Begin, Create, Rename, Chmod, Utimens, Write, Delete, Truncate, SaveDirent, disk

-----------------------------------------------------------------------------
LEMMA InitOwns == Init => ChainsInv
<1> SUFFICES ASSUME Init PROVE ChainsInv
  OBVIOUS
<1>1. DirInHand /\ call.pc = "idle"
  BY InitTypes DEF Init, Idle
<1>2. \A s \in Slots : ~dirents[s].valid /\ dirents[s].name \notin Names
  BY DiskAssumption DEF Init, Format, DeletedDirent
<1>3. PICK own \in Owner : own = [b \in Entries |-> 0]
  <2>1. 0 \in 0 .. DirLength
    BY DiskAssumption
  <2> QED BY <2>1 DEF Owner
<1>4. OwnsInCall(own)
  BY <1>1, <1>2, <1>3 DEF OwnsInCall, HasBlocks
<1>5. Rises([b \in Entries |-> 0])
  BY DEF Rises, Init, Format, UnusedEntry, ZeroEntry
<1>6. Acyclic
  BY <1>5 DEF Acyclic
<1> QED BY <1>1, <1>2, <1>4, <1>6 DEF ChainsInv, NamedIsValid, Owner

(* A name is given only to a slot that is, or becomes, valid. *)
LEMMA StepNamed ==
    ASSUME TypeOK, DirInHand, NamedIsValid, Step
    PROVE  NamedIsValid'
<1>1. DiskOK /\ call \in Call
  BY TypeOKParts
<1>2. CASE TakeFirstBlock
  <2>1. PICK b \in Entries : SaveDirent([call.dir EXCEPT !.first = b], call.slot)
    BY <1>2 DEF TakeFirstBlock
  <2>2. call.dir.valid
    BY <1>2 DEF TakeFirstBlock, DirInHand, Writing
  <2>3. [call.dir EXCEPT !.first = b].valid
    BY <2>2, <1>1 DEF Call, Dirent
  <2> QED BY <2>1, <2>3, <1>1 DEF NamedIsValid, SaveDirent, DiskOK
<1>3. CASE DeleteDirent
  BY <1>3, <1>1, DiskAssumption
  DEF DeleteDirent, DeletedDirent, NamedIsValid, SaveDirent, DiskOK
<1>4. CASE UNCHANGED dirents
  BY <1>4 DEF NamedIsValid
<1> QED BY <1>2, <1>3, <1>4
        DEF Step, TakeBlock, WalkOn, LinkBlock, MarkBlock, StoreData, ScanEnds, FreeNext,
            SeekOn, SeekFails, Cut, TrimNext, TrimLast, SaveFatent, StoreBlock, disk

LEMMA StepOwns ==
    ASSUME TypeOK, DirInHand, call.pc \notin {"seek", "trim"},
           NEW own \in Owner, OwnsInCall(own), Step
    PROVE  /\ \E o \in Owner : OwnsInCall(o)'
           /\ call'.pc \notin {"seek", "trim"}
<1>1. call \in Call
  BY TypeOKParts
<1>2. CASE TakeFirstBlock
  <2>1. call'.pc = "mark"
    BY <1>2, <1>1 DEF TakeFirstBlock, Call
  <2> QED BY <1>2, <2>1, TakeFirstBlockOwns
<1>3. CASE TakeBlock
  <2>1. call'.pc = "walk"
    BY <1>3, <1>1 DEF TakeBlock, Call
  <2> QED BY <1>3, <2>1, TakeBlockOwns
<1>4. CASE WalkOn
  <2>1. call'.pc = "walk"
    BY <1>4, <1>1 DEF WalkOn, Call
  <2> QED BY <1>4, <2>1, WalkOnOwns
<1>5. CASE LinkBlock
  <2>1. call'.pc = "mark"
    BY <1>5, <1>1 DEF LinkBlock, Call
  <2> QED BY <1>5, <2>1, LinkBlockOwns
<1>6. CASE MarkBlock
  <2>1. call'.pc = "store"
    BY <1>6, <1>1 DEF MarkBlock, Call
  <2> QED BY <1>6, <2>1, MarkBlockOwns
<1>7. CASE StoreData
  BY <1>7, StoreDataOwns
<1>8. CASE ScanEnds
  BY <1>8, ScanEndsOwns
<1>9. CASE FreeNext
  <2>1. call'.pc = "free"
    BY <1>9, <1>1 DEF FreeNext, Call
  <2> QED BY <1>9, <2>1, FreeNextOwns
<1>10. CASE DeleteDirent
  <2>1. call'.pc = "idle"
    BY <1>10 DEF DeleteDirent, Return, Idle
  <2> QED BY <1>10, <2>1, DeleteDirentOwns
<1>11. ~(SeekOn \/ SeekFails \/ Cut \/ TrimNext \/ TrimLast)
  BY DEF SeekOn, SeekFails, Cut, TrimNext, TrimLast
<1> QED BY <1>2, <1>3, <1>4, <1>5, <1>6, <1>7, <1>8, <1>9, <1>10, <1>11 DEF Step

LEMMA BeginOwns ==
    ASSUME Environment \cap Damage = {}, TypeOK, NamedIsValid,
           NEW own \in Owner, OwnsInCall(own), Begin
    PROVE  OwnsInCall(own)' /\ NamedIsValid' /\ call'.pc \notin {"seek", "trim"}
<1>1. ASSUME NEW n \in Names, Delete(n)
      PROVE  OwnsInCall(own)' /\ NamedIsValid' /\ call'.pc \notin {"seek", "trim"}
  <2>1. PICK s \in Slots :
          \/ SaveDirent(DeletedDirent, s) /\ Return
          \/ /\ UNCHANGED disk
             /\ call' = [Idle EXCEPT !.pc = "free", !.slot = s,
                                     !.entry = fat[dirents[s].first]]
    BY <1>1 DEF Delete
  <2>2. CASE SaveDirent(DeletedDirent, s) /\ Return
    <3>1. call'.pc = "idle"
      BY <2>2 DEF Return, Idle
    <3>2. NamedIsValid'
      BY <2>2, TypeOKParts, DiskAssumption DEF NamedIsValid, SaveDirent, DiskOK, DeletedDirent
    <3> QED BY <1>1, <3>1, <3>2, DeleteOwns
  <2>3. CASE /\ UNCHANGED disk
             /\ call' = [Idle EXCEPT !.pc = "free", !.slot = s,
                                     !.entry = fat[dirents[s].first]]
    <3>1. call'.pc = "free"
      BY <2>3 DEF Idle
    <3>2. NamedIsValid'
      BY <2>3 DEF NamedIsValid, disk
    <3> QED BY <1>1, <3>1, <3>2, DeleteOwns
  <2> QED BY <2>1, <2>2, <2>3
<1>2. ASSUME NEW n, Chmod(n)
      PROVE  FALSE
  BY <1>2 DEF Chmod, SaveAnyway, Damage
<1>3. 0 \in Times
  BY DiskAssumption
<1> QED BY <1>1, <1>2, <1>3, CreateOwns, RenameOwns, UtimensOwns, WriteOwns, TruncateOwns
        DEF Begin

LEMMA NextOwns ==
    ASSUME Environment \cap Damage = {}, TypeOK, ChainsInv, [Next]_vars
    PROVE  ChainsInv'
<1>1. DirInHand /\ NamedIsValid /\ call.pc \notin {"seek", "trim"} /\ Acyclic
  BY DEF ChainsInv
<1>2. PICK own \in Owner : OwnsInCall(own)
  BY DEF ChainsInv, Owner
<1>3. DirInHand'
  BY <1>1, NextTypes
<1>4. CASE UNCHANGED vars
  <2>1. dirents' = dirents /\ fat' = fat /\ call' = call
    BY <1>4 DEF vars
  <2>2. OwnsInCall(own)'
    BY <1>2, <2>1 DEF OwnsInCall, HasBlocks, Unmarked
  <2>3. NamedIsValid'
    BY <1>1, <2>1 DEF NamedIsValid
  <2>4. Acyclic'
    BY <1>1, <2>1 DEF Acyclic, Rises
  <2> QED BY <1>1, <1>3, <2>1, <2>2, <2>3, <2>4 DEF ChainsInv, Owner
<1>5. CASE Crash
  BY <1>5 DEF Crash, Damage
<1>6. CASE Step
  <2>1. Acyclic'
    BY <1>1, <1>2, <1>6, StepRises
  <2> QED BY <1>1, <1>2, <1>3, <1>6, <2>1, StepOwns, StepNamed DEF ChainsInv, Owner
<1>7. CASE Begin
  <2>1. Acyclic'
    BY <1>1, <1>7, BeginKeepsFat DEF Acyclic, Rises
  <2> QED BY <1>1, <1>2, <1>3, <1>7, <2>1, BeginOwns DEF ChainsInv, Owner
<1> QED BY <1>4, <1>5, <1>6, <1>7 DEF Next

LEMMA ChainsHold == Environment \cap Damage = {} => (Spec => [](TypeOK /\ ChainsInv))
<1> SUFFICES ASSUME Environment \cap Damage = {} PROVE Spec => [](TypeOK /\ ChainsInv)
  OBVIOUS
<1>1. Init => TypeOK /\ ChainsInv
  BY InitTypes, InitOwns
<1>2. TypeOK /\ ChainsInv /\ [Next]_vars => TypeOK' /\ ChainsInv'
  BY NextTypes, NextOwns DEF ChainsInv
<1> QED BY <1>1, <1>2, PTL DEF Spec

(* No two files share a block and no block of a file is free to be given   *)
(* away, between any two calls, as long as no file is cut, the directory   *)
(* has room, no name is stale and 3600fs is not killed (vfs_write,         *)
(* vfs_delete).  Each of the four conditions is needed.                    *)
THEOREM ChainsStayApart == Environment \cap Damage = {} => (Spec => []ChainsApart)
<1> SUFFICES ASSUME Environment \cap Damage = {} PROVE Spec => []ChainsApart
  OBVIOUS
<1>1. ChainsInv => ChainsApart
  <2> SUFFICES ASSUME ChainsInv, call = Idle
               PROVE  \E own \in Owner : Owns(own)
    BY DEF ChainsApart, Owner
  <2>1. PICK own \in Owner : OwnsInCall(own)
    BY DEF ChainsInv, Owner
  <2>2. call.pc = "idle"
    BY DEF Idle
  <2>3. Owns(own)
    BY <2>1, <2>2 DEF Owns, OwnsInCall, Unmarked
  <2> QED BY <2>3
<1> QED BY <1>1, ChainsHold, PTL

-----------------------------------------------------------------------------
(* What the loops of the handlers over a file's blocks come to. *)

(* But for a block that is linked and not marked yet, and the file of a running
   delete, the loop over a file's blocks meets only blocks of that file. *)
LEMMA FollowStays ==
    ASSUME DiskOK, NEW own \in Owner, OwnsInCall(own), call.pc # "mark",
           NEW s \in Slots, HasBlocks(s)
    PROVE  \A k \in Nat : Follow(dirents[s].first)[k] \in {b \in Entries : own[b] = s}
<1> DEFINE Mine == {b \in Entries : own[b] = s}
<1>1. dirents[s].first \in Mine /\ s # 0
  BY FoundSlot, DiskAssumption DEF OwnsInCall
<1>2. \A b \in Mine : After[b] \in Mine
  <2> SUFFICES ASSUME NEW b \in Mine PROVE After[b] \in Mine
    OBVIOUS
  <2>1. b \in 0 .. FatSize
    BY DiskAssumption
  <2>2. ~fat[b].eof => fat[b].next \in Mine
    BY <1>1 DEF OwnsInCall, Unmarked
  <2>3. After[b] = IF fat[b].eof THEN b ELSE fat[b].next
    BY <2>1 DEF After
  <2> QED BY <2>2, <2>3
<1> HIDE DEF Mine
<1>3. \A k \in Nat : Follow(dirents[s].first)[k] \in Mine
  BY <1>1, <1>2, IterateType DEF Follow
<1> QED BY <1>3 DEF Mine

(* Between calls every chain comes to its last entry, and so do the loops over it
   (vfs_read, vfs_write, vfs_delete, vfs_truncate): under the same conditions. *)
THEOREM ChainsComeToAnEnd == Environment \cap Damage = {} => (Spec => []ChainsEnd)
<1> SUFFICES ASSUME Environment \cap Damage = {} PROVE Spec => []ChainsEnd
  OBVIOUS
<1>1. TypeOK /\ ChainsInv => ChainsEnd
  <2> SUFFICES ASSUME TypeOK, ChainsInv, call = Idle, NEW s \in Slots, HasBlocks(s)
               PROVE  \E b \in ChainOf(s) \cap Entries : fat[b].eof
    BY DEF ChainsEnd
  <2>1. DiskOK /\ call.pc = "idle"
    BY TypeOKParts DEF Idle
  <2>2. PICK own \in Owner : OwnsInCall(own)
    BY DEF ChainsInv, Owner
  <2>3. PICK rank \in [Entries -> Nat] : Rises(rank)
    BY DEF ChainsInv, Acyclic
  <2> DEFINE Mine == {b \in Entries : own[b] = s}
             first == dirents[s].first
             Ends == {b \in Entries : fat[b].eof}
  <2>4. \A k \in Nat : Follow(first)[k] \in Mine
    BY <2>1, <2>2, FollowStays
  <2>5. IsFiniteSet(Entries) /\ Cardinality(Entries) = FatSize
    BY FS_Interval, DiskAssumption
  <2>6. IsFiniteSet(Mine) /\ Cardinality(Mine) <= FatSize
    <3>1. Mine \in SUBSET Entries
      OBVIOUS
    <3> HIDE DEF Mine
    <3>2. IsFiniteSet(Mine) /\ Cardinality(Mine) <= Cardinality(Entries)
      BY <2>5, <3>1, FS_Subset, Zenon
    <3> QED BY <2>5, <3>2
  <2>7. first \in Mine /\ s # 0
    BY <2>1, <2>2, FoundSlot, DiskAssumption DEF OwnsInCall
  <2>8. ASSUME NEW b \in Mine
        PROVE  /\ rank[b] \in Int /\ After[b] \in Mine
               /\ b \notin Ends => rank[b] < rank[After[b]]
    <3>1. b \in 0 .. FatSize
      BY DiskAssumption
    <3>2. /\ After[b] = IF fat[b].eof THEN b ELSE fat[b].next
          /\ fat[b].used /\ (~fat[b].eof => fat[b].next \in Mine)
      BY <2>1, <2>2, <2>7, <3>1 DEF OwnsInCall, Unmarked, After
    <3> QED BY <2>3, <3>2 DEF Rises
  <2> HIDE DEF Mine, first, Ends
  <2>9. PICK k \in 0 .. FatSize : Follow(first)[k] \in Ends
    <3>1. FatSize \in Nat /\ first \in Mine
      BY <2>7, DiskAssumption
    <3>2. Climbs(After, rank, Mine, Ends)
      BY <2>8 DEF Climbs
    <3> QED BY <2>6, <3>1, <3>2, RisingEnds DEF Follow
  <2> QED BY <2>9 DEF ChainOf, Ends, first
<1> QED BY <1>1, ChainsHold, PTL

(* A write stores only in the block it has taken for its own file: every block on the
   chain of another file keeps what it holds (vfs_write, 437-493); under the same
   conditions. *)
THEOREM OthersKeepTheirBlocks ==
    Environment \cap Damage = {} => (Spec => OthersKeepTheirData)
<1> SUFFICES ASSUME Environment \cap Damage = {} PROVE Spec => OthersKeepTheirData
  OBVIOUS
<1> DEFINE Keeps == \A s \in Slots : HasBlocks(s) /\ s # call.slot =>
                       \A b \in ChainOf(s) \cap Entries : data'[b] = data[b]
<1>1. TypeOK /\ ChainsInv /\ [Next]_vars => [Keeps]_vars
  <2> SUFFICES ASSUME TypeOK, ChainsInv, Next,
                      NEW s \in Slots, HasBlocks(s), s # call.slot,
                      NEW b \in ChainOf(s) \cap Entries
               PROVE  data'[b] = data[b]
    BY Zenon
  <2>1. DiskOK /\ call \in Call
    BY TypeOKParts
  <2>2. PICK own \in Owner : OwnsInCall(own)
    BY DEF ChainsInv, Owner
  <2>3. CASE StoreData
    <3>1. call.pc = "store" /\ own[call.target] = call.slot
      BY <2>2, <2>3 DEF StoreData, OwnsInCall
    <3>2. own[b] = s
      BY <2>1, <2>2, <3>1, FollowStays DEF ChainOf
    <3>3. \E piece : data' = [data EXCEPT ![call.target] = piece]
      BY <2>3 DEF StoreData, StoreBlock
    <3> QED BY <2>1, <3>1, <3>2, <3>3 DEF DiskOK
  <2>4. CASE LinkBlock \/ MarkBlock \/ FreeNext
    <3>1. PICK x \in Entries : \E e : SaveFatent(e, x)
      BY <2>1, <2>2, <2>4 DEF LinkBlock, MarkBlock, FreeNext, OwnsInCall, Call
    <3> QED BY <3>1 DEF SaveFatent
  <2>5. ~(SeekOn \/ SeekFails \/ Cut \/ TrimNext \/ TrimLast)
    <3>1. call.pc \notin {"seek", "trim"}
      BY DEF ChainsInv
    <3> QED BY <3>1, Zenon DEF SeekOn, SeekFails, Cut, TrimNext, TrimLast
  <2>6. ~Crash
    BY DEF Crash, Damage
  <2>7. CASE Begin
    <3>1. \A name : ~SaveAnyway(name)
      BY DEF SaveAnyway, Damage
    <3>2. data' = data
      BY <2>7, <3>1 DEF Begin, Create, Rename, Chmod, Utimens, Write, Delete, Truncate,
            SaveDirent, SavePastDirectory, disk
    <3> QED BY <3>2
  <2>8. CASE TakeFirstBlock \/ TakeBlock \/ WalkOn \/ ScanEnds \/ DeleteDirent
    <3>1. TakeFirstBlock => data' = data
      BY DEF TakeFirstBlock, SaveDirent
    <3>2. TakeBlock \/ WalkOn \/ ScanEnds => UNCHANGED disk
      BY Zenon DEF TakeBlock, WalkOn, ScanEnds
    <3>3. DeleteDirent => data' = data
      BY DEF DeleteDirent, SaveDirent
    <3> QED BY <2>8, <3>1, <3>2, <3>3 DEF disk
  <2> QED BY <2>3, <2>4, <2>5, <2>6, <2>7, <2>8, Zenon DEF Next, Step
<1> QED BY <1>1, ChainsHold, PTL DEF Spec, OthersKeepTheirData

-----------------------------------------------------------------------------
(***************************************************************************)
(* What files hold (FileContents): places along the chains, and what is    *)
(* stored at each.                                                         *)
(***************************************************************************)

(* What the loop of vfs_write counts: one turn less when a block less is left. *)
LEMMA OneTurnLess ==
    ASSUME NEW w \in Nat \ {0}, NEW a \in Nat
    PROVE  /\ a \div w \in Nat
           /\ a < w => a \div w = 0 /\ a % w = a
           /\ (a + w) \div w = a \div w + 1
           /\ \A b \in 0 .. a : b \div w <= a \div w
<1>1. \A x \in Nat : /\ x \div w \in Nat /\ x % w \in 0 .. w - 1
                     /\ x = w * (x \div w) + (x % w)
  OBVIOUS
<1>2. ASSUME NEW p \in Int, NEW q \in Int, p < q
      PROVE  w * p + w <= w * q
  <2>1. w * q = w * p + w * (q - p)  OBVIOUS
  <2>2. w * (q - p) >= w  BY <1>2
  <2> QED BY <2>1, <2>2
<1>3. w * 0 = 0 /\ \A p \in Int : w * (p + 1) = w * p + w
  OBVIOUS
<1>4. \A b \in 0 .. a : b \div w <= a \div w
  <2> SUFFICES ASSUME NEW b \in 0 .. a, a \div w < b \div w PROVE FALSE
    BY <1>1
  <2> QED BY <1>1, <1>2
<1>5. a < w => a \div w = 0 /\ a % w = a
  <2>1. ASSUME a < w, 0 < a \div w PROVE FALSE
    BY <2>1, <1>1, <1>2, <1>3
  <2> QED BY <2>1, <1>1, <1>3
<1>6. (a + w) \div w = a \div w + 1
  <2> DEFINE p == (a + w) \div w
             q == a \div w + 1
  <2>1. p \in Nat /\ (a + w) % w \in 0 .. w - 1 /\ a + w = w * p + ((a + w) % w)
    BY <1>1
  <2>2. q \in Nat /\ a + w = w * q + (a % w)
    BY <1>1, <1>3
  <2>3. a % w \in 0 .. w - 1
    BY <1>1
  <2> HIDE DEF p, q
  <2>4. ~(p < q)
    BY <1>2, <2>1, <2>2, <2>3
  <2>5. ~(q < p)
    BY <1>2, <2>1, <2>2, <2>3
  <2>6. p = q
    BY <2>1, <2>2, <2>4, <2>5
  <2> QED BY <2>6 DEF p, q
<1> QED BY <1>1, <1>4, <1>5, <1>6

LEMMA BlocksLeft ==
    ASSUME NEW a \in Nat
    PROVE  /\ BlocksIn(a) \in Nat /\ a \div BlockSize \in Nat
           /\ a < BlockSize => BlocksIn(a) <= 1
           /\ \A b \in Nat : b <= a => BlocksIn(b) <= BlocksIn(a)
           /\ a - BlockSize >= 0 =>
                /\ BlocksIn(a) = BlocksIn(a - BlockSize) + 1
                /\ a \div BlockSize = (a - BlockSize) \div BlockSize + 1
           /\ BlocksIn(0) = 0
<1>1. BlockSize \in Nat \ {0}
  BY DiskAssumption
<1>2. a + BlockSize - 1 \in Nat
  BY <1>1
<1>3. BlocksIn(a) \in Nat /\ a \div BlockSize \in Nat
  BY <1>1, <1>2, OneTurnLess DEF BlocksIn
<1>4. BlocksIn(0) = 0
  <2>1. 0 + BlockSize - 1 \in Nat /\ 0 + BlockSize - 1 < BlockSize
    BY <1>1
  <2> QED BY <1>1, <2>1, OneTurnLess DEF BlocksIn
<1>5. \A b \in Nat : b <= a => BlocksIn(b) <= BlocksIn(a)
  <2> SUFFICES ASSUME NEW b \in Nat, b <= a PROVE BlocksIn(b) <= BlocksIn(a)
    OBVIOUS
  <2>1. b + BlockSize - 1 \in 0 .. a + BlockSize - 1
    BY <1>1
  <2> QED BY <1>1, <1>2, <2>1, OneTurnLess DEF BlocksIn
<1>6. ASSUME a - BlockSize >= 0
      PROVE  /\ BlocksIn(a) = BlocksIn(a - BlockSize) + 1
             /\ a \div BlockSize = (a - BlockSize) \div BlockSize + 1
  <2>1. PICK c \in Nat : c = a - BlockSize
    BY <1>1, <1>6
  <2>2. PICK m \in Nat : m = c + BlockSize - 1
    BY <1>1
  <2>3. a = c + BlockSize /\ a + BlockSize - 1 = m + BlockSize
    BY <1>1, <2>1, <2>2
  <2>4. (c + BlockSize) \div BlockSize = c \div BlockSize + 1
    BY <1>1, OneTurnLess
  <2>5. (m + BlockSize) \div BlockSize = m \div BlockSize + 1
    BY <1>1, OneTurnLess
  <2>6. BlocksIn(a) = m \div BlockSize + 1
    BY <2>3, <2>5 DEF BlocksIn
  <2>7. BlocksIn(a - BlockSize) = m \div BlockSize
    BY <2>1, <2>2 DEF BlocksIn
  <2> QED BY <2>1, <2>3, <2>4, <2>6, <2>7
<1>7. ASSUME a < BlockSize
      PROVE  BlocksIn(a) <= 1
  <2>1. CASE a = 0
    BY <1>4, <2>1
  <2>2. CASE a # 0
    <3>1. PICK m \in Nat : m = a - 1
      BY <2>2
    <3>2. m < BlockSize /\ a + BlockSize - 1 = m + BlockSize
      BY <1>1, <1>7, <3>1
    <3>3. m \div BlockSize = 0 /\ (m + BlockSize) \div BlockSize = m \div BlockSize + 1
      BY <1>1, <3>2, OneTurnLess
    <3> QED BY <3>2, <3>3 DEF BlocksIn
  <2> QED BY <2>1, <2>2
<1> QED BY <1>3, <1>4, <1>5, <1>6, <1>7

-----------------------------------------------------------------------------
(***************************************************************************)
(* What is on the disk of a name, at every block write.                    *)
(***************************************************************************)

Freeing(s) == call.pc = "free" /\ s = call.slot

InWrite(s) == Writing /\ s = call.slot

\* a block has been taken and does not hold its piece yet
Giving == call.pc \in {"mark", "store"}

\* how many blocks the running write has taken
Taken == IF Giving THEN call.done + 1 ELSE call.done

Held(s) == contents[dirents[s].name]

\* how many blocks of s there must be
Reach(s) == IF InWrite(s) THEN Taken ELSE Len(Held(s))

\* block 0, whose number is END, is used by no file (UsedDisk)
Owned(own) ==
    /\ own[0] = 0 /\ fat[0].used
    /\ \A b \in Entries : own[b] # 0 => HasBlocks(own[b])

\* the blocks of a file have the places 1, 2, ... along its chain
Numbered(own, place) ==
    /\ \A s \in Slots : HasBlocks(s) => place[dirents[s].first] = 1
    /\ \A b \in Entries : own[b] # 0 => place[b] >= 1
    /\ \A b, c \in Entries :
         own[b] # 0 /\ own[b] = own[c] /\ place[b] = place[c] => b = c
    /\ \A b \in Entries : own[b] # 0 /\ ~Unmarked(b) /\ ~Freeing(own[b]) =>
         IF fat[b].eof THEN place[b] >= Reach(own[b])
         ELSE place[fat[b].next] = place[b] + 1

\* but for the block that was just taken, each holds its piece of the file
Stored(own, place) ==
    \A b \in Entries :
      /\ own[b] # 0 /\ ~Freeing(own[b]) /\ ~(Giving /\ b = call.target)
      /\ place[b] <= Len(Held(own[b]))
      => data[b] = Held(own[b])[place[b]]

Sized ==
    \A s \in Slots : dirents[s].valid =>
      /\ ~Freeing(s) => /\ Len(Held(s)) = BlocksIn(dirents[s].size)
                        /\ Len(Held(s)) <= PageBlocks
      /\ dirents[s].first = END /\ ~InWrite(s) => dirents[s].size = 0

Free == {b \in Entries : ~fat[b].used}

\* the running write has free blocks ahead of it for all that is left
Room ==
    /\ \A b \in Entries :
         b < (IF call.pc = "scan" THEN call.scan ELSE call.target) => fat[b].used
    /\ call.pc = "mark" => ~fat[call.target].used
    /\ IF call.pc = "store" THEN Cardinality(Free) >= call.left \div BlockSize
       ELSE Cardinality(Free) > call.left \div BlockSize

\* the running write has taken as many blocks as it has counted
Counted(own, place) ==
    /\ call.start = 0 /\ call.left >= 0
    /\ call.done + BlocksIn(call.left) = call.chunks
    /\ Len(Held(call.slot)) = call.chunks
    /\ \A k \in 1 .. call.chunks : Held(call.slot)[k] = <<call.tag, k>>
    /\ call.dir.first = END => call.done = 0
    /\ \A b \in Entries : own[b] = call.slot => place[b] <= Taken
    /\ Giving => place[call.target] = Taken

Place == [Entries -> Nat]

Laid(own, place) ==
    /\ OwnsInCall(own) /\ Owned(own) /\ Numbered(own, place) /\ Stored(own, place)
    /\ Writing => Counted(own, place) /\ Room

Contents == [Names -> Seq(Piece)]

\* no write is for more than vfs_read reads at once
OnePage == \A size \in Sizes : BlocksIn(size) <= PageBlocks

ContentsInv ==
    /\ DirInHand /\ NamesInv
    /\ call.pc \notin {"seek", "trim"}
    /\ contents \in Contents
    /\ Sized
    /\ \E own \in Owner, place \in Place : Laid(own, place)

(* Steps that leave the FAT alone leave every block its place. *)
LEMMA SamePlaces ==
    ASSUME DiskOK, NEW own \in Owner, NEW place \in Place,
           Owned(own), Numbered(own, place),
           fat' = fat, call.pc \notin {"mark", "free"}, call'.pc # "mark",
           \A s \in Slots : /\ HasBlocks(s)' <=> HasBlocks(s)
                            /\ HasBlocks(s) => dirents'[s].first = dirents[s].first,
           \A s \in Slots : HasBlocks(s) /\ ~Freeing(s)' =>
              \A k \in Nat : k >= Reach(s) => k >= Reach(s)'
    PROVE  Owned(own)' /\ Numbered(own, place)'
<1>1. \A b \in Entries : own[b] # 0 => own[b] \in Slots
  BY DEF Owner
<1>2. Owned(own)'
  BY <1>1 DEF Owned
<1>3. ASSUME NEW b \in Entries, own[b] # 0, ~Freeing(own[b])'
      PROVE  IF fat'[b].eof THEN place[b] >= Reach(own[b])'
             ELSE place[fat'[b].next] = place[b] + 1
  <2>1. ~Unmarked(b) /\ ~Freeing(own[b])
    BY DEF Unmarked, Freeing
  <2>2. HasBlocks(own[b]) /\ place[b] \in Nat
    BY <1>3 DEF Owned, Place
  <2>3. IF fat[b].eof THEN place[b] >= Reach(own[b]) ELSE place[fat[b].next] = place[b] + 1
    BY <1>3, <2>1 DEF Numbered
  <2> QED BY <1>1, <1>3, <2>2, <2>3
<1>4. Numbered(own, place)'
  <2>1. \A s \in Slots : HasBlocks(s)' => place[dirents'[s].first] = 1
    BY DEF Numbered
  <2> QED BY <1>3, <2>1 DEF Numbered
<1> QED BY <1>2, <1>4

(* Steps that store nothing leave every block its piece, if what a file holds
   only gets shorter. *)
LEMMA SamePieces ==
    ASSUME NEW own \in Owner, NEW place \in Place, Owned(own), Numbered(own, place),
           Stored(own, place),
           data' = data, call.pc \notin {"mark", "store", "free"},
           \A s \in Slots : HasBlocks(s) /\ ~Freeing(s)' =>
              \A k \in Nat \ {0} : k <= Len(Held(s)') =>
                  k <= Len(Held(s)) /\ Held(s)'[k] = Held(s)[k]
    PROVE  Stored(own, place)'
<1> SUFFICES ASSUME NEW b \in Entries, own[b] # 0, ~Freeing(own[b])',
                    place[b] <= Len(Held(own[b])')
             PROVE  data'[b] = Held(own[b])'[place[b]]
  BY DEF Stored
<1>1. own[b] \in Slots /\ place[b] \in Nat \ {0} /\ HasBlocks(own[b])
  BY DEF Owner, Place, Owned, Numbered
<1>2. place[b] <= Len(Held(own[b])) /\ Held(own[b])'[place[b]] = Held(own[b])[place[b]]
  BY <1>1
<1>3. data[b] = Held(own[b])[place[b]]
  BY <1>2 DEF Stored, Giving, Freeing
<1> QED BY <1>2, <1>3

(* A call for the file at s gives no other file another name. *)
LEMMA BecomeHeld ==
    ASSUME NamesInv, contents \in Contents, NEW n \in Names, NEW s \in Slots,
           NEW c, Become(n, c),
           \A r \in Slots \ {s} : dirents'[r] = dirents[r],
           \A r \in Slots \ {s} : dirents[r].valid => dirents[r].name # n
    PROVE  /\ dirents'[s].name = n => Held(s)' = c
           /\ \A r \in Slots \ {s} : dirents[r].valid => Held(r)' = Held(r)
<1>1. contents' = [contents EXCEPT ![n] = c]
  BY DEF Become
<1>2. dirents'[s].name = n => Held(s)' = c
  BY <1>1 DEF Held, Contents
<1>3. ASSUME NEW r \in Slots \ {s}, dirents[r].valid
      PROVE  Held(r)' = Held(r)
  <2>1. dirents'[r].name = dirents[r].name /\ dirents[r].name # n /\ dirents[r].name \in Names
    BY <1>3 DEF NamesInv
  <2> QED BY <1>1, <2>1 DEF Held, Contents
<1> QED BY <1>2, <1>3

LEMMA FoundNames ==
    ASSUME NamesInv, NEW n \in Names, NEW s \in Slots, IsFound(s, n)
    PROVE  /\ dirents[s].name = n /\ dirents[s].valid
           /\ \A r \in Slots \ {s} : dirents[r].valid => dirents[r].name # n
  BY DEF NamesInv, IsFound, Matches

-----------------------------------------------------------------------------
(* The steps of a write. *)

(* Steps that change neither the disk nor what is held, nor how many are taken. *)
LEMMA SameDisk ==
    ASSUME TypeOK, Sized, NEW own \in Owner, NEW place \in Place, Laid(own, place),
           UNCHANGED disk, UNCHANGED contents,
           call.pc \in {"scan", "walk"}, call'.pc = "walk",
           call'.slot = call.slot, call'.done = call.done
    PROVE  Sized' /\ Owned(own)' /\ Numbered(own, place)' /\ Stored(own, place)'
<1>1. dirents' = dirents /\ fat' = fat /\ data' = data
  BY DEF disk
<1>2. /\ \A s \in Slots : ~Freeing(s) /\ ~Freeing(s)' /\ (InWrite(s)' <=> InWrite(s))
      /\ ~Giving /\ ~Giving' /\ Taken' = Taken
  BY DEF Freeing, InWrite, Writing, Giving, Taken
<1>3. \A s \in Slots : /\ (HasBlocks(s)' <=> HasBlocks(s))
                       /\ Held(s)' = Held(s) /\ Reach(s)' = Reach(s)
  BY <1>1, <1>2 DEF HasBlocks, Held, Reach
<1>4. Sized'
  BY <1>1, <1>2, <1>3 DEF Sized
<1>5. Owned(own)' /\ Numbered(own, place)'
  BY <1>1, <1>2, <1>3, TypeOKParts, SamePlaces DEF Laid
<1>6. Stored(own, place)'
  BY <1>1, <1>2, <1>3, SamePieces DEF Laid
<1> QED BY <1>4, <1>5, <1>6

LEMMA TakeBlockLaid ==
    ASSUME TypeOK, DirInHand, Sized, NEW own \in Owner, NEW place \in Place,
           Laid(own, place), TakeBlock, UNCHANGED contents
    PROVE  Sized' /\ Laid(own, place)'
<1>1. call \in Call /\ call.pc = "scan" /\ UNCHANGED disk
  BY TypeOKParts DEF TakeBlock
<1>2. PICK b \in Entries, e \in EntryAt(call.dir.first) :
        /\ NextUnused(b)
        /\ call' = [call EXCEPT !.pc = "walk", !.target = b,
                                !.cursor = call.dir.first, !.entry = e]
  BY DEF TakeBlock
<1>3. /\ call'.pc = "walk" /\ call'.target = b /\ call'.slot = call.slot
      /\ call'.done = call.done /\ call'.left = call.left /\ call'.chunks = call.chunks
      /\ call'.start = call.start /\ call'.dir = call.dir /\ call'.tag = call.tag
  BY <1>1, <1>2 DEF Call
<1>4. Sized' /\ Owned(own)' /\ Numbered(own, place)' /\ Stored(own, place)'
  BY <1>1, <1>3, SameDisk
<1>5. dirents' = dirents /\ fat' = fat
  BY <1>1 DEF disk
<1>6. Room'
  <2>1. Room /\ Free' = Free
    BY <1>1, <1>5 DEF Laid, Writing, Free
  <2>2. ASSUME NEW x \in Entries, x < b
        PROVE  fat[x].used
    <3>1. call.scan \in Int
      BY <1>1, DiskAssumption DEF Call
    <3> QED BY <1>1, <1>2, <2>1, <2>2, <3>1 DEF NextUnused, Room
  <2> QED BY <1>1, <1>3, <1>5, <2>1, <2>2 DEF Room
<1>7. Counted(own, place)'
  <2>1. Counted(own, place) /\ Held(call.slot)' = Held(call.slot) /\ Taken' = Taken
    BY <1>1, <1>3, <1>5 DEF Laid, Writing, Held, Taken, Giving
  <2>2. ~Giving'
    BY <1>3 DEF Giving
  <2> QED BY <1>3, <2>1, <2>2 DEF Counted, Held
<1>8. OwnsInCall(own)'
  BY TakeBlockOwns DEF Laid
<1> QED BY <1>4, <1>6, <1>7, <1>8 DEF Laid

LEMMA WalkOnLaid ==
    ASSUME TypeOK, DirInHand, Sized, NEW own \in Owner, NEW place \in Place,
           Laid(own, place), WalkOn, UNCHANGED contents
    PROVE  Sized' /\ Laid(own, place)'
<1>1. call \in Call /\ call.pc = "walk" /\ UNCHANGED disk
  BY TypeOKParts DEF WalkOn
<1>2. PICK e : call' = [call EXCEPT !.cursor = call.entry.next, !.entry = e]
  BY DEF WalkOn
<1>3. /\ call'.pc = "walk" /\ call'.target = call.target /\ call'.slot = call.slot
      /\ call'.done = call.done /\ call'.left = call.left /\ call'.chunks = call.chunks
      /\ call'.start = call.start /\ call'.dir = call.dir /\ call'.tag = call.tag
  BY <1>1, <1>2 DEF Call
<1>4. Sized' /\ Owned(own)' /\ Numbered(own, place)' /\ Stored(own, place)'
  BY <1>1, <1>3, SameDisk
<1>5. dirents' = dirents /\ fat' = fat
  BY <1>1 DEF disk
<1>6. Room'
  <2>1. Room /\ Free' = Free
    BY <1>1, <1>5 DEF Laid, Writing, Free
  <2> QED BY <1>1, <1>3, <1>5, <2>1 DEF Room
<1>7. Counted(own, place)'
  <2>1. Counted(own, place) /\ Held(call.slot)' = Held(call.slot) /\ Taken' = Taken
    BY <1>1, <1>3, <1>5 DEF Laid, Writing, Held, Taken, Giving
  <2>2. ~Giving'
    BY <1>3 DEF Giving
  <2> QED BY <1>3, <2>1, <2>2 DEF Counted, Held
<1>8. OwnsInCall(own)'
  BY WalkOnOwns DEF Laid
<1> QED BY <1>4, <1>6, <1>7, <1>8 DEF Laid

(* The loop over i and j finds a block. *)
LEMMA ScanDoesNotEnd ==
    ASSUME TypeOK, NEW own, NEW place, Laid(own, place)
    PROVE  ~ScanEnds
<1> SUFFICES ASSUME ScanEnds PROVE FALSE
  OBVIOUS
<1>1. call \in Call /\ call.pc = "scan"
  BY TypeOKParts DEF ScanEnds
<1>2. Room /\ Counted(own, place)
  BY <1>1 DEF Laid, Writing
<1>3. \A b \in Entries : fat[b].used
  <2>1. call.scan \in Int
    BY <1>1, DiskAssumption DEF Call
  <2>2. ASSUME NEW b \in Entries, ~(b < call.scan)
        PROVE  fat[b].used
    BY <2>1, <2>2, DiskAssumption DEF ScanEnds
  <2> QED BY <1>1, <1>2, <2>2 DEF Room
<1>4. Free = {}
  BY <1>3 DEF Free
<1>5. Cardinality(Free) = 0
  BY <1>4, FS_EmptySet
<1>6. call.left \div BlockSize \in Nat /\ Cardinality(Free) > call.left \div BlockSize
  <2>1. call.left \in Nat
    BY <1>1, <1>2 DEF Call, Counted
  <2> QED BY <1>1, <1>2, <2>1, BlocksLeft DEF Room
<1> QED BY <1>5, <1>6

(* A block that is taken gets a place after the others of its file. *)
LEMMA TakenPlace ==
    ASSUME NEW place \in Place, NEW b \in Entries, NEW k \in Nat
    PROVE  \E p \in Place : p[b] = k /\ \A x \in Entries \ {b} : p[x] = place[x]
<1>1. [place EXCEPT ![b] = k] \in Place
  BY DEF Place
<1> QED BY <1>1 DEF Place

LEMMA TakeFirstBlockLaid ==
    ASSUME TypeOK, DirInHand, Sized, NEW own \in Owner, NEW place \in Place,
           Laid(own, place), TakeFirstBlock, UNCHANGED contents
    PROVE  Sized' /\ \E o \in Owner, p \in Place : Laid(o, p)'
<1>1. DiskOK /\ call \in Call /\ call.pc = "scan" /\ call.dir.first = END
      /\ call.slot \in Slots /\ Writing
  BY TypeOKParts DEF TakeFirstBlock, Call, Writing
<1>2. PICK b \in Entries :
        /\ NextUnused(b)
        /\ SaveDirent([call.dir EXCEPT !.first = b], call.slot)
        /\ call' = [call EXCEPT !.pc = "mark", !.dir = [call.dir EXCEPT !.first = b],
                                !.target = b]
  BY DEF TakeFirstBlock
<1> DEFINE d == [call.dir EXCEPT !.first = b]
<1>3. /\ d.first = b /\ d.valid = call.dir.valid /\ d.name = call.dir.name
      /\ d.size = call.dir.size
  BY <1>1 DEF Call, Dirent
<1>4. /\ call'.pc = "mark" /\ call'.target = b /\ call'.slot = call.slot
      /\ call'.done = call.done /\ call'.left = call.left /\ call'.chunks = call.chunks
      /\ call'.start = call.start /\ call'.dir = d /\ call'.tag = call.tag
      /\ fat' = fat /\ data' = data
  BY <1>1, <1>2 DEF Call, SaveDirent
<1>5. dirents'[call.slot] = d /\ \A s \in Slots \ {call.slot} : dirents'[s] = dirents[s]
  BY <1>1, <1>2 DEF SaveDirent, DiskOK
<1> HIDE DEF d
<1>6. dirents[call.slot] = call.dir /\ call.dir.valid /\ ~HasBlocks(call.slot)
  BY <1>1 DEF DirInHand, HasBlocks
<1>7. Counted(own, place) /\ Room /\ Owned(own) /\ Numbered(own, place)
  BY <1>1 DEF Laid
<1>8. ~fat[b].used /\ b # 0 /\ own[b] = 0 /\ call.done = 0
  BY <1>1, <1>2, <1>7, UnusedUnowned DEF NextUnused, Owned, Laid, Counted
<1>9. PICK o \in Owner : OwnsInCall(o)' /\ o[b] = call.slot
                         /\ \A x \in Entries \ {b} : o[x] = own[x]
  BY <1>4, TakeFirstBlockOwns DEF Given, Laid
<1>10. PICK p \in Place : p[b] = 1 /\ \A x \in Entries \ {b} : p[x] = place[x]
  BY TakenPlace
<1>11. \A x \in Entries : own[x] # 0 =>
         /\ x # b /\ o[x] = own[x] /\ p[x] = place[x] /\ own[x] # call.slot
         /\ own[x] \in Slots /\ HasBlocks(own[x])
  BY <1>6, <1>7, <1>8, <1>9, <1>10 DEF Owned, Owner
<1>12. \A x \in Entries : o[x] # 0 /\ x # b => own[x] # 0
  BY <1>9
<1>13. \A s \in Slots : /\ ~Freeing(s) /\ ~Freeing(s)' /\ (InWrite(s)' <=> InWrite(s))
                        /\ Held(s)' = Held(s)
                        /\ s # call.slot => Reach(s)' = Reach(s)
                        /\ s # call.slot => (HasBlocks(s)' <=> HasBlocks(s))
  <2>1. \A s \in Slots : dirents'[s].name = dirents[s].name
    BY <1>3, <1>5, <1>6
  <2> QED BY <1>1, <1>4, <1>5, <2>1
          DEF Freeing, InWrite, Writing, Held, Reach, HasBlocks
<1>14. Sized'
  <2> SUFFICES ASSUME NEW s \in Slots, dirents'[s].valid
               PROVE  /\ Len(Held(s)') = BlocksIn(dirents'[s].size)
                      /\ Len(Held(s)') <= PageBlocks
                      /\ dirents'[s].first = END /\ ~InWrite(s)' => dirents'[s].size = 0
    BY DEF Sized
  <2>1. CASE s = call.slot
    BY <2>1, <1>1, <1>3, <1>5, <1>6, <1>13 DEF Sized, InWrite
  <2>2. CASE s # call.slot
    BY <2>2, <1>5, <1>13 DEF Sized
  <2> QED BY <2>1, <2>2
<1>15. Owned(o)'
  <2>1. HasBlocks(call.slot)'
    BY <1>3, <1>4, <1>5, <1>6, <1>8 DEF HasBlocks
  <2>2. ASSUME NEW x \in Entries, o[x] # 0
        PROVE  HasBlocks(o[x])'
    <3>1. CASE x = b
      BY <2>1, <3>1, <1>4, <1>9 DEF HasBlocks
    <3>2. CASE x # b
      BY <2>2, <3>2, <1>11, <1>12, <1>13
    <3> QED BY <3>1, <3>2
  <2>3. o[0] = 0
    BY <1>7, <1>8, <1>9, EntriesInDisk DEF Owned
  <2> QED BY <2>2, <2>3, <1>4, <1>7 DEF Owned
<1>16. Numbered(o, p)'
  <2>1. ASSUME NEW s \in Slots, HasBlocks(s)'
        PROVE  p[dirents'[s].first] = 1
    <3>1. CASE s = call.slot
      BY <3>1, <1>3, <1>5, <1>10
    <3>2. CASE s # call.slot
      <4>1. HasBlocks(s) /\ dirents'[s].first = dirents[s].first
        BY <3>2, <2>1, <1>5, <1>13
      <4>2. dirents[s].first \in Entries /\ own[dirents[s].first] # 0
        BY <4>1, <1>1, FoundSlot, DiskAssumption DEF Laid, OwnsInCall
      <4> QED BY <4>1, <4>2, <1>7, <1>11 DEF Numbered
    <3> QED BY <3>1, <3>2
  <2>2. ASSUME NEW x \in Entries, o[x] # 0
        PROVE  p[x] >= 1
    BY <2>2, <1>7, <1>10, <1>11, <1>12 DEF Numbered
  <2>3. ASSUME NEW x \in Entries, NEW y \in Entries, o[x] # 0, o[x] = o[y], p[x] = p[y]
        PROVE  x = y
    <3>1. CASE x = b \/ y = b
      BY <3>1, <2>3, <1>9, <1>11, <1>12
    <3>2. CASE x # b /\ y # b
      BY <3>2, <2>3, <1>7, <1>9, <1>11, <1>12 DEF Numbered
    <3> QED BY <3>1, <3>2
  <2>4. ASSUME NEW x \in Entries, o[x] # 0, ~Unmarked(x)'
        PROVE  IF fat'[x].eof THEN p[x] >= Reach(o[x])' ELSE p[fat'[x].next] = p[x] + 1
    <3>1. x # b /\ own[x] # 0
      BY <2>4, <1>4, <1>12 DEF Unmarked
    <3>2. /\ IF fat[x].eof THEN place[x] >= Reach(own[x])
             ELSE place[fat[x].next] = place[x] + 1
          /\ ~fat[x].eof => fat[x].next \in Entries /\ own[fat[x].next] = own[x]
      BY <3>1, <1>1, <1>7, <1>13, <1>11 DEF Numbered, Unmarked, Laid, OwnsInCall
    <3>3. o[x] = own[x] /\ p[x] = place[x] /\ Reach(own[x])' = Reach(own[x])
      BY <3>1, <1>11, <1>13
    <3>4. ~fat[x].eof => p[fat[x].next] = place[fat[x].next]
      BY <3>1, <3>2, <1>11
    <3> QED BY <3>2, <3>3, <3>4, <1>4
  <2> QED BY <2>1, <2>2, <2>3, <2>4 DEF Numbered
<1>17. Stored(o, p)'
  <2> SUFFICES ASSUME NEW x \in Entries, o[x] # 0, x # b, p[x] <= Len(Held(o[x])')
               PROVE  data'[x] = Held(o[x])'[p[x]]
    BY <1>4 DEF Stored, Giving
  <2>1. o[x] = own[x] /\ own[x] # 0 /\ p[x] = place[x] /\ Held(own[x])' = Held(own[x])
    BY <1>11, <1>12, <1>13
  <2>2. ~Giving /\ ~Freeing(own[x])
    BY <1>1 DEF Giving, Freeing
  <2>3. data[x] = Held(own[x])[place[x]]
    BY <2>1, <2>2 DEF Laid, Stored
  <2> QED BY <2>1, <2>3, <1>4
<1>18. Counted(o, p)'
  <2>1. Taken' = 1 /\ Giving'
    BY <1>4, <1>8 DEF Taken, Giving
  <2>2. \A x \in Entries : o[x] = call.slot => x = b
    BY <1>1, <1>9, <1>11, DiskAssumption
  <2>3. Held(call.slot)' = Held(call.slot)
    BY <1>1, <1>3, <1>4, <1>5, <1>6 DEF Held
  <2> QED BY <2>1, <2>2, <2>3, <1>4, <1>7, <1>8, <1>10 DEF Counted
<1>19. Room'
  <2>1. Free' = Free
    BY <1>4 DEF Free
  <2>2. ASSUME NEW x \in Entries, x < b
        PROVE  fat[x].used
    <3>1. call.scan \in Int
      BY <1>1, DiskAssumption DEF Call
    <3> QED BY <1>1, <1>2, <1>7, <2>2, <3>1 DEF NextUnused, Room
  <2> QED BY <2>1, <2>2, <1>1, <1>4, <1>7, <1>8 DEF Room
<1> QED BY <1>9, <1>14, <1>15, <1>16, <1>17, <1>18, <1>19 DEF Laid

LEMMA LinkBlockLaid ==
    ASSUME TypeOK, DirInHand, Sized, NEW own \in Owner, NEW place \in Place,
           Laid(own, place), LinkBlock, UNCHANGED contents
    PROVE  Sized' /\ \E o \in Owner, p \in Place : Laid(o, p)'
<1>1. DiskOK /\ call \in Call /\ call.pc = "walk" /\ call.slot \in Slots
      /\ call.slot # 0 /\ Writing
  BY TypeOKParts, DiskAssumption DEF LinkBlock, Call, Writing
<1>2. Counted(own, place) /\ Room /\ Owned(own) /\ Numbered(own, place)
  BY <1>1 DEF Laid
<1> DEFINE b == call.target
           c == call.cursor
<1>3. /\ b \in Entries /\ c \in Entries /\ fat[c].eof /\ own[c] = call.slot
      /\ ~fat[b].used /\ fat[c].used
  BY <1>1 DEF Laid, OwnsInCall, LinkBlock, Unmarked, Call
<1>4. own[b] = 0 /\ b # c
  BY <1>1, <1>3, UnusedUnowned DEF Laid
<1>5. /\ call'.pc = "mark" /\ call'.target = b /\ call'.slot = call.slot
      /\ call'.done = call.done /\ call'.left = call.left /\ call'.chunks = call.chunks
      /\ call'.start = call.start /\ call'.dir = call.dir /\ call'.tag = call.tag
  BY <1>1 DEF LinkBlock, Call
<1>6. /\ dirents' = dirents /\ data' = data
      /\ fat'[c] = LinkTo(b)
      /\ \A x \in Entries \ {c} : fat'[x] = fat[x]
  BY <1>1, <1>3 DEF LinkBlock, SaveFatent, DiskOK
<1>7. \A x \in Entries : fat'[x].used <=> fat[x].used
  BY <1>3, <1>6 DEF LinkTo
<1>8. PICK o \in Owner : OwnsInCall(o)' /\ o[b] = call.slot
                         /\ \A x \in Entries \ {b} : o[x] = own[x]
  BY <1>5, LinkBlockOwns DEF Given, Laid
<1>9. call.done \in Nat
  BY <1>1 DEF Call
<1>10. PICK p \in Place : p[b] = call.done + 1 /\ \A x \in Entries \ {b} : p[x] = place[x]
  <2>1. PICK k \in Nat : k = call.done + 1
    BY <1>9
  <2> HIDE DEF b
  <2>2. \E p \in Place : p[b] = k /\ \A x \in Entries \ {b} : p[x] = place[x]
    BY <1>3, TakenPlace
  <2> QED BY <2>1, <2>2
<1> HIDE DEF b, c
<1>11. \A x \in Entries : own[x] # 0 =>
         /\ x # b /\ o[x] = own[x] /\ p[x] = place[x]
         /\ own[x] \in Slots /\ HasBlocks(own[x])
  BY <1>2, <1>4, <1>8, <1>10 DEF Owned, Owner
<1>12. \A x \in Entries : o[x] # 0 /\ x # b => own[x] # 0
  BY <1>8
<1>13. \A s \in Slots : /\ ~Freeing(s) /\ ~Freeing(s)' /\ (InWrite(s)' <=> InWrite(s))
                        /\ Held(s)' = Held(s)
                        /\ s # call.slot => Reach(s)' = Reach(s) /\ Reach(s) = Len(Held(s))
                        /\ (HasBlocks(s)' <=> HasBlocks(s))
  BY <1>1, <1>5, <1>6 DEF Freeing, InWrite, Writing, Held, Reach, HasBlocks
<1>14. Sized'
  BY <1>6, <1>13 DEF Sized
<1>15. Owned(o)'
  <2>1. HasBlocks(call.slot)
    BY <1>1, <1>2, <1>3 DEF Owned
  <2>2. \A x \in Entries : o[x] # 0 => HasBlocks(o[x])'
    BY <2>1, <1>1, <1>8, <1>11, <1>12, <1>13
  <2>3. o[0] = 0
    BY <1>2, <1>3, <1>8, EntriesInDisk DEF Owned
  <2> QED BY <2>2, <2>3, <1>2, <1>7, EntriesInDisk DEF Owned
\* the cursor is at the last block that has been taken
<1>16. place[c] = call.done /\ p[c] = place[c]
  <2>1. place[c] <= call.done
    BY <1>1, <1>2, <1>3 DEF Counted, Taken, Giving
  <2>2. Reach(call.slot) = call.done
    BY <1>1 DEF Reach, InWrite, Taken, Giving
  <2>3. place[c] >= call.done
    BY <2>2, <1>1, <1>2, <1>3, <1>13 DEF Numbered, Unmarked
  <2>4. place[c] \in Nat
    BY <1>3 DEF Place
  <2> QED BY <2>1, <2>3, <2>4, <1>1, <1>3, <1>9, <1>11
<1>17. \A x \in Entries : own[x] = call.slot => place[x] \in Nat /\ place[x] <= call.done
  BY <1>1, <1>2 DEF Counted, Taken, Giving, Place
<1>18. Numbered(o, p)'
  <2>1. ASSUME NEW s \in Slots, HasBlocks(s)'
        PROVE  p[dirents'[s].first] = 1
    <3>1. HasBlocks(s)
      BY <2>1, <1>13
    <3>2. dirents[s].first \in Entries /\ own[dirents[s].first] # 0
      BY <3>1, <1>1, FoundSlot, DiskAssumption DEF Laid, OwnsInCall
    <3> QED BY <3>1, <3>2, <1>2, <1>6, <1>11 DEF Numbered
  <2>2. ASSUME NEW x \in Entries, o[x] # 0
        PROVE  p[x] >= 1
    BY <2>2, <1>2, <1>9, <1>10, <1>11, <1>12 DEF Numbered
  <2>3. ASSUME NEW x \in Entries, NEW y \in Entries, o[x] # 0, o[x] = o[y], p[x] = p[y]
        PROVE  x = y
    <3>1. CASE x = b /\ y # b
      BY <3>1, <2>3, <1>8, <1>9, <1>10, <1>17
    <3>2. CASE x # b /\ y = b
      BY <3>2, <2>3, <1>8, <1>9, <1>10, <1>17
    <3>3. CASE x # b /\ y # b
      BY <3>3, <2>3, <1>2, <1>8, <1>11, <1>12 DEF Numbered
    <3> QED BY <3>1, <3>2, <3>3
  <2>4. ASSUME NEW x \in Entries, o[x] # 0, ~Unmarked(x)'
        PROVE  IF fat'[x].eof THEN p[x] >= Reach(o[x])' ELSE p[fat'[x].next] = p[x] + 1
    <3>1. x # b /\ own[x] # 0 /\ own[x] = o[x] /\ p[x] = place[x] /\ place[x] \in Nat
      BY <2>4, <1>5, <1>11, <1>12 DEF Unmarked, Place
    <3>2. CASE x = c
      BY <3>2, <1>6, <1>10, <1>16 DEF LinkTo
    <3>3. CASE x # c
      <4>1. /\ IF fat[x].eof THEN place[x] >= Reach(own[x])
               ELSE place[fat[x].next] = place[x] + 1
            /\ ~fat[x].eof => fat[x].next \in Entries /\ own[fat[x].next] = own[x]
        BY <3>1, <1>1, <1>2, <1>13, <1>11 DEF Numbered, Unmarked, Laid, OwnsInCall
      <4>2. fat'[x] = fat[x]
        BY <3>3, <1>6
      <4>3. CASE fat[x].eof /\ own[x] = call.slot
        <5>1. Reach(call.slot) = call.done
          BY <1>1 DEF Reach, InWrite, Taken, Giving
        <5>2. place[x] = place[c]
          BY <5>1, <4>1, <4>3, <3>1, <1>9, <1>16, <1>17
        <5> QED BY <5>2, <4>3, <3>1, <3>3, <1>2, <1>3 DEF Numbered
      <4>4. CASE fat[x].eof /\ own[x] # call.slot
        BY <4>1, <4>2, <4>4, <3>1, <1>11, <1>13
      <4>5. CASE ~fat[x].eof
        <5>1. p[fat[x].next] = place[fat[x].next]
          BY <4>1, <4>5, <3>1, <1>11
        <5> QED BY <5>1, <4>1, <4>2, <4>5, <3>1
      <4> QED BY <4>3, <4>4, <4>5
    <3> QED BY <3>2, <3>3
  <2> QED BY <2>1, <2>2, <2>3, <2>4 DEF Numbered
<1>19. Stored(o, p)'
  <2> SUFFICES ASSUME NEW x \in Entries, o[x] # 0, x # b, p[x] <= Len(Held(o[x])')
               PROVE  data'[x] = Held(o[x])'[p[x]]
    BY <1>5 DEF Stored, Giving
  <2>1. o[x] = own[x] /\ own[x] # 0 /\ p[x] = place[x] /\ Held(own[x])' = Held(own[x])
    BY <1>11, <1>12, <1>13
  <2>2. ~Giving /\ ~Freeing(own[x])
    BY <1>1 DEF Giving, Freeing
  <2>3. data[x] = Held(own[x])[place[x]]
    BY <2>1, <2>2 DEF Laid, Stored
  <2> QED BY <2>1, <2>3, <1>6
<1>20. Counted(o, p)'
  <2>1. Taken' = call.done + 1 /\ Giving'
    BY <1>5 DEF Taken, Giving
  <2>2. \A x \in Entries : o[x] = call.slot => p[x] <= call.done + 1
    <3> SUFFICES ASSUME NEW x \in Entries, o[x] = call.slot PROVE p[x] <= call.done + 1
      OBVIOUS
    <3>1. x = b \/ (own[x] = call.slot /\ p[x] = place[x])
      BY <1>8, <1>10
    <3> QED BY <3>1, <1>9, <1>10, <1>17
  <2>3. Held(call.slot)' = Held(call.slot)
    BY <1>5, <1>6 DEF Held
  <2> QED BY <2>1, <2>2, <2>3, <1>2, <1>5, <1>10 DEF Counted
<1>21. Room'
  <2>1. Free' = Free
    BY <1>7 DEF Free
  <2> QED BY <2>1, <1>1, <1>2, <1>3, <1>5, <1>7 DEF Room, b
<1> QED BY <1>8, <1>14, <1>15, <1>18, <1>19, <1>20, <1>21 DEF Laid

LEMMA MarkBlockLaid ==
    ASSUME TypeOK, DirInHand, Sized, NEW own \in Owner, NEW place \in Place,
           Laid(own, place), MarkBlock, UNCHANGED contents
    PROVE  Sized' /\ Laid(own, place)'
<1>1. DiskOK /\ call \in Call /\ call.pc = "mark" /\ call.slot \in Slots
      /\ call.slot # 0 /\ call.target \in Entries /\ call.done \in Nat /\ Writing /\ Giving
  BY TypeOKParts, DiskAssumption DEF MarkBlock, Call, Writing, Giving
<1>2. Counted(own, place) /\ Room /\ Owned(own) /\ Numbered(own, place)
  BY <1>1 DEF Laid
<1>3. /\ call'.pc = "store" /\ call'.target = call.target /\ call'.slot = call.slot
      /\ call'.done = call.done /\ call'.left = call.left /\ call'.chunks = call.chunks
      /\ call'.start = call.start /\ call'.dir = call.dir /\ call'.tag = call.tag
  BY <1>1 DEF MarkBlock, Call
<1>4. /\ dirents' = dirents /\ data' = data
      /\ fat'[call.target] = LastEntry
      /\ \A x \in Entries \ {call.target} : fat'[x] = fat[x]
  BY <1>1 DEF MarkBlock, SaveFatent, DiskOK
<1>5. Giving' /\ Taken' = Taken /\ Taken = call.done + 1
  BY <1>1, <1>3 DEF Giving, Taken
<1>6. \A s \in Slots : /\ ~Freeing(s) /\ ~Freeing(s)' /\ (InWrite(s)' <=> InWrite(s))
                       /\ Held(s)' = Held(s) /\ Reach(s)' = Reach(s)
                       /\ (HasBlocks(s)' <=> HasBlocks(s))
  BY <1>1, <1>3, <1>4, <1>5 DEF Freeing, InWrite, Writing, Held, Reach, HasBlocks
<1>7. Sized'
  BY <1>4, <1>6 DEF Sized
<1>8. \A b \in Entries : own[b] # 0 => own[b] \in Slots
  BY DEF Owner
<1>9. Owned(own)'
  <2>1. fat'[0].used
    BY <1>2, <1>4, EntriesInDisk DEF Owned, LastEntry
  <2> QED BY <2>1, <1>2, <1>6, <1>8 DEF Owned
<1>10. own[call.target] = call.slot /\ place[call.target] = call.done + 1
  BY <1>1, <1>2, <1>5 DEF Laid, OwnsInCall, Counted
<1>11. Numbered(own, place)'
  <2>1. ASSUME NEW x \in Entries, own[x] # 0
        PROVE  IF fat'[x].eof THEN place[x] >= Reach(own[x])'
               ELSE place[fat'[x].next] = place[x] + 1
    <3>1. CASE x = call.target
      <4>1. Reach(call.slot) = call.done + 1
        BY <1>1, <1>5 DEF Reach, InWrite
      <4>2. Reach(own[x])' = call.done + 1
        BY <4>1, <3>1, <1>1, <1>6, <1>10
      <4> QED BY <4>2, <3>1, <1>1, <1>4, <1>10 DEF LastEntry
    <3>2. CASE x # call.target
      BY <3>2, <2>1, <1>2, <1>4, <1>6, <1>8 DEF Numbered, Unmarked
    <3> QED BY <3>1, <3>2
  <2>2. \A s \in Slots : HasBlocks(s)' => place[dirents'[s].first] = 1
    BY <1>2, <1>4, <1>6 DEF Numbered
  <2> QED BY <2>1, <2>2, <1>2 DEF Numbered
<1>12. Stored(own, place)'
  <2> SUFFICES ASSUME NEW x \in Entries, own[x] # 0, x # call.target,
                      place[x] <= Len(Held(own[x])')
               PROVE  data'[x] = Held(own[x])'[place[x]]
    BY <1>3 DEF Stored, Giving
  <2> QED BY <1>4, <1>6, <1>8 DEF Laid, Stored
<1>13. Counted(own, place)'
  <2>1. Held(call.slot)' = Held(call.slot)
    BY <1>3, <1>4 DEF Held
  <2> QED BY <2>1, <1>1, <1>2, <1>3, <1>5 DEF Counted
<1>14. Room'
  <2>1. Free' = Free \ {call.target} /\ call.target \in Free
    BY <1>1, <1>2, <1>4 DEF Room, Free, LastEntry
  <2>2. IsFiniteSet(Free)
    <3>1. IsFiniteSet(Entries)
      BY FS_Interval, DiskAssumption
    <3>2. Free \subseteq Entries
      BY DEF Free
    <3> QED BY <3>1, <3>2, FS_Subset
  <2>3. Cardinality(Free') = Cardinality(Free) - 1 /\ Cardinality(Free) \in Nat
    BY <2>1, <2>2, FS_RemoveElement, FS_CardinalityType
  <2>4. Cardinality(Free) > call.left \div BlockSize /\ call.left \div BlockSize \in Nat
    <3>1. call.left \in Nat
      BY <1>1, <1>2 DEF Call, Counted
    <3> QED BY <3>1, <1>1, <1>2, BlocksLeft DEF Room
  <2>5. Cardinality(Free') >= call.left \div BlockSize
    BY <2>3, <2>4
  <2>6. \A x \in Entries : x < call.target => fat'[x].used
    BY <1>1, <1>2, <1>4 DEF Room
  <2> QED BY <2>5, <2>6, <1>3 DEF Room
<1>15. OwnsInCall(own)'
  BY MarkBlockOwns DEF Laid
<1> QED BY <1>7, <1>9, <1>11, <1>12, <1>13, <1>14, <1>15 DEF Laid

LEMMA StoreDataLaid ==
    ASSUME TypeOK, DirInHand, Sized, NEW own \in Owner, NEW place \in Place,
           Laid(own, place), StoreData, UNCHANGED contents
    PROVE  Sized' /\ Laid(own, place)'
<1>1. DiskOK /\ call \in Call /\ call.pc = "store" /\ call.slot \in Slots
      /\ call.slot # 0 /\ call.target \in Entries /\ call.done \in Nat /\ Writing /\ Giving
  BY TypeOKParts, DiskAssumption DEF StoreData, Call, Writing, Giving
<1>2. Counted(own, place) /\ Room /\ Owned(own) /\ Numbered(own, place)
  BY <1>1 DEF Laid
<1>3. own[call.target] = call.slot /\ place[call.target] = call.done + 1
  BY <1>1, <1>2 DEF Laid, OwnsInCall, Counted, Taken
<1> DEFINE piece == IF call.done < call.chunks THEN <<call.tag, call.start + call.done + 1>>
                    ELSE Rubbish
<1>4. /\ dirents' = dirents /\ fat' = fat
      /\ data'[call.target] = piece
      /\ \A x \in Entries \ {call.target} : data'[x] = data[x]
  BY <1>1 DEF StoreData, StoreBlock, DiskOK
<1>5. call.left \in Nat /\ call.chunks \in Nat /\ BlocksIn(call.left) \in Nat
      /\ call.left \div BlockSize \in Nat /\ BlockSize \in Nat
  <2>1. call.left \in Nat /\ call.chunks \in Nat
    BY <1>1, <1>2 DEF Call, Counted
  <2> QED BY <2>1, BlocksLeft, DiskAssumption
<1>6. call.start = 0 /\ Len(Held(call.slot)) = call.chunks
      /\ \A k \in 1 .. call.chunks : Held(call.slot)[k] = <<call.tag, k>>
  BY <1>2 DEF Counted
<1>7. call.done < call.chunks => piece = Held(call.slot)[call.done + 1]
  BY <1>1, <1>5, <1>6
<1> HIDE DEF piece
<1>8. OwnsInCall(own)' /\ call'.pc \in {"idle", "scan"}
  BY StoreDataOwns DEF Laid
<1>9. HasBlocks(call.slot)
  BY <1>1, <1>2, <1>3 DEF Owned
<1>10. \A s \in Slots : /\ ~Freeing(s) /\ ~Freeing(s)' /\ Held(s)' = Held(s)
                        /\ (HasBlocks(s)' <=> HasBlocks(s))
  BY <1>1, <1>4, <1>8 DEF Freeing, Held, HasBlocks
<1>11. ~Giving'
  BY <1>8 DEF Giving
<1>12. Stored(own, place)'
  <2> SUFFICES ASSUME NEW x \in Entries, own[x] # 0, place[x] <= Len(Held(own[x])')
               PROVE  data'[x] = Held(own[x])'[place[x]]
    BY DEF Stored
  <2>1. own[x] \in Slots /\ Held(own[x])' = Held(own[x])
    BY <1>10 DEF Owner
  <2>2. CASE x = call.target
    <3>1. call.done < call.chunks
      BY <2>1, <2>2, <1>1, <1>3, <1>5, <1>6
    <3> QED BY <2>1, <2>2, <3>1, <1>3, <1>4, <1>7
  <2>3. CASE x # call.target
    BY <2>1, <2>3, <1>4, <1>10 DEF Laid, Stored
  <2> QED BY <2>2, <2>3
<1>13. CASE call.left - BlockSize < 0
  <2>1. call'.pc = "idle"
    BY <1>13 DEF StoreData, Return, Idle
  <2>2. ~Writing' /\ \A s \in Slots : ~InWrite(s)'
    BY <2>1 DEF Writing, InWrite
  <2>3. Len(Held(call.slot)) <= call.done + 1
    <3>1. call.left < BlockSize
      BY <1>5, <1>13
    <3>2. BlocksIn(call.left) <= 1
      BY <1>5, <3>1, BlocksLeft
    <3> QED BY <3>2, <1>1, <1>2, <1>5, <1>6 DEF Counted
  <2>4. ASSUME NEW s \in Slots, NEW k \in Nat, k >= Reach(s)
        PROVE  k >= Reach(s)'
    <3>1. Reach(s)' = Len(Held(s))
      BY <2>2, <1>10 DEF Reach
    <3>2. CASE s = call.slot
      <4>1. Reach(s) = call.done + 1
        BY <3>2, <1>1 DEF Reach, InWrite, Taken
      <4> QED BY <4>1, <3>1, <3>2, <2>3, <2>4, <1>1, <1>5, <1>6
    <3>3. CASE s # call.slot
      BY <3>1, <3>3, <2>4 DEF Reach, InWrite
    <3> QED BY <3>2, <3>3
  <2>5. Owned(own)' /\ Numbered(own, place)'
    <3>1. \A s \in Slots : /\ HasBlocks(s)' <=> HasBlocks(s)
                           /\ HasBlocks(s) => dirents'[s].first = dirents[s].first
      BY <1>4, <1>10
    <3>2. \A s \in Slots : HasBlocks(s) /\ ~Freeing(s)' =>
             \A k \in Nat : k >= Reach(s) => k >= Reach(s)'
      BY <2>4
    <3>3. call.pc \notin {"mark", "free"} /\ call'.pc # "mark" /\ fat' = fat /\ DiskOK
      BY <1>1, <1>4, <2>1
    <3> QED BY <3>1, <3>2, <3>3, <1>2, SamePlaces
  <2>6. Sized'
    BY <1>4, <1>9, <1>10, <2>2 DEF Sized, HasBlocks, InWrite
  <2> QED BY <2>2, <2>5, <2>6, <1>8, <1>12 DEF Laid
<1>14. CASE ~(call.left - BlockSize < 0)
  <2>1. call' = [call EXCEPT !.pc = "scan", !.scan = call.target + 1,
                             !.done = @ + 1, !.left = @ - BlockSize]
    BY <1>14 DEF StoreData
  <2>2. /\ call'.pc = "scan" /\ call'.scan = call.target + 1 /\ call'.slot = call.slot
        /\ call'.done = call.done + 1 /\ call'.left = call.left - BlockSize
        /\ call'.chunks = call.chunks /\ call'.start = call.start
        /\ call'.dir = call.dir /\ call'.tag = call.tag
    BY <1>1, <2>1 DEF Call
  <2>3. Writing' /\ (\A s \in Slots : InWrite(s)' <=> InWrite(s)) /\ Taken' = Taken
        /\ Taken = call.done + 1
    BY <1>1, <1>11, <2>2 DEF Writing, InWrite, Taken
  <2>4. \A s \in Slots : Reach(s)' = Reach(s)
    BY <2>3, <1>10 DEF Reach
  <2>5. Owned(own)' /\ Numbered(own, place)'
    <3>1. \A s \in Slots : /\ HasBlocks(s)' <=> HasBlocks(s)
                           /\ HasBlocks(s) => dirents'[s].first = dirents[s].first
      BY <1>4, <1>10
    <3>2. \A s \in Slots : HasBlocks(s) /\ ~Freeing(s)' =>
             \A k \in Nat : k >= Reach(s) => k >= Reach(s)'
      BY <2>4
    <3>3. call.pc \notin {"mark", "free"} /\ call'.pc # "mark" /\ fat' = fat /\ DiskOK
      BY <1>1, <1>4, <2>2
    <3> QED BY <3>1, <3>2, <3>3, <1>2, SamePlaces
  <2>6. Sized'
    BY <1>4, <1>10, <2>3 DEF Sized
  <2>7. call.left - BlockSize >= 0
    BY <1>5, <1>14
  <2>8. Counted(own, place)'
    <3>1. Held(call.slot)' = Held(call.slot)
      BY <1>4, <2>2 DEF Held
    <3>2. BlocksIn(call.left) = BlocksIn(call'.left) + 1 /\ BlocksIn(call'.left) \in Nat
      <4>1. PICK m \in Nat : m = call.left - BlockSize
        BY <1>5, <2>7
      <4> QED BY <4>1, <2>2, <2>7, <1>5, BlocksLeft
    <3>3. call'.done + BlocksIn(call'.left) = call'.chunks
      BY <3>2, <2>2, <1>1, <1>2 DEF Counted
    <3>4. call'.dir.first # END
      BY <1>1, <1>9, <2>2 DEF DirInHand, HasBlocks
    <3>5. \A x \in Entries : own[x] = call.slot => place[x] <= call.done + 1
      BY <1>2, <2>3 DEF Counted
    <3> QED BY <3>1, <3>3, <3>4, <3>5, <2>2, <2>3, <2>7, <1>6, <1>11 DEF Counted
  <2>9. Room'
    <3>1. Free' = Free
      BY <1>4 DEF Free
    <3>2. \A x \in Entries : x < call.target + 1 => fat[x].used
      <4>1. fat[call.target].used
        BY <1>1, <1>3 DEF Laid, OwnsInCall, Unmarked
      <4>2. \A x \in Entries : x < call.target => fat[x].used
        BY <1>1, <1>2 DEF Room
      <4>3. \A x \in Entries : x < call.target + 1 => x = call.target \/ x < call.target
        BY <1>1, DiskAssumption
      <4> QED BY <4>1, <4>2, <4>3
    <3>3. Cardinality(Free) >= call.left \div BlockSize
      BY <1>1, <1>2 DEF Room
    <3>4. call.left \div BlockSize = (call.left - BlockSize) \div BlockSize + 1
          /\ (call.left - BlockSize) \div BlockSize \in Nat
      <4>1. PICK m \in Nat : m = call.left - BlockSize
        BY <1>5, <2>7
      <4>2. m \div BlockSize \in Nat
        BY BlocksLeft
      <4>3. call.left \div BlockSize = (call.left - BlockSize) \div BlockSize + 1
        BY <1>5, <2>7, BlocksLeft
      <4> QED BY <4>1, <4>2, <4>3
    <3>5. Cardinality(Free) \in Nat
      <4>1. IsFiniteSet(Entries)
        BY FS_Interval, DiskAssumption
      <4>2. Free \subseteq Entries
        BY DEF Free
      <4> QED BY <4>1, <4>2, FS_Subset, FS_CardinalityType
    <3>6. Cardinality(Free') > call'.left \div BlockSize
      BY <3>1, <3>3, <3>4, <3>5, <2>2
    <3> QED BY <3>2, <3>6, <1>4, <2>2 DEF Room
  <2> QED BY <2>3, <2>5, <2>6, <2>8, <2>9, <1>8, <1>12 DEF Laid
<1> QED BY <1>13, <1>14

-----------------------------------------------------------------------------
(* The steps of a delete. *)

LEMMA FreeNextLaid ==
    ASSUME TypeOK, Sized, NEW own \in Owner, NEW place \in Place,
           Laid(own, place), FreeNext, UNCHANGED contents
    PROVE  Sized' /\ Laid(own, place)'
<1>1. DiskOK /\ call \in Call /\ call.pc = "free" /\ call.slot \in Slots /\ call.slot # 0
  BY TypeOKParts, DiskAssumption DEF FreeNext, Call
<1>2. Owned(own) /\ Numbered(own, place) /\ Stored(own, place)
  BY DEF Laid
<1> DEFINE b == call.entry.next
<1>3. b \in Entries /\ own[b] = call.slot
  BY <1>1 DEF Laid, OwnsInCall, FreeNext
<1>4. /\ dirents' = dirents /\ data' = data
      /\ \A x \in Entries \ {b} : fat'[x] = fat[x]
  BY <1>1, <1>3 DEF FreeNext, SaveFatent, DiskOK
<1> HIDE DEF b
<1>5. call'.pc = "free" /\ call'.slot = call.slot
  BY <1>1 DEF FreeNext, Call
<1>6. OwnsInCall(own)'
  BY FreeNextOwns DEF Laid
<1>7. ~Giving /\ ~Giving' /\ ~Writing' /\ call'.pc # "mark" /\ call.pc # "mark"
  BY <1>1, <1>5 DEF Giving, Writing
<1>8. \A s \in Slots : /\ Freeing(s)' <=> Freeing(s)
                       /\ Held(s)' = Held(s) /\ Reach(s)' = Reach(s) /\ ~InWrite(s)'
                       /\ ~InWrite(s) /\ (HasBlocks(s)' <=> HasBlocks(s))
  BY <1>1, <1>4, <1>5 DEF Freeing, InWrite, Writing, Held, Reach, HasBlocks
<1>9. Sized'
  BY <1>4, <1>8 DEF Sized
<1>10. \A x \in Entries : own[x] # 0 => own[x] \in Slots
  BY DEF Owner
<1>11. Owned(own)'
  <2>1. fat'[0] = fat[0]
    BY <1>1, <1>2, <1>3, <1>4, EntriesInDisk DEF Owned
  <2> QED BY <2>1, <1>2, <1>8, <1>10 DEF Owned
<1>12. Numbered(own, place)'
  <2>1. ASSUME NEW x \in Entries, own[x] # 0, ~Freeing(own[x])'
        PROVE  IF fat'[x].eof THEN place[x] >= Reach(own[x])'
               ELSE place[fat'[x].next] = place[x] + 1
    <3>1. x # b /\ ~Freeing(own[x])
      BY <2>1, <1>1, <1>3, <1>8, <1>10 DEF Freeing
    <3> QED BY <3>1, <2>1, <1>2, <1>4, <1>7, <1>8, <1>10 DEF Numbered, Unmarked
  <2>2. \A s \in Slots : HasBlocks(s)' => place[dirents'[s].first] = 1
    BY <1>2, <1>4, <1>8 DEF Numbered
  <2> QED BY <2>1, <2>2, <1>2 DEF Numbered
<1>13. Stored(own, place)'
  BY <1>2, <1>4, <1>7, <1>8, <1>10 DEF Stored
<1> QED BY <1>6, <1>7, <1>9, <1>11, <1>12, <1>13 DEF Laid

LEMMA DeleteDirentLaid ==
    ASSUME TypeOK, Sized, NEW own \in Owner, NEW place \in Place,
           Laid(own, place), DeleteDirent, UNCHANGED contents
    PROVE  Sized' /\ \E o \in Owner : Laid(o, place)'
<1>1. DiskOK /\ call \in Call /\ call.pc = "free" /\ call.slot \in Slots /\ call.slot # 0
  BY TypeOKParts, DiskAssumption DEF DeleteDirent, Call
<1>2. Owned(own) /\ Numbered(own, place) /\ Stored(own, place)
  BY DEF Laid
<1>3. PICK o \in Owner :
        /\ OwnsInCall(o)'
        /\ \A b \in Entries : o[b] = IF own[b] = call.slot THEN 0 ELSE own[b]
  BY DeleteDirentOwns DEF Laid
<1>4. /\ dirents'[call.slot] = DeletedDirent /\ fat' = fat /\ data' = data
      /\ call'.pc = "idle"
      /\ \A s \in Slots \ {call.slot} : dirents'[s] = dirents[s]
  BY <1>1 DEF DeleteDirent, SaveDirent, Return, Idle, DiskOK
<1>5. \A b \in Entries : o[b] # 0 =>
        o[b] = own[b] /\ own[b] \in Slots /\ own[b] # call.slot /\ ~Freeing(own[b])
  BY <1>3 DEF Freeing, Owner
<1>6. ~Giving /\ ~Giving' /\ ~Writing' /\ call'.pc # "mark" /\ call.pc # "mark"
  BY <1>1, <1>4 DEF Giving, Writing
<1>7. \A s \in Slots \ {call.slot} :
        /\ ~Freeing(s) /\ ~Freeing(s)' /\ ~InWrite(s) /\ ~InWrite(s)'
        /\ Held(s)' = Held(s) /\ Reach(s)' = Reach(s)
        /\ HasBlocks(s)' <=> HasBlocks(s)
  BY <1>1, <1>4 DEF Freeing, InWrite, Writing, Held, Reach, HasBlocks
<1>8. ~dirents'[call.slot].valid
  BY <1>4 DEF DeletedDirent
<1>9. Sized'
  <2> SUFFICES ASSUME NEW s \in Slots, dirents'[s].valid
               PROVE  /\ Len(Held(s)') = BlocksIn(dirents'[s].size)
                      /\ Len(Held(s)') <= PageBlocks
                      /\ dirents'[s].first = END /\ ~InWrite(s)' => dirents'[s].size = 0
    BY DEF Sized
  <2> QED BY <1>4, <1>7, <1>8 DEF Sized
<1>10. Owned(o)'
  <2>1. o[0] = 0
    BY <1>2, <1>3, EntriesInDisk DEF Owned
  <2> QED BY <2>1, <1>2, <1>4, <1>5, <1>7 DEF Owned
<1>11. Numbered(o, place)'
  <2>1. ASSUME NEW s \in Slots, HasBlocks(s)'
        PROVE  place[dirents'[s].first] = 1
    <3>1. s # call.slot
      BY <2>1, <1>8 DEF HasBlocks
    <3> QED BY <2>1, <3>1, <1>2, <1>4, <1>7 DEF Numbered
  <2>2. ASSUME NEW x \in Entries, o[x] # 0
        PROVE  IF fat'[x].eof THEN place[x] >= Reach(o[x])'
               ELSE place[fat'[x].next] = place[x] + 1
    BY <2>2, <1>2, <1>4, <1>5, <1>6, <1>7 DEF Numbered, Unmarked
  <2>3. \A x, y \in Entries : o[x] # 0 /\ o[x] = o[y] /\ place[x] = place[y] => x = y
    BY <1>2, <1>5 DEF Numbered
  <2>4. \A x \in Entries : o[x] # 0 => place[x] >= 1
    BY <1>2, <1>5 DEF Numbered
  <2> QED BY <2>1, <2>2, <2>3, <2>4 DEF Numbered
<1>12. Stored(o, place)'
  BY <1>2, <1>4, <1>5, <1>6, <1>7 DEF Stored
<1> QED BY <1>3, <1>6, <1>9, <1>10, <1>11, <1>12 DEF Laid

-----------------------------------------------------------------------------
(* The calls. *)

LEMMA HeldType ==
    /\ NamesInv /\ contents \in Contents =>
         \A s \in Slots : dirents[s].valid => Held(s) \in Seq(Piece) /\ Len(Held(s)) \in Nat
    /\ NamesInv' /\ contents' \in Contents =>
         \A s \in Slots : dirents'[s].valid => Held(s)' \in Seq(Piece) /\ Len(Held(s)') \in Nat
  BY DEF NamesInv, Held, Contents

LEMMA BecomeType ==
    ASSUME contents \in Contents, NEW n \in Names, NEW c \in Seq(Piece), Become(n, c)
    PROVE  contents' \in Contents
  BY DEF Become, Contents

\* s holds what it held, or the beginning of it
Shortened(s) ==
    /\ Len(Held(s)) \in Nat /\ Len(Held(s)') \in Nat /\ Len(Held(s)') <= Len(Held(s))
    /\ \A k \in 1 .. Len(Held(s)') : Held(s)'[k] = Held(s)[k]

(* A call that begins leaves the blocks of the other files in their places. *)
LEMMA BeginLaid ==
    ASSUME DiskOK, NEW own \in Owner, NEW place \in Place, Laid(own, place),
           call.pc = "idle", call'.pc \in {"idle", "scan", "free"},
           fat' = fat, data' = data,
           \A s \in Slots : /\ HasBlocks(s)' <=> HasBlocks(s)
                            /\ HasBlocks(s) => dirents'[s].first = dirents[s].first,
           \A s \in Slots : HasBlocks(s) /\ ~Freeing(s)' => Shortened(s) /\ ~InWrite(s)'
    PROVE  Owned(own)' /\ Numbered(own, place)' /\ Stored(own, place)'
<1>1. Owned(own) /\ Numbered(own, place) /\ Stored(own, place)
  BY DEF Laid
<1>2. \A s \in Slots : HasBlocks(s) /\ ~Freeing(s)' =>
        \A k \in Nat : k >= Reach(s) => k >= Reach(s)'
  BY DEF Reach, InWrite, Writing, Shortened
<1>3. Owned(own)' /\ Numbered(own, place)'
  BY <1>1, <1>2, SamePlaces
<1>4. \A s \in Slots : HasBlocks(s) /\ ~Freeing(s)' =>
        \A k \in Nat \ {0} : k <= Len(Held(s)') =>
            k <= Len(Held(s)) /\ Held(s)'[k] = Held(s)[k]
  BY DEF Shortened
<1>5. Stored(own, place)'
  BY <1>1, <1>4, SamePieces
<1> QED BY <1>3, <1>5

(* A call for the file at s leaves the sizes of the other files right. *)
LEMMA BeginSized ==
    ASSUME Sized, call.pc = "idle", NEW s \in Slots,
           \A r \in Slots \ {s} : dirents'[r] = dirents[r],
           \A r \in Slots \ {s} : dirents[r].valid => Held(r)' = Held(r),
           dirents'[s].valid /\ ~Freeing(s)' => /\ Len(Held(s)') = BlocksIn(dirents'[s].size)
                                              /\ Len(Held(s)') <= PageBlocks,
           dirents'[s].valid /\ dirents'[s].first = END /\ ~InWrite(s)' =>
             dirents'[s].size = 0
    PROVE  Sized'
<1> SUFFICES ASSUME NEW r \in Slots, dirents'[r].valid
             PROVE  /\ ~Freeing(r)' => /\ Len(Held(r)') = BlocksIn(dirents'[r].size)
                                       /\ Len(Held(r)') <= PageBlocks
                    /\ dirents'[r].first = END /\ ~InWrite(r)' => dirents'[r].size = 0
  BY DEF Sized
<1>1. CASE r = s
  BY <1>1
<1>2. CASE r # s
  <2>1. ~Freeing(r) /\ ~InWrite(r)
    BY DEF Freeing, InWrite, Writing
  <2>2. dirents'[r] = dirents[r] /\ Held(r)' = Held(r)
    BY <1>2
  <2> QED BY <2>1, <2>2 DEF Sized
<1> QED BY <1>1, <1>2

LEMMA CreateLaid ==
    ASSUME Environment \cap Damage = {}, TypeOK, NamesInv, contents \in Contents, Sized,
           NEW own \in Owner, NEW place \in Place, Laid(own, place),
           NEW n \in Names, NEW t \in Times, CCreate(n, t)
    PROVE  contents' \in Contents /\ Sized' /\ Laid(own, place)'
<1>1. DiskOK /\ Create(n, t) /\ Become(n, << >>) /\ call.pc = "idle" /\ call'.pc = "idle"
  BY TypeOKParts DEF CCreate, Create, Idle
<1>2. PICK s \in Slots : IsFree(s) /\ SaveDirent(NewDirent(n, t), s)
  BY <1>1 DEF Create, Damage
<1>3. /\ dirents'[s] = NewDirent(n, t) /\ fat' = fat /\ data' = data
      /\ \A r \in Slots \ {s} : dirents'[r] = dirents[r]
      /\ ~dirents[s].valid
  BY <1>1, <1>2 DEF SaveDirent, DiskOK, IsFree
<1>4. /\ dirents'[s].name = n /\ dirents'[s].first = END /\ dirents'[s].size = 0
  BY <1>3 DEF NewDirent
<1>5. \A r \in Slots : dirents[r].name # n
  BY <1>1 DEF Create, NotFound, Matches, NamesInv
<1>6. NamedIsValid
  BY DEF NamesInv, NamedIsValid
<1>7. Held(s)' = << >> /\ \A r \in Slots \ {s} : dirents[r].valid => Held(r)' = Held(r)
  BY <1>1, <1>3, <1>4, <1>5, BecomeHeld
<1>8. contents' \in Contents
  <2>1. << >> \in Seq(Piece)
    OBVIOUS
  <2> QED BY <2>1, <1>1, BecomeType
<1>9. Sized'
  <2>1. Len(Held(s)') = 0
    BY <1>7
  <2>2. BlocksIn(0) = 0
    BY BlocksLeft
  <2> QED BY <2>1, <2>2, <1>1, <1>3, <1>4, <1>7, BeginSized, PageAssumption
<1>10. OwnsInCall(own)'
  BY <1>1, <1>6, CreateOwns DEF Laid
<1>11. Owned(own)' /\ Numbered(own, place)' /\ Stored(own, place)'
  <2>1. \A r \in Slots : /\ HasBlocks(r)' <=> HasBlocks(r)
                         /\ HasBlocks(r) => dirents'[r].first = dirents[r].first
    BY <1>3, <1>4 DEF HasBlocks
  <2>2. ASSUME NEW r \in Slots, HasBlocks(r)
        PROVE  Shortened(r) /\ ~InWrite(r)'
    <3>1. r # s
      BY <2>2, <1>3 DEF HasBlocks
    <3>2. Held(r)' = Held(r) /\ Len(Held(r)) \in Nat
      BY <2>2, <3>1, <1>7, HeldType DEF HasBlocks
    <3>3. ~InWrite(r)'
      BY <1>1 DEF InWrite, Writing
    <3> QED BY <3>2, <3>3 DEF Shortened
  <2> QED BY <2>1, <2>2, <1>1, <1>3, BeginLaid
<1>12. ~Writing'
  BY <1>1 DEF Writing
<1> QED BY <1>8, <1>9, <1>10, <1>11, <1>12 DEF Laid

LEMMA UtimensLaid ==
    ASSUME Environment \cap Damage = {}, TypeOK, NamesInv, contents \in Contents, Sized,
           NEW own \in Owner, NEW place \in Place, Laid(own, place),
           NEW n \in Names, NEW t \in Times, Utimens(n, t), UNCHANGED contents
    PROVE  Sized' /\ Laid(own, place)'
<1>1. DiskOK /\ call.pc = "idle" /\ call'.pc = "idle"
  BY TypeOKParts DEF Utimens, Idle
<1>2. PICK s \in Slots :
        IsFound(s, n) /\ SaveDirent([dirents[s] EXCEPT !.created = t], s)
  BY DEF Utimens, SaveAnyway, Damage
<1>3. /\ dirents'[s] = [dirents[s] EXCEPT !.created = t] /\ fat' = fat /\ data' = data
      /\ \A r \in Slots \ {s} : dirents'[r] = dirents[r]
  BY <1>1, <1>2 DEF SaveDirent, DiskOK
<1>4. \A r \in Slots : /\ dirents'[r].name = dirents[r].name
                       /\ dirents'[r].valid = dirents[r].valid
                       /\ dirents'[r].first = dirents[r].first
                       /\ dirents'[r].size = dirents[r].size
  BY <1>1, <1>3, FoundSlot DEF Dirent
<1>5. \A r \in Slots : /\ Held(r)' = Held(r) /\ ~InWrite(r) /\ ~InWrite(r)'
                       /\ ~Freeing(r) /\ ~Freeing(r)'
                       /\ HasBlocks(r)' <=> HasBlocks(r)
  BY <1>1, <1>4 DEF Held, InWrite, Writing, Freeing, HasBlocks
<1>6. Sized'
  BY <1>4, <1>5 DEF Sized
<1>7. NamedIsValid
  BY DEF NamesInv, NamedIsValid
<1>8. OwnsInCall(own)'
  BY <1>7, UtimensOwns DEF Laid
<1>9. Owned(own)' /\ Numbered(own, place)' /\ Stored(own, place)'
  <2>1. \A r \in Slots : HasBlocks(r) => Shortened(r)
    BY <1>5, HeldType DEF HasBlocks, Shortened
  <2> QED BY <2>1, <1>1, <1>3, <1>4, <1>5, BeginLaid
<1>10. ~Writing'
  BY <1>1 DEF Writing
<1> QED BY <1>6, <1>8, <1>9, <1>10 DEF Laid

LEMMA DeleteLaid ==
    ASSUME TypeOK, NamesInv, contents \in Contents, Sized,
           NEW own \in Owner, NEW place \in Place, Laid(own, place),
           NEW n \in Names, CDelete(n)
    PROVE  contents' \in Contents /\ Sized' /\ Laid(own, place)'
<1>1. DiskOK /\ Delete(n) /\ Become(n, << >>) /\ call.pc = "idle"
  BY TypeOKParts DEF CDelete, Delete, Idle
<1>2. PICK s \in Slots :
        /\ IsFound(s, n)
        /\ \/ dirents[s].first = END /\ SaveDirent(DeletedDirent, s) /\ Return
           \/ /\ dirents[s].first # END /\ UNCHANGED disk
              /\ call' = [Idle EXCEPT !.pc = "free", !.slot = s,
                                      !.entry = fat[dirents[s].first]]
  BY <1>1 DEF Delete
<1>3. contents' \in Contents
  <2>1. << >> \in Seq(Piece)
    OBVIOUS
  <2> QED BY <2>1, <1>1, BecomeType
<1>4. \A r \in Slots \ {s} : dirents'[r] = dirents[r]
  BY <1>1, <1>2 DEF SaveDirent, DiskOK, disk
<1>5. fat' = fat /\ data' = data
  BY <1>2 DEF SaveDirent, disk
<1>6. /\ dirents[s].name = n /\ dirents[s].valid
      /\ \A r \in Slots \ {s} : dirents[r].valid => dirents[r].name # n
  BY <1>2, FoundNames
<1>7. \A r \in Slots \ {s} : dirents[r].valid => Held(r)' = Held(r)
  BY <1>1, <1>4, <1>6, BecomeHeld
<1>8. NamedIsValid
  BY DEF NamesInv, NamedIsValid
<1>9. OwnsInCall(own)'
  BY <1>1, <1>8, DeleteOwns DEF Laid
<1>10. /\ call'.pc \in {"idle", "free"}
       /\ dirents'[s].valid => Freeing(s)' /\ dirents'[s] = dirents[s] /\ dirents[s].first # END
       /\ HasBlocks(s)' => dirents[s].first # END /\ dirents'[s] = dirents[s]
       /\ HasBlocks(s) => dirents'[s] = dirents[s] /\ Freeing(s)'
  <2>1. CASE dirents[s].first = END /\ SaveDirent(DeletedDirent, s) /\ Return
    <3>1. dirents'[s] = DeletedDirent /\ call'.pc = "idle"
      BY <2>1, <1>1 DEF SaveDirent, DiskOK, Return, Idle
    <3> QED BY <2>1, <3>1 DEF DeletedDirent, HasBlocks
  <2>2. CASE /\ dirents[s].first # END /\ UNCHANGED disk
             /\ call' = [Idle EXCEPT !.pc = "free", !.slot = s,
                                     !.entry = fat[dirents[s].first]]
    <3>1. call'.pc = "free" /\ call'.slot = s /\ dirents' = dirents
      BY <2>2 DEF Idle, disk
    <3> QED BY <2>2, <3>1 DEF Freeing
  <2> QED BY <1>2, <2>1, <2>2
<1>11. Sized'
  BY <1>1, <1>4, <1>7, <1>10, BeginSized
<1>12. Owned(own)' /\ Numbered(own, place)' /\ Stored(own, place)'
  <2>1. \A r \in Slots : /\ HasBlocks(r)' <=> HasBlocks(r)
                         /\ HasBlocks(r) => dirents'[r].first = dirents[r].first
    BY <1>4, <1>6, <1>10 DEF HasBlocks
  <2>2. ASSUME NEW r \in Slots, HasBlocks(r), ~Freeing(r)'
        PROVE  Shortened(r) /\ ~InWrite(r)'
    <3>1. r # s
      BY <2>2, <1>10
    <3>2. Held(r)' = Held(r) /\ Len(Held(r)) \in Nat
      BY <2>2, <3>1, <1>7, HeldType DEF HasBlocks
    <3>3. ~InWrite(r)'
      BY <1>10 DEF InWrite, Writing
    <3> QED BY <3>2, <3>3 DEF Shortened
  <2> QED BY <2>1, <2>2, <1>1, <1>5, <1>10, BeginLaid
<1>13. ~Writing'
  BY <1>10 DEF Writing
<1> QED BY <1>3, <1>9, <1>11, <1>12, <1>13 DEF Laid

LEMMA TruncateLaid ==
    ASSUME Environment \cap Damage = {}, TypeOK, NamesInv, contents \in Contents, Sized,
           NEW own \in Owner, NEW place \in Place, Laid(own, place),
           NEW n \in Names, NEW size \in 0 .. MaxSize, NEW t \in Times, CTruncate(n, size, t)
    PROVE  contents' \in Contents /\ Sized' /\ Laid(own, place)'
<1>1. DiskOK /\ Truncate(n, size, t) /\ Become(n, SubSeq(contents[n], 1, BlocksIn(size)))
      /\ call.pc = "idle"
  BY TypeOKParts DEF CTruncate, Truncate, Idle
<1>2. PICK s \in Slots :
        /\ IsFound(s, n) /\ size <= dirents[s].size
        /\ SaveDirent([dirents[s] EXCEPT !.valid = TRUE, !.size = size, !.modified = t], s)
        /\ UNCHANGED call
  BY <1>1 DEF Truncate, Damage
<1>3. /\ dirents'[s] = [dirents[s] EXCEPT !.valid = TRUE, !.size = size, !.modified = t]
      /\ fat' = fat /\ data' = data
      /\ \A r \in Slots \ {s} : dirents'[r] = dirents[r]
  BY <1>1, <1>2 DEF SaveDirent, DiskOK
<1>4. /\ dirents[s].name = n /\ dirents[s].valid
      /\ \A r \in Slots \ {s} : dirents[r].valid => dirents[r].name # n
  BY <1>2, FoundNames
<1>5. /\ dirents'[s].name = n /\ dirents'[s].valid /\ dirents'[s].size = size
      /\ dirents'[s].first = dirents[s].first
  BY <1>1, <1>3, <1>4, FoundSlot DEF Dirent
<1>6. call'.pc = "idle"
  BY <1>1, <1>2
<1>7. \A r \in Slots : ~InWrite(r) /\ ~InWrite(r)' /\ ~Freeing(r) /\ ~Freeing(r)'
  BY <1>1, <1>6 DEF InWrite, Writing, Freeing
<1> DEFINE old == contents[n]
           m == BlocksIn(size)
<1>8. old \in Seq(Piece) /\ old = Held(s)
  BY <1>4 DEF Held, Contents
<1>9. /\ m \in Nat /\ m <= Len(old) /\ Len(old) <= PageBlocks
      /\ Len(old) = BlocksIn(dirents[s].size)
  <2>1. Len(old) = BlocksIn(dirents[s].size) /\ Len(old) <= PageBlocks
    BY <1>4, <1>7, <1>8 DEF Sized
  <2>2. dirents[s].size \in Nat /\ size \in Nat
    BY <1>1, FoundSlot, DiskAssumption DEF Dirent
  <2> QED BY <2>1, <2>2, <1>2, BlocksLeft
<1> HIDE DEF m
<1>10. /\ SubSeq(old, 1, m) \in Seq(Piece) /\ Len(SubSeq(old, 1, m)) = m
       /\ \A i \in 1 .. m : SubSeq(old, 1, m)[i] = old[i]
  <2> HIDE DEF old
  <2>1. \A i \in 1 .. m : old[i] \in Piece
    BY <1>8, <1>9, ElementOfSeq
  <2>2. /\ SubSeq(old, 1, m) \in Seq(Piece)
        /\ Len(SubSeq(old, 1, m)) = IF 1 <= m THEN m - 1 + 1 ELSE 0
        /\ \A i \in 1 .. m - 1 + 1 : SubSeq(old, 1, m)[i] = old[1 + i - 1]
    BY <2>1, <1>9, SubSeqProperties
  <2>3. \A i \in 1 .. m : i \in 1 .. m - 1 + 1 /\ 1 + i - 1 = i
    BY <1>9
  <2> QED BY <2>2, <2>3, <1>9
<1>11. contents' \in Contents
  BY <1>1, <1>10, BecomeType DEF m
<1>12. Held(s)' = SubSeq(old, 1, m)
       /\ \A r \in Slots \ {s} : dirents[r].valid => Held(r)' = Held(r)
  BY <1>1, <1>3, <1>4, <1>5, BecomeHeld DEF m
<1> HIDE DEF old
<1>13. Sized'
  <2>1. Len(Held(s)') = BlocksIn(dirents'[s].size) /\ Len(Held(s)') <= PageBlocks
    BY <1>5, <1>8, <1>9, <1>10, <1>12, PageAssumption DEF m
  <2>2. dirents'[s].first = END => dirents'[s].size = 0
    <3>1. dirents[s].first = END => dirents[s].size = 0
      BY <1>4, <1>7 DEF Sized
    <3> QED BY <3>1, <1>2, <1>5
  <2> QED BY <2>1, <2>2, <1>1, <1>3, <1>12, BeginSized
<1>14. NamedIsValid
  BY DEF NamesInv, NamedIsValid
<1>15. OwnsInCall(own)'
  BY <1>1, <1>14, TruncateOwns DEF Laid
<1>16. Owned(own)' /\ Numbered(own, place)' /\ Stored(own, place)'
  <2>1. \A r \in Slots : /\ HasBlocks(r)' <=> HasBlocks(r)
                         /\ HasBlocks(r) => dirents'[r].first = dirents[r].first
    BY <1>3, <1>4, <1>5 DEF HasBlocks
  <2>2. ASSUME NEW r \in Slots, HasBlocks(r)
        PROVE  Shortened(r)
    <3>1. CASE r = s
      BY <3>1, <1>8, <1>9, <1>10, <1>12 DEF Shortened
    <3>2. CASE r # s
      <4>1. Held(r)' = Held(r) /\ Len(Held(r)) \in Nat
        BY <2>2, <3>2, <1>12, HeldType DEF HasBlocks
      <4> QED BY <4>1 DEF Shortened
    <3> QED BY <3>1, <3>2
  <2> QED BY <2>1, <2>2, <1>1, <1>3, <1>6, <1>7, BeginLaid
<1>17. ~Writing'
  BY <1>6 DEF Writing
<1> QED BY <1>11, <1>13, <1>15, <1>16, <1>17 DEF Laid

(* What a write at the start of an empty file should make of it. *)
LEMMA FreshContents ==
    ASSUME NEW old, Len(old) = 0, NEW size \in Nat, NEW tag \in Tags
    PROVE  /\ Overwritten(old, size, 0, tag) \in Seq(Piece)
           /\ Len(Overwritten(old, size, 0, tag)) = BlocksIn(size)
           /\ \A k \in 1 .. BlocksIn(size) : Overwritten(old, size, 0, tag)[k] = <<tag, k>>
<1> DEFINE m == BlocksIn(size)
<1>1. m \in Nat
  BY BlocksLeft
<1>2. 0 \div BlockSize = 0
  BY DiskAssumption, OneTurnLess
<1> HIDE DEF m
<1>3. (IF m > 0 THEN m ELSE 0) = m /\ 0 + m = m
  BY <1>1
<1>4. Overwritten(old, size, 0, tag) = [k \in 1 .. m |-> <<tag, k>>]
  <2>1. \A k \in 1 .. m : k \in 0 + 1 .. m
    BY <1>1
  <2> QED BY <1>1, <1>2, <1>3, <2>1 DEF Overwritten, m
<1>5. \A k \in 1 .. m : <<tag, k>> \in Piece
  BY <1>1 DEF Piece
<1> QED BY <1>1, <1>4, <1>5 DEF m

LEMMA WriteLaid ==
    ASSUME Environment \cap {"rewrite", "exhaust"} = {},
           \A size \in Sizes : BlocksIn(size) <= PageBlocks,
           TypeOK, NamesInv, contents \in Contents, Sized,
           NEW own \in Owner, NEW place \in Place, Laid(own, place),
           NEW n \in Names, NEW size \in Sizes, NEW offset \in Offsets,
           NEW tag \in Tags, NEW t \in Times, CWrite(n, size, offset, tag, t)
    PROVE  contents' \in Contents /\ Sized' /\ Laid(own, place)'
<1>1. /\ DiskOK /\ Write(n, size, offset, tag, t) /\ call.pc = "idle" /\ size \in Nat
      /\ Become(n, Overwritten(contents[n], size, offset, tag))
      /\ size + offset \in 0 .. MaxSize
  <2>1. Write(n, size, offset, tag, t) /\ size \in Nat /\ offset \in Nat
        /\ Become(n, Overwritten(contents[n], size, offset, tag))
    BY CallsAssumption, DiskAssumption DEF CWrite
  <2>2. call.pc = "idle" /\ size + offset \in 0 .. MaxSize
    BY <2>1, DiskAssumption DEF Write, Idle
  <2> QED BY <2>1, <2>2, TypeOKParts
<1>2. PICK s \in Slots :
        /\ IsFound(s, n) /\ FreshFile(s, offset)
        /\ LET d == [dirents[s] EXCEPT !.valid = TRUE, !.size = size + offset, !.modified = t]
           IN  /\ SaveDirent(d, s)
               /\ call' = [Idle EXCEPT !.pc = "scan", !.slot = s, !.dir = d, !.tag = tag,
                              !.start = offset \div BlockSize,
                              !.chunks = (size + BlockSize - 1) \div BlockSize,
                              !.left = size]
  BY <1>1 DEF Write
<1> DEFINE d == [dirents[s] EXCEPT !.valid = TRUE, !.size = size + offset, !.modified = t]
<1>3. /\ dirents[s].name = n /\ dirents[s].valid
      /\ \A r \in Slots \ {s} : dirents[r].valid => dirents[r].name # n
  BY <1>2, FoundNames
<1>4. dirents[s].first = END /\ dirents[s].size = 0 /\ offset = 0 /\ size + offset = size
  BY <1>1, <1>2 DEF FreshFile
<1>5. d.name = n /\ d.valid /\ d.size = size /\ d.first = END
  BY <1>1, <1>3, <1>4, FoundSlot DEF Dirent
<1>6. SaveDirent(d, s)
  BY <1>2
<1>7. /\ call'.pc = "scan" /\ call'.slot = s /\ call'.dir = d /\ call'.tag = tag
      /\ call'.start = offset \div BlockSize /\ call'.chunks = BlocksIn(size)
      /\ call'.left = size /\ call'.scan = 0 /\ call'.done = 0
  BY <1>2 DEF Idle, BlocksIn
<1>8. /\ dirents'[s] = d /\ fat' = fat /\ data' = data
      /\ \A r \in Slots \ {s} : dirents'[r] = dirents[r]
  BY <1>1, <1>6 DEF SaveDirent, DiskOK
<1> HIDE DEF d
<1>9. call'.start = 0
  BY <1>4, <1>7, DiskAssumption, OneTurnLess
<1> DEFINE new == Overwritten(contents[n], size, 0, tag)
<1>10. /\ new \in Seq(Piece) /\ Len(new) = BlocksIn(size)
       /\ \A k \in 1 .. BlocksIn(size) : new[k] = <<tag, k>>
  <2>1. Len(Held(s)) = BlocksIn(0) /\ BlocksIn(0) = 0
    BY <1>1, <1>3, <1>4, BlocksLeft DEF Sized, Freeing
  <2>2. Len(contents[n]) = 0
    BY <2>1, <1>3 DEF Held
  <2> QED BY <2>2, <1>1, FreshContents
<1>11. Become(n, new)
  BY <1>1, <1>4
<1> HIDE DEF new
<1>12. contents' \in Contents
  BY <1>10, <1>11, BecomeType
<1>13. Held(s)' = new /\ \A r \in Slots \ {s} : dirents[r].valid => Held(r)' = Held(r)
  BY <1>3, <1>5, <1>8, <1>11, BecomeHeld
<1>14. \A r \in Slots : /\ ~Freeing(r) /\ ~Freeing(r)' /\ ~InWrite(r)
                        /\ InWrite(r)' <=> r = s
  BY <1>1, <1>7 DEF Freeing, InWrite, Writing
<1>15. Sized'
  BY <1>1, <1>5, <1>8, <1>10, <1>13, <1>14, BeginSized
<1>16. NamedIsValid
  BY DEF NamesInv, NamedIsValid
<1>17. OwnsInCall(own)'
  BY <1>1, <1>16, WriteOwns DEF Laid
<1>18. ~HasBlocks(s)
  BY <1>4 DEF HasBlocks
<1>19. Owned(own)' /\ Numbered(own, place)' /\ Stored(own, place)'
  <2>1. \A r \in Slots : /\ HasBlocks(r)' <=> HasBlocks(r)
                         /\ HasBlocks(r) => dirents'[r].first = dirents[r].first
    BY <1>5, <1>8, <1>18 DEF HasBlocks
  <2>2. ASSUME NEW r \in Slots, HasBlocks(r)
        PROVE  Shortened(r) /\ ~InWrite(r)'
    <3>1. r # s
      BY <2>2, <1>18
    <3>2. Held(r)' = Held(r) /\ Len(Held(r)) \in Nat
      BY <2>2, <3>1, <1>13, HeldType DEF HasBlocks
    <3> QED BY <3>1, <3>2, <1>14 DEF Shortened
  <2> QED BY <2>1, <2>2, <1>1, <1>7, <1>8, BeginLaid
<1>20. Counted(own, place)'
  <2>1. \A b \in Entries : own[b] # s
    BY <1>18, DiskAssumption DEF Laid, Owned
  <2>2. ~Giving' /\ Taken' = 0
    BY <1>7 DEF Giving, Taken
  <2>3. Held(call.slot)' = new
    BY <1>7, <1>13 DEF Held
  <2>4. 0 + BlocksIn(size) = BlocksIn(size)
    BY <1>1, BlocksLeft
  <2> QED BY <2>1, <2>2, <2>3, <2>4, <1>1, <1>7, <1>9, <1>10 DEF Counted
<1>21. Room'
  <2>1. Cardinality(Free) > size \div BlockSize
    BY <1>1 DEF Write, HasRoom, Free
  <2>2. Free' = Free
    BY <1>8 DEF Free
  <2>3. \A b \in Entries : ~(b < 0)
    BY DiskAssumption
  <2> QED BY <2>1, <2>2, <2>3, <1>7 DEF Room
<1> QED BY <1>12, <1>15, <1>17, <1>19, <1>20, <1>21 DEF Laid

-----------------------------------------------------------------------------
(* Reading. *)

(* Between calls the loop over a file's blocks meets them in their places. *)
LEMMA FollowPlaces ==
    ASSUME DiskOK, call.pc = "idle", NEW own \in Owner, NEW place \in Place,
           Laid(own, place), NEW s \in Slots, HasBlocks(s), NEW m \in Nat, m = Len(Held(s))
    PROVE  \A k \in Nat : k < m =>
             /\ Follow(dirents[s].first)[k] \in Entries
             /\ own[Follow(dirents[s].first)[k]] = s
             /\ place[Follow(dirents[s].first)[k]] = k + 1
<1> DEFINE at == Follow(dirents[s].first)
           P == {k \in Nat : k < m => at[k] \in Entries /\ own[at[k]] = s
                                      /\ place[at[k]] = k + 1}
<1>1. at[0] = dirents[s].first /\ \A k \in Nat : at[k + 1] = After[at[k]]
  <2>1. PICK next, b : next = After /\ b = dirents[s].first
    OBVIOUS
  <2>2. at = Iterate(next, b)
    BY <2>1 DEF Follow
  <2>3. at[0] = b /\ \A k \in Nat : at[k + 1] = next[at[k]]
    <3>1. /\ Iterate(next, b)[0] = b
          /\ \A n \in Nat : Iterate(next, b)[n + 1] = next[Iterate(next, b)[n]]
      BY IterateDef
    <3> HIDE DEF at
    <3> QED BY <2>2, <3>1
  <2> HIDE DEF at
  <2> QED BY <2>1, <2>3, Zenon
<1> HIDE DEF at
<1>2. s # 0 /\ OwnsInCall(own) /\ Numbered(own, place)
  BY DiskAssumption DEF Laid
<1>3. 0 \in P
  <2>1. dirents[s].first \in Entries /\ own[dirents[s].first] = s
    BY <1>2, FoundSlot DEF OwnsInCall
  <2>2. place[dirents[s].first] = 1
    BY <1>2 DEF Numbered
  <2>3. at[0] \in Entries /\ own[at[0]] = s /\ place[at[0]] = 0 + 1
    BY <2>1, <2>2, <1>1
  <2> QED BY <2>3
<1>4. ASSUME NEW k \in Nat, k \in P PROVE k + 1 \in P
  <2> SUFFICES ASSUME k + 1 < m
               PROVE  at[k + 1] \in Entries /\ own[at[k + 1]] = s /\ place[at[k + 1]] = k + 2
    OBVIOUS
  <2>1. at[k] \in Entries /\ own[at[k]] = s /\ place[at[k]] = k + 1
    BY <1>4
  <2>2. PICK b \in Entries : b = at[k]
    BY <2>1
  <2>3. ~Unmarked(b) /\ ~Freeing(s) /\ Reach(s) = m
    BY DEF Unmarked, Freeing, Reach, InWrite, Writing
  <2>4. IF fat[b].eof THEN place[b] >= m ELSE place[fat[b].next] = place[b] + 1
    BY <1>2, <2>1, <2>2, <2>3 DEF Numbered
  <2>5. ~fat[b].eof
    BY <2>1, <2>2, <2>4
  <2>6. fat[b].next \in Entries /\ own[fat[b].next] = s
    BY <1>2, <2>1, <2>2, <2>3, <2>5 DEF OwnsInCall
  <2>7. After[b] = fat[b].next
    <3>1. b \in 0 .. FatSize
      BY DiskAssumption
    <3> QED BY <3>1, <2>5 DEF After
  <2>8. PICK c \in Entries : c = fat[b].next
    BY <2>6
  <2>9. at[k + 1] = c
    BY <1>1, <2>2, <2>7, <2>8
  <2>10. own[c] = s /\ place[c] = (k + 1) + 1
    BY <2>1, <2>2, <2>4, <2>5, <2>6, <2>8
  <2>11. place[c] = k + 2
    BY <2>10
  <2> QED BY <2>9, <2>10, <2>11
<1>5. Nat \subseteq P
  <2> HIDE DEF P
  <2> QED BY <1>3, <1>4, ByInduction
<1> QED BY <1>5 DEF at

LEMMA InvReadsBack == TypeOK /\ ContentsInv => ReadsBack
<1> SUFFICES ASSUME TypeOK, ContentsInv, call = Idle, NEW n \in Names, NEW s \in Slots,
                    IsFound(s, n)
             PROVE  FileRead(s) = contents[n]
  BY DEF ReadsBack
<1>1. DiskOK /\ call.pc = "idle" /\ NamesInv /\ contents \in Contents /\ Sized
  BY TypeOKParts DEF Idle, ContentsInv
<1>2. PICK own \in Owner, place \in Place : Laid(own, place)
  BY DEF ContentsInv
<1>3. dirents[s].valid /\ Held(s) = contents[n]
  BY <1>1, FoundNames DEF Held
<1>4. Held(s) \in Seq(Piece) /\ Len(Held(s)) \in Nat
  BY <1>1, <1>3, HeldType
<1>5. ~Freeing(s) /\ ~InWrite(s)
  BY <1>1 DEF Freeing, InWrite, Writing
<1> DEFINE m == Len(Held(s))
           chain == Follow(dirents[s].first)
<1>6. m = BlocksIn(dirents[s].size) /\ m <= PageBlocks /\ m \in Nat
  BY <1>1, <1>3, <1>4, <1>5 DEF Sized
<1>7. m # 0 => HasBlocks(s)
  <2>1. dirents[s].first = END => dirents[s].size = 0
    BY <1>1, <1>3, <1>5 DEF Sized
  <2> QED BY <2>1, <1>3, <1>6, BlocksLeft DEF HasBlocks
<1>8. ASSUME HasBlocks(s), NEW k \in Nat, k < m
      PROVE  /\ data[chain[k]] = Held(s)[k + 1]
             /\ k + 1 < m => ~fat[chain[k]].eof
  <2>1. chain[k] \in Entries /\ own[chain[k]] = s /\ place[chain[k]] = k + 1 /\ s # 0
    <3>1. PICK len \in Nat : len = Len(Held(s))
      BY <1>4
    <3> QED BY <1>1, <1>2, <1>8, <3>1, FollowPlaces, DiskAssumption
  <2>2. PICK b \in Entries : b = chain[k]
    BY <2>1
  <2> HIDE DEF chain
  <2>3. data[b] = Held(s)[k + 1]
    BY <1>1, <1>2, <1>5, <1>8, <2>1, <2>2 DEF Laid, Stored, Giving
  <2>4. k + 1 < m => ~fat[b].eof
    BY <1>1, <1>2, <1>4, <1>5, <2>1, <2>2 DEF Laid, Numbered, Reach, Unmarked
  <2> QED BY <2>2, <2>3, <2>4
<1>9. chain[0] = dirents[s].first
  BY IterateDef DEF Follow
<1> HIDE DEF m, chain
<1>10. ASSUME NEW k \in 1 .. m
       PROVE  PageRead(s, (k - 1) \div PageBlocks)[((k - 1) % PageBlocks) + 1] = Held(s)[k]
  <2>1. PICK j \in Nat : j = k - 1 /\ k = j + 1 /\ j < m
    BY <1>6, <1>10
  <2>2. j \div PageBlocks = 0 /\ j % PageBlocks = j
    <3>1. j < PageBlocks /\ PageBlocks \in Nat \ {0}
      BY <1>6, <2>1, PageAssumption
    <3> QED BY <3>1, OneTurnLess
  <2>3. HasBlocks(s)
    BY <1>6, <1>7, <1>10
  <2>4. PageRead(s, 0)[k] =
          IF k = 1 THEN data[dirents[s].first]
          ELSE IF fat[chain[0 + k - 2]].eof THEN Rubbish ELSE data[chain[0 + k - 1]]
    <3>1. k \in 1 .. PageBlocks /\ 0 * PageBlocks = 0
      BY <1>6, <1>10, PageAssumption
    <3> QED BY <3>1 DEF PageRead, chain
  <2>5. data[chain[j]] = Held(s)[k]
    BY <1>8, <2>1, <2>3
  <2>6. PageRead(s, 0)[k] = Held(s)[k]
    <3>1. CASE k = 1
      BY <3>1, <2>1, <2>4, <2>5, <1>9
    <3>2. CASE k # 1
      <4>1. PICK i \in Nat : i = k - 2 /\ i < m /\ i + 1 < m
        BY <1>6, <1>10, <3>2
      <4>2. 0 + k - 2 = i /\ 0 + k - 1 = j
        BY <2>1, <4>1
      <4>3. ~fat[chain[i]].eof
        BY <1>8, <2>3, <4>1
      <4> QED BY <2>4, <2>5, <3>2, <4>2, <4>3
    <3> QED BY <3>1, <3>2
  <2>7. (k - 1) \div PageBlocks = 0 /\ ((k - 1) % PageBlocks) + 1 = k
    BY <2>1, <2>2
  <2> QED BY <2>6, <2>7
<1>11. FileRead(s) = [k \in 1 .. m |-> Held(s)[k]]
  BY <1>6, <1>10 DEF FileRead
<1>12. Held(s) = [k \in 1 .. m |-> Held(s)[k]]
  BY <1>4 DEF m
<1> QED BY <1>3, <1>11, <1>12

-----------------------------------------------------------------------------
(* The invariant holds at first, and every step keeps it. *)

LEMMA InitContents == UsedDisk => TypeOK /\ ContentsInv
<1> SUFFICES ASSUME UsedDisk PROVE TypeOK /\ ContentsInv
  OBVIOUS
<1>1. dirents \in [Slots -> Dirent] /\ \A s \in Slots :
        dirents[s].name = NoName /\ ~dirents[s].valid /\ ~dirents[s].slash
  <2>1. \A size \in 0 .. MaxSize : [DeletedDirent EXCEPT !.size = size] \in Dirent
    BY DirentTypes DEF Dirent
  <2>2. 0 \in 0 .. MaxSize /\ BlockSize \in 0 .. MaxSize
    BY DiskAssumption
  <2>3. \A s \in Slots : \E size \in 0 .. MaxSize :
          dirents[s] = [DeletedDirent EXCEPT !.size = size]
    BY <2>2 DEF UsedDisk
  <2>4. dirents = [s \in Slots |-> dirents[s]]
    BY DEF UsedDisk
  <2>5. \A size : /\ [DeletedDirent EXCEPT !.size = size].name = NoName
                   /\ ~[DeletedDirent EXCEPT !.size = size].valid
                   /\ ~[DeletedDirent EXCEPT !.size = size].slash
    BY DEF DeletedDirent
  <2>6. \A s \in Slots : dirents[s] \in Dirent
    BY <2>1, <2>3
  <2> QED BY <2>3, <2>4, <2>5, <2>6
<1>2. fat \in [Entries -> Fatent] /\ fat[0].used
  BY FatentTypes, DiskAssumption DEF UsedDisk, LastEntry
<1>3. data \in [Entries -> Piece]
  <2>1. PICK tag \in Tags : data = [b \in Entries |-> IF b = 0 THEN <<tag, 1>> ELSE Rubbish]
    BY DEF UsedDisk
  <2>2. <<tag, 1>> \in Piece /\ Rubbish \in Piece
    BY DEF Piece
  <2> QED BY <2>1, <2>2
<1>4. call = Idle /\ call \in Call /\ call.pc = "idle"
  BY IdleType DEF UsedDisk, Idle
<1>5. TypeOK
  BY <1>1, <1>2, <1>3, <1>4 DEF TypeOK
<1>6. ~Writing
  BY <1>4 DEF Writing
<1>7. DirInHand /\ NamesInv /\ Sized
  BY <1>1, <1>6, DiskAssumption DEF DirInHand, NamesInv, Sized
<1>8. contents \in Contents
  BY DEF UsedDisk, Contents
<1> DEFINE own == [b \in Entries |-> 0]
           place == [b \in Entries |-> 0]
<1>9. own \in Owner /\ place \in Place /\ \A b \in Entries : own[b] = 0
  BY DiskAssumption DEF Owner, Place
<1> HIDE DEF own, place
<1>10. \A s \in Slots : ~HasBlocks(s)
  BY <1>1 DEF HasBlocks
<1>11. OwnsInCall(own)
  BY <1>4, <1>9, <1>10 DEF OwnsInCall
<1>12. Owned(own) /\ Numbered(own, place) /\ Stored(own, place)
  BY <1>2, <1>9, <1>10, EntriesInDisk DEF Owned, Numbered, Stored
<1>13. Laid(own, place)
  BY <1>6, <1>11, <1>12 DEF Laid
<1> QED BY <1>4, <1>5, <1>7, <1>8, <1>9, <1>13 DEF ContentsInv

LEMMA StepContents ==
    ASSUME TypeOK, ContentsInv, Step, UNCHANGED contents
    PROVE  ContentsInv'
<1>1. DirInHand /\ NamesInv /\ Sized /\ contents \in Contents /\ call.pc \notin {"seek", "trim"}
  BY DEF ContentsInv
<1>2. PICK own \in Owner, place \in Place : Laid(own, place)
  BY DEF ContentsInv
<1>3. DirInHand' /\ NamesInv' /\ contents' \in Contents
  BY <1>1, StepTypes, StepNames
<1>4. call'.pc \notin {"seek", "trim"}
  <2>1. OwnsInCall(own)
    BY <1>2 DEF Laid
  <2> QED BY <1>1, <2>1, StepOwns
<1>5. Sized' /\ \E o \in Owner, p \in Place : Laid(o, p)'
  <2>1. ~(SeekOn \/ SeekFails \/ Cut \/ TrimNext \/ TrimLast)
    BY <1>1, Zenon DEF SeekOn, SeekFails, Cut, TrimNext, TrimLast
  <2>2. ~ScanEnds
    BY <1>2, ScanDoesNotEnd
  <2>3. CASE TakeFirstBlock
    BY <1>1, <1>2, <2>3, TakeFirstBlockLaid
  <2>4. CASE TakeBlock
    BY <1>1, <1>2, <2>4, TakeBlockLaid
  <2>5. CASE WalkOn
    BY <1>1, <1>2, <2>5, WalkOnLaid
  <2>6. CASE LinkBlock
    BY <1>1, <1>2, <2>6, LinkBlockLaid
  <2>7. CASE MarkBlock
    BY <1>1, <1>2, <2>7, MarkBlockLaid
  <2>8. CASE StoreData
    BY <1>1, <1>2, <2>8, StoreDataLaid
  <2>9. CASE FreeNext
    BY <1>1, <1>2, <2>9, FreeNextLaid
  <2>10. CASE DeleteDirent
    BY <1>1, <1>2, <2>10, DeleteDirentLaid
  <2> QED BY <2>1, <2>2, <2>3, <2>4, <2>5, <2>6, <2>7, <2>8, <2>9, <2>10, Zenon DEF Step
<1> QED BY <1>3, <1>4, <1>5 DEF ContentsInv

LEMMA CallContents ==
    ASSUME Environment \cap (Damage \cup {"rewrite", "exhaust"}) = {}, OnePage,
           TypeOK, ContentsInv, CNext
    PROVE  ContentsInv' \/ (Step /\ UNCHANGED contents)
<1>1. DirInHand /\ NamesInv /\ Sized /\ contents \in Contents
  BY DEF ContentsInv
<1>2. PICK own \in Owner, place \in Place : Laid(own, place)
  BY DEF ContentsInv
<1>3. Environment \cap Damage = {} /\ Environment \cap {"rewrite", "exhaust"} = {}
  OBVIOUS
<1>4. OwnsInCall(own) /\ NamedIsValid
  BY <1>1, <1>2 DEF Laid, NamesInv, NamedIsValid
<1>5. ASSUME Begin, NamesInv', contents' \in Contents, Sized', Laid(own, place)'
      PROVE  ContentsInv'
  <2>1. DirInHand'
    BY <1>1, <1>5, NextTypes DEF Next
  <2>2. call'.pc \notin {"seek", "trim"}
    BY <1>3, <1>4, <1>5, BeginOwns
  <2> QED BY <1>2, <1>5, <2>1, <2>2 DEF ContentsInv
<1>6. ASSUME NEW n \in Names, NEW t \in Times, CCreate(n, t)
      PROVE  ContentsInv'
  <2>1. Create(n, t)
    BY <1>6 DEF CCreate
  <2>2. Begin /\ NamesInv'
    BY <1>1, <2>1, CallNames DEF Begin
  <2> QED BY <1>1, <1>2, <1>3, <1>5, <1>6, <2>2, CreateLaid
<1>7. ASSUME NEW n \in Names, NEW t \in Times, Utimens(n, t), UNCHANGED contents
      PROVE  ContentsInv'
  <2>1. Begin /\ NamesInv'
    BY <1>1, <1>7, CallNames DEF Begin
  <2> QED BY <1>1, <1>2, <1>3, <1>5, <1>7, <2>1, UtimensLaid
<1>8. ASSUME NEW n \in Names, NEW size \in Sizes, NEW offset \in Offsets, NEW tag \in Tags,
             NEW t \in Times, CWrite(n, size, offset, tag, t)
      PROVE  ContentsInv'
  <2>1. Write(n, size, offset, tag, t)
    BY <1>8 DEF CWrite
  <2>2. Begin /\ NamesInv'
    BY <1>1, <2>1, CallNames DEF Begin
  <2> QED BY <1>1, <1>2, <1>3, <1>5, <1>8, <2>2, WriteLaid DEF OnePage
<1>9. ASSUME NEW n \in Names, CDelete(n)
      PROVE  ContentsInv'
  <2>1. Delete(n)
    BY <1>9 DEF CDelete
  <2>2. Begin /\ NamesInv'
    BY <1>1, <2>1, CallNames DEF Begin
  <2> QED BY <1>1, <1>2, <1>5, <1>9, <2>2, DeleteLaid
<1>10. ASSUME NEW n \in Names, NEW size \in 0 .. MaxSize, NEW t \in Times,
              CTruncate(n, size, t)
       PROVE  ContentsInv'
  <2>1. Truncate(n, size, t)
    BY <1>10 DEF CTruncate
  <2>2. Begin /\ NamesInv'
    BY <1>1, <2>1, CallNames DEF Begin
  <2> QED BY <1>1, <1>2, <1>3, <1>5, <1>10, <2>2, TruncateLaid
<1> QED BY <1>6, <1>7, <1>8, <1>9, <1>10, Zenon DEF CNext

LEMMA SameContents ==
    ASSUME ContentsInv, UNCHANGED contentsVars
    PROVE  ContentsInv'
<1>1. PICK own \in Owner, place \in Place : Laid(own, place)
  BY DEF ContentsInv
<1>2. /\ dirents' = dirents /\ fat' = fat /\ data' = data /\ call' = call
      /\ contents' = contents
  BY DEF contentsVars
<1>3. Sized'
  BY <1>2 DEF ContentsInv, Sized, Freeing, InWrite, Writing, Held
<1>4. /\ Giving' = Giving /\ Taken' = Taken /\ Writing' = Writing
      /\ \A s \in Slots : /\ Freeing(s)' = Freeing(s) /\ Held(s)' = Held(s)
                          /\ HasBlocks(s)' = HasBlocks(s) /\ Reach(s)' = Reach(s)
  BY <1>2 DEF Giving, Taken, Freeing, Held, HasBlocks, Reach, InWrite, Writing
<1>5. OwnsInCall(own)' /\ Owned(own)' /\ Numbered(own, place)' /\ Stored(own, place)'
  BY <1>1, <1>2 DEF Laid, OwnsInCall, Owned, Numbered, Stored, HasBlocks, Freeing, Held,
     Reach, Giving, Taken, InWrite, Writing, Unmarked
<1>6. Writing' => Counted(own, place)' /\ Room'
  BY <1>1, <1>2 DEF Laid, Counted, Room, Free, Writing, Held, Giving, Taken
<1>7. Laid(own, place)'
  BY <1>5, <1>6 DEF Laid
<1> QED BY <1>2, <1>3, <1>7 DEF ContentsInv, DirInHand, NamesInv, Writing

(* Between calls every file reads as what was written to it, on every disk on
   which block 0 is used, for programs that write each file once, from its
   start, and at most a page of it, while there is room: neither a block that
   an earlier file held nor a truncation shows (vfs_read, vfs_write,
   vfs_truncate, vfs_delete). *)
THEOREM FilesReadBack ==
    Environment \cap (Damage \cup {"rewrite", "exhaust"}) = {} /\ OnePage =>
      (UsedSpec => []ReadsBack)
<1> SUFFICES ASSUME Environment \cap (Damage \cup {"rewrite", "exhaust"}) = {}, OnePage
             PROVE  UsedSpec => []ReadsBack
  OBVIOUS
<1>1. TypeOK /\ ContentsInv /\ [CNext]_contentsVars => (TypeOK /\ ContentsInv)'
  <2> SUFFICES ASSUME TypeOK, ContentsInv, [CNext]_contentsVars
               PROVE  TypeOK' /\ ContentsInv'
    OBVIOUS
  <2>1. DirInHand
    BY DEF ContentsInv
  <2>2. [Next]_vars
    <3>1. CNext => Next
      BY Zenon DEF CNext, CCreate, CWrite, CDelete, CTruncate, Next, Begin
    <3> QED BY <3>1, Zenon DEF contentsVars, vars
  <2>3. TypeOK'
    BY <2>1, <2>2, NextTypes
  <2>4. ContentsInv'
    BY CallContents, StepContents, SameContents
  <2> QED BY <2>3, <2>4
<1> QED BY <1>1, InitContents, InvReadsBack, PTL DEF UsedSpec
==============================================================================
