------------------------------ MODULE FatProofs ------------------------------
(***************************************************************************)
(* Proofs about the filesystem of FatFiles, for every directory, FAT,      *)
(* block size and bound.                                                   *)
(***************************************************************************)
EXTENDS FatFiles, TLAPS

USE DEF Slots, Entries, END

DiskOK ==
    /\ dirents \in [Slots -> Dirent]
    /\ fat \in [Entries -> Fatent]
    /\ data \in [Entries -> Piece]

LEMMA DivIsNat ==
    ASSUME NEW a \in Nat, NEW b \in Nat \ {0} PROVE a \div b \in Nat
  OBVIOUS

LEMMA EntriesInDisk == 0 \in Entries /\ 1 \in Slots /\ Beyond \notin Entries
  BY DiskAssumption DEF Beyond

LEMMA FatentTypes ==
    /\ ZeroEntry \in Fatent /\ UnusedEntry \in Fatent /\ LastEntry \in Fatent
    /\ \A b \in 0 .. FatSize : LinkTo(b) \in Fatent
    /\ \A word \in Nat : word \div 4 <= FatSize => AsFatent(word) \in Fatent
  BY DiskAssumption DEF ZeroEntry, UnusedEntry, LastEntry, LinkTo, AsFatent, Fatent

LEMMA DirentTypes ==
    /\ DeletedDirent \in Dirent
    /\ \A name \in Names, time \in Times : NewDirent(name, time) \in Dirent
  BY DiskAssumption, EntriesInDisk DEF DeletedDirent, NewDirent, Dirent

LEMMA IdleType == Idle \in Call
  BY DirentTypes, FatentTypes, EntriesInDisk, DiskAssumption DEF Idle, Call, Stages

LEMMA EntryAtType ==
    ASSUME fat \in [Entries -> Fatent], NEW b
    PROVE  EntryAt(b) \subseteq Fatent
  BY DEF EntryAt

LEMMA MisreadType == ASSUME NEW b \in Nat PROVE Misread(b) \subseteq Fatent
  BY VcbAssumption, DiskAssumption DEF Misread

LEMMA SaveDirentOK ==
    ASSUME DiskOK, NEW d \in Dirent, NEW s, SaveDirent(d, s)
    PROVE  DiskOK'
  BY DEF DiskOK, SaveDirent

LEMMA SaveFatentOK ==
    ASSUME DiskOK, NEW e \in Fatent, NEW b, SaveFatent(e, b)
    PROVE  DiskOK'
  BY DEF DiskOK, SaveFatent, Piece

LEMMA SavePastDirectoryOK ==
    ASSUME DiskOK, NEW d \in Dirent, SavePastDirectory(d)
    PROVE  DiskOK'
<1>1. PICK junk \in [{b \in Entries : b \in 3 .. PerFat - 1} -> Fatent] :
        fat' = [b \in Entries |->
                   CASE b >= PerFat -> fat[b]
                     [] b = 0 -> AsFatent(IF d.valid THEN 1 ELSE 0)
                     [] b = 1 /\ b < PerFat -> AsFatent(d.first)
                     [] b = 2 /\ b < PerFat -> AsFatent(d.size)
                     [] OTHER -> junk[b]]
  BY DEF SavePastDirectory
<1>2. AsFatent(IF d.valid THEN 1 ELSE 0) \in Fatent
  BY FatentTypes, DiskAssumption
<1>3. AsFatent(d.first) \in Fatent
  BY FatentTypes, DiskAssumption DEF Dirent
<1>4. AsFatent(d.size) \in Fatent
  <2>1. d.size \in Nat /\ d.size <= MaxSize
    BY DiskAssumption DEF Dirent
  <2>2. d.size \div 4 <= MaxSize \div 4
    BY <2>1, DiskAssumption
  <2> QED BY <2>1, <2>2, FatentTypes, DiskAssumption, DivIsNat
<1>5. fat' \in [Entries -> Fatent]
  <2> SUFFICES ASSUME NEW b \in Entries PROVE fat'[b] \in Fatent
    BY <1>1
  <2>1. CASE b >= PerFat
    BY <2>1, <1>1, DiskAssumption DEF DiskOK
  <2>2. CASE b < PerFat /\ b \in {0, 1, 2}
    BY <2>2, <1>1, <1>2, <1>3, <1>4, DiskAssumption
  <2>3. CASE b < PerFat /\ b \notin {0, 1, 2}
    <3>1. b \in {x \in Entries : x \in 3 .. PerFat - 1}
      BY <2>3, DiskAssumption
    <3> QED BY <3>1, <2>3, <1>1, DiskAssumption
  <2> QED BY <2>1, <2>2, <2>3, DiskAssumption
<1> QED BY <1>5 DEF DiskOK, SavePastDirectory

-----------------------------------------------------------------------------
(* Types. *)

LEMMA TypeOKParts ==
    /\ TypeOK <=> DiskOK /\ call \in Call
    /\ TypeOK' <=> DiskOK' /\ call' \in Call
  BY DEF TypeOK, DiskOK

LEMMA FoundSlot ==
    ASSUME DiskOK, NEW s \in Slots
    PROVE  /\ dirents[s] \in Dirent
           /\ dirents[s].first \in Entries
           /\ fat[dirents[s].first] \in Fatent
  BY DEF DiskOK, Dirent

LEMMA InitTypes == Init => TypeOK /\ DirInHand
<1> SUFFICES ASSUME Init PROVE TypeOK /\ DirInHand
  OBVIOUS
<1>1. dirents \in [Slots -> Dirent]
  <2>1. ASSUME NEW name \in {NoName, Junk}
        PROVE  [DeletedDirent EXCEPT !.name = name, !.size = 0] \in Dirent
    <3>1. name \in Names \cup {NoName, Junk} /\ 0 \in 0 .. MaxSize
      BY DiskAssumption
    <3> QED BY <3>1, DirentTypes DEF Dirent
  <2> QED BY <2>1 DEF Init, Format
<1>2. fat \in [Entries -> Fatent]
  BY FatentTypes DEF Init, Format
<1>3. data \in [Entries -> Piece]
  BY DEF Init, Format, Piece
<1>4. call \in Call
  BY IdleType DEF Init
<1>5. DirInHand
  BY DEF Init, DirInHand, Writing, Idle
<1> QED BY <1>1, <1>2, <1>3, <1>4, <1>5 DEF TypeOK

LEMMA SaveAnywayOK == ASSUME DiskOK, NEW name, SaveAnyway(name) PROVE DiskOK'
<1>1. DirLength \in Slots
  BY DiskAssumption
<1> QED BY <1>1, FoundSlot, SavePastDirectoryOK DEF SaveAnyway

(* The calls that are over in one step. *)
LEMMA CreateTypes ==
    ASSUME TypeOK, NEW n \in Names, NEW t \in Times, Create(n, t) PROVE TypeOK'
<1>1. DiskOK'
  BY TypeOKParts, DirentTypes, SaveDirentOK, SavePastDirectoryOK DEF Create
<1> QED BY <1>1, TypeOKParts DEF Create

LEMMA RenameTypes ==
    ASSUME TypeOK, NEW n \in Names, NEW m \in Names, Rename(n, m) PROVE TypeOK'
<1>1. DiskOK'
  <2>1. CASE SaveAnyway(n)
    BY <2>1, TypeOKParts, SaveAnywayOK
  <2>2. ASSUME NEW s \in Slots,
               SaveDirent([dirents[s] EXCEPT !.name = m, !.slash = TRUE], s)
        PROVE  DiskOK'
    <3>1. [dirents[s] EXCEPT !.name = m, !.slash = TRUE] \in Dirent
      BY TypeOKParts, FoundSlot DEF Dirent
    <3> QED BY <2>2, <3>1, TypeOKParts, SaveDirentOK
  <2> QED BY <2>1, <2>2 DEF Rename
<1> QED BY <1>1, TypeOKParts DEF Rename

LEMMA UtimensTypes ==
    ASSUME TypeOK, NEW n, NEW t \in Times, Utimens(n, t) PROVE TypeOK'
<1>1. DiskOK'
  <2>1. CASE SaveAnyway(n)
    BY <2>1, TypeOKParts, SaveAnywayOK
  <2>2. ASSUME NEW s \in Slots, SaveDirent([dirents[s] EXCEPT !.created = t], s)
        PROVE  DiskOK'
    <3>1. [dirents[s] EXCEPT !.created = t] \in Dirent
      BY TypeOKParts, FoundSlot DEF Dirent
    <3> QED BY <2>2, <3>1, TypeOKParts, SaveDirentOK
  <2> QED BY <2>1, <2>2 DEF Utimens
<1> QED BY <1>1, TypeOKParts DEF Utimens

LEMMA ChmodTypes == ASSUME TypeOK, NEW n, Chmod(n) PROVE TypeOK'
  BY TypeOKParts, SaveAnywayOK DEF Chmod

(* The calls that go on. *)
LEMMA WriteTypes ==
    ASSUME TypeOK, NEW n \in Names, NEW size \in Sizes, NEW offset \in Offsets,
           NEW tag \in Tags, NEW t \in Times, Write(n, size, offset, tag, t)
    PROVE  TypeOK' /\ DirInHand'
<1>1. size \in Nat /\ offset \in Nat /\ size + offset \in 0 .. MaxSize
  BY CallsAssumption, DiskAssumption DEF Write
<1>2. PICK s \in Slots :
        LET d == [dirents[s] EXCEPT !.valid = TRUE, !.size = size + offset, !.modified = t]
        IN  /\ SaveDirent(d, s)
            /\ call' = [Idle EXCEPT !.pc = "scan", !.slot = s, !.dir = d, !.tag = tag,
                           !.start = offset \div BlockSize,
                           !.chunks = (size + BlockSize - 1) \div BlockSize,
                           !.left = size]
  BY DEF Write
<1> DEFINE d == [dirents[s] EXCEPT !.valid = TRUE, !.size = size + offset, !.modified = t]
<1>3. d \in Dirent
  BY <1>1, TypeOKParts, FoundSlot DEF Dirent
<1>4. DiskOK'
  BY <1>2, <1>3, TypeOKParts, SaveDirentOK
<1>5. offset \div BlockSize \in Nat /\ (size + BlockSize - 1) \div BlockSize \in Nat
  <2>1. size + BlockSize - 1 \in Nat
    BY <1>1, DiskAssumption
  <2> QED BY <2>1, <1>1, DivIsNat, DiskAssumption
<1>6. call' \in Call
  <2> HIDE DEF d
  <2>1. call' = [Idle EXCEPT !.pc = "scan", !.slot = s, !.dir = d, !.tag = tag,
                           !.start = offset \div BlockSize,
                           !.chunks = (size + BlockSize - 1) \div BlockSize,
                           !.left = size]
    BY <1>2 DEF d
  <2>2. size \in Int /\ tag \in Tags \cup {0} /\ "scan" \in Stages
    BY <1>1 DEF Stages
  <2> HIDE DEF Slots, Entries
  <2> QED BY <2>1, <2>2, <1>3, <1>5, IdleType DEF Call
<1>7. d.valid /\ dirents'[s] = d
  BY <1>2, <1>3, TypeOKParts, FoundSlot DEF SaveDirent, Dirent, DiskOK
<1>8. call'.dir = d /\ call'.slot = s /\ call'.tag = tag
  BY <1>2 DEF Idle
<1> QED BY <1>4, <1>6, <1>7, <1>8, TypeOKParts DEF DirInHand, Writing

LEMMA DeleteTypes == ASSUME TypeOK, NEW n, Delete(n) PROVE TypeOK'
<1>1. PICK s \in Slots :
        IF dirents[s].first = END THEN SaveDirent(DeletedDirent, s) /\ Return
        ELSE /\ call' = [Idle EXCEPT !.pc = "free", !.slot = s,
                            !.entry = fat[dirents[s].first]]
             /\ UNCHANGED disk
  BY DEF Delete
<1>2. CASE dirents[s].first = END
  BY <1>1, <1>2, TypeOKParts, SaveDirentOK, DirentTypes, IdleType DEF Return
<1>3. CASE dirents[s].first # END
  <2>1. DiskOK'
    BY <1>1, <1>3, TypeOKParts DEF disk, DiskOK
  <2>2. call' \in Call
    BY <1>1, <1>3, TypeOKParts, FoundSlot, IdleType DEF Call, Stages
  <2> QED BY <2>1, <2>2, TypeOKParts
<1> QED BY <1>2, <1>3

LEMMA TruncateTypes ==
    ASSUME TypeOK, NEW n, NEW size \in 0 .. MaxSize, NEW t \in Times, Truncate(n, size, t)
    PROVE  TypeOK'
<1>1. PICK s \in Slots :
        /\ SaveDirent([dirents[s] EXCEPT !.valid = TRUE, !.size = size, !.modified = t], s)
        /\ \/ UNCHANGED call
           \/ call' = [Idle EXCEPT !.pc = "seek", !.slot = s,
                               !.left = size \div BlockSize,
                               !.cursor = dirents[s].first,
                               !.entry = fat[dirents[s].first]]
  BY DEF Truncate
<1>2. [dirents[s] EXCEPT !.valid = TRUE, !.size = size, !.modified = t] \in Dirent
  BY TypeOKParts, FoundSlot DEF Dirent
<1>3. DiskOK'
  BY <1>1, <1>2, TypeOKParts, SaveDirentOK
<1>4. size \div BlockSize \in Nat
  BY DivIsNat, DiskAssumption
<1>5. call' \in Call
  <2>1. dirents[s].first \in 0 .. FatSize
    BY TypeOKParts, FoundSlot, DiskAssumption
  <2>2. CASE UNCHANGED call
    BY <2>2, TypeOKParts
  <2>3. CASE call' = [Idle EXCEPT !.pc = "seek", !.slot = s, !.left = size \div BlockSize,
                                  !.cursor = dirents[s].first,
                                  !.entry = fat[dirents[s].first]]
    <3>1. size \div BlockSize \in Int /\ "seek" \in Stages
      BY <1>4 DEF Stages
    <3>2. fat[dirents[s].first] \in Fatent
      BY TypeOKParts, FoundSlot
    <3> HIDE DEF Slots, Entries
    <3> QED BY <2>3, <2>1, <3>1, <3>2, IdleType DEF Call
  <2> QED BY <1>1, <2>2, <2>3
<1> QED BY <1>3, <1>5, TypeOKParts

(* The steps of a call: only TakeFirstBlock and DeleteDirent save a d. *)
LEMMA StepTypes ==
    ASSUME TypeOK, DirInHand, Step
    PROVE  TypeOK' /\ DirInHand'
<1>1. call \in Call /\ DiskOK
  BY TypeOKParts
<1>2. CASE TakeFirstBlock
  <2>1. PICK b \in Entries :
          /\ SaveDirent([call.dir EXCEPT !.first = b], call.slot)
          /\ call' = [call EXCEPT !.pc = "mark", !.dir = [call.dir EXCEPT !.first = b],
                                  !.target = b]
    BY <1>2 DEF TakeFirstBlock
  <2> DEFINE d == [call.dir EXCEPT !.first = b]
  <2>2. d \in Dirent /\ d.valid = call.dir.valid
    BY <1>1 DEF Dirent, Call
  <2>3. call' \in Call /\ call'.dir = d /\ call'.slot = call.slot /\ call'.tag = call.tag
    <3> HIDE DEF d
    <3>1. call' = [call EXCEPT !.pc = "mark", !.dir = d, !.target = b]
      BY <2>1 DEF d
    <3> QED BY <3>1, <2>2, <1>1 DEF Call, Stages
  <2>4. DiskOK'
    BY <2>1, <2>2, <1>1, SaveDirentOK
  <2>5. dirents'[call.slot] = d
    BY <2>1, <1>1 DEF SaveDirent, DiskOK, Call
  <2>6. call.dir.valid /\ call.tag \in Tags
    BY <1>2 DEF TakeFirstBlock, DirInHand, Writing
  <2> QED BY <2>2, <2>3, <2>4, <2>5, <2>6, TypeOKParts DEF DirInHand
<1>3. CASE TakeBlock
  <2>1. DiskOK' /\ dirents' = dirents
    BY <1>3, <1>1 DEF TakeBlock, disk, DiskOK
  <2>2. PICK b \in Entries, e \in EntryAt(call.dir.first) :
          call' = [call EXCEPT !.pc = "walk", !.target = b,
                               !.cursor = call.dir.first, !.entry = e]
    BY <1>3 DEF TakeBlock
  <2>3. e \in Fatent /\ call.dir.first \in 0 .. FatSize
    <3>1. call.dir \in Dirent
      BY <1>1 DEF Call
    <3>2. call.dir.first \in 0 .. FatSize
      BY <3>1, DiskAssumption DEF Dirent
    <3>3. fat \in [Entries -> Fatent]
      BY <1>1 DEF DiskOK
    <3> QED BY <2>2, <3>2, <3>3, EntryAtType
  <2>4. call' \in Call /\ UNCHANGED <<call.dir, call.slot, call.tag>>
    BY <2>2, <2>3, <1>1 DEF Call, Stages
  <2> QED BY <2>1, <2>4, <1>3, TypeOKParts DEF DirInHand, Writing, TakeBlock
<1>4. CASE WalkOn
  <2>1. DiskOK' /\ dirents' = dirents
    BY <1>4, <1>1 DEF WalkOn, disk, DiskOK
  <2>2. PICK e \in EntryAt(call.entry.next) :
          call' = [call EXCEPT !.cursor = call.entry.next, !.entry = e]
    BY <1>4 DEF WalkOn
  <2>3. e \in Fatent /\ call.entry.next \in 0 .. FatSize
    <3>1. call.entry \in Fatent
      BY <1>1 DEF Call
    <3>2. call.entry.next \in 0 .. FatSize
      BY <3>1 DEF Fatent
    <3>3. fat \in [Entries -> Fatent]
      BY <1>1 DEF DiskOK
    <3> QED BY <2>2, <3>2, <3>3, EntryAtType
  <2>4. call' \in Call /\ UNCHANGED <<call.pc, call.dir, call.slot, call.tag>>
    BY <2>2, <2>3, <1>1 DEF Call
  <2> QED BY <2>1, <2>4, <1>4, TypeOKParts DEF DirInHand, Writing
<1>5. CASE LinkBlock
  <2>1. LinkTo(call.target) \in Fatent
    BY <1>1, FatentTypes, DiskAssumption DEF Call
  <2>2. DiskOK' /\ dirents' = dirents
    BY <1>5, <1>1, <2>1, SaveFatentOK DEF LinkBlock, SaveFatent
  <2>3. call' \in Call /\ UNCHANGED <<call.dir, call.slot, call.tag>>
    BY <1>5, <1>1 DEF LinkBlock, Call, Stages
  <2> QED BY <2>2, <2>3, <1>5, TypeOKParts DEF DirInHand, Writing, LinkBlock
<1>6. CASE MarkBlock
  <2>1. DiskOK' /\ dirents' = dirents
    BY <1>6, <1>1, FatentTypes, SaveFatentOK DEF MarkBlock, SaveFatent
  <2>2. call' \in Call /\ UNCHANGED <<call.dir, call.slot, call.tag>>
    BY <1>6, <1>1 DEF MarkBlock, Call, Stages
  <2> QED BY <2>1, <2>2, <1>6, TypeOKParts DEF DirInHand, Writing, MarkBlock
<1>7. CASE StoreData
  <2>1. call.tag \in Tags /\ call.target \in Entries /\ call.start \in Nat /\ call.done \in Nat
    BY <1>7, <1>1 DEF StoreData, DirInHand, Writing, Call
  <2>2. (IF call.done < call.chunks THEN <<call.tag, call.start + call.done + 1>>
         ELSE Rubbish) \in Piece
    BY <2>1 DEF Piece
  <2>3. DiskOK' /\ dirents' = dirents
    <3> DEFINE piece == IF call.done < call.chunks
                        THEN <<call.tag, call.start + call.done + 1>> ELSE Rubbish
    <3>1. piece \in Piece
      BY <2>2
    <3>2. StoreBlock(piece, call.target)
      BY <1>7 DEF StoreData
    <3> HIDE DEF piece
    <3> QED BY <3>1, <3>2, <1>1 DEF StoreBlock, DiskOK
  <2>4. CASE Return
    BY <2>3, <2>4, IdleType, TypeOKParts DEF Return, Idle, DirInHand, Writing
  <2>5. CASE call' = [call EXCEPT !.pc = "scan", !.scan = call.target + 1,
                                  !.done = @ + 1, !.left = @ - BlockSize]
    <3>1. call.target + 1 \in 0 .. FatSize /\ call.done + 1 \in Nat
      BY <2>1, DiskAssumption
    <3>2. call.left - BlockSize \in Int
      BY <1>1, DiskAssumption DEF Call
    <3>3. call' \in Call /\ UNCHANGED <<call.dir, call.slot, call.tag>>
      BY <2>5, <3>1, <3>2, <1>1 DEF Call, Stages
    <3> QED BY <2>3, <3>3, <1>7, TypeOKParts DEF DirInHand, Writing, StoreData
  <2> QED BY <2>4, <2>5, <1>7 DEF StoreData
<1>8. CASE ScanEnds \/ SeekFails
  BY <1>8, <1>1, IdleType, TypeOKParts
  DEF ScanEnds, SeekFails, Return, Idle, disk, DiskOK, DirInHand, Writing
<1>9. CASE FreeNext
  <2>1. DiskOK'
    BY <1>9, <1>1, FatentTypes, SaveFatentOK DEF FreeNext
  <2>2. PICK e \in EntryAt(call.entry.next) : call' = [call EXCEPT !.entry = e]
    BY <1>9 DEF FreeNext
  <2>3. call' \in Call /\ call'.pc = "free"
    BY <2>2, <1>1, <1>9, EntryAtType DEF DiskOK, Call, FreeNext
  <2> QED BY <2>1, <2>3, TypeOKParts DEF DirInHand, Writing
<1>10. CASE DeleteDirent
  BY <1>10, <1>1, DirentTypes, SaveDirentOK, IdleType, TypeOKParts
  DEF DeleteDirent, Return, Idle, DirInHand, Writing
<1>11. CASE SeekOn
  <2>1. DiskOK'
    BY <1>11, <1>1 DEF SeekOn, disk, DiskOK
  <2>2. PICK e \in EntryAt(call.entry.next) :
          call' = [call EXCEPT !.left = @ - 1, !.cursor = call.entry.next, !.entry = e]
    BY <1>11 DEF SeekOn
  <2>3. e \in Fatent /\ call.entry.next \in 0 .. FatSize /\ call.left - 1 \in Int
    BY <1>1, EntryAtType DEF DiskOK, Call, Fatent
  <2>4. call' \in Call /\ call'.pc = "seek"
    BY <2>2, <2>3, <1>1, <1>11 DEF Call, SeekOn
  <2> QED BY <2>1, <2>4, TypeOKParts DEF DirInHand, Writing
<1>12. CASE Cut
  <2>1. DiskOK'
    BY <1>12, <1>1, FatentTypes, SaveFatentOK DEF Cut
  <2>2. PICK e \in Misread(call.entry.next) : call' = [call EXCEPT !.pc = "trim", !.entry = e]
    BY <1>12 DEF Cut
  <2>3. e \in Fatent
    BY <2>2, <1>1, MisreadType, DiskAssumption DEF Call, Fatent
  <2>4. call' \in Call /\ call'.pc = "trim"
    BY <2>2, <2>3, <1>1 DEF Call, Stages
  <2> QED BY <2>1, <2>4, TypeOKParts DEF DirInHand, Writing
<1>13. CASE TrimNext
  <2>1. DiskOK'
    BY <1>13, <1>1, FatentTypes, SaveFatentOK DEF TrimNext
  <2>2. PICK b \in {call.entry.next} :
          \E e \in EntryAt(b)' : call' = [call EXCEPT !.cursor = b, !.entry = e]
    BY <1>13 DEF TrimNext
  <2>3. PICK e \in EntryAt(b)' : call' = [call EXCEPT !.cursor = b, !.entry = e]
    BY <2>2
  <2>4. e \in Fatent /\ b \in 0 .. FatSize
    BY <1>1, <2>1 DEF DiskOK, Call, Fatent, EntryAt
  <2>5. call' \in Call /\ call'.pc = "trim"
    BY <2>3, <2>4, <1>1, <1>13 DEF Call, TrimNext
  <2> QED BY <2>1, <2>5, TypeOKParts DEF DirInHand, Writing
<1>14. CASE TrimLast
  BY <1>14, <1>1, FatentTypes, SaveFatentOK, IdleType, TypeOKParts
  DEF TrimLast, Return, Idle, DirInHand, Writing
<1> QED BY <1>2, <1>3, <1>4, <1>5, <1>6, <1>7, <1>8, <1>9, <1>10, <1>11, <1>12, <1>13, <1>14
        DEF Step

LEMMA NextTypes ==
    ASSUME TypeOK, DirInHand, [Next]_vars
    PROVE  TypeOK' /\ DirInHand'
<1>1. CASE UNCHANGED vars
  BY <1>1, TypeOKParts DEF vars, DiskOK, DirInHand, Writing
<1>2. CASE Crash
  BY <1>2, TypeOKParts, IdleType DEF Crash, Return, Idle, disk, DiskOK, DirInHand, Writing
<1>3. CASE Step
  BY <1>3, StepTypes
<1>4. CASE Begin
  <2>1. ASSUME NEW n \in Names, NEW size \in Sizes, NEW offset \in Offsets,
               NEW tag \in Tags, NEW t \in Times, Write(n, size, offset, tag, t)
        PROVE  TypeOK' /\ DirInHand'
    BY <2>1, WriteTypes
  <2>2. ASSUME NEW n \in Names, Delete(n)
        PROVE  TypeOK' /\ DirInHand'
    <3>1. call'.pc \in {"idle", "free"}
      <4>1. PICK s \in Slots :
              \/ Return
              \/ call' = [Idle EXCEPT !.pc = "free", !.slot = s, !.entry = fat[dirents[s].first]]
        BY <2>2 DEF Delete
      <4>2. CASE Return
        BY <4>2 DEF Return, Idle
      <4>3. CASE call' = [Idle EXCEPT !.pc = "free", !.slot = s, !.entry = fat[dirents[s].first]]
        BY <4>3 DEF Idle
      <4> QED BY <4>1, <4>2, <4>3
    <3> QED BY <2>2, <3>1, DeleteTypes DEF DirInHand, Writing
  <2>3. ASSUME NEW n \in Names, NEW size \in 0 .. MaxSize, NEW t \in Times,
               Truncate(n, size, t)
        PROVE  TypeOK' /\ DirInHand'
    <3>1. call'.pc \in {"idle", "seek"}
      <4>1. PICK s \in Slots :
              \/ UNCHANGED call
              \/ call' = [Idle EXCEPT !.pc = "seek", !.slot = s,
                                      !.left = size \div BlockSize,
                                      !.cursor = dirents[s].first,
                                      !.entry = fat[dirents[s].first]]
        BY <2>3 DEF Truncate
      <4>2. call.pc = "idle"
        BY <2>3 DEF Truncate, Idle
      <4> QED BY <4>1, <4>2 DEF Idle
    <3> QED BY <2>3, <3>1, TruncateTypes DEF DirInHand, Writing
  <2>4. ASSUME NEW n \in Names, NEW t \in Times, Create(n, t)
        PROVE  TypeOK' /\ DirInHand'
    BY <2>4, CreateTypes DEF Create, Idle, DirInHand, Writing
  <2>5. ASSUME NEW n \in Names \cup {NoName}, NEW t \in Times, Utimens(n, t)
        PROVE  TypeOK' /\ DirInHand'
    BY <2>5, UtimensTypes DEF Utimens, Idle, DirInHand, Writing
  <2>6. ASSUME NEW n \in Names, NEW m \in Names, Rename(n, m)
        PROVE  TypeOK' /\ DirInHand'
    BY <2>6, RenameTypes DEF Rename, Idle, DirInHand, Writing
  <2>7. ASSUME NEW n \in Names \cup {NoName}, Chmod(n)
        PROVE  TypeOK' /\ DirInHand'
    BY <2>7, ChmodTypes DEF Chmod, Idle, DirInHand, Writing
  <2>8. 0 \in Times
    BY DiskAssumption
  <2> QED BY <1>4, <2>1, <2>2, <2>3, <2>4, <2>5, <2>6, <2>7, <2>8 DEF Begin
<1> QED BY <1>1, <1>2, <1>3, <1>4 DEF Next

(* The disk and the running call keep their types, whatever happens: calls *)
(* for names that are gone, cuts, full disks and directories, and crashes. *)
THEOREM TypesHold == Spec => []TypeOK
<1>1. Init => TypeOK /\ DirInHand
  BY InitTypes
<1>2. TypeOK /\ DirInHand /\ [Next]_vars => TypeOK' /\ DirInHand'
  BY NextTypes
<1> QED BY <1>1, <1>2, PTL DEF Spec

(* A file that has a first block keeps it until it is deleted, whatever    *)
(* happens: a write saves the d that it has kept since it was called, and  *)
(* the directory entry is still as that d has it.                          *)
THEOREM FirstBlocksStay == Spec => FirstBlockStays
<1>1. ASSUME TypeOK, DirInHand, [Next]_vars
      PROVE  \A s \in Slots : HasBlocks(s) /\ dirents'[s].valid =>
               dirents'[s].first = dirents[s].first
  <2> SUFFICES ASSUME NEW s \in Slots, HasBlocks(s), dirents'[s].valid
               PROVE  dirents'[s].first = dirents[s].first
    OBVIOUS
  <2>1. DiskOK /\ call \in Call
    BY <1>1, TypeOKParts
  <2>2. ASSUME NEW d \in Dirent, NEW r \in Slots, SaveDirent(d, r),
               r = s => d.first = dirents[s].first
        PROVE  dirents'[s].first = dirents[s].first
    BY <2>2, <2>1 DEF SaveDirent, DiskOK
  <2>3. CASE UNCHANGED dirents
    BY <2>3
  <2>4. ASSUME NEW d, SavePastDirectory(d)
        PROVE  UNCHANGED dirents
    BY <2>4 DEF SavePastDirectory
  <2>5. CASE Crash
    BY <2>5, <2>3 DEF Crash, disk
  <2>6. CASE Step
    <3>1. CASE TakeFirstBlock
      <4>1. ~HasBlocks(call.slot)
        BY <1>1, <3>1, <2>1 DEF TakeFirstBlock, DirInHand, Writing, HasBlocks
      <4>2. PICK b \in Entries : SaveDirent([call.dir EXCEPT !.first = b], call.slot)
        BY <3>1 DEF TakeFirstBlock
      <4> QED BY <4>1, <4>2, <2>1 DEF SaveDirent, DiskOK
    <3>2. CASE DeleteDirent
      <4>1. s # call.slot
        BY <3>2, <2>1 DEF DeleteDirent, SaveDirent, DiskOK, Call, DeletedDirent
      <4> QED BY <3>2, <4>1, <2>1 DEF DeleteDirent, SaveDirent, DiskOK
    <3> QED BY <2>6, <3>1, <3>2, <2>3
            DEF Step, TakeBlock, WalkOn, LinkBlock, MarkBlock, StoreData, ScanEnds, FreeNext,
                SeekOn, SeekFails, Cut, TrimNext, TrimLast, SaveFatent, StoreBlock, disk
  <2>7. CASE Begin
    <3>1. ASSUME NEW n, NEW size, NEW offset, NEW tag, NEW t, Write(n, size, offset, tag, t)
          PROVE  dirents'[s].first = dirents[s].first
      BY <3>1, <2>1, FoundSlot DEF Write, SaveDirent, DiskOK, Dirent
    <3>2. ASSUME NEW n, Delete(n)
          PROVE  dirents'[s].first = dirents[s].first
      <4>1. ASSUME NEW r \in Slots, SaveDirent(DeletedDirent, r)
            PROVE  dirents'[s].first = dirents[s].first
        <5>1. r # s
          BY <4>1, <2>1 DEF SaveDirent, DiskOK, DeletedDirent
        <5> QED BY <4>1, <5>1, <2>1 DEF SaveDirent, DiskOK
      <4> QED BY <3>2, <4>1, <2>3 DEF Delete, disk
    <3>3. ASSUME NEW n, NEW size, NEW t, Truncate(n, size, t)
          PROVE  dirents'[s].first = dirents[s].first
      BY <3>3, <2>1, FoundSlot DEF Truncate, SaveDirent, DiskOK, Dirent
    <3>4. ASSUME NEW n, NEW t, Create(n, t)
          PROVE  dirents'[s].first = dirents[s].first
      <4>1. ASSUME NEW r \in Slots, IsFree(r), SaveDirent(NewDirent(n, t), r)
            PROVE  dirents'[s].first = dirents[s].first
        <5>1. r # s
          BY <4>1 DEF IsFree, HasBlocks
        <5> QED BY <4>1, <5>1, <2>1 DEF SaveDirent, DiskOK
      <4> QED BY <3>4, <4>1, <2>3, <2>4 DEF Create
    <3>5. ASSUME NEW n, NEW t, Utimens(n, t)
          PROVE  dirents'[s].first = dirents[s].first
      <4>1. ASSUME NEW r \in Slots, SaveDirent([dirents[r] EXCEPT !.created = t], r)
            PROVE  dirents'[s].first = dirents[s].first
        BY <4>1, <2>1, FoundSlot DEF SaveDirent, DiskOK, Dirent
      <4> QED BY <3>5, <4>1, <2>3, <2>4 DEF Utimens, SaveAnyway
    <3>6. ASSUME NEW n, NEW m, Rename(n, m)
          PROVE  dirents'[s].first = dirents[s].first
      <4>1. ASSUME NEW r \in Slots,
                   SaveDirent([dirents[r] EXCEPT !.name = m, !.slash = TRUE], r)
            PROVE  dirents'[s].first = dirents[s].first
        BY <4>1, <2>1, FoundSlot DEF SaveDirent, DiskOK, Dirent
      <4> QED BY <3>6, <4>1, <2>3, <2>4 DEF Rename, SaveAnyway
    <3>7. ASSUME NEW n, Chmod(n)
          PROVE  dirents'[s].first = dirents[s].first
      BY <3>7, <2>3, <2>4 DEF Chmod, SaveAnyway
    <3> QED BY <2>7, <3>1, <3>2, <3>3, <3>4, <3>5, <3>6, <3>7 DEF Begin
  <2> QED BY <1>1, <2>3, <2>5, <2>6, <2>7 DEF Next, vars
<1>2. TypeOK /\ DirInHand /\ [Next]_vars =>
        [\A s \in Slots : HasBlocks(s) /\ dirents'[s].valid =>
            dirents'[s].first = dirents[s].first]_vars
  BY <1>1
<1>3. TypeOK /\ DirInHand /\ [Next]_vars => TypeOK' /\ DirInHand'
  BY NextTypes
<1> QED BY <1>2, <1>3, InitTypes, PTL DEF Spec, FirstBlockStays

-----------------------------------------------------------------------------
(***************************************************************************)
(* The directory lists what lookups find, as long as nothing is renamed:   *)
(* whatever happens to the FAT, and at every block write of every call, so *)
(* that a crash does no harm to the directory either.                      *)
(***************************************************************************)

(* An entry has a file's name exactly when it is valid, no name has a      *)
(* slash, and no two entries have the same name.                           *)
NamesInv ==
    /\ \A s \in Slots : ~dirents[s].slash /\ (dirents[s].valid <=> dirents[s].name \in Names)
    /\ \A r, s \in Slots :
         dirents[r].name = dirents[s].name /\ dirents[r].name \in Names => r = s

LEMMA NamesListed == NamesInv => ListedIsFound
<1> SUFFICES ASSUME NamesInv PROVE ListedIsFound
  OBVIOUS
<1>1. ASSUME NEW s \in Slots, dirents[s].valid
      PROVE  \E name \in Names : IsFound(s, name)
  <2>1. dirents[s].name \in Names /\ Matches(s, dirents[s].name)
    BY <1>1 DEF NamesInv, Matches
  <2>2. \A r \in 1 .. s - 1 : ~Matches(r, dirents[s].name)
    <3> SUFFICES ASSUME NEW r \in 1 .. s - 1 PROVE ~Matches(r, dirents[s].name)
      OBVIOUS
    <3>1. r \in Slots /\ r # s
      BY DiskAssumption
    <3> QED BY <2>1, <3>1 DEF NamesInv, Matches
  <2> QED BY <2>1, <2>2 DEF IsFound
<1>2. ASSUME NEW s \in Slots, NEW name \in Names, IsFound(s, name)
      PROVE  dirents[s].valid
  BY <1>2 DEF NamesInv, IsFound, Matches
<1> QED BY <1>1, <1>2 DEF ListedIsFound, Readdir

(* Saving an entry that keeps its name and whether it is valid. *)
LEMMA SameName ==
    ASSUME DiskOK, NamesInv, NEW s \in Slots, NEW d \in Dirent, SaveDirent(d, s),
           d.name = dirents[s].name, d.slash = dirents[s].slash, d.valid = dirents[s].valid
    PROVE  NamesInv'
<1>1. \A r \in Slots : /\ dirents'[r].name = dirents[r].name
                       /\ dirents'[r].slash = dirents[r].slash
                       /\ dirents'[r].valid = dirents[r].valid
  BY DEF SaveDirent, DiskOK
<1> QED BY <1>1 DEF NamesInv

LEMMA FoundValid ==
    ASSUME NamesInv, NEW s \in Slots, NEW n \in Names, IsFound(s, n)
    PROVE  dirents[s].valid = TRUE
  BY DEF NamesInv, IsFound, Matches

LEMMA DeletedName ==
    ASSUME DiskOK, NamesInv, NEW s \in Slots, SaveDirent(DeletedDirent, s)
    PROVE  NamesInv'
<1>1. /\ dirents'[s] = DeletedDirent
      /\ \A r \in Slots \ {s} : dirents'[r] = dirents[r]
  BY DEF SaveDirent, DiskOK
<1>2. DeletedDirent.name \notin Names /\ ~DeletedDirent.slash /\ ~DeletedDirent.valid
  BY DiskAssumption DEF DeletedDirent
<1> QED BY <1>1, <1>2 DEF NamesInv

LEMMA InitNames == Init => NamesInv
<1> SUFFICES ASSUME Init PROVE NamesInv
  OBVIOUS
<1>1. PICK name \in {NoName, Junk} :
        dirents = [s \in Slots |-> [DeletedDirent EXCEPT !.name = name, !.size = 0]]
  BY DEF Init, Format
<1>2. name \notin Names
  BY DiskAssumption
<1>3. \A s \in Slots : dirents[s].name = name /\ ~dirents[s].slash /\ ~dirents[s].valid
  BY <1>1 DEF DeletedDirent
<1> QED BY <1>2, <1>3 DEF NamesInv

LEMMA CreateNames ==
    ASSUME DiskOK, NamesInv, NEW n \in Names, NEW t \in Times, Create(n, t)
    PROVE  NamesInv'
<1>1. CASE \E d : SavePastDirectory(d)
  BY <1>1 DEF SavePastDirectory, NamesInv
<1>2. ASSUME NEW s \in Slots, SaveDirent(NewDirent(n, t), s)
      PROVE  NamesInv'
  <2>1. /\ dirents'[s] = NewDirent(n, t)
        /\ \A r \in Slots \ {s} : dirents'[r] = dirents[r]
    BY <1>2 DEF SaveDirent, DiskOK
  <2>2. /\ NewDirent(n, t).name = n /\ ~NewDirent(n, t).slash /\ NewDirent(n, t).valid
    BY DEF NewDirent
  <2>3. \A r \in Slots : dirents[r].name # n
    BY DEF Create, NotFound, Matches, NamesInv
  <2> QED BY <2>1, <2>2, <2>3 DEF NamesInv
<1> QED BY <1>1, <1>2 DEF Create

LEMMA StepNames ==
    ASSUME TypeOK, DirInHand, NamesInv, Step
    PROVE  NamesInv'
<1>1. DiskOK /\ call \in Call /\ call.slot \in Slots
  BY TypeOKParts DEF Call
<1>2. CASE TakeFirstBlock
  <2>1. PICK b \in Entries : SaveDirent([call.dir EXCEPT !.first = b], call.slot)
    BY <1>2 DEF TakeFirstBlock
  <2> DEFINE d == [call.dir EXCEPT !.first = b]
  <2>2. call.dir = dirents[call.slot]
    BY <1>2 DEF TakeFirstBlock, DirInHand, Writing
  <2>3. d \in Dirent /\ d.name = call.dir.name /\ d.slash = call.dir.slash
        /\ d.valid = call.dir.valid
    BY <1>1 DEF Call, Dirent
  <2>4. SaveDirent(d, call.slot)
    BY <2>1
  <2> HIDE DEF d
  <2> QED BY <1>1, <2>2, <2>3, <2>4, SameName
<1>3. CASE DeleteDirent
  BY <1>1, <1>3, DeletedName DEF DeleteDirent
<1>4. CASE UNCHANGED dirents
  BY <1>4 DEF NamesInv
<1> QED BY <1>2, <1>3, <1>4
        DEF Step, TakeBlock, WalkOn, LinkBlock, MarkBlock, StoreData, ScanEnds, FreeNext,
            SeekOn, SeekFails, Cut, TrimNext, TrimLast, SaveFatent, StoreBlock, disk

(* Every call but a rename. *)
LEMMA CallNames ==
    ASSUME TypeOK, NamesInv
    PROVE  /\ \A n \in Names, size \in Sizes, offset \in Offsets, tag \in Tags, t \in Times :
                Write(n, size, offset, tag, t) => NamesInv'
           /\ \A n \in Names : Delete(n) => NamesInv'
           /\ \A n \in Names, size \in 0 .. MaxSize, t \in Times :
                Truncate(n, size, t) => NamesInv'
           /\ \A n \in Names, t \in Times : Create(n, t) => NamesInv'
           /\ \A n : \A t \in Times : Utimens(n, t) => NamesInv'
           /\ \A n : Chmod(n) => NamesInv'
<1>1. DiskOK
  BY TypeOKParts
<1>2. ASSUME NEW d, SavePastDirectory(d)
      PROVE  NamesInv'
  BY <1>2 DEF SavePastDirectory, NamesInv
<1>3. ASSUME NEW n \in Names, NEW size \in Sizes, NEW offset \in Offsets,
             NEW tag \in Tags, NEW t \in Times, Write(n, size, offset, tag, t)
      PROVE  NamesInv'
  <2>1. size + offset \in 0 .. MaxSize
    BY <1>3, CallsAssumption, DiskAssumption DEF Write
  <2>2. PICK s \in Slots :
          /\ IsFound(s, n)
          /\ SaveDirent([dirents[s] EXCEPT !.valid = TRUE, !.size = size + offset,
                                           !.modified = t], s)
    BY <1>3 DEF Write
  <2> DEFINE d == [dirents[s] EXCEPT !.valid = TRUE, !.size = size + offset, !.modified = t]
  <2>3. /\ d \in Dirent /\ d.name = dirents[s].name /\ d.slash = dirents[s].slash
        /\ d.valid = TRUE
    BY <1>1, <2>1, FoundSlot DEF Dirent
  <2>4. SaveDirent(d, s)
    BY <2>2
  <2> HIDE DEF d
  <2> QED BY <1>1, <2>2, <2>3, <2>4, FoundValid, SameName
<1>4. ASSUME NEW n \in Names, Delete(n)
      PROVE  NamesInv'
  <2>1. CASE UNCHANGED dirents
    BY <2>1 DEF NamesInv
  <2> QED BY <1>1, <1>4, <2>1, DeletedName DEF Delete, disk
<1>5. ASSUME NEW n \in Names, NEW size \in 0 .. MaxSize, NEW t \in Times, Truncate(n, size, t)
      PROVE  NamesInv'
  <2>1. PICK s \in Slots :
          /\ IsFound(s, n)
          /\ SaveDirent([dirents[s] EXCEPT !.valid = TRUE, !.size = size, !.modified = t], s)
    BY <1>5 DEF Truncate
  <2> DEFINE d == [dirents[s] EXCEPT !.valid = TRUE, !.size = size, !.modified = t]
  <2>2. /\ d \in Dirent /\ d.name = dirents[s].name /\ d.slash = dirents[s].slash
        /\ d.valid = TRUE
    BY <1>1, FoundSlot DEF Dirent
  <2>3. SaveDirent(d, s)
    BY <2>1
  <2> HIDE DEF d
  <2> QED BY <1>1, <2>1, <2>2, <2>3, FoundValid, SameName
<1>6. ASSUME NEW n \in Names, NEW t \in Times, Create(n, t)
      PROVE  NamesInv'
  BY <1>1, <1>6, CreateNames
<1>7. ASSUME NEW n, NEW t \in Times, Utimens(n, t)
      PROVE  NamesInv'
  <2>1. ASSUME NEW s \in Slots, SaveDirent([dirents[s] EXCEPT !.created = t], s)
        PROVE  NamesInv'
    <3> DEFINE d == [dirents[s] EXCEPT !.created = t]
    <3>1. /\ d \in Dirent /\ d.name = dirents[s].name /\ d.slash = dirents[s].slash
          /\ d.valid = dirents[s].valid
      BY <1>1, FoundSlot DEF Dirent
    <3>2. SaveDirent(d, s)
      BY <2>1
    <3> HIDE DEF d
    <3> QED BY <1>1, <3>1, <3>2, SameName
  <2> QED BY <1>2, <1>7, <2>1 DEF Utimens, SaveAnyway
<1>8. ASSUME NEW n, Chmod(n)
      PROVE  NamesInv'
  BY <1>2, <1>8 DEF Chmod, SaveAnyway
<1> QED BY <1>3, <1>4, <1>5, <1>6, <1>7, <1>8, Zenon

LEMMA BeginNames ==
    ASSUME "rename" \notin Environment, TypeOK, NamesInv, Begin
    PROVE  NamesInv'
<1>1. ASSUME NEW n, NEW m, Rename(n, m)
      PROVE  FALSE
  BY <1>1 DEF Rename
<1>2. 0 \in Times
  BY DiskAssumption
<1> QED BY <1>1, <1>2, CallNames, Zenon DEF Begin

(* vfs_readdir and vfs_getattr agree on what files there are, at every     *)
(* block write and after every crash, as long as nothing is renamed: only  *)
(* vfs_rename saves a name that no lookup finds.                           *)
THEOREM DirectoryAgrees == "rename" \notin Environment => (Spec => []ListedIsFound)
<1> SUFFICES ASSUME "rename" \notin Environment PROVE Spec => []ListedIsFound
  OBVIOUS
<1>1. Init => TypeOK /\ DirInHand /\ NamesInv
  BY InitTypes, InitNames
<1>2. TypeOK /\ DirInHand /\ NamesInv /\ [Next]_vars => TypeOK' /\ DirInHand' /\ NamesInv'
  <2> SUFFICES ASSUME TypeOK, DirInHand, NamesInv, [Next]_vars
               PROVE  TypeOK' /\ DirInHand' /\ NamesInv'
    OBVIOUS
  <2>1. TypeOK' /\ DirInHand'
    BY NextTypes
  <2>2. CASE UNCHANGED dirents
    BY <2>1, <2>2 DEF NamesInv
  <2>3. CASE Crash
    BY <2>2, <2>3 DEF Crash, disk
  <2>4. CASE Step
    BY <2>1, <2>4, StepNames
  <2>5. CASE Begin
    BY <2>1, <2>5, BeginNames
  <2> QED BY <2>2, <2>3, <2>4, <2>5 DEF Next, vars
<1> QED BY <1>1, <1>2, NamesListed, PTL DEF Spec
==============================================================================
