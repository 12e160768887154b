------------------------- MODULE LogRecovery_proofs -------------------------
(***************************************************************************)
(* Proofs about MfsLog, for every set of fsids and blocks, every size of   *)
(* the log and of its entries.                                             *)
(*                                                                         *)
(* First lemmas about what a replay of the log comes to: which places of   *)
(* the log it reads, which of them are committed, and how the files, the   *)
(* allocated blocks and the next fsid it rebuilds change with the volume.  *)
(*                                                                         *)
(* Then that RecoveryInv is inductive: what keeps a replay right while the *)
(* log is being written (the steps that add entries and end sectors leave  *)
(* the log whole, its commits where they are, the open transaction in it,  *)
(* and room enough), and the steps that end a sector of the log, apply a   *)
(* commit, write a checkpoint, start a call, mount the volume or stop.     *)
(*                                                                         *)
(* Last what the invariant comes to.  However long the log has been        *)
(* written, wherever the process stops, a replay finds whole transactions  *)
(* only, and the log implements the atomic file system.  And a reader's    *)
(* memory is what the drives say: the loader takes every log that a        *)
(* stopped process may leave, and the replay into the overlay, the zone    *)
(* maps and the header (memwrite mode) comes to what the committed entries *)
(* of the log mean.                                                        *)
(***************************************************************************)
EXTENDS LogInvariant, WellFoundedInduction, SequenceTheorems, FiniteSetTheorems, TLAPS

-----------------------------------------------------------------------------
(* Type correctness.                                                       *)

\* An entry that goes on in the next sector is in the sector it starts in.
SplitOK(v) == \A i \in Slots : v.log[i].split => v.log[i].recs # <<>>

TypeInv == TypeOK /\ SplitOK(disk) /\ SplitOK(view)

\* A log sector is found inside the log, whatever its stamp.
LEMMA SlotInLog == \A s \in Nat : Slot(s) \in Slots
  BY ConstantsOK DEF Slot, Slots

\* An entry takes one or two units.
LEMMA UnitsType == \A r \in Rec : UnitsOf(r) \in {1, 2}
  BY ConstantsOK DEF UnitsOf

\* A write, to the drives or to the overlay, leaves two well-formed volumes.
LEMMA WriteVolType ==
  ASSUME TypeInv, NEW v \in Volume, SplitOK(v), WriteVol(v)
  PROVE  /\ disk' \in Volume /\ view' \in Volume
         /\ SplitOK(disk)' /\ SplitOK(view)'
<1>1. /\ disk \in Volume /\ SplitOK(disk)
  BY DEF TypeInv, TypeOK
<1>2. view' = v /\ (disk' = v \/ disk' = disk)
  BY DEF WriteVol
<1> QED BY <1>1, <1>2 DEF SplitOK

\* A volume with another log.
LEMMA WithLogType ==
  ASSUME NEW w \in Volume, NEW l \in [Slots -> Sector]
  PROVE  [w EXCEPT !.log = l] \in Volume /\ [w EXCEPT !.log = l].log = l
  BY DEF Volume

\* One sector written to the log of a well-formed volume.
LEMMA LogWriteType ==
  ASSUME TypeInv, NEW s \in Sector, s.split => s.recs # <<>>
  PROVE  LET v == [view EXCEPT !.log[Slot(s.stamp)] = s]
         IN  v \in Volume /\ SplitOK(v)
<1> DEFINE i == Slot(s.stamp)
           v == [view EXCEPT !.log[i] = s]
<1>1. i \in Slots
  BY SlotInLog DEF Sector
<1>2. view \in Volume
  BY DEF TypeInv, TypeOK
<1>3. v = [view EXCEPT !.log = [view.log EXCEPT ![i] = s]]
  BY <1>2 DEF Volume
<1>4. view.log \in [Slots -> Sector]
  BY <1>2 DEF Volume
<1> DEFINE l == [view.log EXCEPT ![i] = s]
<1>5. l \in [Slots -> Sector]
  BY <1>1, <1>4
<1>6. v \in Volume /\ v.log = l
  BY <1>2, <1>3, <1>5, WithLogType
<1>7. SplitOK(v)
  BY <1>1, <1>4, <1>6 DEF SplitOK, TypeInv
<1> QED BY <1>6, <1>7

\* mfs_log_add_entry keeps the types, and leaves room in the open sector.
LEMMA AddRecType ==
  ASSUME TypeInv, NEW r \in Rec, AddRec(r)
  PROVE  /\ disk' \in Volume /\ view' \in Volume
         /\ SplitOK(disk)' /\ SplitOK(view)'
         /\ current_log' \in [stamp : Nat, first : BOOLEAN, recs : Seq(Rec), size : 0..(Cap - 1)]
<1> DEFINE space == Cap - current_log.size
           split == UnitsOf(r) > space
           full  == [stamp |-> current_log.stamp, first |-> current_log.first,
                     recs |-> Append(current_log.recs, r), split |-> split]
<1>1. /\ current_log \in [stamp : Nat, first : BOOLEAN, recs : Seq(Rec), size : 0..(Cap - 1)]
      /\ disk \in Volume /\ view \in Volume /\ SplitOK(disk) /\ SplitOK(view)
  BY DEF TypeInv, TypeOK
<1>2. UnitsOf(r) \in {1, 2} /\ Cap \in Nat /\ Cap >= 2
  BY UnitsType, ConstantsOK
<1>3. CASE HasRoom(r)
  <2>1. current_log' = [current_log EXCEPT !.recs = Append(@, r), !.size = @ + UnitsOf(r)]
    BY <1>3 DEF AddRec
  <2>2. disk' = disk /\ view' = view
    BY <1>3 DEF AddRec
  <2>3. current_log.size + UnitsOf(r) \in 0..(Cap - 1)
    BY <1>1, <1>2, <1>3 DEF HasRoom
  <2>4. Append(current_log.recs, r) \in Seq(Rec)
    BY <1>1
  <2>5. current_log' \in [stamp : Nat, first : BOOLEAN, recs : Seq(Rec), size : 0..(Cap - 1)]
    BY <1>1, <2>1, <2>3, <2>4
  <2> QED BY <1>1, <2>2, <2>5 DEF SplitOK
<1>4. CASE ~HasRoom(r)
  <2>1. WriteVol([view EXCEPT !.log[Slot(full.stamp)] = full])
    BY <1>4 DEF AddRec
  <2>2. current_log' = EmptyLog(full.stamp + 1, split, UnitsOf(r) - space)
    BY <1>4 DEF AddRec
  <2>3. full \in Sector /\ full.recs # <<>>
    <3>1. Append(current_log.recs, r) \in Seq(Rec) /\ Append(current_log.recs, r) # <<>>
      BY <1>1
    <3> QED BY <1>1, <1>2, <3>1 DEF Sector
  <2>4. UnitsOf(r) - space \in 0..(Cap - 1)
    BY <1>1, <1>2, <1>4 DEF HasRoom
  <2>5. current_log' \in [stamp : Nat, first : BOOLEAN, recs : Seq(Rec), size : 0..(Cap - 1)]
    BY <1>1, <2>2, <2>4 DEF EmptyLog
  <2> HIDE DEF full
  <2>6. LET v == [view EXCEPT !.log[Slot(full.stamp)] = full] IN v \in Volume /\ SplitOK(v)
    BY <2>3, LogWriteType
  <2> QED BY <2>1, <2>5, <2>6, WriteVolType
<1> QED BY <1>3, <1>4

LEMMA TypeInit == Init => TypeInv
<1> SUFFICES ASSUME Init PROVE TypeInv
  OBVIOUS
<1>1. BlankSector \in Sector
  BY DEF BlankSector, Sector
<1>2. FreshVolume \in Volume /\ SplitOK(FreshVolume)
  BY <1>1 DEF FreshVolume, Volume, SplitOK, BlankSector, Slots
<1>3. current_log \in [stamp : Nat, first : BOOLEAN, recs : Seq(Rec), size : 0..(Cap - 1)]
  BY ConstantsOK DEF Init, NoLog
<1>4. zmap \in [Zones -> [alloc : SUBSET Blocks, stamp : Nat, dirty : BOOLEAN]]
  BY DEF Init, LoadedZones, FreshVolume
<1>5. vol_hdr \in [stamp : Nat, next_fsid : Nat]
  BY DEF Init, FreshVolume
<1>6. todo \in [free : SUBSET Blocks, alloc : SUBSET Blocks, tail : Seq(Rec)]
  BY DEF Init, NoTodo
<1>7. ld \in [next : Nat, last : Nat, part : Seq(Entry)] /\ list \in Seq(Entry)
  BY DEF Init, NoLoad
<1>8. zi \in 1..(NZones + 1)
  BY ConstantsOK DEF Init
<1>9. disk = FreshVolume /\ view = FreshVolume /\ pend \subseteq Blocks
  BY DEF Init
<1>10. txn \in [Fsids -> {NoChange} \cup SUBSET Blocks]
  BY DEF Init, NoTxn
<1>11. /\ mode \in {"rw", "mem"} /\ pc \in PCs /\ call \in Calls /\ err \in Errs
       /\ lastcommit \in Nat /\ lastsync \in Nat
  BY DEF Init, PCs, Calls, Errs
<1> QED BY <1>2, <1>3, <1>4, <1>5, <1>6, <1>7, <1>8, <1>9, <1>10, <1>11 DEF TypeInv, TypeOK

\* A set of positions in a sequence has a last one.
LEMMA LastPosition ==
  ASSUME NEW n \in Nat, NEW I, I \subseteq 1..n, I # {}
  PROVE  \E i \in I : \A j \in I : j <= i
<1> DEFINE D == {n - i : i \in I}
<1>1. \A i \in I : i \in Nat /\ n - i \in Nat
  OBVIOUS
<1>2. /\ \A i \in I : n - i \in D
      /\ \A d \in D : \E i \in I : d = n - i
  OBVIOUS
<1>3. D \subseteq Nat /\ D # {}
  BY <1>1, <1>2
<1> HIDE DEF D
<1>4. PICK d \in D : \A e \in D : ~ (<<e, d>> \in OpToRel(<, Nat))
  BY <1>3, NatLessThanWellFounded, WFMin
<1>5. \A e \in D : ~(e < d)
  BY <1>3, <1>4 DEF OpToRel
<1>6. PICK i \in I : d = n - i
  BY <1>2
<1>7. \A j \in I : ~(n - j < n - i)
  BY <1>2, <1>5, <1>6
<1>8. \A j \in I : j <= i
  BY <1>1, <1>7
<1> QED BY <1>8

LEMMA LastOfType ==
  ASSUME list \in Seq(Entry), NEW t
  PROVE  /\ LastOf(t) \in 0..Len(list)
         /\ LastOf(t) # 0 => list[LastOf(t)].stamp \in Nat
<1> DEFINE I == {i \in 1..Len(list) : list[i].rec.t = t}
           Last(i) == /\ list[i].rec.t = t
                      /\ \A j \in (i + 1)..Len(list) : list[j].rec.t # t
<1>1. Len(list) \in Nat
  OBVIOUS
<1>2. CASE I = {}
  BY <1>1, <1>2 DEF LastOf
<1>3. CASE I # {}
  <2>1. PICK i \in I : \A j \in I : j <= i
    <3> HIDE DEF I
    <3>1. I \subseteq 1..Len(list)
      BY DEF I
    <3> QED BY <1>1, <1>3, <3>1, LastPosition
  <2>2. i \in 1..Len(list) /\ list[i].rec.t = t
    OBVIOUS
  <2>3. \A j \in (i + 1)..Len(list) : j \in 1..Len(list) /\ ~(j <= i)
    BY <1>1, <2>2
  <2>4. Last(i)
    BY <2>1, <2>2, <2>3
  <2>5. LastOf(t) = CHOOSE m \in 1..Len(list) : Last(m)
    BY <1>3 DEF LastOf
  <2> HIDE DEF Last
  <2>6. LastOf(t) \in 1..Len(list)
    BY <2>2, <2>4, <2>5
  <2>7. \A m \in 1..Len(list) : list[m] \in Entry
    OBVIOUS
  <2>8. list[LastOf(t)].stamp \in Nat
    BY <2>6, <2>7 DEF Entry
  <2> QED BY <1>1, <2>6, <2>8
<1> QED BY <1>2, <1>3

\* The steps that add to the log.
LEMMA TypeAddEntry == TypeInv /\ AddEntry => TypeInv'
<1> SUFFICES ASSUME TypeInv, AddEntry PROVE TypeInv'
  OBVIOUS
<1> DEFINE Added == \E r \in Rec : AddRec(r)
           TodoOK == todo' \in [free : SUBSET Blocks, alloc : SUBSET Blocks, tail : Seq(Rec)]
<1>1. Added /\ TodoOK /\ pc' \in PCs /\ call' \in Calls
  <2>1. todo \in [free : SUBSET Blocks, alloc : SUBSET Blocks, tail : Seq(Rec)]
        /\ pc \in PCs /\ call \in Calls
    BY DEF TypeInv, TypeOK
  <2>2. ASSUME NEW b \in todo.free, AddRec(MapRec(b, TRUE)),
               todo' = [todo EXCEPT !.free = @ \ {b}], UNCHANGED <<pc, call>>
        PROVE  Added /\ TodoOK /\ pc' \in PCs /\ call' \in Calls
    <3>1. MapRec(b, TRUE) \in Rec
      BY <2>1 DEF MapRec, Rec
    <3> QED BY <2>1, <2>2, <3>1
  <2>3. ASSUME NEW b \in todo.alloc, AddRec(MapRec(b, FALSE)),
               todo' = [todo EXCEPT !.alloc = @ \ {b}], UNCHANGED <<pc, call>>
        PROVE  Added /\ TodoOK /\ pc' \in PCs /\ call' \in Calls
    <3>1. MapRec(b, FALSE) \in Rec
      BY <2>1 DEF MapRec, Rec
    <3> QED BY <2>1, <2>3, <3>1
  <2>4. ASSUME todo.tail # <<>>, AddRec(Head(todo.tail)),
               todo' = [todo EXCEPT !.tail = Tail(@)],
               IF Len(todo.tail) = 1 THEN AfterAdd ELSE UNCHANGED <<pc, call>>
        PROVE  Added /\ TodoOK /\ pc' \in PCs /\ call' \in Calls
    <3>1. Head(todo.tail) \in Rec /\ Tail(todo.tail) \in Seq(Rec)
      BY <2>1, <2>4
    <3>2. pc' \in PCs /\ call' \in Calls
      BY <2>1, <2>4 DEF AfterAdd, PCs, Calls
    <3> QED BY <2>1, <2>4, <3>1, <3>2
  <2> QED BY <2>2, <2>3, <2>4 DEF AddEntry
<1>2. /\ disk' \in Volume /\ view' \in Volume /\ SplitOK(disk)' /\ SplitOK(view)'
      /\ current_log' \in [stamp : Nat, first : BOOLEAN, recs : Seq(Rec), size : 0..(Cap - 1)]
  BY <1>1, AddRecType
<1>3. UNCHANGED <<mode, err, lastcommit, lastsync, memvars, txn, ld, list, zi>>
  BY DEF AddEntry
<1> QED BY <1>1, <1>2, <1>3 DEF TypeInv, TypeOK, memvars

LEMMA TypeCloseSector == TypeInv /\ CloseSector => TypeInv'
<1> SUFFICES ASSUME TypeInv, CloseSector PROVE TypeInv'
  OBVIOUS
<1> DEFINE s == [stamp |-> current_log.stamp, first |-> current_log.first,
                 recs |-> current_log.recs, split |-> FALSE]
<1>1. s \in Sector /\ ~s.split
  BY DEF TypeInv, TypeOK, Sector
<1>2. /\ WriteVol([view EXCEPT !.log[Slot(s.stamp)] = s])
      /\ current_log' = EmptyLog(s.stamp + 1, FALSE, 0)
  BY DEF CloseSector
<1>3. current_log' \in [stamp : Nat, first : BOOLEAN, recs : Seq(Rec), size : 0..(Cap - 1)]
  BY <1>1, <1>2, ConstantsOK DEF EmptyLog, Sector
<1>4. /\ ld' \in [next : Nat, last : Nat, part : Seq(Entry)] /\ pc' \in PCs
      /\ zi' \in 1..(NZones + 1) /\ txn' \in [Fsids -> {NoChange} \cup SUBSET Blocks]
      /\ list' \in Seq(Entry)
  <2>1. /\ ld \in [next : Nat, last : Nat, part : Seq(Entry)] /\ lastcommit + 1 \in Nat
        /\ current_log.stamp \in Nat /\ zi \in 1..(NZones + 1)
        /\ txn \in [Fsids -> {NoChange} \cup SUBSET Blocks]
    BY DEF TypeInv, TypeOK
  <2>2. NoTxn \in [Fsids -> {NoChange} \cup SUBSET Blocks] /\ 1 \in 1..(NZones + 1)
    BY ConstantsOK DEF NoTxn
  <2>3. <<>> \in Seq(Entry)
    OBVIOUS
  <2>4. list' \in Seq(Entry)
    BY <2>3 DEF CloseSector
  <2>5. CASE call = "commit"
    <3>1. [next |-> lastcommit + 1, last |-> current_log.stamp, part |-> <<>>]
            \in [next : Nat, last : Nat, part : Seq(Entry)]
      BY <2>1, <2>3
    <3> QED BY <2>1, <2>2, <2>4, <2>5, <3>1 DEF CloseSector, PCs
  <2>6. CASE call # "commit"
    BY <2>1, <2>2, <2>4, <2>6 DEF CloseSector, PCs
  <2> QED BY <2>5, <2>6
<1>5. UNCHANGED <<mode, call, err, lastcommit, lastsync, memvars, todo>>
  BY DEF CloseSector
<1>6. LET v == [view EXCEPT !.log[Slot(s.stamp)] = s] IN v \in Volume /\ SplitOK(v)
  <2> HIDE DEF s
  <2> QED BY <1>1, LogWriteType
<1>7. disk' \in Volume /\ view' \in Volume /\ SplitOK(disk)' /\ SplitOK(view)'
  BY <1>2, <1>6, WriteVolType
<1> QED BY <1>3, <1>4, <1>5, <1>7 DEF TypeInv, TypeOK, memvars

\* The steps that load the log.
LEMMA EntriesType ==
  ASSUME NEW s \in Sector
  PROVE  EntriesOf(s) \in Seq(Entry) /\ Len(EntriesOf(s)) = Len(s.recs)
<1>1. Len(s.recs) \in Nat /\ \A i \in 1..Len(s.recs) : s.recs[i] \in Rec
  BY DEF Sector
<1>2. \A i \in 1..Len(s.recs) : [stamp |-> s.stamp, rec |-> s.recs[i]] \in Entry
  BY <1>1 DEF Sector, Entry
<1> QED BY <1>1, <1>2, IsASeq DEF EntriesOf

LEMMA NextLoadType ==
  ASSUME NEW l \in [next : Nat, last : Nat, part : Seq(Entry)], NEW p \in Seq(Entry)
  PROVE  [l EXCEPT !.next = @ + 1, !.part = p] \in [next : Nat, last : Nat, part : Seq(Entry)]
<1>1. ASSUME NEW m \in Nat, NEW q \in Seq(Entry)
      PROVE  [l EXCEPT !.next = m, !.part = q] \in [next : Nat, last : Nat, part : Seq(Entry)]
  OBVIOUS
<1>2. l.next + 1 \in Nat
  OBVIOUS
<1> QED BY <1>1, <1>2

LEMMA TypeLoadSector == TypeInv /\ LoadSector => TypeInv'
<1> SUFFICES ASSUME TypeInv, LoadSector PROVE TypeInv'
  OBVIOUS
<1> DEFINE s  == view.log[Slot(ld.next)]
           es == EntriesOf(s)
           n  == WholeIn(s)
<1>1. /\ list \in Seq(Entry) /\ ld \in [next : Nat, last : Nat, part : Seq(Entry)]
      /\ pc \in PCs /\ err \in Errs
  BY DEF TypeInv, TypeOK
<1>2. s \in Sector /\ (s.split => s.recs # <<>>)
  <2>1. Slot(ld.next) \in Slots
    BY <1>1, SlotInLog
  <2> QED BY <2>1 DEF TypeInv, TypeOK, Volume, SplitOK
<1>3. es \in Seq(Entry) /\ Len(es) = Len(s.recs)
  BY <1>2, EntriesType
<1>4. n \in 0..Len(es)
  BY <1>2, <1>3 DEF WholeIn, Sector
<1>5. SubSeq(es, 1, n) \in Seq(Entry) /\ SubSeq(es, n + 1, Len(es)) \in Seq(Entry)
  <2> HIDE DEF n, es
  <2> QED BY <1>3, <1>4, SubSeqProperties
<1>6. list' \in Seq(Entry) /\ ld' \in [next : Nat, last : Nat, part : Seq(Entry)]
      /\ pc' \in PCs /\ err' \in Errs
  <2>1. CASE Broken(s)
    BY <1>1, <2>1 DEF LoadSector, PCs, Errs
  <2>2. CASE ~Broken(s)
    <3>1. /\ list' = list \o ld.part \o SubSeq(es, 1, n)
          /\ ld' = [ld EXCEPT !.next = @ + 1, !.part = SubSeq(es, n + 1, Len(es))]
          /\ UNCHANGED <<pc, err>>
      BY <2>2 DEF LoadSector
    <3> HIDE DEF n, es
    <3>2. list' \in Seq(Entry)
      BY <1>1, <1>5, <3>1
    <3>3. ld' \in [next : Nat, last : Nat, part : Seq(Entry)]
      BY <1>1, <1>5, <3>1, NextLoadType
    <3> QED BY <1>1, <3>1, <3>2, <3>3
  <2> QED BY <2>1, <2>2
<1>7. UNCHANGED <<disk, view, mode, call, logvars, memvars, txn, todo, zi>>
  BY DEF LoadSector
<1> QED BY <1>6, <1>7 DEF TypeInv, TypeOK, logvars, memvars, SplitOK

LEMMA TypeLoadDone == TypeInv /\ LoadDone => TypeInv'
<1> SUFFICES ASSUME TypeInv, LoadDone PROVE TypeInv'
  OBVIOUS
<1>1. pc' \in PCs
  BY DEF LoadDone, PCs
<1>2. ld' \in [next : Nat, last : Nat, part : Seq(Entry)]
  <2>1. ld \in [next : Nat, last : Nat, part : Seq(Entry)] /\ <<>> \in Seq(Entry)
    BY DEF TypeInv, TypeOK
  <2> QED BY <2>1 DEF LoadDone
<1> QED BY <1>1, <1>2 DEF LoadDone, TypeInv, TypeOK, logvars, memvars, SplitOK

LEMMA TypeScan == TypeInv /\ Scan => TypeInv'
<1> SUFFICES ASSUME TypeInv, Scan PROVE TypeInv'
  OBVIOUS
<1>1. list \in Seq(Entry) /\ lastsync \in Nat
  BY DEF TypeInv, TypeOK
<1>2. lastsync' \in Nat
  BY <1>1, LastOfType DEF Scan
<1>3. list' \in Seq(Entry)
  <2>1. LastOf("commit") \in 0..Len(list)
    BY <1>1, LastOfType
  <2> QED BY <1>1, <2>1, SubSeqProperties DEF Scan, Replayed
<1>4. pc' \in PCs
  BY DEF Scan, PCs
<1>5. UNCHANGED <<disk, view, mode, call, err, current_log, lastcommit, memvars,
                  txn, todo, ld, zi>>
  BY DEF Scan
<1> QED BY <1>2, <1>3, <1>4, <1>5 DEF TypeInv, TypeOK, memvars, SplitOK

\* The steps that apply the loaded entries.
LEMMA CommitPointType ==
  ASSUME TypeInv, NEW s \in Nat, CommitPoint(s)
  PROVE  /\ lastcommit' \in Nat /\ vol_hdr' \in [stamp : Nat, next_fsid : Nat]
         /\ zmap' \in [Zones -> [alloc : SUBSET Blocks, stamp : Nat, dirty : BOOLEAN]]
         /\ pend' \subseteq Blocks
<1>1. /\ vol_hdr \in [stamp : Nat, next_fsid : Nat] /\ pend \subseteq Blocks
      /\ zmap \in [Zones -> [alloc : SUBSET Blocks, stamp : Nat, dirty : BOOLEAN]]
  BY DEF TypeInv, TypeOK
<1>2. \A z \in Zones : [zmap[z] EXCEPT !.stamp = s]
                          \in [alloc : SUBSET Blocks, stamp : Nat, dirty : BOOLEAN]
  BY <1>1
<1> QED BY <1>1, <1>2 DEF CommitPoint

LEMMA ZoneMapUpdateType ==
  ASSUME TypeInv, NEW e \in Entry, e.rec.t = "map", ZoneMapUpdate(e)
  PROVE  zmap' \in [Zones -> [alloc : SUBSET Blocks, stamp : Nat, dirty : BOOLEAN]]
<1> DEFINE z == ZoneOf[e.rec.blk]
           A == IF e.rec.free THEN zmap[z].alloc \ {e.rec.blk}
                              ELSE zmap[z].alloc \cup {e.rec.blk}
<1>1. zmap \in [Zones -> [alloc : SUBSET Blocks, stamp : Nat, dirty : BOOLEAN]]
  BY DEF TypeInv, TypeOK
<1>2. e.rec.blk \in Blocks
  BY DEF Entry, Rec
<1>3. z \in Zones
  BY <1>2, ConstantsOK DEF Zones
<1>4. A \subseteq Blocks
  BY <1>1, <1>2, <1>3
<1>5. CASE zmap' = zmap
  BY <1>1, <1>5
<1>6. CASE zmap' = [zmap EXCEPT ![z].alloc = A, ![z].dirty = TRUE]
  <2> HIDE DEF z, A
  <2> QED BY <1>1, <1>3, <1>4, <1>6
<1>7. zmap' = zmap \/ zmap' = [zmap EXCEPT ![z].alloc = A, ![z].dirty = TRUE]
  BY DEF ZoneMapUpdate
<1> QED BY <1>5, <1>6, <1>7

\* A volume with other contents for one inode.
LEMMA WithInodeType ==
  ASSUME TypeInv, NEW f \in Fsids, NEW B \in SUBSET Blocks
  PROVE  LET v == [view EXCEPT !.inode[f] = B] IN v \in Volume /\ SplitOK(v)
<1>1. view \in Volume /\ SplitOK(view)
  BY DEF TypeInv, TypeOK
<1> QED BY <1>1 DEF Volume, SplitOK

LEMMA TypeApplyEntry == TypeInv /\ ApplyEntry => TypeInv'
<1> SUFFICES ASSUME TypeInv, ApplyEntry PROVE TypeInv'
  OBVIOUS
<1> DEFINE e == Head(list)
           VolOK == disk' \in Volume /\ view' \in Volume /\ SplitOK(disk)' /\ SplitOK(view)'
           MemOK == /\ lastcommit' \in Nat /\ vol_hdr' \in [stamp : Nat, next_fsid : Nat]
                    /\ zmap' \in [Zones -> [alloc : SUBSET Blocks, stamp : Nat, dirty : BOOLEAN]]
                    /\ pend' \subseteq Blocks
<1>1. list \in Seq(Entry) /\ list # <<>>
  BY DEF TypeInv, TypeOK, ApplyEntry
<1>2. e \in Entry /\ Tail(list) \in Seq(Entry)
  BY <1>1
<1>3. /\ disk \in Volume /\ view \in Volume /\ SplitOK(disk) /\ SplitOK(view)
      /\ lastcommit \in Nat /\ vol_hdr \in [stamp : Nat, next_fsid : Nat]
      /\ zmap \in [Zones -> [alloc : SUBSET Blocks, stamp : Nat, dirty : BOOLEAN]]
      /\ pend \subseteq Blocks
  BY DEF TypeInv, TypeOK
<1>4. UNCHANGED <<mode, pc, call, err, current_log, lastsync, txn, todo, ld, zi>>
      /\ list' = Tail(list)
  BY DEF ApplyEntry
<1> HIDE DEF e
<1>5. ASSUME e.rec.t = "map", ZoneMapUpdate(e),
             UNCHANGED <<disk, view, lastcommit, vol_hdr, pend>>
      PROVE  VolOK /\ MemOK
  BY <1>2, <1>3, <1>5, ZoneMapUpdateType DEF SplitOK
<1>6. ASSUME e.rec.t = "inode", WriteVol([view EXCEPT !.inode[e.rec.fsid] = e.rec.blks]),
             vol_hdr' = [vol_hdr EXCEPT !.next_fsid = NextFsidAfter(e.rec.fsid)],
             UNCHANGED <<lastcommit, zmap, pend>>
      PROVE  VolOK /\ MemOK
  <2>1. e.rec.fsid \in Fsids /\ e.rec.blks \in SUBSET Blocks
    BY <1>2, <1>6 DEF Entry, Rec
  <2>2. VolOK
    BY <1>6, <2>1, WithInodeType, WriteVolType
  <2>3. NextFsidAfter(e.rec.fsid) \in Nat
    <3>1. e.rec.fsid \in Nat /\ vol_hdr.next_fsid \in Nat
      BY <1>3, <2>1, ConstantsOK
    <3> QED BY <3>1 DEF NextFsidAfter, HigherOf
  <2>4. vol_hdr' \in [stamp : Nat, next_fsid : Nat]
    BY <1>3, <1>6, <2>3
  <2> QED BY <1>3, <1>6, <2>2, <2>4
<1>7. ASSUME CommitPoint(e.stamp), UNCHANGED <<disk, view>>
      PROVE  VolOK /\ MemOK
  <2>1. e.stamp \in Nat
    BY <1>2 DEF Entry
  <2> QED BY <1>3, <1>7, <2>1, CommitPointType DEF SplitOK
<1>8. ASSUME UNCHANGED <<disk, view, lastcommit, memvars>>
      PROVE  VolOK /\ MemOK
  BY <1>3, <1>8 DEF SplitOK, memvars
<1>9. VolOK /\ MemOK
  BY <1>5, <1>6, <1>7, <1>8 DEF ApplyEntry, e
<1> QED BY <1>2, <1>4, <1>9 DEF TypeInv, TypeOK

LEMMA TodoType ==
  /\ \A T \in Seq(Rec) : [NoTodo EXCEPT !.tail = T]
       \in [free : SUBSET Blocks, alloc : SUBSET Blocks, tail : Seq(Rec)]
  /\ \A t \in {"commit", "fssync", "replay"} : Mark(t) \in Rec
  BY DEF NoTodo, Mark, Rec

LEMMA TypeCommitApplied == TypeInv /\ CommitApplied => TypeInv'
<1> SUFFICES ASSUME TypeInv, CommitApplied PROVE TypeInv'
  OBVIOUS
<1>1. ld.last \in Nat /\ CommitPoint(ld.last)
  BY DEF TypeInv, TypeOK, CommitApplied
<1>2. <<Mark("fssync")>> \in Seq(Rec)
  BY TodoType
<1>3. /\ todo' \in [free : SUBSET Blocks, alloc : SUBSET Blocks, tail : Seq(Rec)]
      /\ pc' \in PCs /\ call' \in Calls
  BY <1>2, TodoType DEF CommitApplied, TypeInv, TypeOK, PCs, Calls
<1>4. UNCHANGED <<disk, view, mode, err, current_log, lastsync, txn, ld, list, zi>>
  BY DEF CommitApplied
<1> QED BY <1>1, <1>3, <1>4, CommitPointType DEF TypeInv, TypeOK, SplitOK

LEMMA TypeReplayApplied == TypeInv /\ ReplayApplied => TypeInv'
<1> SUFFICES ASSUME TypeInv, ReplayApplied PROVE TypeInv'
  OBVIOUS
<1>1. view.hdr.stamp \in Nat /\ lastcommit \in Nat /\ lastsync \in Nat
  BY DEF TypeInv, TypeOK, Volume
<1>2. lastcommit' \in Nat /\ lastsync' \in Nat
  BY <1>1 DEF ReplayApplied
<1>3. current_log' \in [stamp : Nat, first : BOOLEAN, recs : Seq(Rec), size : 0..(Cap - 1)]
  BY <1>2, ConstantsOK DEF ReplayApplied, EmptyLog
<1>4. <<Mark("replay"), Mark("fssync")>> \in Seq(Rec)
  BY TodoType
<1>5. todo' \in [free : SUBSET Blocks, alloc : SUBSET Blocks, tail : Seq(Rec)] /\ pc' \in PCs
  BY <1>4, TodoType DEF ReplayApplied, PCs
<1>6. UNCHANGED <<disk, view, mode, call, err, memvars, txn, ld, list, zi>>
  BY DEF ReplayApplied
<1> QED BY <1>2, <1>3, <1>5, <1>6 DEF TypeInv, TypeOK, memvars, SplitOK

\* The steps that write the checkpoint.
LEMMA TypeZoneMapSync == TypeInv /\ ZoneMapSync => TypeInv'
<1> SUFFICES ASSUME TypeInv, ZoneMapSync PROVE TypeInv'
  OBVIOUS
<1>1. /\ view \in Volume /\ SplitOK(view) /\ disk \in Volume /\ SplitOK(disk)
      /\ zmap \in [Zones -> [alloc : SUBSET Blocks, stamp : Nat, dirty : BOOLEAN]]
      /\ pend \subseteq Blocks /\ lastcommit \in Nat /\ zi \in Zones
  BY DEF TypeInv, TypeOK, ZoneMapSync
<1>2. zi' \in 1..(NZones + 1)
  BY <1>1, ConstantsOK DEF ZoneMapSync, ZoneAfter, Zones
<1>3. CASE zmap[zi].dirty
  <2> DEFINE m == [alloc |-> zmap[zi].alloc, stamp |-> lastcommit]
             v == [view EXCEPT !.zone[zi] = m]
  <2>1. m \in [alloc : SUBSET Blocks, stamp : Nat]
    BY <1>1
  <2> HIDE DEF m
  <2>2. v \in Volume /\ SplitOK(v)
    BY <1>1, <2>1 DEF Volume, SplitOK
  <2>3. /\ zmap' = [zmap EXCEPT ![zi].stamp = lastcommit]
        /\ WriteVol(v) /\ pend' = pend \ BlocksOf(zi)
    BY <1>3 DEF ZoneMapSync, m
  <2>4. zmap' \in [Zones -> [alloc : SUBSET Blocks, stamp : Nat, dirty : BOOLEAN]]
    BY <1>1, <2>3
  <2>5. pend' \subseteq Blocks
    BY <1>1, <2>3
  <2>6. disk' \in Volume /\ view' \in Volume /\ SplitOK(disk)' /\ SplitOK(view)'
    BY <2>2, <2>3, WriteVolType
  <2>7. UNCHANGED <<mode, pc, call, err, logvars, vol_hdr, txn, todo, ld, list>>
    BY DEF ZoneMapSync
  <2> QED BY <1>2, <2>4, <2>5, <2>6, <2>7 DEF TypeInv, TypeOK, logvars
<1>4. CASE ~zmap[zi].dirty
  BY <1>2, <1>4 DEF ZoneMapSync, TypeInv, TypeOK, logvars, SplitOK
<1> QED BY <1>3, <1>4

LEMMA TypeWriteVolumeHeader == TypeInv /\ WriteVolumeHeader => TypeInv'
<1> SUFFICES ASSUME TypeInv, WriteVolumeHeader PROVE TypeInv'
  OBVIOUS
<1> DEFINE v == [view EXCEPT !.hdr = vol_hdr]
<1>1. view \in Volume /\ SplitOK(view) /\ vol_hdr \in [stamp : Nat, next_fsid : Nat]
  BY DEF TypeInv, TypeOK
<1>2. v \in Volume /\ SplitOK(v)
  BY <1>1 DEF Volume, SplitOK
<1>3. disk' \in Volume /\ view' \in Volume /\ SplitOK(disk)' /\ SplitOK(view)'
  BY <1>2, WriteVolType DEF WriteVolumeHeader
<1>4. pc' \in PCs /\ call' \in Calls
  BY DEF WriteVolumeHeader, PCs, Calls
<1>5. UNCHANGED <<mode, err, logvars, memvars, txn, callvars>>
  BY DEF WriteVolumeHeader
<1> QED BY <1>3, <1>4, <1>5 DEF TypeInv, TypeOK, logvars, memvars, callvars

\* The calls a client makes.
LEMMA TypeLogInodeUpdate ==
  ASSUME TypeInv, NEW f \in Fsids, NEW B \in SUBSET Blocks, LogInodeUpdate(f, B)
  PROVE  TypeInv'
<1>1. /\ view.inode[f] \in SUBSET Blocks /\ pend \subseteq Blocks
      /\ txn \in [Fsids -> {NoChange} \cup SUBSET Blocks]
  BY DEF TypeInv, TypeOK, Volume
<1>2. pend' \subseteq Blocks
  BY <1>1 DEF LogInodeUpdate
<1>3. txn' \in [Fsids -> {NoChange} \cup SUBSET Blocks]
  BY <1>1 DEF LogInodeUpdate
<1>4. <<InodeRec(f, B)>> \in Seq(Rec)
  BY DEF InodeRec, Rec
<1>5. OnlyIn(view.inode[f], B) \in SUBSET Blocks /\ OnlyIn(B, view.inode[f]) \in SUBSET Blocks
  BY <1>1 DEF OnlyIn
<1>6. todo' \in [free : SUBSET Blocks, alloc : SUBSET Blocks, tail : Seq(Rec)]
  BY <1>4, <1>5 DEF LogInodeUpdate
<1>7. pc' \in PCs /\ call' \in Calls
  BY DEF LogInodeUpdate, PCs, Calls
<1>8. UNCHANGED <<disk, view, mode, err, logvars, zmap, vol_hdr, ld, list, zi>>
  BY DEF LogInodeUpdate
<1> QED BY <1>2, <1>3, <1>6, <1>7, <1>8 DEF TypeInv, TypeOK, logvars, SplitOK

LEMMA TypeAllocFails ==
  ASSUME TypeInv, NEW B \in SUBSET Blocks, AllocFails(B)
  PROVE  TypeInv'
BY DEF AllocFails, TypeInv, TypeOK, SplitOK, logvars, callvars

LEMMA TypeLogCommit == TypeInv /\ LogCommit => TypeInv'
<1> SUFFICES ASSUME TypeInv, LogCommit PROVE TypeInv'
  OBVIOUS
<1>1. <<Mark("commit")>> \in Seq(Rec)
  BY TodoType
<1>2. todo' \in [free : SUBSET Blocks, alloc : SUBSET Blocks, tail : Seq(Rec)]
      /\ pc' \in PCs /\ call' \in Calls
  BY <1>1, TodoType DEF LogCommit, PCs, Calls
<1> QED BY <1>2 DEF LogCommit, TypeInv, TypeOK, logvars, memvars, SplitOK

LEMMA TypeLogFssync == TypeInv /\ LogFssync => TypeInv'
<1> SUFFICES ASSUME TypeInv, LogFssync PROVE TypeInv'
  OBVIOUS
<1>1. /\ vol_hdr.stamp \in Nat /\ pc \in PCs /\ call \in Calls /\ err \in Errs
      /\ todo \in [free : SUBSET Blocks, alloc : SUBSET Blocks, tail : Seq(Rec)]
      /\ ld \in [next : Nat, last : Nat, part : Seq(Entry)]
  BY DEF TypeInv, TypeOK
<1>2. <<Mark("fssync")>> \in Seq(Rec) /\ <<>> \in Seq(Entry)
  BY TodoType
<1>3. [next |-> vol_hdr.stamp + 1, last |-> NoEnd, part |-> <<>>]
         \in [next : Nat, last : Nat, part : Seq(Entry)]
  BY <1>1, <1>2 DEF NoEnd
<1>4. FssyncVerdict \notin {"replay", "sync", "synced"} => FssyncVerdict \in Errs
  BY DEF FssyncVerdict, Errs
<1>5. /\ todo' \in [free : SUBSET Blocks, alloc : SUBSET Blocks, tail : Seq(Rec)]
      /\ ld' \in [next : Nat, last : Nat, part : Seq(Entry)]
      /\ pc' \in PCs /\ call' \in Calls /\ err' \in Errs
  <2>1. CASE FssyncVerdict = "replay"
    BY <1>1, <1>3, <2>1 DEF LogFssync, PCs, Calls
  <2>2. CASE FssyncVerdict = "sync"
    BY <1>1, <1>2, <2>2, TodoType DEF LogFssync, PCs, Calls
  <2>3. CASE FssyncVerdict \notin {"replay", "sync"}
    BY <1>1, <1>4, <2>3 DEF LogFssync, PCs
  <2> QED BY <2>1, <2>2, <2>3
<1>6. list' \in Seq(Entry)
  BY <1>2 DEF LogFssync
<1>7. UNCHANGED <<disk, view, mode, logvars, memvars, txn, zi>>
  BY DEF LogFssync
<1> QED BY <1>5, <1>6, <1>7 DEF TypeInv, TypeOK, logvars, memvars, SplitOK

\* What a mount loads has the types of what it is loaded from.
LEMMA LoadedType ==
  ASSUME NEW v \in Volume
  PROVE  /\ LoadedZones(v) \in [Zones -> [alloc : SUBSET Blocks, stamp : Nat, dirty : BOOLEAN]]
         /\ v.hdr \in [stamp : Nat, next_fsid : Nat]
  BY DEF LoadedZones, Volume

LEMMA TypeCrash == TypeInv /\ Crash => TypeInv'
<1> SUFFICES ASSUME TypeInv, Crash PROVE TypeInv'
  OBVIOUS
<1>1. disk \in Volume /\ SplitOK(disk) /\ mode \in {"rw", "mem"}
  BY DEF TypeInv, TypeOK
<1>2. /\ disk' = disk /\ view' = disk /\ mode' = mode
      /\ zmap' = LoadedZones(disk) /\ vol_hdr' = disk.hdr
  BY DEF Crash
<1>3. current_log' \in [stamp : Nat, first : BOOLEAN, recs : Seq(Rec), size : 0..(Cap - 1)]
  BY ConstantsOK DEF Crash, NoLog
<1>4. txn' \in [Fsids -> {NoChange} \cup SUBSET Blocks] /\ pend' \subseteq Blocks
  BY DEF Crash, NoTxn
<1>5. todo' \in [free : SUBSET Blocks, alloc : SUBSET Blocks, tail : Seq(Rec)]
  BY DEF Crash, NoTodo
<1>6. ld' \in [next : Nat, last : Nat, part : Seq(Entry)] /\ list' \in Seq(Entry)
  BY DEF Crash, NoLoad
<1>7. zi' \in 1..(NZones + 1) /\ lastcommit' \in Nat /\ lastsync' \in Nat
  BY ConstantsOK DEF Crash
<1>8. pc' \in PCs /\ call' \in Calls /\ err' \in Errs
  BY DEF Crash, PCs, Calls, Errs
<1> QED BY <1>1, <1>2, <1>3, <1>4, <1>5, <1>6, <1>7, <1>8, LoadedType
        DEF TypeInv, TypeOK, SplitOK

LEMMA TypeMount ==
  ASSUME TypeInv, NEW m \in RemountModes, Mount(m)
  PROVE  TypeInv'
<1>1. disk \in Volume /\ SplitOK(disk) /\ m \in {"rw", "mem"}
  BY ConstantsOK DEF TypeInv, TypeOK
<1>2. /\ disk' = disk /\ view' = disk /\ mode' = m /\ pc' \in PCs
      /\ zmap' = LoadedZones(disk) /\ vol_hdr' = disk.hdr
  BY DEF Mount, PCs
<1>3. UNCHANGED <<call, err, logvars, pend, txn, callvars>>
  BY DEF Mount
<1> QED BY <1>1, <1>2, <1>3, LoadedType DEF TypeInv, TypeOK, SplitOK, logvars, callvars

LEMMA TypeNext == TypeInv /\ [Next]_vars => TypeInv'
<1> SUFFICES ASSUME TypeInv, [Next]_vars PROVE TypeInv'
  OBVIOUS
<1>1. CASE Step
  BY <1>1, TypeAddEntry, TypeCloseSector, TypeLoadSector, TypeLoadDone, TypeScan,
     TypeApplyEntry, TypeCommitApplied, TypeReplayApplied, TypeZoneMapSync,
     TypeWriteVolumeHeader DEF Step
<1>2. CASE Client
  BY <1>2, TypeLogInodeUpdate, TypeAllocFails, TypeLogCommit, TypeLogFssync DEF Client
<1>3. CASE Crash
  BY <1>3, TypeCrash
<1>4. CASE \E m \in RemountModes : Mount(m)
  BY <1>4, TypeMount
<1>5. CASE UNCHANGED vars
  BY <1>5 DEF vars, logvars, memvars, callvars, TypeInv, TypeOK, SplitOK
<1> QED BY <1>1, <1>2, <1>3, <1>4, <1>5 DEF Next

\* In every behaviour of the library every variable has its type: in
\* particular the sector being filled never overflows, the loader only walks
\* inside the log, and a scan only cuts a list where it has entries.
THEOREM TypeCorrect == Spec => []TypeOK
<1>1. Init => TypeInv
  BY TypeInit
<1>2. TypeInv /\ [Next]_vars => TypeInv'
  BY TypeNext
<1>3. TypeInv => TypeOK
  BY DEF TypeInv
<1> QED BY <1>1, <1>2, <1>3, PTL DEF Spec

-----------------------------------------------------------------------------
(* The blocks of an open transaction are nobody else's, for a volume that  *)
(* is not reopened for writing.                                            *)

\* What a step does to the log when it adds an entry: it moves on, by size or
\* by stamp, and touches no inode.
LEMMA LogMoves ==
  ASSUME TypeInv, NEW r \in Rec, AddRec(r)
  PROVE  /\ view'.inode = view.inode
         /\ current_log'.stamp >= current_log.stamp
         /\ current_log' # NoLog
         /\ current_log'.size # 0 \/ current_log'.stamp > current_log.stamp
<1>1. /\ current_log \in [stamp : Nat, first : BOOLEAN, recs : Seq(Rec), size : 0..(Cap - 1)]
      /\ view \in Volume
  BY DEF TypeInv, TypeOK
<1>2. UnitsOf(r) \in {1, 2}
  BY UnitsType
<1>3. CASE HasRoom(r)
  <2>1. /\ current_log'.stamp = current_log.stamp
        /\ current_log'.size = current_log.size + UnitsOf(r) /\ view' = view
    BY <1>1, <1>3 DEF AddRec
  <2>2. current_log'.size > 0
    BY <1>1, <1>2, <2>1
  <2> QED BY <1>1, <2>1, <2>2 DEF NoLog
<1>4. CASE ~HasRoom(r)
  <2>1. /\ current_log'.stamp = current_log.stamp + 1
        /\ view'.inode = view.inode
    BY <1>1, <1>4 DEF AddRec, WriteVol, EmptyLog, Volume
  <2> QED BY <1>1, <2>1 DEF NoLog
<1> QED BY <1>3, <1>4

\* Every entry a step adds is one of its call's entries.
LEMMA AddsOne == TypeInv /\ AddEntry => \E r \in Rec : AddRec(r)
<1> SUFFICES ASSUME TypeInv, AddEntry PROVE \E r \in Rec : AddRec(r)
  OBVIOUS
<1>1. todo \in [free : SUBSET Blocks, alloc : SUBSET Blocks, tail : Seq(Rec)]
  BY DEF TypeInv, TypeOK
<1>2. \A b \in Blocks, x \in BOOLEAN : MapRec(b, x) \in Rec
  BY DEF MapRec, Rec
<1>3. todo.tail # <<>> => Head(todo.tail) \in Rec
  BY <1>1
<1> QED BY <1>1, <1>2, <1>3 DEF AddEntry

\* Nothing changes about the blocks gained while the zone maps, the inodes and
\* the open transaction stay, and no block handed out is forgotten.
LEMMA GainedStays ==
  ASSUME GainedPending, GainedIsOurs,
         txn' = txn, view'.inode = view.inode, zmap' = zmap, pend \subseteq pend'
  PROVE  GainedPending' /\ GainedIsOurs'
<1>1. \A f \in Fsids : Gained(f)' = Gained(f)
  BY DEF Gained
<1> QED BY <1>1 DEF GainedPending, GainedIsOurs

\* No transaction, nothing gained.
LEMMA GainedNothing ==
  ASSUME txn' = NoTxn
  PROVE  TxnOpen' /\ TxnLogged' /\ GainedPending' /\ GainedIsOurs'
<1>1. \A f \in Fsids : Gained(f)' = {}
  BY DEF Gained, NoTxn
<1>2. NoTxn' = NoTxn
  BY DEF NoTxn
<1> QED BY <1>1, <1>2 DEF TxnOpen, TxnLogged, GainedPending, GainedIsOurs

LEMMA TxnInit == Init => TxnInv
<1> SUFFICES ASSUME Init PROVE TxnInv
  OBVIOUS
<1>1. \A f \in Fsids : Gained(f) = {}
  BY DEF Init, Gained, NoTxn
<1>2. current_log = NoLog /\ txn = NoTxn /\ pc = "ready" /\ view = FreshVolume
      /\ lastcommit = 0 /\ lastsync = 0 /\ list = <<>> /\ ld.part = <<>>
      /\ vol_hdr.stamp = 0
  BY DEF Init, NoLoad, FreshVolume
<1> QED BY <1>1, <1>2 DEF TxnInv, TxnOpen, FreshLog, ReplayFirst, LogAhead, TxnLogged,
                          GainedPending, GainedIsOurs

\* The types of the numbers the invariant compares.
LEMMA StampTypes ==
  ASSUME TypeInv
  PROVE  /\ current_log.stamp \in Nat /\ lastcommit \in Nat /\ lastsync \in Nat
         /\ ld.last \in Nat /\ ld.next \in Nat /\ view.hdr.stamp \in Nat
         /\ list \in Seq(Entry)
  BY DEF TypeInv, TypeOK, Volume

LEMMA TxnAddEntry == TypeInv /\ TxnInv /\ AddEntry => TxnInv'
<1> SUFFICES ASSUME TypeInv, TxnInv, AddEntry PROVE TxnInv'
  OBVIOUS
<1> USE DEF TxnInv
<1>1. PICK r \in Rec : AddRec(r)
  BY AddsOne
<1>2. /\ view'.inode = view.inode /\ current_log'.stamp >= current_log.stamp
      /\ current_log' # NoLog
      /\ current_log'.size # 0 \/ current_log'.stamp > current_log.stamp
  BY <1>1, LogMoves
<1>3. /\ pc = "add" /\ UNCHANGED <<mode, lastcommit, lastsync, zmap, pend, txn, ld>>
      /\ \/ UNCHANGED <<pc, call>>
         \/ call = "log" /\ pc' = "ready"
         \/ call # "log" /\ pc' = "close" /\ call' = call
  BY DEF AddEntry, AfterAdd, memvars
<1>4. current_log'.stamp \in Nat /\ current_log.stamp \in Nat /\ lastcommit \in Nat
  BY TypeNext, StampTypes, AddRecType, <1>1
<1>5. mode = "rw" => current_log # NoLog /\ lastcommit < current_log.stamp
  BY <1>3 DEF FreshLog, LogAhead
<1>6. LogAhead' /\ FreshLog' /\ ReplayFirst'
  BY <1>2, <1>3, <1>4, <1>5 DEF LogAhead, FreshLog, ReplayFirst, NoLog
<1>7. NoTxn' = NoTxn
  BY DEF NoTxn
<1>8. TxnOpen'
  BY <1>2, <1>3, <1>7 DEF TxnOpen, NoLog
<1>9. TxnLogged'
  BY <1>2, <1>3, <1>4, <1>5, <1>7 DEF TxnLogged, TxnOpen
<1>10. GainedPending' /\ GainedIsOurs'
  BY <1>2, <1>3, GainedStays
<1> QED BY <1>6, <1>8, <1>9, <1>10

LEMMA TxnCloseSector == TypeInv /\ TxnInv /\ CloseSector => TxnInv'
<1> SUFFICES ASSUME TypeInv, TxnInv, CloseSector PROVE TxnInv'
  OBVIOUS
<1> USE DEF TxnInv
<1>1. /\ pc = "close" /\ UNCHANGED <<mode, call, lastcommit, lastsync>>
      /\ current_log'.stamp = current_log.stamp + 1
  BY DEF CloseSector, EmptyLog
<1>2. txn' = NoTxn
  BY <1>1 DEF CloseSector, TxnOpen
<1>3. current_log.stamp \in Nat /\ lastcommit \in Nat
  BY StampTypes
<1>4. mode = "rw" => lastcommit < current_log.stamp
  BY <1>1 DEF FreshLog, LogAhead
<1>5. \/ call = "commit" /\ pc' = "load" /\ ld'.last = current_log.stamp
      \/ call # "commit" /\ pc' = "zsync"
  BY DEF CloseSector
<1>6. current_log' # NoLog
  BY <1>1, <1>3 DEF NoLog
<1>7. LogAhead' /\ FreshLog' /\ ReplayFirst'
  BY <1>1, <1>3, <1>4, <1>5, <1>6 DEF LogAhead, FreshLog, ReplayFirst, NoLog
<1> QED BY <1>2, <1>7, GainedNothing

\* While the log is loaded and applied no transaction is open, and a volume
\* still open for its first write has nothing to load.
LEMMA NoneOpen ==
  ASSUME TxnInv, pc \in {"load", "scan", "apply", "zsync"}
  PROVE  txn = NoTxn
  BY DEF TxnInv, TxnOpen

LEMMA TxnLoadSector == TypeInv /\ TxnInv /\ LoadSector => TxnInv'
<1> SUFFICES ASSUME TypeInv, TxnInv, LoadSector PROVE TxnInv'
  OBVIOUS
<1> USE DEF TxnInv
<1>1. /\ pc = "load" /\ pc' \in {"load", "failed"} /\ ld'.last = ld.last
      /\ UNCHANGED <<disk, view, mode, call, logvars, txn>> /\ Readable(ld.next)
  <2>1. ld \in [next : Nat, last : Nat, part : Seq(Entry)]
    BY DEF TypeInv, TypeOK
  <2> QED BY <2>1 DEF LoadSector, Loading
<1>2. txn' = NoTxn
  BY <1>1, NoneOpen
<1>3. ~(mode = "rw" /\ current_log = NoLog)
  <2>1. SUFFICES ASSUME mode = "rw", current_log = NoLog PROVE FALSE
    OBVIOUS
  <2>2. ld.next = 1 /\ view.log = FreshVolume.log
    BY <1>1, <2>1 DEF FreshLog
  <2>3. Slot(1) \in Slots
    BY SlotInLog
  <2> QED BY <1>1, <2>2, <2>3 DEF Readable, FreshVolume, BlankSector
<1>4. LogAhead' /\ FreshLog' /\ ReplayFirst'
  BY <1>1, <1>3 DEF LogAhead, FreshLog, ReplayFirst, NoLog, logvars
<1> QED BY <1>2, <1>4, GainedNothing

LEMMA TxnLoadDone == TypeInv /\ TxnInv /\ LoadDone => TxnInv'
<1> SUFFICES ASSUME TypeInv, TxnInv, LoadDone PROVE TxnInv'
  OBVIOUS
<1> USE DEF TxnInv
<1>1. /\ pc = "load" /\ pc' \in {"scan", "apply"} /\ (call # "commit" => pc' = "scan")
      /\ ld'.last = ld.last /\ ld'.next = ld.next /\ ld'.part = <<>>
      /\ UNCHANGED <<view, mode, call, logvars, vol_hdr, txn, list>>
  <2>1. ld \in [next : Nat, last : Nat, part : Seq(Entry)]
    BY DEF TypeInv, TypeOK
  <2> QED BY <2>1 DEF LoadDone, memvars
<1>2. txn' = NoTxn
  BY <1>1, NoneOpen
<1>3. LogAhead' /\ FreshLog' /\ ReplayFirst'
  BY <1>1 DEF LogAhead, FreshLog, ReplayFirst, NoLog, logvars, FreshVolume
<1> QED BY <1>2, <1>3, GainedNothing

LEMMA TxnScan == TypeInv /\ TxnInv /\ Scan => TxnInv'
<1> SUFFICES ASSUME TypeInv, TxnInv, Scan PROVE TxnInv'
  OBVIOUS
<1> USE DEF TxnInv
<1>1. /\ pc = "scan" /\ pc' = "apply"
      /\ UNCHANGED <<view, mode, call, current_log, lastcommit, vol_hdr, txn, ld>>
  BY DEF Scan, memvars
<1>2. txn' = NoTxn
  BY <1>1, NoneOpen
<1>3. list = <<>> => lastsync' = lastsync /\ list' = <<>>
  <2> SUFFICES ASSUME list = <<>> PROVE lastsync' = lastsync /\ list' = <<>>
    OBVIOUS
  <2>1. \A t : LastOf(t) = 0
    BY DEF LastOf
  <2> QED BY <2>1 DEF Scan, Replayed
<1>4. LogAhead' /\ FreshLog' /\ ReplayFirst'
  BY <1>1, <1>3 DEF LogAhead, FreshLog, ReplayFirst, NoLog, FreshVolume
<1> QED BY <1>2, <1>4, GainedNothing

LEMMA TxnApplyEntry == TypeInv /\ TxnInv /\ ApplyEntry => TxnInv'
<1> SUFFICES ASSUME TypeInv, TxnInv, ApplyEntry PROVE TxnInv'
  OBVIOUS
<1> USE DEF TxnInv
<1>1. /\ pc = "apply" /\ pc' = "apply" /\ list # <<>>
      /\ UNCHANGED <<mode, call, current_log, txn, ld>>
      /\ lastcommit' = lastcommit \/ call = "fssync"
  BY DEF ApplyEntry, CommitPoint, memvars
<1>2. txn' = NoTxn
  BY <1>1, NoneOpen
<1>3. ~(mode = "rw" /\ current_log = NoLog)
  BY <1>1 DEF FreshLog
<1>4. call = "fssync" => current_log = NoLog
  BY <1>1 DEF ReplayFirst
<1>5. LogAhead' /\ FreshLog' /\ ReplayFirst'
  BY <1>1, <1>3, <1>4 DEF LogAhead, FreshLog, ReplayFirst, NoLog
<1> QED BY <1>2, <1>5, GainedNothing

LEMMA TxnCommitApplied == TypeInv /\ TxnInv /\ CommitApplied => TxnInv'
<1> SUFFICES ASSUME TypeInv, TxnInv, CommitApplied PROVE TxnInv'
  OBVIOUS
<1> USE DEF TxnInv
<1>1. /\ pc = "apply" /\ pc' \in {"add", "ready"} /\ call = "commit"
      /\ UNCHANGED <<mode, current_log, txn>> /\ lastcommit' = ld.last
  BY DEF CommitApplied, CommitPoint
<1>2. txn' = NoTxn
  BY <1>1, NoneOpen
<1>3. ~(mode = "rw" /\ current_log = NoLog)
  BY <1>1 DEF FreshLog
<1>4. LogAhead' /\ FreshLog' /\ ReplayFirst'
  BY <1>1, <1>3 DEF LogAhead, FreshLog, ReplayFirst, NoLog
<1> QED BY <1>2, <1>4, GainedNothing

LEMMA TxnReplayApplied == TypeInv /\ TxnInv /\ ReplayApplied => TxnInv'
<1> SUFFICES ASSUME TypeInv, TxnInv, ReplayApplied PROVE TxnInv'
  OBVIOUS
<1> USE DEF TxnInv
<1>1. /\ pc = "apply" /\ pc' = "add" /\ call = "fssync"
      /\ UNCHANGED <<mode, txn>> /\ current_log'.stamp = lastsync' + 1
  BY DEF ReplayApplied, EmptyLog
<1>2. txn' = NoTxn
  BY <1>1, NoneOpen
<1>3. current_log = NoLog
  BY <1>1 DEF ReplayFirst
<1>4. mode = "rw" => lastcommit' = lastsync'
  BY <1>1, <1>3 DEF FreshLog, ReplayApplied
<1>5. lastsync' \in Nat
  BY StampTypes DEF ReplayApplied
<1>6. current_log' # NoLog
  BY <1>1, <1>5 DEF NoLog
<1>7. LogAhead' /\ FreshLog' /\ ReplayFirst'
  BY <1>1, <1>4, <1>5, <1>6 DEF LogAhead, FreshLog, ReplayFirst, NoLog
<1> QED BY <1>2, <1>7, GainedNothing

LEMMA TxnCheckpoint == TypeInv /\ TxnInv /\ (ZoneMapSync \/ WriteVolumeHeader) => TxnInv'
<1> SUFFICES ASSUME TypeInv, TxnInv, ZoneMapSync \/ WriteVolumeHeader PROVE TxnInv'
  OBVIOUS
<1> USE DEF TxnInv
<1>1. /\ pc = "zsync" /\ pc' \in {"zsync", "ready"} /\ UNCHANGED <<mode, logvars, txn, ld>>
  BY DEF ZoneMapSync, WriteVolumeHeader, callvars
<1>2. txn' = NoTxn
  BY <1>1, NoneOpen
<1>3. ~(mode = "rw" /\ current_log = NoLog)
  BY <1>1 DEF FreshLog
<1>4. LogAhead' /\ FreshLog' /\ ReplayFirst'
  BY <1>1, <1>3 DEF LogAhead, FreshLog, ReplayFirst, NoLog, logvars
<1> QED BY <1>2, <1>4, GainedNothing

\* The new blocks of the inode are free and were not handed out, so no file
\* of the transaction has gained them before.
LEMMA TxnLogInodeUpdate ==
  ASSUME TypeInv, TxnInv, NEW f \in Fsids, NEW B \in SUBSET Blocks, LogInodeUpdate(f, B)
  PROVE  TxnInv'
<1> USE DEF TxnInv
<1>1. /\ pc = "ready" /\ mode = "rw" /\ current_log # NoLog
      /\ pc' = "add" /\ call' = "log"
      /\ UNCHANGED <<view, mode, logvars, zmap, ld>>
      /\ txn' = [txn EXCEPT ![f] = B]
      /\ pend' = pend \cup (B \ view.inode[f])
      /\ (B \ view.inode[f]) \subseteq FreeBlocks
  BY DEF LogInodeUpdate
<1>2. TxnOpen' /\ FreshLog' /\ ReplayFirst' /\ LogAhead' /\ TxnLogged'
  BY <1>1 DEF TxnOpen, FreshLog, ReplayFirst, LogAhead, TxnLogged, NoLog, logvars
<1>3. B # NoChange /\ txn \in [Fsids -> {NoChange} \cup SUBSET Blocks]
  BY ConstantsOK DEF TypeInv, TypeOK
<1>4. /\ Gained(f)' = B \ view.inode[f]
      /\ \A g \in Fsids \ {f} : Gained(g)' = Gained(g)
  BY <1>1, <1>3 DEF Gained
<1>5. GainedPending'
  BY <1>1, <1>4 DEF GainedPending
<1>6. \A b \in Gained(f)' : b \notin zmap[ZoneOf[b]].alloc /\ b \notin pend
  BY <1>1, <1>4 DEF FreeBlocks
<1>7. GainedIsOurs'
  <2>1. ASSUME NEW g \in Fsids, NEW b \in Gained(g)'
        PROVE  b \notin zmap'[ZoneOf[b]].alloc
    BY <1>1, <1>4, <1>6, <2>1 DEF GainedIsOurs
  <2>2. ASSUME NEW g \in Fsids, NEW b \in Gained(g)', NEW h \in Fsids \ {g}
        PROVE  b \notin Gained(h)'
    BY <1>4, <1>6, <2>2 DEF GainedIsOurs, GainedPending
  <2> QED BY <2>1, <2>2 DEF GainedIsOurs
<1> QED BY <1>2, <1>5, <1>7

LEMMA TxnAllocFails ==
  ASSUME TypeInv, TxnInv, NEW B \in SUBSET Blocks, AllocFails(B)
  PROVE  TxnInv'
<1> USE DEF TxnInv
<1>1. /\ UNCHANGED <<view, mode, pc, call, logvars, zmap, vol_hdr, txn, ld, list>>
      /\ pend \subseteq pend'
  BY DEF AllocFails, callvars
<1>2. NoTxn' = NoTxn
  BY DEF NoTxn
<1>3. TxnOpen' /\ FreshLog' /\ ReplayFirst' /\ LogAhead' /\ TxnLogged'
  BY <1>1, <1>2 DEF TxnOpen, FreshLog, ReplayFirst, LogAhead, TxnLogged, NoLog, logvars, FreshVolume
<1> QED BY <1>1, <1>3, GainedStays

LEMMA TxnLogCommit == TypeInv /\ TxnInv /\ LogCommit => TxnInv'
<1> SUFFICES ASSUME TypeInv, TxnInv, LogCommit PROVE TxnInv'
  OBVIOUS
<1> USE DEF TxnInv
<1>1. /\ pc = "ready" /\ current_log # NoLog /\ pc' = "add" /\ call' = "commit"
      /\ UNCHANGED <<view, mode, logvars, zmap, pend, txn, ld>>
  BY DEF LogCommit, memvars
<1>2. NoTxn' = NoTxn
  BY DEF NoTxn
<1>3. TxnOpen' /\ FreshLog' /\ ReplayFirst' /\ LogAhead' /\ TxnLogged'
  BY <1>1, <1>2 DEF TxnOpen, FreshLog, ReplayFirst, LogAhead, TxnLogged, NoLog, logvars
<1> QED BY <1>1, <1>3, GainedStays

\* A sync with an open transaction is refused, because of its entries.
LEMMA TxnLogFssync == TypeInv /\ TxnInv /\ LogFssync => TxnInv'
<1> SUFFICES ASSUME TypeInv, TxnInv, LogFssync PROVE TxnInv'
  OBVIOUS
<1> USE DEF TxnInv
<1>1. /\ pc = "ready" /\ list' = <<>>
      /\ UNCHANGED <<view, mode, logvars, zmap, vol_hdr, pend, txn>>
  BY DEF LogFssync, memvars
<1>2. NoTxn' = NoTxn
  BY DEF NoTxn
<1>3. CASE FssyncVerdict = "replay"
  <2>1. current_log = NoLog
    BY <1>3 DEF FssyncVerdict
  <2>2. /\ pc' = "load" /\ call' = "fssync" /\ ld'.next = vol_hdr.stamp + 1 /\ ld'.part = <<>>
    BY <1>3 DEF LogFssync
  <2>3. txn' = NoTxn
    BY <1>1, <2>1 DEF TxnOpen
  <2>4. FreshLog' /\ ReplayFirst' /\ LogAhead'
    BY <1>1, <2>1, <2>2 DEF FreshLog, ReplayFirst, LogAhead, NoLog, logvars, FreshVolume
  <2> QED BY <2>3, <2>4, GainedNothing
<1>4. CASE FssyncVerdict = "sync"
  <2>1. /\ current_log # NoLog /\ ~(current_log.first \/ current_log.size # 0)
        /\ current_log.stamp = lastcommit + 1
    BY <1>4 DEF FssyncVerdict
  <2>2. txn' = NoTxn
    BY <1>1, <2>1 DEF TxnLogged
  <2>3. pc' = "add" /\ call' = "fssync"
    BY <1>4 DEF LogFssync
  <2>4. FreshLog' /\ ReplayFirst' /\ LogAhead'
    BY <1>1, <2>1, <2>3 DEF FreshLog, ReplayFirst, LogAhead, NoLog, logvars
  <2> QED BY <2>2, <2>4, GainedNothing
<1>5. CASE FssyncVerdict \notin {"replay", "sync"}
  <2>1. pc' \in {"ready", "failed"} /\ UNCHANGED <<call, ld>>
    BY <1>1, <1>5 DEF LogFssync
  <2>2. current_log # NoLog
    BY <1>5 DEF FssyncVerdict
  <2>3. TxnOpen' /\ FreshLog' /\ ReplayFirst' /\ LogAhead' /\ TxnLogged'
    BY <1>1, <1>2, <2>1, <2>2
       DEF TxnOpen, FreshLog, ReplayFirst, LogAhead, TxnLogged, NoLog, logvars
  <2> QED BY <1>1, <2>3, GainedStays
<1> QED BY <1>3, <1>4, <1>5

LEMMA TxnCrash == Crash => TxnInv'
<1> SUFFICES ASSUME Crash PROVE TxnInv'
  OBVIOUS
<1>1. txn' = NoTxn /\ pc' = "down" /\ current_log' = NoLog
  BY DEF Crash
<1>2. FreshLog' /\ ReplayFirst' /\ LogAhead'
  BY <1>1 DEF FreshLog, ReplayFirst, LogAhead, NoLog
<1> QED BY <1>1, <1>2, GainedNothing DEF TxnInv

LEMMA TxnMount ==
  ASSUME TxnInv, NEW m \in RemountModes, m # "rw", Mount(m)
  PROVE  TxnInv'
<1>1. mode' # "rw" /\ pc = "down" /\ pc' = "ready" /\ txn' = txn
  BY DEF Mount
<1>2. txn' = NoTxn
  BY <1>1 DEF TxnInv, TxnOpen
<1>3. FreshLog' /\ ReplayFirst' /\ LogAhead'
  BY <1>1 DEF FreshLog, ReplayFirst, LogAhead
<1> QED BY <1>2, <1>3, GainedNothing DEF TxnInv

LEMMA TxnNext ==
  ASSUME "rw" \notin RemountModes, TypeInv, TxnInv, [Next]_vars
  PROVE  TxnInv'
<1>1. CASE Step
  BY <1>1, TxnAddEntry, TxnCloseSector, TxnLoadSector, TxnLoadDone, TxnScan, TxnApplyEntry,
     TxnCommitApplied, TxnReplayApplied, TxnCheckpoint DEF Step
<1>2. CASE Client
  BY <1>2, TxnLogInodeUpdate, TxnAllocFails, TxnLogCommit, TxnLogFssync DEF Client
<1>3. CASE Crash
  BY <1>3, TxnCrash
<1>4. CASE \E m \in RemountModes : Mount(m)
  BY <1>4, TxnMount
<1>5. CASE UNCHANGED vars
  <2>1. NoTxn' = NoTxn /\ FreshVolume' = FreshVolume /\ NoLog' = NoLog
    BY DEF NoTxn, FreshVolume, NoLog
  <2>2. TxnOpen' /\ FreshLog' /\ ReplayFirst' /\ LogAhead' /\ TxnLogged'
    BY <1>5, <2>1 DEF vars, logvars, memvars, callvars, TxnInv, TxnOpen, FreshLog,
                     ReplayFirst, LogAhead, TxnLogged
  <2>3. GainedPending' /\ GainedIsOurs'
    BY <1>5, GainedStays DEF vars, memvars, TxnInv
  <2> QED BY <2>2, <2>3 DEF TxnInv
<1> QED BY <1>1, <1>2, <1>3, <1>4, <1>5 DEF Next

\* On a volume that is not reopened for writing, an open transaction only ever
\* holds blocks that no committed file owns and that no two of its files
\* share: find_run's list of blocks handed out is emptied by commits and syncs
\* alone, and a sync is refused while a transaction is open.
THEOREM TxnBlocksSafe ==
  ASSUME "rw" \notin RemountModes
  PROVE  Spec => []GainedIsOurs
<1>1. Init => TypeInv /\ TxnInv
  BY TypeInit, TxnInit
<1>2. TypeInv /\ TxnInv /\ [Next]_vars => (TypeInv /\ TxnInv)'
  BY TypeNext, TxnNext
<1>3. TxnInv => GainedIsOurs
  BY DEF TxnInv
<1> QED BY <1>1, <1>2, <1>3, PTL DEF Spec

-----------------------------------------------------------------------------
(* Slots of the log and sectors taken by entries: \div and %.              *)

\* The quotient and the remainder of a division by c (the slot of a stamp, the sectors
\* that units fill).
LEMMA DivFacts ==
  ASSUME NEW c \in Nat \ {0}, NEW n \in Nat
  PROVE  /\ n \div c \in Nat /\ c * (n \div c) <= n /\ n < c * ((n \div c) + 1)
         /\ n % c = n - c * (n \div c)
OBVIOUS

\* No multiple of c lies strictly between 0 and c.
LEMMA NoFactor ==
  ASSUME NEW c \in Nat \ {0}, NEW d \in Int, 0 < c * d, c * d < c
  PROVE  FALSE
<1>1. CASE d <= 0
  BY <1>1
<1>2. CASE d >= 1
  BY <1>2
<1> QED BY <1>1, <1>2

\* A window of NSectors stamps meets every slot of the log once.
LEMMA SlotsDiffer ==
  ASSUME NEW s \in Nat, NEW t \in Nat, s < t, t < s + NSectors
  PROVE  Slot(s) # Slot(t)
<1> DEFINE c == NSectors
           p == s \div c
           q == t \div c
<1>1. c \in Nat \ {0}
  BY ConstantsOK
<1>2. p \in Nat /\ q \in Nat /\ s % c = s - c * p /\ t % c = t - c * q
  BY <1>1, DivFacts
<1> HIDE DEF c, p, q
<1>3. SUFFICES ASSUME s % c = t % c PROVE FALSE
  BY DEF Slot, c
<1>4. t - s = c * (q - p) /\ q - p \in Int
  BY <1>1, <1>2, <1>3
<1>5. 0 < t - s /\ t - s < c
  BY <1>1 DEF c
<1> QED BY <1>1, <1>4, <1>5, NoFactor

\* n units of entries fill at most n \div Cap sectors.
LEMMA DivBound ==
  ASSUME NEW c \in Nat \ {0}, NEW n \in Nat, NEW m \in Int, m * c <= n
  PROVE  m <= n \div c
<1> DEFINE q == n \div c
<1>1. n < c * (q + 1) /\ q \in Nat
  BY DivFacts
<1> HIDE DEF q
<1>2. SUFFICES ASSUME m >= q + 1 PROVE FALSE
  BY <1>1 DEF q
<1>3. m * c >= (q + 1) * c
  BY <1>1, <1>2
<1> QED BY <1>1, <1>3

-----------------------------------------------------------------------------
(* The last of a set of places, and the largest of a set of numbers.       *)

\* A bounded set of numbers has a largest member.
LEMMA Largest ==
  ASSUME NEW n \in Nat, NEW I, I \subseteq 0..n, I # {}
  PROVE  \E i \in I : \A j \in I : j <= i
<1> DEFINE J == {i + 1 : i \in I}
<1>1. (\A i \in I : i + 1 \in J) /\ J \subseteq 1..(n + 1) /\ n + 1 \in Nat
  OBVIOUS
<1>2. PICK m \in J : \A j \in J : j <= m
  <2> HIDE DEF J
  <2> QED BY <1>1, LastPosition
<1>3. PICK i \in I : m = i + 1
  OBVIOUS
<1>4. \A j \in I : j + 1 <= i + 1
  BY <1>1, <1>2, <1>3
<1> QED BY <1>4

\* Places of a volume's log.
IsPlace(v, p) == /\ p \in Nat \X Nat
                 /\ p[1] \in (v.hdr.stamp + 1)..(v.hdr.stamp + NSectors)
                 /\ p[2] \in 1..Len(SectorAt(v, p[1]).recs)

\* The sector in the slot of a stamp, and how many of its entries are whole.
LEMMA SectorType ==
  ASSUME NEW v \in Volume, NEW s \in Nat
  PROVE  /\ SectorAt(v, s) \in Sector
         /\ Len(SectorAt(v, s).recs) \in Nat
         /\ DOMAIN SectorAt(v, s).recs = 1..Len(SectorAt(v, s).recs)
         /\ SplitOK(v) => WholeIn(SectorAt(v, s)) \in 0..Len(SectorAt(v, s).recs)
<1>1. SectorAt(v, s) \in Sector
  BY SlotInLog DEF Volume, SectorAt
<1>2. SplitOK(v) => (SectorAt(v, s).split => SectorAt(v, s).recs # <<>>)
  BY SlotInLog DEF SplitOK, SectorAt
<1> HIDE DEF SectorAt
<1> QED BY <1>1, <1>2 DEF Sector, WholeIn

\* Every set of places has a last one.
LEMMA LastPlaceIs ==
  ASSUME NEW v \in Volume, NEW P, \A p \in P : IsPlace(v, p), P # {}
  PROVE  LastPlace(P) \in P /\ \A q \in P : Upto(q, LastPlace(P))
<1> DEFINE I == {p[1] : p \in P}
<1>1. v.hdr.stamp \in Nat /\ NSectors \in Nat
  BY ConstantsOK DEF Volume
<1>2. PICK s \in I : \A t \in I : t <= s
  <2>1. /\ \A p \in P : p[1] \in I /\ p[1] \in 0..(v.hdr.stamp + NSectors)
        /\ I \subseteq 0..(v.hdr.stamp + NSectors)
    BY <1>1 DEF IsPlace
  <2> HIDE DEF I
  <2>2. v.hdr.stamp + NSectors \in Nat /\ I # {}
    BY <1>1, <2>1
  <2> QED BY <2>1, <2>2, Largest
<1> DEFINE Q == {p \in P : p[1] = s}
           J == {p[2] : p \in Q}
<1>3. PICK j \in J : \A i \in J : i <= j
  <2>1. s \in Nat
    BY DEF IsPlace
  <2>2. Len(SectorAt(v, s).recs) \in Nat
    BY <2>1, SectorType
  <2>3. J \subseteq 0..Len(SectorAt(v, s).recs)
    BY <2>2 DEF IsPlace
  <2>4. J # {}
    <3>1. PICK p \in P : p[1] = s
      OBVIOUS
    <3>2. p[2] \in J
      BY <3>1
    <3> QED BY <3>2
  <2> HIDE DEF J
  <2> QED BY <2>2, <2>3, <2>4, Largest
<1>4. PICK p \in P : p[1] = s /\ p[2] = j
  OBVIOUS
<1>5. \A q \in P : Upto(q, p)
  <2> SUFFICES ASSUME NEW q \in P PROVE Upto(q, p)
    OBVIOUS
  <2>1. q[1] <= s /\ q[1] \in Nat /\ s \in Nat
    BY <1>2 DEF IsPlace
  <2>2. q[1] = s => q[2] <= j
    BY <1>3
  <2> QED BY <1>4, <2>1, <2>2 DEF Upto
<1> QED BY <1>4, <1>5 DEF LastPlace

\* A finite set of numbers has a largest member.
LEMMA FiniteLargest ==
  ASSUME NEW S, IsFiniteSet(S), S \subseteq Nat, S # {}
  PROVE  \E m \in S : \A n \in S : n <= m
<1> DEFINE Bad(T) == IsFiniteSet(T) /\ T # {} /\ T \subseteq Nat /\ ~\E m \in T : \A n \in T : n <= m
           D == {c \in Nat : \E T \in SUBSET S : Bad(T) /\ Cardinality(T) = c}
<1>1. SUFFICES ASSUME Bad(S) PROVE FALSE
  OBVIOUS
<1>2. D \subseteq Nat /\ D # {}
  BY <1>1, FS_CardinalityType
<1>3. PICK c \in D : \A d \in D : ~ (<<d, c>> \in OpToRel(<, Nat))
  <2> HIDE DEF D
  <2> QED BY <1>2, NatLessThanWellFounded, WFMin
<1>4. \A d \in D : ~(d < c)
  BY <1>2, <1>3 DEF OpToRel
<1>5. PICK T \in SUBSET S : Bad(T) /\ Cardinality(T) = c
  OBVIOUS
<1>6. PICK x \in T : TRUE
  BY <1>5
<1> DEFINE R == T \ {x}
<1>7. IsFiniteSet(R) /\ Cardinality(R) = c - 1 /\ c \in Nat
  BY <1>5, <1>6, FS_RemoveElement
<1>8. Cardinality(R) \in Nat
  BY <1>7, FS_CardinalityType
<1>9. ~Bad(R)
  <2>1. SUFFICES ASSUME Bad(R) PROVE FALSE
    OBVIOUS
  <2>2. c - 1 \in D
    BY <1>7, <1>8, <2>1
  <2> HIDE DEF D, R, Bad
  <2> QED BY <1>4, <1>7, <2>2
<1>10. CASE R = {}
  <2>1. T = {x} /\ x \in Nat
    BY <1>5, <1>6, <1>10
  <2> QED BY <1>5, <2>1
<1>11. CASE R # {}
  <2>1. PICK m \in R : \A n \in R : n <= m
    BY <1>5, <1>7, <1>9, <1>11
  <2>2. \A n \in T : n \in Nat /\ (n = x \/ n <= m)
    BY <1>5, <2>1
  <2>3. CASE x <= m
    BY <1>5, <1>6, <2>1, <2>2, <2>3
  <2>4. CASE ~(x <= m)
    <3>1. \A n \in T : n <= x
      BY <1>6, <2>1, <2>2, <2>4
    <3> QED BY <1>5, <1>6, <3>1
  <2> QED BY <2>3, <2>4
<1> QED BY <1>10, <1>11

\* The library's Max of a set of numbers is its largest member.
LEMMA MaxIs ==
  ASSUME NEW S, IsFiniteSet(S), S \subseteq Nat, S # {}
  PROVE  Max(S) \in S /\ \A n \in S : n <= Max(S)
<1>1. PICK m \in S : \A n \in S : n <= m
  BY FiniteLargest
<1>2. \A n \in S : m >= n
  BY <1>1
<1> QED BY <1>2 DEF Max

-----------------------------------------------------------------------------
(* What a replay reads of a log that is whole.                             *)

\* A replay reads the sectors up to the last one written.
LEMMA LiveStampsAre ==
  ASSUME NEW v \in Volume, NEW e \in Nat, WholeLog(v, e)
  PROVE  LiveStamps(v) = (v.hdr.stamp + 1)..e
<1> DEFINE h == v.hdr.stamp
<1>1. h \in Nat /\ NSectors \in Nat /\ h <= e /\ e <= h + NSectors
  BY ConstantsOK DEF Volume, WholeLog
<1>2. \A s \in (h + 1)..e : v.log[Slot(s)].stamp = s
  BY DEF WholeLog, SectorAt
<1>3. \A s \in Nat : v.log[Slot(s)].stamp <= e
  BY SlotInLog DEF WholeLog
<1>4. ASSUME NEW s \in (h + 1)..e PROVE s \in LiveStamps(v)
  <2>1. s \in (h + 1)..(h + NSectors) /\ \A t \in (h + 1)..s : t \in (h + 1)..e
    BY <1>1
  <2> QED BY <1>2, <2>1 DEF LiveStamps
<1>5. ASSUME NEW s \in LiveStamps(v) PROVE s \in (h + 1)..e
  <2>1. s \in (h + 1)..(h + NSectors) /\ v.log[Slot(s)].stamp = s
    BY <1>1 DEF LiveStamps
  <2> QED BY <1>1, <1>3, <2>1
<1> QED BY <1>4, <1>5

\* How many entries of each sector it sees the end of.
LEMMA EndedIs ==
  ASSUME NEW v \in Volume, SplitOK(v), NEW e \in Nat, WholeLog(v, e),
         NEW s \in (v.hdr.stamp + 1)..e
  PROVE  /\ Ended(v, s) \in 0..Len(SectorAt(v, s).recs)
         /\ s < e \/ ~SectorAt(v, s).split => Ended(v, s) = Len(SectorAt(v, s).recs)
         /\ s = e => Ended(v, s) = WholeIn(SectorAt(v, s))
<1>1. v.hdr.stamp \in Nat /\ s \in Nat /\ s + 1 \in Nat
  BY DEF Volume
<1>2. s < e => SectorAt(v, s + 1).stamp = s + 1
  BY <1>1 DEF WholeLog
<1>3. s = e => SectorAt(v, s + 1).stamp # s + 1
  <2>1. SectorAt(v, s + 1).stamp <= e /\ SectorAt(v, s + 1).stamp \in Nat
    BY <1>1, SlotInLog DEF WholeLog, SectorAt, Volume, Sector
  <2> QED BY <1>1, <2>1
<1>4. /\ Len(SectorAt(v, s).recs) \in Nat
      /\ WholeIn(SectorAt(v, s)) \in 0..Len(SectorAt(v, s).recs)
  BY <1>1, SectorType
<1>5. s < e \/ s = e
  BY <1>1
<1> QED BY <1>2, <1>3, <1>4, <1>5 DEF Ended, WholeIn

\* The places a replay reads: in each sector up to the last, the entries whose end it sees.
LEMMA LivePlaceIs ==
  ASSUME NEW v \in Volume, SplitOK(v), NEW e \in Nat, WholeLog(v, e), NEW p
  PROVE  p \in LivePlaces(v) <=>
            \E s \in (v.hdr.stamp + 1)..e : \E i \in 1..Ended(v, s) : p = <<s, i>>
<1>1. LiveStamps(v) = (v.hdr.stamp + 1)..e
  BY LiveStampsAre
<1> QED BY <1>1 DEF LivePlaces

\* The places of the entries of the sectors up to c.
LEMMA PlaceUptoIs ==
  ASSUME NEW v \in Volume, NEW c, NEW p
  PROVE  p \in PlacesUpto(v, c) <=>
            \E s \in (v.hdr.stamp + 1)..c : \E i \in DOMAIN SectorAt(v, s).recs : p = <<s, i>>
BY DEF PlacesUpto

\* A replay applies the entries that start in the sectors up to the end of the last
\* commit, all of them and no others.
LEMMA CommittedPlaces ==
  ASSUME NEW v \in Volume, SplitOK(v), NEW e \in Nat, NEW c \in Nat,
         WholeLog(v, e), CommitsEnd(v, e, c)
  PROVE  Committed(v) = PlacesUpto(v, c)
<1> DEFINE h == v.hdr.stamp
           recs(s) == SectorAt(v, s).recs
<1>1. h \in Nat /\ h <= c /\ c <= e
  BY DEF CommitsEnd, Volume
<1>2. \A s \in (h + 1)..e : s \in Nat /\ DOMAIN recs(s) = 1..Len(recs(s)) /\ Len(recs(s)) \in Nat
  BY <1>1, SectorType
<1>3. ASSUME NEW p \in Committed(v) PROVE p \in PlacesUpto(v, c)
  <2>1. PICK q \in Commits(v) : Upto(p, q) /\ p \in LivePlaces(v)
    BY DEF Committed
  <2>2. PICK t \in (h + 1)..e : \E j \in 1..Ended(v, t) : q = <<t, j>>
    BY <2>1, LivePlaceIs DEF Commits
  <2>3. PICK j \in 1..Ended(v, t) : q = <<t, j>>
    BY <2>2
  <2>4. j \in DOMAIN recs(t) /\ recs(t)[j].t = "commit"
    BY <1>2, <2>3, EndedIs DEF Commits, RecAt
  <2>5. t <= c
    <3>1. SUFFICES ASSUME t > c PROVE FALSE
      BY <1>1
    <3>2. t = e /\ SectorAt(v, t).split /\ j = Len(recs(t))
      BY <2>4, <3>1 DEF CommitsEnd
    <3>3. Ended(v, t) = Len(recs(t)) - 1
      BY <3>2, EndedIs DEF WholeIn
    <3> QED BY <1>2, <2>3, <3>2, <3>3
  <2>6. PICK s \in (h + 1)..e : \E i \in 1..Ended(v, s) : p = <<s, i>>
    BY <2>1, LivePlaceIs
  <2>7. PICK i \in 1..Ended(v, s) : p = <<s, i>>
    BY <2>6
  <2>8. i \in DOMAIN recs(s)
    BY <1>2, <2>7, EndedIs
  <2>9. s <= t
    BY <1>1, <2>1, <2>3, <2>7 DEF Upto
  <2>10. s \in (h + 1)..c
    BY <1>1, <2>5, <2>9
  <2> QED BY <2>7, <2>8, <2>10, PlaceUptoIs
<1>4. ASSUME NEW p \in PlacesUpto(v, c) PROVE p \in Committed(v)
  <2>1. PICK s \in (h + 1)..c : \E i \in DOMAIN recs(s) : p = <<s, i>>
    BY PlaceUptoIs
  <2>2. PICK i \in DOMAIN recs(s) : p = <<s, i>>
    BY <2>1
  <2>3. c > h /\ s \in (h + 1)..e
    BY <1>1, <2>1
  <2>4. PICK t \in (h + 1)..c : /\ EndsInCommit(recs(t))
                              /\ \A r \in (t + 1)..c : recs(r) = <<>>
    BY <2>3 DEF CommitsEnd
  <2>5. ~SectorAt(v, c).split
    BY <2>3 DEF CommitsEnd
  <2>6. \A r \in (h + 1)..c : Ended(v, r) = Len(recs(r))
    <3> SUFFICES ASSUME NEW r \in (h + 1)..c PROVE Ended(v, r) = Len(recs(r))
      OBVIOUS
    <3>1. r \in (h + 1)..e /\ (r < e \/ r = c)
      BY <1>1
    <3> QED BY <2>5, <3>1, EndedIs
  <2>7. p \in LivePlaces(v)
    BY <1>2, <2>2, <2>3, <2>6, LivePlaceIs
  <2>8. t \in (h + 1)..e /\ Len(recs(t)) \in 1..Len(recs(t))
    <3>1. t \in (h + 1)..e
      BY <1>1
    <3>2. recs(t) # <<>> /\ recs(t) \in Seq(Rec)
      BY <1>2, <2>4, <3>1, SectorType DEF EndsInCommit, Sector
    <3> HIDE DEF recs
    <3> QED BY <3>1, <3>2
  <2> DEFINE q == <<t, Len(recs(t))>>
  <2>9. q \in Commits(v)
    <3>1. q \in LivePlaces(v)
      BY <2>6, <2>8, LivePlaceIs
    <3> QED BY <2>4, <3>1 DEF Commits, RecAt, EndsInCommit
  <2>10. Upto(p, q)
    <3>1. CASE s > t
      <4>1. recs(s) = <<>>
        BY <1>1, <2>1, <2>4, <3>1
      <4> QED BY <2>2, <4>1
    <3>2. CASE s <= t
      BY <1>1, <1>2, <2>2, <2>3, <3>2 DEF Upto
    <3> QED BY <1>1, <3>1, <3>2
  <2> HIDE DEF q
  <2> QED BY <2>7, <2>9, <2>10 DEF Committed
<1> QED BY <1>3, <1>4

\* They are places of the log.
LEMMA UptoIsPlaces ==
  ASSUME NEW v \in Volume, NEW c \in Nat, c <= v.hdr.stamp + NSectors
  PROVE  \A p \in PlacesUpto(v, c) : IsPlace(v, p)
<1> SUFFICES ASSUME NEW p \in PlacesUpto(v, c) PROVE IsPlace(v, p)
  OBVIOUS
<1>1. v.hdr.stamp \in Nat /\ NSectors \in Nat
  BY ConstantsOK DEF Volume
<1>2. PICK s \in (v.hdr.stamp + 1)..c : \E i \in DOMAIN SectorAt(v, s).recs : p = <<s, i>>
  BY PlaceUptoIs
<1>3. PICK i \in DOMAIN SectorAt(v, s).recs : p = <<s, i>>
  BY <1>2
<1>4. s \in Nat /\ DOMAIN SectorAt(v, s).recs = 1..Len(SectorAt(v, s).recs)
      /\ Len(SectorAt(v, s).recs) \in Nat
  BY <1>1, SectorType
<1>5. s \in (v.hdr.stamp + 1)..(v.hdr.stamp + NSectors) /\ i \in 1..Len(SectorAt(v, s).recs)
      /\ i \in Nat
  BY <1>1, <1>3, <1>4
<1> QED BY <1>3, <1>4, <1>5 DEF IsPlace

-----------------------------------------------------------------------------
(* What it rebuilds.                                                       *)

\* The last entry about an inode decides.
LEMMA FilesAre ==
  ASSUME NEW v \in Volume, NEW C, C = Committed(v), \A p \in C : IsPlace(v, p),
         NEW f \in Fsids, NEW P, P = InodePlaces(v, C, f)
  PROVE  /\ P = {} => RecoveredFiles(v)[f] = v.inode[f]
         /\ P # {} => \E p \in P : /\ \A q \in P : Upto(q, p)
                                   /\ RecoveredFiles(v)[f] = RecAt(v, p).blks
<1>1. RecoveredFiles(v)[f] = IF P = {} THEN v.inode[f] ELSE RecAt(v, LastPlace(P)).blks
  BY DEF RecoveredFiles
<1>2. P # {} => LastPlace(P) \in P /\ \A q \in P : Upto(q, LastPlace(P))
  BY LastPlaceIs DEF InodePlaces
<1> QED BY <1>1, <1>2

\* So does the last one about a block that is newer than its zone map.
LEMMA AllocIs ==
  ASSUME NEW v \in Volume, NEW C, C = Committed(v), \A p \in C : IsPlace(v, p),
         NEW b \in Blocks, NEW old, old = v.zone[ZoneOf[b]],
         NEW P, P = {p \in MapPlaces(v, C, b) : p[1] > old.stamp}
  PROVE  /\ P = {} => (b \in RecoveredAlloc(v) <=> b \in old.alloc)
         /\ P # {} => \E p \in P : /\ \A q \in P : Upto(q, p)
                                   /\ (b \in RecoveredAlloc(v) <=> ~RecAt(v, p).free)
<1>1. b \in RecoveredAlloc(v) <=> IF P = {} THEN b \in old.alloc
                                             ELSE ~RecAt(v, LastPlace(P)).free
  BY DEF RecoveredAlloc
<1>2. P # {} => LastPlace(P) \in P /\ \A q \in P : Upto(q, LastPlace(P))
  BY LastPlaceIs DEF MapPlaces
<1> QED BY <1>1, <1>2

\* The next fsid is above the header's and those of the inode entries, and no higher.
LEMMA NextFsidIs ==
  ASSUME NEW v \in Volume, NEW C, C = Committed(v)
  PROVE  /\ RecoveredNextFsid(v) \in Nat
         /\ v.hdr.next_fsid <= RecoveredNextFsid(v)
         /\ \A f \in Fsids : InodePlaces(v, C, f) # {} => f + 1 <= RecoveredNextFsid(v)
         /\ \/ RecoveredNextFsid(v) = v.hdr.next_fsid
            \/ \E f \in Fsids : InodePlaces(v, C, f) # {} /\ RecoveredNextFsid(v) = f + 1
<1> DEFINE logged == {f \in Fsids : InodePlaces(v, C, f) # {}}
           S == {v.hdr.next_fsid} \cup {f + 1 : f \in logged}
<1>1. v.hdr.next_fsid \in Nat /\ Fsids \subseteq Nat
  BY ConstantsOK DEF Volume
<1>2. S \subseteq Nat /\ S # {}
  BY <1>1
<1>3. IsFiniteSet(S)
  <2> DEFINE T == {f + 1 : f \in logged}
             F == [f \in logged |-> f + 1]
  <2>1. IsFiniteSet(logged)
    BY DrivesFinite, FS_Subset
  <2>2. F \in Surjection(logged, T)
    BY DEF Surjection
  <2>3. IsFiniteSet(T)
    BY <2>1, <2>2, FS_Surjection
  <2>4. IsFiniteSet({v.hdr.next_fsid})
    BY FS_Singleton
  <2> HIDE DEF T, logged
  <2> QED BY <2>3, <2>4, FS_Union DEF T, logged
<1>4. RecoveredNextFsid(v) = Max(S)
  BY DEF RecoveredNextFsid
<1>5. Max(S) \in S /\ \A n \in S : n <= Max(S)
  <2> HIDE DEF S
  <2> QED BY <1>2, <1>3, MaxIs
<1>6. \A f \in Fsids : InodePlaces(v, C, f) # {} => f + 1 \in S
  OBVIOUS
<1>7. v.hdr.next_fsid \in S
  OBVIOUS
<1>8. \A n \in S : n = v.hdr.next_fsid \/ \E f \in Fsids : InodePlaces(v, C, f) # {} /\ n = f + 1
  OBVIOUS
<1> HIDE DEF S
<1> QED BY <1>2, <1>4, <1>5, <1>6, <1>7, <1>8

\* What a replay rebuilds stays while the committed entries, the zone maps and the
\* header stay, whatever is written to inodes that have an entry in the log.
LEMMA SameReplay ==
  ASSUME NEW v \in Volume, NEW w \in Volume, NEW C,
         C = Committed(v), C = Committed(w), \A p \in C : IsPlace(v, p),
         \A p \in C : RecAt(w, p) = RecAt(v, p),
         w.zone = v.zone, w.hdr = v.hdr,
         \A f \in Fsids : w.inode[f] = v.inode[f] \/ InodePlaces(v, C, f) # {}
  PROVE  /\ RecoveredFiles(w) = RecoveredFiles(v)
         /\ RecoveredAlloc(w) = RecoveredAlloc(v)
         /\ RecoveredNextFsid(w) = RecoveredNextFsid(v)
<1>1. \A f : InodePlaces(w, C, f) = InodePlaces(v, C, f)
  BY DEF InodePlaces
<1>2. \A b : MapPlaces(w, C, b) = MapPlaces(v, C, b)
  BY DEF MapPlaces
<1>3. RecoveredNextFsid(w) = RecoveredNextFsid(v)
  BY <1>1 DEF RecoveredNextFsid
<1>4. \A P \in SUBSET C : P # {} => RecAt(w, LastPlace(P)) = RecAt(v, LastPlace(P))
  <2> SUFFICES ASSUME NEW P \in SUBSET C, P # {}
               PROVE  RecAt(w, LastPlace(P)) = RecAt(v, LastPlace(P))
    OBVIOUS
  <2>1. LastPlace(P) \in P
    BY LastPlaceIs
  <2> QED BY <2>1
<1>5. RecoveredFiles(w) = RecoveredFiles(v)
  <2>1. ASSUME NEW f \in Fsids PROVE RecoveredFiles(w)[f] = RecoveredFiles(v)[f]
    <3> DEFINE P == InodePlaces(v, C, f)
    <3>1. RecoveredFiles(v)[f] = IF P = {} THEN v.inode[f] ELSE RecAt(v, LastPlace(P)).blks
      BY DEF RecoveredFiles
    <3>2. RecoveredFiles(w)[f] = IF P = {} THEN w.inode[f] ELSE RecAt(w, LastPlace(P)).blks
      BY <1>1 DEF RecoveredFiles
    <3>3. P \in SUBSET C
      BY DEF InodePlaces
    <3> QED BY <1>4, <3>1, <3>2, <3>3
  <2> QED BY <2>1 DEF RecoveredFiles
<1>6. RecoveredAlloc(w) = RecoveredAlloc(v)
  <2>1. ASSUME NEW b \in Blocks PROVE b \in RecoveredAlloc(w) <=> b \in RecoveredAlloc(v)
    <3> DEFINE old == v.zone[ZoneOf[b]]
               P == {p \in MapPlaces(v, C, b) : p[1] > old.stamp}
    <3>1. b \in RecoveredAlloc(v) <=> IF P = {} THEN b \in old.alloc
                                                ELSE ~RecAt(v, LastPlace(P)).free
      BY DEF RecoveredAlloc
    <3>2. b \in RecoveredAlloc(w) <=> IF P = {} THEN b \in old.alloc
                                                ELSE ~RecAt(w, LastPlace(P)).free
      BY <1>2 DEF RecoveredAlloc
    <3>3. P \in SUBSET C
      BY DEF MapPlaces
    <3> HIDE DEF P
    <3> QED BY <1>4, <3>1, <3>2, <3>3
  <2>2. RecoveredAlloc(w) \subseteq Blocks /\ RecoveredAlloc(v) \subseteq Blocks
    BY DEF RecoveredAlloc
  <2> QED BY <2>1, <2>2
<1> QED BY <1>3, <1>5, <1>6

\* What a replay rebuilds after one more transaction has been committed behind the
\* others: for each file, block and the next fsid, the transaction decides or nothing
\* changes.
LEMMA MoreReplay ==
  ASSUME NEW v \in Volume, NEW w \in Volume, NEW C, NEW Q,
         C = Committed(v), C \cup Q = Committed(w),
         \A p \in C : IsPlace(v, p), \A p \in C \cup Q : IsPlace(w, p),
         \A p \in C, q \in Q : p[1] < q[1],
         \A p \in C : RecAt(w, p) = RecAt(v, p),
         \A q \in Q, z \in Zones : q[1] > v.zone[z].stamp,
         w.inode = v.inode, w.zone = v.zone, w.hdr = v.hdr
  PROVE  /\ \A f \in Fsids :
              /\ InodePlaces(w, Q, f) = {} => RecoveredFiles(w)[f] = RecoveredFiles(v)[f]
              /\ InodePlaces(w, Q, f) # {} =>
                   \E q \in InodePlaces(w, Q, f) : RecoveredFiles(w)[f] = RecAt(w, q).blks
         /\ \A b \in Blocks :
              /\ MapPlaces(w, Q, b) = {} => (b \in RecoveredAlloc(w) <=> b \in RecoveredAlloc(v))
              /\ MapPlaces(w, Q, b) # {} =>
                   \E q \in MapPlaces(w, Q, b) : b \in RecoveredAlloc(w) <=> ~RecAt(w, q).free
         /\ RecoveredNextFsid(v) <= RecoveredNextFsid(w)
         /\ \A f \in Fsids : InodePlaces(w, Q, f) # {} => f + 1 <= RecoveredNextFsid(w)
         /\ \/ RecoveredNextFsid(w) = RecoveredNextFsid(v)
            \/ \E f \in Fsids : InodePlaces(w, Q, f) # {} /\ RecoveredNextFsid(w) = f + 1
<1> DEFINE D == C \cup Q
<1>1. \A f : InodePlaces(w, D, f) = InodePlaces(v, C, f) \cup InodePlaces(w, Q, f)
  BY DEF InodePlaces
<1>2. \A b : MapPlaces(w, D, b) = MapPlaces(v, C, b) \cup MapPlaces(w, Q, b)
  BY DEF MapPlaces
<1>3. \A p \in C, q \in Q : ~Upto(q, p)
  BY DEF Upto, IsPlace
<1>4. ASSUME NEW P \in SUBSET C, P # {}
      PROVE  RecAt(w, LastPlace(P)) = RecAt(v, LastPlace(P))
  <2>1. LastPlace(P) \in P
    BY <1>4, LastPlaceIs
  <2> QED BY <2>1
<1>5. ASSUME NEW f \in Fsids
      PROVE  /\ InodePlaces(w, Q, f) = {} => RecoveredFiles(w)[f] = RecoveredFiles(v)[f]
             /\ InodePlaces(w, Q, f) # {} =>
                  \E q \in InodePlaces(w, Q, f) : RecoveredFiles(w)[f] = RecAt(w, q).blks
  <2>1. CASE InodePlaces(w, Q, f) = {}
    <3> DEFINE P == InodePlaces(v, C, f)
    <3>1. RecoveredFiles(v)[f] = IF P = {} THEN v.inode[f] ELSE RecAt(v, LastPlace(P)).blks
      BY DEF RecoveredFiles
    <3>2. RecoveredFiles(w)[f] = IF P = {} THEN w.inode[f] ELSE RecAt(w, LastPlace(P)).blks
      BY <1>1, <2>1 DEF RecoveredFiles
    <3>3. P \in SUBSET C
      BY DEF InodePlaces
    <3> HIDE DEF P
    <3> QED BY <1>4, <2>1, <3>1, <3>2, <3>3
  <2>2. CASE InodePlaces(w, Q, f) # {}
    <3> DEFINE P == InodePlaces(w, D, f)
    <3>1. P # {}
      BY <1>1, <2>2
    <3>2. PICK p \in P : (\A q \in P : Upto(q, p)) /\ RecoveredFiles(w)[f] = RecAt(w, p).blks
      <4>1. D = Committed(w) /\ (\A p \in D : IsPlace(w, p)) /\ P = InodePlaces(w, D, f)
        OBVIOUS
      <4> HIDE DEF D, P
      <4> QED BY <3>1, <4>1, FilesAre
    <3>3. p \in InodePlaces(w, Q, f)
      BY <1>1, <1>3, <2>2, <3>2 DEF InodePlaces
    <3> QED BY <2>2, <3>2, <3>3
  <2> QED BY <2>1, <2>2
<1>6. ASSUME NEW b \in Blocks
      PROVE  /\ MapPlaces(w, Q, b) = {} => (b \in RecoveredAlloc(w) <=> b \in RecoveredAlloc(v))
             /\ MapPlaces(w, Q, b) # {} =>
                  \E q \in MapPlaces(w, Q, b) : b \in RecoveredAlloc(w) <=> ~RecAt(w, q).free
  <2> DEFINE old == v.zone[ZoneOf[b]]
  <2>1. CASE MapPlaces(w, Q, b) = {}
    <3> DEFINE P == {p \in MapPlaces(v, C, b) : p[1] > old.stamp}
    <3>1. b \in RecoveredAlloc(v) <=> IF P = {} THEN b \in old.alloc
                                                ELSE ~RecAt(v, LastPlace(P)).free
      BY DEF RecoveredAlloc
    <3>2. b \in RecoveredAlloc(w) <=> IF P = {} THEN b \in old.alloc
                                                ELSE ~RecAt(w, LastPlace(P)).free
      BY <1>2, <2>1 DEF RecoveredAlloc
    <3>3. P \in SUBSET C
      BY DEF MapPlaces
    <3> HIDE DEF P
    <3> QED BY <1>4, <2>1, <3>1, <3>2, <3>3
  <2>2. CASE MapPlaces(w, Q, b) # {}
    <3> DEFINE P == {p \in MapPlaces(w, D, b) : p[1] > old.stamp}
    <3>1. ZoneOf[b] \in Zones
      BY ConstantsOK DEF Zones
    <3>2. MapPlaces(w, Q, b) \subseteq P
      BY <1>2, <3>1 DEF MapPlaces
    <3>3. P # {} /\ old = w.zone[ZoneOf[b]]
      BY <2>2, <3>2
    <3>4. PICK p \in P : (\A q \in P : Upto(q, p)) /\ (b \in RecoveredAlloc(w) <=> ~RecAt(w, p).free)
      <4>1. /\ D = Committed(w) /\ \A p \in D : IsPlace(w, p)
            /\ P = {p \in MapPlaces(w, D, b) : p[1] > old.stamp}
        OBVIOUS
      <4> HIDE DEF D, P, old
      <4> QED BY <3>3, <4>1, AllocIs
    <3>5. p \in MapPlaces(w, Q, b)
      BY <1>2, <1>3, <2>2, <3>2, <3>4 DEF MapPlaces
    <3> QED BY <2>2, <3>4, <3>5
  <2> QED BY <2>1, <2>2
<1>7. /\ RecoveredNextFsid(v) \in Nat /\ v.hdr.next_fsid <= RecoveredNextFsid(v)
      /\ \A f \in Fsids : InodePlaces(v, C, f) # {} => f + 1 <= RecoveredNextFsid(v)
      /\ \/ RecoveredNextFsid(v) = v.hdr.next_fsid
         \/ \E f \in Fsids : InodePlaces(v, C, f) # {} /\ RecoveredNextFsid(v) = f + 1
  BY NextFsidIs
<1>8. /\ RecoveredNextFsid(w) \in Nat /\ w.hdr.next_fsid <= RecoveredNextFsid(w)
      /\ \A f \in Fsids : InodePlaces(w, D, f) # {} => f + 1 <= RecoveredNextFsid(w)
      /\ \/ RecoveredNextFsid(w) = w.hdr.next_fsid
         \/ \E f \in Fsids : InodePlaces(w, D, f) # {} /\ RecoveredNextFsid(w) = f + 1
  BY NextFsidIs
<1>9. \A f : InodePlaces(w, D, f) # {} <=> InodePlaces(v, C, f) # {} \/ InodePlaces(w, Q, f) # {}
  BY <1>1
<1>10. Fsids \subseteq Nat /\ v.hdr.next_fsid \in Nat
  BY ConstantsOK DEF Volume
<1>11. RecoveredNextFsid(v) <= RecoveredNextFsid(w)
  BY <1>7, <1>8, <1>9
<1>12. \/ RecoveredNextFsid(w) = RecoveredNextFsid(v)
       \/ \E f \in Fsids : InodePlaces(w, Q, f) # {} /\ RecoveredNextFsid(w) = f + 1
  <2>1. CASE RecoveredNextFsid(w) = w.hdr.next_fsid
    BY <1>7, <1>10, <1>11, <2>1
  <2>2. CASE \E f \in Fsids : InodePlaces(w, D, f) # {} /\ RecoveredNextFsid(w) = f + 1
    <3>1. PICK f \in Fsids : InodePlaces(w, D, f) # {} /\ RecoveredNextFsid(w) = f + 1
      BY <2>2
    <3>2. InodePlaces(v, C, f) # {} => RecoveredNextFsid(w) = RecoveredNextFsid(v)
      BY <1>7, <1>8, <1>11, <3>1
    <3> QED BY <1>9, <3>1, <3>2
  <2> QED BY <1>8, <2>1, <2>2
<1> QED BY <1>5, <1>6, <1>8, <1>9, <1>11, <1>12

\* A zone map that is written with every committed entry in it takes over from the log.
ZoneSaved(v, w, C, z) ==
  /\ C = Committed(v) /\ C = Committed(w) /\ \A p \in C : IsPlace(v, p)
  /\ \A p \in C : RecAt(w, p) = RecAt(v, p)
  /\ \A p \in C : p[1] <= w.zone[z].stamp
  /\ \A y \in Zones \ {z} : w.zone[y] = v.zone[y]
  /\ w.inode = v.inode /\ w.hdr = v.hdr

\* A zone map that the checkpoint has written is newer than every entry about its blocks
\* (mfs_zone_map_sync): the replay takes its blocks as they are there, the other blocks,
\* the files and the next fsid as before.
LEMMA ZoneReplay ==
  ASSUME NEW v \in Volume, NEW w \in Volume, NEW C, NEW z \in Zones, ZoneSaved(v, w, C, z)
  PROVE  /\ RecoveredFiles(w) = RecoveredFiles(v)
         /\ RecoveredNextFsid(w) = RecoveredNextFsid(v)
         /\ \A b \in Blocks : ZoneOf[b] = z =>
              (b \in RecoveredAlloc(w) <=> b \in w.zone[z].alloc)
         /\ \A b \in Blocks : ZoneOf[b] # z =>
              (b \in RecoveredAlloc(w) <=> b \in RecoveredAlloc(v))
<1> USE DEF ZoneSaved
<1>1. \A f : InodePlaces(w, C, f) = InodePlaces(v, C, f)
  BY DEF InodePlaces
<1>2. \A b : MapPlaces(w, C, b) = MapPlaces(v, C, b)
  BY DEF MapPlaces
<1>3. RecoveredNextFsid(w) = RecoveredNextFsid(v)
  BY <1>1 DEF RecoveredNextFsid
<1>4. \A P \in SUBSET C : P # {} => RecAt(w, LastPlace(P)) = RecAt(v, LastPlace(P))
  <2> SUFFICES ASSUME NEW P \in SUBSET C, P # {}
               PROVE  RecAt(w, LastPlace(P)) = RecAt(v, LastPlace(P))
    OBVIOUS
  <2>1. LastPlace(P) \in P
    BY LastPlaceIs
  <2> QED BY <2>1
<1>5. RecoveredFiles(w) = RecoveredFiles(v)
  <2>1. ASSUME NEW f \in Fsids PROVE RecoveredFiles(w)[f] = RecoveredFiles(v)[f]
    <3> DEFINE P == InodePlaces(v, C, f)
    <3>1. RecoveredFiles(v)[f] = IF P = {} THEN v.inode[f] ELSE RecAt(v, LastPlace(P)).blks
      BY DEF RecoveredFiles
    <3>2. RecoveredFiles(w)[f] = IF P = {} THEN v.inode[f] ELSE RecAt(w, LastPlace(P)).blks
      BY <1>1 DEF RecoveredFiles
    <3>3. P \in SUBSET C
      BY DEF InodePlaces
    <3> QED BY <1>4, <3>1, <3>2, <3>3
  <2> QED BY <2>1 DEF RecoveredFiles
<1>6. ASSUME NEW b \in Blocks, ZoneOf[b] = z
      PROVE  b \in RecoveredAlloc(w) <=> b \in w.zone[z].alloc
  <2> DEFINE P == {p \in MapPlaces(v, C, b) : p[1] > w.zone[z].stamp}
  <2>1. b \in RecoveredAlloc(w) <=> IF P = {} THEN b \in w.zone[z].alloc
                                              ELSE ~RecAt(w, LastPlace(P)).free
    BY <1>2, <1>6 DEF RecoveredAlloc
  <2>2. w.zone[z].stamp \in Nat
    BY DEF Volume
  <2>3. P = {}
    BY <2>2 DEF MapPlaces, IsPlace
  <2> HIDE DEF P
  <2> QED BY <2>1, <2>3
<1>7. ASSUME NEW b \in Blocks, ZoneOf[b] # z
      PROVE  b \in RecoveredAlloc(w) <=> b \in RecoveredAlloc(v)
  <2> DEFINE old == v.zone[ZoneOf[b]]
             P == {p \in MapPlaces(v, C, b) : p[1] > old.stamp}
  <2>1. b \in RecoveredAlloc(v) <=> IF P = {} THEN b \in old.alloc
                                              ELSE ~RecAt(v, LastPlace(P)).free
    BY DEF RecoveredAlloc
  <2>2. w.zone[ZoneOf[b]] = old
    BY <1>7, ConstantsOK DEF Zones
  <2>3. b \in RecoveredAlloc(w) <=> IF P = {} THEN b \in old.alloc
                                              ELSE ~RecAt(w, LastPlace(P)).free
    BY <1>2, <2>2 DEF RecoveredAlloc
  <2>4. P \in SUBSET C
    BY DEF MapPlaces
  <2> HIDE DEF P
  <2> QED BY <1>4, <2>1, <2>3, <2>4
<1> QED BY <1>3, <1>5, <1>6, <1>7

\* With nothing committed in the log, a replay finds the volume as it is.
LEMMA CleanReplay ==
  ASSUME NEW v \in Volume, Committed(v) = {}
  PROVE  /\ \A f \in Fsids : RecoveredFiles(v)[f] = v.inode[f]
         /\ \A b \in Blocks : b \in RecoveredAlloc(v) <=> b \in v.zone[ZoneOf[b]].alloc
         /\ RecoveredNextFsid(v) = v.hdr.next_fsid
<1>1. \A f : InodePlaces(v, {}, f) = {}
  BY DEF InodePlaces
<1>2. \A b : MapPlaces(v, {}, b) = {}
  BY DEF MapPlaces
<1>3. \A f \in Fsids : RecoveredFiles(v)[f] = v.inode[f]
  BY <1>1 DEF RecoveredFiles
<1>4. \A b \in Blocks : b \in RecoveredAlloc(v) <=> b \in v.zone[ZoneOf[b]].alloc
  BY <1>2 DEF RecoveredAlloc
<1>5. RecoveredNextFsid(v) = v.hdr.next_fsid
  BY <1>1, NextFsidIs
<1> QED BY <1>3, <1>4, <1>5

-----------------------------------------------------------------------------
(* How the log grows by a sector.                                          *)

\* A sector with the next stamp overwrites none that a replay reads, and the log stays whole.
LEMMA GrownLog ==
  ASSUME NEW v \in Volume, NEW e \in Nat, WholeLog(v, e),
         NEW s \in Sector, s.stamp = e + 1, e + 1 <= v.hdr.stamp + NSectors,
         e > v.hdr.stamp => s.first = SectorAt(v, e).split,
         NEW w, w = [v EXCEPT !.log[Slot(s.stamp)] = s]
  PROVE  /\ w.inode = v.inode /\ w.zone = v.zone /\ w.hdr = v.hdr
         /\ \A t \in (v.hdr.stamp + 1)..e : SectorAt(w, t) = SectorAt(v, t)
         /\ SectorAt(w, e + 1) = s
         /\ WholeLog(w, e + 1)
<1> DEFINE h == v.hdr.stamp
<1>1. h \in Nat /\ NSectors \in Nat /\ h <= e
  BY ConstantsOK DEF Volume, WholeLog
<1>2. v.log \in [Slots -> Sector] /\ Slot(e + 1) \in Slots
  BY SlotInLog DEF Volume
<1>3. /\ w.inode = v.inode /\ w.zone = v.zone /\ w.hdr = v.hdr
      /\ w.log = [v.log EXCEPT ![Slot(e + 1)] = s]
  BY DEF Volume
<1>4. \A t \in (h + 1)..e : Slot(t) # Slot(e + 1) /\ Slot(t) \in Slots
  BY <1>1, SlotsDiffer, SlotInLog
<1>5. \A t \in (h + 1)..e : SectorAt(w, t) = SectorAt(v, t)
  BY <1>2, <1>3, <1>4 DEF SectorAt
<1>6. SectorAt(w, e + 1) = s
  BY <1>2, <1>3 DEF SectorAt
<1>7. \A t \in (h + 1)..(e + 1) : SectorAt(w, t).stamp = t
  <2> SUFFICES ASSUME NEW t \in (h + 1)..(e + 1) PROVE SectorAt(w, t).stamp = t
    OBVIOUS
  <2>1. t \in (h + 1)..e \/ t = e + 1
    BY <1>1
  <2> QED BY <1>5, <1>6, <2>1 DEF WholeLog
<1>8. \A i \in Slots : w.log[i].stamp <= e + 1
  <2> SUFFICES ASSUME NEW i \in Slots PROVE w.log[i].stamp <= e + 1
    OBVIOUS
  <2>1. v.log[i].stamp <= e /\ v.log[i].stamp \in Nat
    BY <1>2 DEF WholeLog, Sector
  <2> QED BY <1>2, <1>3, <2>1
<1>9. \A t \in (h + 1)..e : SectorAt(w, t + 1).first = SectorAt(w, t).split
  <2> SUFFICES ASSUME NEW t \in (h + 1)..e PROVE SectorAt(w, t + 1).first = SectorAt(w, t).split
    OBVIOUS
  <2>1. CASE t = e
    <3>1. s.first = SectorAt(v, e).split
      BY <1>1, <2>1
    <3> QED BY <1>5, <1>6, <2>1, <3>1
  <2>2. CASE t < e
    <3>1. t \in (h + 1)..(e - 1) /\ t + 1 \in (h + 1)..e
      BY <1>1, <2>2
    <3> QED BY <1>5, <3>1 DEF WholeLog
  <2> QED BY <1>1, <2>1, <2>2
<1>10. (e + 1) - 1 = e
  OBVIOUS
<1>11. WholeLog(w, e + 1)
  BY <1>1, <1>3, <1>7, <1>8, <1>9, <1>10 DEF WholeLog
<1> QED BY <1>3, <1>5, <1>6, <1>11

\* It grows by a sector without a commit that is whole.
LEMMA GrownNoCommit ==
  ASSUME NEW v \in Volume, NEW w \in Volume, NEW e \in Nat, NEW c \in Nat,
         CommitsEnd(v, e, c), w.hdr = v.hdr,
         \A t \in (v.hdr.stamp + 1)..e : SectorAt(w, t) = SectorAt(v, t),
         \A t \in (c + 1)..e : \A i \in DOMAIN SectorAt(v, t).recs :
            SectorAt(v, t).recs[i].t # "commit",
         \A i \in DOMAIN SectorAt(w, e + 1).recs : SectorAt(w, e + 1).recs[i].t = "commit" =>
            i = Len(SectorAt(w, e + 1).recs) /\ SectorAt(w, e + 1).split
  PROVE  CommitsEnd(w, e + 1, c)
<1> DEFINE h == v.hdr.stamp
<1>1. h \in Nat /\ h <= c /\ c <= e
  BY DEF Volume, CommitsEnd
<1>2. ASSUME NEW t \in (h + 1)..(e + 1), NEW i \in DOMAIN SectorAt(w, t).recs,
             SectorAt(w, t).recs[i].t = "commit"
      PROVE  i = Len(SectorAt(w, t).recs) /\ (t > c => t = e + 1 /\ SectorAt(w, t).split)
  <2>1. CASE t = e + 1
    BY <1>2, <2>1
  <2>2. CASE t \in (h + 1)..e
    <3>1. SectorAt(w, t) = SectorAt(v, t)
      BY <2>2
    <3>2. i = Len(SectorAt(w, t).recs)
      BY <1>2, <2>2, <3>1 DEF CommitsEnd
    <3>3. ~(t > c)
      BY <1>1, <1>2, <2>2, <3>1
    <3> QED BY <3>2, <3>3
  <2> QED BY <1>1, <2>1, <2>2
<1>3. ASSUME c > h
      PROVE  /\ ~SectorAt(w, c).split
             /\ \E s \in (h + 1)..c : /\ EndsInCommit(SectorAt(w, s).recs)
                                      /\ \A t \in (s + 1)..c : SectorAt(w, t).recs = <<>>
  <2>1. \A t \in (h + 1)..c : SectorAt(w, t) = SectorAt(v, t)
    BY <1>1
  <2>2. c \in (h + 1)..c
    BY <1>1, <1>3
  <2>3. PICK s \in (h + 1)..c : /\ EndsInCommit(SectorAt(v, s).recs)
                                /\ \A t \in (s + 1)..c : SectorAt(v, t).recs = <<>>
    BY <1>3 DEF CommitsEnd
  <2>4. \A t \in (s + 1)..c : t \in (h + 1)..c
    BY <1>1
  <2> QED BY <1>3, <2>1, <2>2, <2>3, <2>4 DEF CommitsEnd
<1> QED BY <1>1, <1>2, <1>3 DEF CommitsEnd

\* It grows by a sector that ends a commit, or that follows one and is empty.
LEMMA GrownCommit ==
  ASSUME NEW v \in Volume, NEW w \in Volume, NEW e \in Nat, NEW c \in Nat,
         CommitsEnd(v, e, c), w.hdr = v.hdr,
         \A t \in (v.hdr.stamp + 1)..e : SectorAt(w, t) = SectorAt(v, t),
         \A i \in DOMAIN SectorAt(w, e + 1).recs : SectorAt(w, e + 1).recs[i].t = "commit" =>
            i = Len(SectorAt(w, e + 1).recs),
         ~SectorAt(w, e + 1).split,
         \/ EndsInCommit(SectorAt(w, e + 1).recs)
         \/ SectorAt(w, e + 1).recs = <<>> /\ e > v.hdr.stamp /\ EndsInCommit(SectorAt(v, e).recs)
  PROVE  CommitsEnd(w, e + 1, e + 1)
<1> DEFINE h == v.hdr.stamp
<1>1. h \in Nat /\ h <= c /\ c <= e
  BY DEF Volume, CommitsEnd
<1>2. ASSUME NEW t \in (h + 1)..(e + 1), NEW i \in DOMAIN SectorAt(w, t).recs,
             SectorAt(w, t).recs[i].t = "commit"
      PROVE  i = Len(SectorAt(w, t).recs)
  <2>1. CASE t = e + 1
    BY <1>2, <2>1
  <2>2. CASE t \in (h + 1)..e
    <3>1. SectorAt(w, t) = SectorAt(v, t)
      BY <2>2
    <3> QED BY <1>2, <2>2, <3>1 DEF CommitsEnd
  <2> QED BY <1>1, <2>1, <2>2
<1>3. \E s \in (h + 1)..(e + 1) : /\ EndsInCommit(SectorAt(w, s).recs)
                                  /\ \A t \in (s + 1)..(e + 1) : SectorAt(w, t).recs = <<>>
  <2>1. CASE EndsInCommit(SectorAt(w, e + 1).recs)
    <3>1. e + 1 \in (h + 1)..(e + 1) /\ \A t \in ((e + 1) + 1)..(e + 1) : FALSE
      BY <1>1
    <3> QED BY <2>1, <3>1
  <2>2. CASE SectorAt(w, e + 1).recs = <<>> /\ e > h /\ EndsInCommit(SectorAt(v, e).recs)
    <3>1. e \in (h + 1)..e /\ e \in (h + 1)..(e + 1) /\ \A t \in (e + 1)..(e + 1) : t = e + 1
      BY <1>1, <2>2
    <3>2. SectorAt(w, e) = SectorAt(v, e)
      BY <3>1
    <3> QED BY <2>2, <3>1, <3>2
  <2> QED BY <2>1, <2>2
<1>4. ~SectorAt(w, e + 1).split
  OBVIOUS
<1> HIDE DEF h
<1>5. h <= e + 1 /\ e + 1 <= e + 1 /\ h = w.hdr.stamp /\ \A t \in (h + 1)..(e + 1) : ~(t > e + 1)
  BY <1>1 DEF h
<1> QED BY <1>2, <1>3, <1>4, <1>5 DEF CommitsEnd

-----------------------------------------------------------------------------
(* Where the running call is.                                              *)

\* The call that is running adds to the log only what belongs to it.
LEMMA CallInit == Init => CallOK
BY DEF Init, CallOK

\* What a call has left to add, spelled out.
LEMMA TodoIs ==
  \A t \in {"commit", "fssync", "replay"}, u \in {"commit", "fssync", "replay"} :
     /\ [NoTodo EXCEPT !.tail = <<Mark(t)>>] = [free |-> {}, alloc |-> {}, tail |-> <<Mark(t)>>]
     /\ [NoTodo EXCEPT !.tail = <<Mark(t), Mark(u)>>]
          = [free |-> {}, alloc |-> {}, tail |-> <<Mark(t), Mark(u)>>]
<1>1. NoTodo \in [free : SUBSET Blocks, alloc : SUBSET Blocks, tail : Seq(Rec)]
  BY DEF NoTodo
<1>2. NoTodo.free = {} /\ NoTodo.alloc = {}
  BY DEF NoTodo
<1>3. \A x \in [free : SUBSET Blocks, alloc : SUBSET Blocks, tail : Seq(Rec)], T \in Seq(Rec) : \A X, Y :
        x.free = X /\ x.alloc = Y =>
          [x EXCEPT !.tail = T] = [free |-> X, alloc |-> Y, tail |-> T]
  OBVIOUS
<1>4. \A T \in Seq(Rec) : [NoTodo EXCEPT !.tail = T] = [free |-> {}, alloc |-> {}, tail |-> T]
  BY <1>1, <1>2, <1>3
<1>5. \A r \in Rec, q \in Rec : <<r>> \in Seq(Rec) /\ <<r, q>> \in Seq(Rec)
  OBVIOUS
<1> QED BY <1>4, <1>5, TodoType

\* The entry a step adds, and where that leaves its call.
AddsMap(r, b) ==
  /\ call = "log" /\ pc' = "add" /\ call' = "log"
  /\ \/ /\ b \in todo.free /\ r = MapRec(b, TRUE)
        /\ todo' = [todo EXCEPT !.free = @ \ {b}]
     \/ /\ b \in todo.alloc /\ r = MapRec(b, FALSE)
        /\ todo' = [todo EXCEPT !.alloc = @ \ {b}]
AddsInode(r, f) ==
  /\ call = "log" /\ pc' = "ready" /\ call' = "none"
  /\ f \in Touched /\ r = InodeRec(f, txn[f])
  /\ todo = [free |-> {}, alloc |-> {}, tail |-> <<r>>] /\ todo' = NoTodo
AddsCommit(r) ==
  /\ call = "commit" /\ pc' = "close" /\ call' = "commit"
  /\ r = Mark("commit")
  /\ todo = [free |-> {}, alloc |-> {}, tail |-> <<r>>] /\ todo' = NoTodo
AddsSync(r) ==
  /\ call = "fssync" /\ call' = "fssync"
  /\ \/ /\ r = Mark("replay") /\ pc' = "add"
        /\ todo = [free |-> {}, alloc |-> {}, tail |-> <<r, Mark("fssync")>>]
        /\ todo' = [free |-> {}, alloc |-> {}, tail |-> <<Mark("fssync")>>]
     \/ /\ r = Mark("fssync") /\ pc' = "close"
        /\ todo = [free |-> {}, alloc |-> {}, tail |-> <<r>>] /\ todo' = NoTodo

\* The entry that a call adds next, with what is left to do.
LEMMA AddEntryIs ==
  ASSUME TypeInv, CallOK, AddEntry
  PROVE  \E r \in Rec :
           /\ AddRec(r)
           /\ \/ \E b \in Blocks : AddsMap(r, b)
              \/ \E f \in Fsids : AddsInode(r, f)
              \/ AddsCommit(r) \/ AddsSync(r)
<1>1. /\ todo \in [free : SUBSET Blocks, alloc : SUBSET Blocks, tail : Seq(Rec)]
      /\ call \in Calls /\ pc = "add" /\ call # "none"
  BY DEF TypeInv, TypeOK, CallOK, AddEntry
<1>2. \A b \in Blocks, x \in BOOLEAN : MapRec(b, x) \in Rec
  BY DEF MapRec, Rec
<1>3. \/ call = "log" /\ \E f \in Touched : todo.tail = <<InodeRec(f, txn[f])>>
      \/ /\ call = "commit"
         /\ todo = [free |-> {}, alloc |-> {}, tail |-> <<Mark("commit")>>]
      \/ /\ call = "fssync"
         /\ todo \in {[free |-> {}, alloc |-> {}, tail |-> <<Mark("fssync")>>],
                      [free |-> {}, alloc |-> {}, tail |-> <<Mark("replay"), Mark("fssync")>>]}
  BY <1>1, TodoIs DEF CallOK, Calls
<1>4. ASSUME NEW b \in todo.free, AddRec(MapRec(b, TRUE)),
             todo' = [todo EXCEPT !.free = @ \ {b}], UNCHANGED <<pc, call>>
      PROVE  \E r \in Rec : AddRec(r) /\ \E c \in Blocks : AddsMap(r, c)
  <2>1. call = "log"
    BY <1>3
  <2>2. b \in Blocks /\ MapRec(b, TRUE) \in Rec
    BY <1>1, <1>2
  <2>3. AddsMap(MapRec(b, TRUE), b)
    BY <1>1, <1>4, <2>1 DEF AddsMap
  <2> QED BY <1>4, <2>2, <2>3
<1>5. ASSUME NEW b \in todo.alloc, AddRec(MapRec(b, FALSE)),
             todo' = [todo EXCEPT !.alloc = @ \ {b}], UNCHANGED <<pc, call>>
      PROVE  \E r \in Rec : AddRec(r) /\ \E c \in Blocks : AddsMap(r, c)
  <2>1. call = "log"
    BY <1>3
  <2>2. b \in Blocks /\ MapRec(b, FALSE) \in Rec
    BY <1>1, <1>2
  <2>3. AddsMap(MapRec(b, FALSE), b)
    BY <1>1, <1>5, <2>1 DEF AddsMap
  <2> QED BY <1>5, <2>2, <2>3
<1>6. ASSUME todo.free = {}, todo.alloc = {}, todo.tail # <<>>, AddRec(Head(todo.tail)),
             todo' = [todo EXCEPT !.tail = Tail(@)],
             IF Len(todo.tail) = 1 THEN AfterAdd ELSE UNCHANGED <<pc, call>>
      PROVE  \E r \in Rec : /\ AddRec(r)
                            /\ (\E f \in Fsids : AddsInode(r, f)) \/ AddsCommit(r) \/ AddsSync(r)
  <2>1. todo' = [free |-> {}, alloc |-> {}, tail |-> Tail(todo.tail)]
    BY <1>1, <1>6
  <2>2. todo = [free |-> {}, alloc |-> {}, tail |-> todo.tail]
    BY <1>1, <1>6
  <2>3. Head(todo.tail) \in Rec
    BY <1>1, <1>6
  <2>4. \A r : Len(<<r>>) = 1 /\ Head(<<r>>) = r /\ Tail(<<r>>) = <<>>
    OBVIOUS
  <2>5. \A q, r : Len(<<q, r>>) = 2 /\ Head(<<q, r>>) = q /\ Tail(<<q, r>>) = <<r>>
    OBVIOUS
  <2>6. CASE call = "log"
    <3>1. PICK f \in Touched : todo.tail = <<InodeRec(f, txn[f])>>
      BY <1>3, <2>6
    <3>2. pc' = "ready" /\ call' = "none" /\ todo' = NoTodo
      BY <1>6, <2>1, <2>4, <2>6, <3>1 DEF AfterAdd, NoTodo
    <3>3. AddsInode(InodeRec(f, txn[f]), f) /\ Head(todo.tail) = InodeRec(f, txn[f]) /\ f \in Fsids
      BY <2>2, <2>4, <2>6, <3>1, <3>2 DEF AddsInode, Touched
    <3> QED BY <1>6, <2>3, <3>3
  <2>7. CASE call = "commit"
    <3>1. todo.tail = <<Mark("commit")>>
      BY <1>3, <2>7
    <3>2. pc' = "close" /\ call' = "commit" /\ todo' = NoTodo
      BY <1>6, <2>1, <2>4, <2>7, <3>1 DEF AfterAdd, NoTodo
    <3>3. AddsCommit(Mark("commit")) /\ Head(todo.tail) = Mark("commit")
      BY <2>2, <2>4, <2>7, <3>1, <3>2 DEF AddsCommit
    <3> QED BY <1>6, <2>3, <3>3
  <2>8. CASE call = "fssync" /\ todo.tail = <<Mark("fssync")>>
    <3>1. pc' = "close" /\ call' = "fssync" /\ todo' = NoTodo
      BY <1>6, <2>1, <2>4, <2>8 DEF AfterAdd, NoTodo
    <3>2. AddsSync(Mark("fssync")) /\ Head(todo.tail) = Mark("fssync")
      BY <2>2, <2>4, <2>8, <3>1 DEF AddsSync
    <3> QED BY <1>6, <2>3, <3>2
  <2>9. CASE call = "fssync" /\ todo.tail = <<Mark("replay"), Mark("fssync")>>
    <3>1. pc' = "add" /\ call' = "fssync"
      BY <1>1, <1>6, <2>5, <2>9
    <3>2. todo' = [free |-> {}, alloc |-> {}, tail |-> <<Mark("fssync")>>]
      BY <2>1, <2>5, <2>9
    <3>3. AddsSync(Mark("replay")) /\ Head(todo.tail) = Mark("replay")
      BY <2>2, <2>5, <2>9, <3>1, <3>2 DEF AddsSync
    <3> QED BY <1>6, <2>3, <3>3
  <2> QED BY <1>3, <2>6, <2>7, <2>8, <2>9
<1> QED BY <1>4, <1>5, <1>6 DEF AddEntry

\* Adding an entry keeps CallOK.
LEMMA CallAddEntry == TypeInv /\ CallOK /\ AddEntry => CallOK'
<1> SUFFICES ASSUME TypeInv, CallOK, AddEntry PROVE CallOK'
  OBVIOUS
<1>1. pc = "add" /\ txn' = txn /\ todo \in [free : SUBSET Blocks, alloc : SUBSET Blocks, tail : Seq(Rec)]
  BY DEF AddEntry, TypeInv, TypeOK
<1>2. Touched' = Touched
  BY <1>1 DEF Touched
<1>3. PICK r \in Rec : \/ \E b \in Blocks : AddsMap(r, b)
                       \/ \E f \in Fsids : AddsInode(r, f)
                       \/ AddsCommit(r) \/ AddsSync(r)
  BY AddEntryIs
<1>4. ASSUME NEW b \in Blocks, AddsMap(r, b) PROVE CallOK'
  <2>1. pc' = "add" /\ call = "log" /\ call' = "log" /\ todo'.tail = todo.tail
    BY <1>1, <1>4 DEF AddsMap
  <2> QED BY <1>1, <1>2, <2>1 DEF CallOK
<1>5. ASSUME NEW f \in Fsids, AddsInode(r, f) PROVE CallOK'
  BY <1>5 DEF AddsInode, CallOK
<1>6. CASE AddsCommit(r)
  BY <1>6 DEF AddsCommit, CallOK
<1>7. CASE AddsSync(r)
  BY <1>7, TodoIs DEF AddsSync, CallOK
<1> QED BY <1>3, <1>4, <1>5, <1>6, <1>7

\* Every step keeps CallOK.
LEMMA CallStep ==
  ASSUME TypeInv, CallOK, [Next]_vars
  PROVE  CallOK'
<1>1. CASE AddEntry
  BY <1>1, CallAddEntry
<1>2. CASE CloseSector
  BY <1>2 DEF CallOK, CloseSector
<1>3. CASE LoadSector
  BY <1>3 DEF CallOK, LoadSector, Loading
<1>4. CASE LoadDone
  BY <1>4 DEF CallOK, LoadDone
<1>5. CASE Scan
  BY <1>5 DEF CallOK, Scan
<1>6. CASE ApplyEntry
  BY <1>6 DEF CallOK, ApplyEntry
<1>7. CASE CommitApplied
  BY <1>7 DEF CallOK, CommitApplied
<1>8. CASE ReplayApplied
  BY <1>8 DEF CallOK, ReplayApplied
<1>9. CASE ZoneMapSync
  BY <1>9 DEF CallOK, ZoneMapSync
<1>10. CASE WriteVolumeHeader
  BY <1>10 DEF CallOK, WriteVolumeHeader, callvars
<1>11. ASSUME NEW f \in Fsids, NEW B \in SUBSET Blocks, LogInodeUpdate(f, B) PROVE CallOK'
  <2>1. /\ pc' = "add" /\ call' = "log" /\ txn' = [txn EXCEPT ![f] = B]
        /\ todo'.tail = <<InodeRec(f, B)>>
    BY <1>11 DEF LogInodeUpdate
  <2>2. txn \in [Fsids -> {NoChange} \cup SUBSET Blocks] /\ B # NoChange
    BY ConstantsOK DEF TypeInv, TypeOK
  <2>3. f \in Touched' /\ txn'[f] = B
    BY <2>1, <2>2 DEF Touched
  <2> QED BY <2>1, <2>3 DEF CallOK
<1>12. ASSUME NEW B \in SUBSET Blocks, AllocFails(B) PROVE CallOK'
  BY <1>12 DEF CallOK, AllocFails, callvars
<1>13. CASE LogCommit
  BY <1>13 DEF CallOK, LogCommit
<1>14. CASE LogFssync
  BY <1>14 DEF CallOK, LogFssync
<1>15. CASE Crash
  BY <1>15 DEF CallOK, Crash
<1>16. ASSUME NEW m \in RemountModes, Mount(m) PROVE CallOK'
  BY <1>16 DEF CallOK, Mount, callvars
<1>17. CASE UNCHANGED vars
  BY <1>17 DEF CallOK, vars, callvars, Touched
<1> QED BY <1>1, <1>2, <1>3, <1>4, <1>5, <1>6, <1>7, <1>8, <1>9, <1>10, <1>11, <1>12, <1>13,
           <1>14, <1>15, <1>16, <1>17 DEF Next, Step, Client

-----------------------------------------------------------------------------
(* What is known of a volume that is being written.                        *)

\* The types of the log of a running volume.
LEMMA RunTypes ==
  ASSUME TypeInv
  PROVE  /\ k \in Nat /\ H \in Nat /\ lastcommit \in Nat /\ lastsync \in Nat
         /\ NSectors \in Nat /\ Cap \in Nat /\ Cap >= 2
         /\ view \in Volume /\ SplitOK(view)
         /\ current_log.recs \in Seq(Rec) /\ current_log.size \in 0..(Cap - 1)
         /\ current_log.first \in BOOLEAN
         /\ DOMAIN current_log.recs = 1..Len(current_log.recs)
         /\ Len(current_log.recs) \in Nat
<1>1. /\ current_log \in [stamp : Nat, first : BOOLEAN, recs : Seq(Rec), size : 0..(Cap - 1)]
      /\ view \in Volume /\ lastcommit \in Nat /\ lastsync \in Nat /\ SplitOK(view)
  BY DEF TypeInv, TypeOK
<1>2. view.hdr.stamp \in Nat
  BY <1>1 DEF Volume
<1> QED BY <1>1, <1>2, ConstantsOK DEF k, H

\* A replay reads the log up to the frontier.
LEMMA RunFacts ==
  ASSUME TypeInv, Running, LogWhole, CommitsLast
  PROVE  /\ Frontier \in Nat /\ k - 1 \in Nat
         /\ H <= lastcommit /\ lastcommit <= Frontier /\ Frontier <= k - 1
         /\ k - 1 <= H + NSectors
         /\ Committed(view) = PlacesUpto(view, Frontier)
         /\ \A p \in PlacesUpto(view, Frontier) : IsPlace(view, p)
<1>1. WholeLog(view, k - 1) /\ CommitsEnd(view, k - 1, Frontier)
  BY DEF LogWhole, CommitsLast
<1>2. k \in Nat /\ H \in Nat /\ lastcommit \in Nat /\ NSectors \in Nat
  BY RunTypes
<1>3. H <= lastcommit /\ lastcommit <= Frontier
  BY DEF LogWhole
<1>4. Frontier = ld.last \/ Frontier = k - 1 \/ Frontier = lastcommit
  BY DEF Frontier
<1>5. ld.last \in Nat
  BY DEF TypeInv, TypeOK
<1>6. H <= k - 1 /\ k - 1 <= H + NSectors
  BY <1>1 DEF WholeLog, H
<1>7. Frontier <= k - 1
  BY <1>1 DEF CommitsEnd
<1>8. Frontier \in Nat /\ k - 1 \in Nat
  BY <1>2, <1>4, <1>5, <1>6
<1>9. Committed(view) = PlacesUpto(view, Frontier)
  BY <1>1, <1>8, RunTypes, CommittedPlaces
<1>10. Frontier <= view.hdr.stamp + NSectors
  BY <1>2, <1>6, <1>7, <1>8 DEF H
<1>11. \A p \in PlacesUpto(view, Frontier) : IsPlace(view, p)
  BY <1>8, <1>10, RunTypes, UptoIsPlaces
<1> QED BY <1>3, <1>6, <1>7, <1>8, <1>9, <1>11

\* The entries of the sectors of some stamps,
LEMMA RecsInIs ==
  ASSUME NEW S, NEW r
  PROVE  r \in RecsIn(S) <=> \E s \in S : \E i \in DOMAIN SectorAt(view, s).recs :
                               r = SectorAt(view, s).recs[i]
BY DEF RecsIn, RecsAt, RecSet

\* and the same after a step.
LEMMA NextRecsInIs ==
  ASSUME NEW S, NEW r
  PROVE  r \in RecsIn(S)' <=> \E s \in S' : \E i \in DOMAIN SectorAt(view', s).recs :
                               r = SectorAt(view', s).recs[i]
BY DEF RecsIn, RecsAt, RecSet

\* The entries of a commit, before and after a step.
LEMMA BatchIs ==
  ASSUME NEW r
  PROVE  /\ r \in Batch <=>
              /\ r.t \in {"map", "inode"}
              /\ \E s \in (lastcommit + 1)..Frontier : \E i \in DOMAIN SectorAt(view, s).recs :
                   r = SectorAt(view, s).recs[i]
         /\ r \in Batch' <=>
              /\ r.t \in {"map", "inode"}
              /\ \E s \in (lastcommit' + 1)..Frontier' :
                   \E i \in DOMAIN SectorAt(view', s).recs : r = SectorAt(view', s).recs[i]
BY DEF Batch, Data, RecsIn, RecsAt, RecSet

\* The entries of a commit that the loader still has before it or that are loaded and not
\* applied.
LEMMA ToApplyIs ==
  ASSUME NEW r, Applying
  PROVE  r \in ToApply <=>
              /\ r.t \in {"map", "inode"}
              /\ \/ \E i \in DOMAIN list : r = list[i].rec
                 \/ \E i \in DOMAIN ld.part : r = ld.part[i].rec
                 \/ \E s \in ld.next..ld.last : \E i \in DOMAIN SectorAt(view, s).recs :
                      r = SectorAt(view, s).recs[i]
BY DEF ToApply, LoadedRecs, Data, RecsIn, RecsAt, RecSet

\* No commit is under way: nothing is left of the last one.
LEMMA NoBatch ==
  ASSUME TypeInv, ~Applying, ~CommitLanded
  PROVE  Frontier = lastcommit /\ Batch = {} /\ ToApply = {}
<1>1. Frontier = lastcommit /\ lastcommit \in Nat
  BY RunTypes DEF Frontier
<1>2. (lastcommit + 1)..lastcommit = {}
  BY <1>1
<1> QED BY <1>1, <1>2 DEF Batch, ToApply, RecsIn, Data

\* The same after a step.
LEMMA NoBatchNext ==
  ASSUME TypeInv', ~Applying', ~CommitLanded'
  PROVE  Frontier' = lastcommit' /\ Batch' = {} /\ ToApply' = {}
<1>1. Frontier' = lastcommit' /\ lastcommit' \in Nat
  BY DEF Frontier, TypeInv, TypeOK
<1>2. \A n \in Nat : (n + 1)..n = {}
  OBVIOUS
<1> QED BY <1>1, <1>2 DEF Batch, ToApply, RecsIn, Data

-----------------------------------------------------------------------------
(* A commit reaches the log: a replay now applies the open transaction.    *)

\* An inode entry names a file and its blocks, a map entry a block and whether it is freed.
LEMMA RecShape ==
  /\ \A r \in Rec : r.t = "inode" =>
       r.fsid \in Fsids /\ r.blks \in SUBSET Blocks /\ r = InodeRec(r.fsid, r.blks)
  /\ \A r \in Rec : r.t = "map" =>
       r.blk \in Blocks /\ r.free \in BOOLEAN /\ r = MapRec(r.blk, r.free)
BY DEF Rec, InodeRec, MapRec

\* The parts of an entry.
LEMMA RecFields ==
  /\ \A f, B : InodeRec(f, B).t = "inode" /\ InodeRec(f, B).fsid = f /\ InodeRec(f, B).blks = B
  /\ \A b, x : MapRec(b, x).t = "map" /\ MapRec(b, x).blk = b /\ MapRec(b, x).free = x
  /\ \A t : Mark(t).t = t
BY DEF InodeRec, MapRec, Mark

\* What the open transaction changes of the files, one by one.
LEMMA TxnChanges ==
  ASSUME TypeInv
  PROVE  /\ \A f \in Fsids : \A B : InodeRec(f, B) \in TxnRecs <=> f \in Touched /\ B = txn[f]
         /\ \A b \in Blocks : MapRec(b, TRUE) \in TxnRecs <=> b \in Losses
         /\ \A b \in Blocks : MapRec(b, FALSE) \in TxnRecs <=> b \in Gains
         /\ \A f \in Touched : txn[f] = (view.inode[f] \ Lost(f)) \cup Gained(f)
         /\ \A f \in Fsids \ Touched : Lost(f) = {} /\ Gained(f) = {}
         /\ \A f \in Touched : f \in Fsids /\ txn[f] \in SUBSET Blocks
         /\ \A f \in Fsids : Lost(f) \subseteq view.inode[f]
<1> DEFINE I(f) == InodeRec(f, txn[f])
           F(b) == MapRec(b, TRUE)
           A(b) == MapRec(b, FALSE)
<1>0. \A r : r \in TxnRecs <=> \/ \E f \in Touched : r = I(f)
                               \/ \E b \in Losses : r = F(b)
                               \/ \E b \in Gains : r = A(b)
  BY DEF TxnRecs
<1>a. \A b, c : /\ F(b) # A(c) /\ (F(b) = F(c) => b = c) /\ (A(b) = A(c) => b = c)
                /\ F(b).t = "map" /\ A(b).t = "map"
  BY DEF MapRec
<1>b. \A f, B : InodeRec(f, B).t = "inode" /\ InodeRec(f, B).fsid = f /\ InodeRec(f, B).blks = B
  BY RecFields
<1>c. \A f : I(f) = InodeRec(f, txn[f])
  OBVIOUS
<1> HIDE DEF I, F, A
<1>d. \A f, B : I(f) = InodeRec(f, B) => B = txn[f]
  BY <1>b, <1>c
<1>e. \A f, g, B : I(g) = InodeRec(f, B) => g = f
  BY <1>b, <1>c
<1>f. \A b, f, B : F(b) # InodeRec(f, B) /\ A(b) # InodeRec(f, B)
  BY <1>a, <1>b
<1>1. \A f \in Fsids : \A B : InodeRec(f, B) \in TxnRecs <=> f \in Touched /\ B = txn[f]
  BY <1>0, <1>c, <1>d, <1>e, <1>f
<1>2. \A b \in Blocks : MapRec(b, TRUE) \in TxnRecs <=> b \in Losses
  <2>1. \A b \in Blocks : F(b) \in TxnRecs <=> b \in Losses
    BY <1>0, <1>a, <1>c, <1>f
  <2> QED BY <2>1 DEF F
<1>3. \A b \in Blocks : MapRec(b, FALSE) \in TxnRecs <=> b \in Gains
  <2>1. \A b \in Blocks : A(b) \in TxnRecs <=> b \in Gains
    BY <1>0, <1>a, <1>c, <1>f
  <2> QED BY <2>1 DEF A
<1>4. txn \in [Fsids -> {NoChange} \cup SUBSET Blocks]
  BY DEF TypeInv, TypeOK
<1> QED BY <1>1, <1>2, <1>3, <1>4 DEF Touched, Lost, Gained

\* With the commit's last sector on the drives, a replay comes to what memory has with
\* the open transaction applied to it: its inodes, its map entries, its fsids.
LEMMA CommitReplay ==
  ASSUME TypeInv, TxnInv, Running, ~Applying, ~CommitLanded, LogWhole, CommitsLast, StampsOK,
         FilesLogged, BlocksLogged, FsidsLogged, SameDisk, NoLeakNoSharing,
         NEW w \in Volume, SplitOK(w), WholeLog(w, k), CommitsEnd(w, k, k),
         w.inode = view.inode, w.zone = view.zone, w.hdr = view.hdr,
         \A t \in (H + 1)..(k - 1) : SectorAt(w, t) = SectorAt(view, t),
         \A r : r \in TxnRecs <=>
                  /\ r.t \in {"map", "inode"}
                  /\ \E s \in (lastcommit + 1)..k : \E i \in DOMAIN SectorAt(w, s).recs :
                       r = SectorAt(w, s).recs[i]
  PROVE  /\ \A f \in Fsids :
              RecoveredFiles(w)[f] = IF f \in Touched THEN txn[f] ELSE RecoveredFiles(view)[f]
         /\ \A b \in Blocks : b \in RecoveredAlloc(w) <=>
              b \in Gains \/ (b \in RecoveredAlloc(view) /\ b \notin Losses)
         /\ vol_hdr.next_fsid <= RecoveredNextFsid(w) /\ RecoveredNextFsid(w) \in Nat
         /\ RecoveredNextFsid(view) <= RecoveredNextFsid(w)
         /\ \A f \in Touched : f + 1 <= RecoveredNextFsid(w)
         /\ \/ RecoveredNextFsid(w) = vol_hdr.next_fsid
            \/ \E f \in Touched : RecoveredNextFsid(w) = f + 1
         /\ Gains \cap Losses = {}
         /\ \A f \in Fsids : RecoveredFiles(view)[f] = view.inode[f]
         /\ \A b \in Blocks : b \in RecoveredAlloc(view) <=> b \in zmap[ZoneOf[b]].alloc
<1> DEFINE C == PlacesUpto(view, lastcommit)
           Q == UNION {{<<s, i>> : i \in DOMAIN SectorAt(w, s).recs} : s \in (lastcommit + 1)..k}
<1>1. /\ Frontier = lastcommit /\ Batch = {} /\ ToApply = {}
      /\ H \in Nat /\ k \in Nat /\ k - 1 \in Nat /\ lastcommit \in Nat /\ view \in Volume
      /\ H <= lastcommit /\ lastcommit <= k - 1 /\ k - 1 <= H + NSectors /\ NSectors \in Nat
      /\ H = view.hdr.stamp
  BY NoBatch, RunFacts, RunTypes DEF H
<1>2. C = Committed(view) /\ \A p \in C : IsPlace(view, p)
  BY <1>1, RunFacts
<1>3. k <= w.hdr.stamp + NSectors
  BY DEF WholeLog
<1>4. Committed(w) = PlacesUpto(w, k) /\ \A p \in PlacesUpto(w, k) : IsPlace(w, p)
  BY <1>1, <1>3, CommittedPlaces, UptoIsPlaces
<1>5. \A p : p \in C <=> \E s \in (H + 1)..lastcommit : \E i \in DOMAIN SectorAt(w, s).recs : p = <<s, i>>
  <2>1. \A s \in (H + 1)..lastcommit : SectorAt(w, s) = SectorAt(view, s)
    BY <1>1
  <2> QED BY <1>1, <2>1, PlaceUptoIs
<1>6. \A p : p \in Q <=> \E s \in (lastcommit + 1)..k : \E i \in DOMAIN SectorAt(w, s).recs : p = <<s, i>>
  OBVIOUS
<1>7. \A p : p \in PlacesUpto(w, k) <=>
               \E s \in (H + 1)..k : \E i \in DOMAIN SectorAt(w, s).recs : p = <<s, i>>
  BY <1>1, PlaceUptoIs
<1> HIDE DEF C, Q
<1>8. C \cup Q = PlacesUpto(w, k)
  <2>1. \A s : s \in (H + 1)..k <=> s \in (H + 1)..lastcommit \/ s \in (lastcommit + 1)..k
    BY <1>1
  <2> QED BY <1>5, <1>6, <1>7, <2>1
<1>9. \A p \in C, q \in Q : p[1] < q[1]
  BY <1>1, <1>5, <1>6
<1>10. \A p \in C : RecAt(w, p) = RecAt(view, p)
  <2>1. \A s \in (H + 1)..lastcommit : SectorAt(w, s) = SectorAt(view, s)
    BY <1>1
  <2> QED BY <1>5, <2>1 DEF RecAt
<1>11. \A q \in Q, z \in Zones : q[1] > view.zone[z].stamp
  <2>1. \A z \in Zones : view.zone[z].stamp <= lastcommit /\ view.zone[z].stamp \in Nat
    BY <1>1 DEF StampsOK, Volume
  <2> QED BY <1>1, <1>6, <2>1
<1>12. /\ \A f \in Fsids :
              /\ InodePlaces(w, Q, f) = {} => RecoveredFiles(w)[f] = RecoveredFiles(view)[f]
              /\ InodePlaces(w, Q, f) # {} =>
                   \E q \in InodePlaces(w, Q, f) : RecoveredFiles(w)[f] = RecAt(w, q).blks
       /\ \A b \in Blocks :
              /\ MapPlaces(w, Q, b) = {} => (b \in RecoveredAlloc(w) <=> b \in RecoveredAlloc(view))
              /\ MapPlaces(w, Q, b) # {} =>
                   \E q \in MapPlaces(w, Q, b) : b \in RecoveredAlloc(w) <=> ~RecAt(w, q).free
       /\ RecoveredNextFsid(view) <= RecoveredNextFsid(w)
       /\ \A f \in Fsids : InodePlaces(w, Q, f) # {} => f + 1 <= RecoveredNextFsid(w)
       /\ \/ RecoveredNextFsid(w) = RecoveredNextFsid(view)
          \/ \E f \in Fsids : InodePlaces(w, Q, f) # {} /\ RecoveredNextFsid(w) = f + 1
  <2>1. C \cup Q = Committed(w) /\ \A p \in C \cup Q : IsPlace(w, p)
    BY <1>4, <1>8
  <2> QED BY <1>1, <1>2, <1>9, <1>10, <1>11, <2>1, MoreReplay
<1>13. \A q \in Q : RecAt(w, q) \in Rec /\ (RecAt(w, q).t \in {"map", "inode"} => RecAt(w, q) \in TxnRecs)
  <2> SUFFICES ASSUME NEW s \in (lastcommit + 1)..k, NEW i \in DOMAIN SectorAt(w, s).recs
               PROVE  /\ SectorAt(w, s).recs[i] \in Rec
                      /\ SectorAt(w, s).recs[i].t \in {"map", "inode"} => SectorAt(w, s).recs[i] \in TxnRecs
    BY <1>6 DEF RecAt
  <2>1. s \in Nat
    BY <1>1
  <2>2. SectorAt(w, s).recs \in Seq(Rec)
    BY <2>1, SectorType DEF Sector
  <2> QED BY <2>2
<1>14. \A r \in TxnRecs : r.t \in {"map", "inode"} /\ \E q \in Q : RecAt(w, q) = r
  <2> SUFFICES ASSUME NEW r \in TxnRecs PROVE r.t \in {"map", "inode"} /\ \E q \in Q : RecAt(w, q) = r
    OBVIOUS
  <2>1. PICK s \in (lastcommit + 1)..k : \E i \in DOMAIN SectorAt(w, s).recs : r = SectorAt(w, s).recs[i]
    OBVIOUS
  <2>2. PICK i \in DOMAIN SectorAt(w, s).recs : r = SectorAt(w, s).recs[i]
    BY <2>1
  <2>3. <<s, i>> \in Q /\ RecAt(w, <<s, i>>) = r
    BY <1>6, <2>2 DEF RecAt
  <2> QED BY <2>3
<1>15. \A f \in Fsids : \A q \in InodePlaces(w, Q, f) : f \in Touched /\ RecAt(w, q).blks = txn[f]
  BY <1>13, RecShape, TxnChanges DEF InodePlaces
<1>16. \A f \in Touched : f \in Fsids /\ InodePlaces(w, Q, f) # {}
  <2> SUFFICES ASSUME NEW f \in Touched PROVE f \in Fsids /\ InodePlaces(w, Q, f) # {}
    OBVIOUS
  <2>1. f \in Fsids /\ InodeRec(f, txn[f]) \in TxnRecs
    BY TxnChanges
  <2>2. PICK q \in Q : RecAt(w, q) = InodeRec(f, txn[f])
    BY <1>14, <2>1
  <2> QED BY <2>1, <2>2, RecFields DEF InodePlaces
<1>17. \A b \in Blocks : \A q \in MapPlaces(w, Q, b) :
         IF RecAt(w, q).free THEN b \in Losses ELSE b \in Gains
  <2> SUFFICES ASSUME NEW b \in Blocks, NEW q \in MapPlaces(w, Q, b)
               PROVE  IF RecAt(w, q).free THEN b \in Losses ELSE b \in Gains
    OBVIOUS
  <2>1. /\ RecAt(w, q).free \in BOOLEAN /\ RecAt(w, q) \in TxnRecs
        /\ RecAt(w, q) = MapRec(b, RecAt(w, q).free)
    BY <1>13, RecShape DEF MapPlaces
  <2>2. CASE RecAt(w, q).free = TRUE
    <3>1. MapRec(b, TRUE) \in TxnRecs
      BY <2>1, <2>2
    <3> QED BY <2>2, <3>1, TxnChanges
  <2>3. CASE RecAt(w, q).free = FALSE
    <3>1. MapRec(b, FALSE) \in TxnRecs
      BY <2>1, <2>3
    <3> QED BY <2>3, <3>1, TxnChanges
  <2> QED BY <2>1, <2>2, <2>3
<1>18. \A b \in Blocks : b \in Losses \cup Gains => MapPlaces(w, Q, b) # {}
  <2> SUFFICES ASSUME NEW b \in Blocks, b \in Losses \cup Gains PROVE MapPlaces(w, Q, b) # {}
    OBVIOUS
  <2>1. PICK x \in BOOLEAN : MapRec(b, x) \in TxnRecs
    BY TxnChanges
  <2>2. PICK q \in Q : RecAt(w, q) = MapRec(b, x)
    BY <1>14, <2>1
  <2> QED BY <2>2, RecFields DEF MapPlaces
<1>19. /\ \A f \in Fsids : RecoveredFiles(view)[f] = view.inode[f]
       /\ \A b \in Blocks : b \in RecoveredAlloc(view) <=> b \in zmap[ZoneOf[b]].alloc
       /\ RecoveredNextFsid(view) = vol_hdr.next_fsid
  BY <1>1 DEF FilesLogged, BlocksLogged, FsidsLogged
<1>20. Gains \cap Losses = {}
  <2> SUFFICES ASSUME NEW f \in Fsids, NEW g \in Fsids, NEW b \in Gained(f), b \in Lost(g) PROVE FALSE
    BY DEF Gains, Losses
  <2>1. view = disk
    BY DEF SameDisk, Running
  <2>2. b \in view.inode[g] /\ b \in Blocks
    BY <1>1 DEF Lost, Volume
  <2>3. b \in RecoveredAlloc(view)
    BY <1>19, <2>1, <2>2 DEF NoLeakNoSharing
  <2> QED BY <1>19, <2>2, <2>3 DEF TxnInv, GainedIsOurs
<1>21. RecoveredNextFsid(w) \in Nat
  BY NextFsidIs
<1>22. \A f \in Fsids :
          RecoveredFiles(w)[f] = IF f \in Touched THEN txn[f] ELSE RecoveredFiles(view)[f]
  BY <1>12, <1>15, <1>16
<1>23. \A b \in Blocks : b \in RecoveredAlloc(w) <=>
          b \in Gains \/ (b \in RecoveredAlloc(view) /\ b \notin Losses)
  BY <1>12, <1>17, <1>18, <1>20
<1>24. \/ RecoveredNextFsid(w) = vol_hdr.next_fsid
       \/ \E f \in Touched : RecoveredNextFsid(w) = f + 1
  BY <1>12, <1>15, <1>19
<1>25. \A f \in Touched : f + 1 <= RecoveredNextFsid(w)
  BY <1>12, <1>16
<1>26. vol_hdr.next_fsid <= RecoveredNextFsid(w) /\ RecoveredNextFsid(view) <= RecoveredNextFsid(w)
  BY <1>12, <1>19
<1> QED BY <1>19, <1>20, <1>21, <1>22, <1>23, <1>24, <1>25, <1>26

\* What a replay finds then is a volume without leak and without sharing, and memory
\* comes to it as the entries of the commit are applied.
LEMMA CommitLogged ==
  ASSUME TypeInv, TxnInv, Running, ~Applying, ~CommitLanded, LogWhole, CommitsLast, StampsOK,
         FilesLogged, BlocksLogged, FsidsLogged, SameDisk, NoLeakNoSharing,
         TypeInv', WholeLog(view', k), CommitsEnd(view', k, k),
         view'.inode = view.inode, view'.zone = view.zone, view'.hdr = view.hdr,
         \A t \in (H + 1)..(k - 1) : SectorAt(view', t) = SectorAt(view, t),
         \A r : r \in TxnRecs <=>
                  /\ r.t \in {"map", "inode"}
                  /\ \E s \in (lastcommit + 1)..k : \E i \in DOMAIN SectorAt(view', s).recs :
                       r = SectorAt(view', s).recs[i],
         disk' = view', zmap' = zmap, vol_hdr' = vol_hdr,
         Batch' = TxnRecs, ToApply' = TxnRecs
  PROVE  FilesLogged' /\ BlocksLogged' /\ FsidsLogged' /\ NoLeakNoSharing'
<1> DEFINE F == RecoveredFiles(view)
           A == RecoveredAlloc(view)
           F1 == RecoveredFiles(view')
           A1 == RecoveredAlloc(view')
           n1 == RecoveredNextFsid(view')
<1>1. view' \in Volume /\ SplitOK(view')
  BY DEF TypeInv, TypeOK
<1>2. /\ \A f \in Fsids : F1[f] = IF f \in Touched THEN txn[f] ELSE F[f]
      /\ \A b \in Blocks : b \in A1 <=> b \in Gains \/ (b \in A /\ b \notin Losses)
      /\ vol_hdr.next_fsid <= n1 /\ n1 \in Nat /\ RecoveredNextFsid(view) <= n1
      /\ \A f \in Touched : f + 1 <= n1
      /\ n1 = vol_hdr.next_fsid \/ \E f \in Touched : n1 = f + 1
      /\ Gains \cap Losses = {}
      /\ \A f \in Fsids : F[f] = view.inode[f]
      /\ \A b \in Blocks : b \in A <=> b \in zmap[ZoneOf[b]].alloc
  BY <1>1, CommitReplay
<1>3. view = disk
  BY DEF SameDisk, Running
<1>4. /\ A = UNION {F[f] : f \in Fsids}
      /\ \A f, g \in Fsids : f # g => F[f] \cap F[g] = {}
      /\ \A f \in Fsids : F[f] # {} => f < RecoveredNextFsid(view)
  BY <1>3 DEF NoLeakNoSharing
<1>5. /\ A \subseteq Blocks /\ A1 \subseteq Blocks
      /\ \A f \in Fsids : F[f] \subseteq Blocks /\ F[f] = view.inode[f]
      /\ RecoveredNextFsid(view) \in Nat /\ Fsids \subseteq Nat
  BY <1>2, RunTypes, NextFsidIs, ConstantsOK DEF RecoveredAlloc, Volume
<1>6. /\ \A f \in Fsids : Gained(f) \subseteq Gains /\ Lost(f) \subseteq Losses
      /\ \A b \in Gains : \E f \in Fsids : b \in Gained(f)
      /\ \A b \in Losses : \E f \in Fsids : b \in Lost(f)
      /\ \A f \in Fsids : Gained(f) \subseteq Blocks
      /\ \A f \in Fsids : Lost(f) \subseteq F[f]
      /\ Touched \subseteq Fsids
  BY <1>5, TxnChanges DEF Gains, Losses, Gained, Touched
<1>7. \A f \in Fsids : F1[f] = (F[f] \ Lost(f)) \cup Gained(f)
  BY <1>2, <1>5, TxnChanges
<1>8. \A f \in Fsids : \A b \in Gained(f) : b \notin A /\ \A g \in Fsids \ {f} : b \notin Gained(g)
  BY <1>2, <1>6 DEF TxnInv, GainedIsOurs
<1> HIDE DEF F, A, F1, A1, n1
<1>9. \A b \in Blocks : b \in A1 <=> \E f \in Fsids : b \in F1[f]
  <2> SUFFICES ASSUME NEW b \in Blocks PROVE b \in A1 <=> \E f \in Fsids : b \in F1[f]
    OBVIOUS
  <2>1. ASSUME b \in Gains PROVE b \in A1 /\ \E f \in Fsids : b \in F1[f]
    BY <1>2, <1>6, <1>7, <2>1
  <2>2. ASSUME b \notin Gains, b \in A, b \notin Losses PROVE b \in A1 /\ \E f \in Fsids : b \in F1[f]
    BY <1>2, <1>4, <1>6, <1>7, <2>2
  <2>3. ASSUME b \notin Gains, b \notin A PROVE b \notin A1 /\ ~\E f \in Fsids : b \in F1[f]
    BY <1>2, <1>4, <1>6, <1>7, <2>3
  <2>4. ASSUME b \notin Gains, b \in Losses PROVE b \notin A1 /\ ~\E f \in Fsids : b \in F1[f]
    <3>1. b \notin A1
      BY <1>2, <2>4
    <3>2. PICK g \in Fsids : b \in Lost(g)
      BY <1>6, <2>4
    <3>3. ASSUME NEW f \in Fsids, b \in F1[f] PROVE FALSE
      <4>1. b \in F[f] /\ b \notin Lost(f)
        BY <1>6, <1>7, <2>4, <3>3
      <4>2. b \in F[g] /\ f # g
        BY <1>6, <3>2, <4>1
      <4> QED BY <1>4, <4>1, <4>2
    <3> QED BY <3>1, <3>3
  <2> QED BY <2>1, <2>2, <2>3, <2>4
<1>10. A1 = UNION {F1[f] : f \in Fsids}
  <2>1. \A f \in Fsids : F1[f] \subseteq Blocks
    BY <1>5, <1>6, <1>7
  <2> QED BY <1>5, <1>9, <2>1
<1>11. ASSUME NEW f \in Fsids, NEW g \in Fsids, f # g PROVE F1[f] \cap F1[g] = {}
  <2>1. \A b \in Gained(f) : b \notin Gained(g) /\ b \notin F[g]
    BY <1>4, <1>8, <1>11
  <2>2. \A b \in Gained(g) : b \notin Gained(f) /\ b \notin F[f]
    BY <1>4, <1>8, <1>11
  <2>3. F[f] \cap F[g] = {}
    BY <1>4, <1>11
  <2> QED BY <1>7, <2>1, <2>2, <2>3
<1>12. ASSUME NEW f \in Fsids, F1[f] # {} PROVE f < n1
  <2>1. CASE f \in Touched
    BY <1>2, <1>5, <2>1
  <2>2. CASE f \notin Touched
    BY <1>2, <1>4, <1>5, <1>12, <2>2
  <2> QED BY <2>1, <2>2
<1>13. NoLeakNoSharing'
  <2>1. RecoveredFiles(disk') = F1 /\ RecoveredAlloc(disk') = A1 /\ RecoveredNextFsid(disk') = n1
    BY DEF F1, A1, n1
  <2> QED BY <1>10, <1>11, <1>12, <2>1 DEF NoLeakNoSharing
<1>14. FilesLogged'
  <2>1. \A f \in Fsids : \A B : InodeRec(f, B) \in TxnRecs <=> f \in Touched /\ B = txn[f]
    BY TxnChanges
  <2> QED BY <1>2, <1>5, <2>1 DEF FilesLogged, F1
<1>15. BlocksLogged'
  <2>1. /\ \A b \in Blocks : MapRec(b, TRUE) \in TxnRecs <=> b \in Losses
        /\ \A b \in Blocks : MapRec(b, FALSE) \in TxnRecs <=> b \in Gains
    BY TxnChanges
  <2>2. \A b \in Blocks, x \in BOOLEAN : MapRec(b, x) \in TxnRecs => (b \in A1 <=> ~x)
    BY <1>2, <2>1
  <2>3. \A b \in Blocks : (b \in A1 <=> b \in zmap[ZoneOf[b]].alloc)
                            \/ \E x \in BOOLEAN : MapRec(b, x) \in TxnRecs
    BY <1>2, <2>1
  <2> QED BY <2>2, <2>3 DEF BlocksLogged, A1
<1>16. FsidsLogged'
  <2>1. \A f \in Fsids : \A B : InodeRec(f, B) \in TxnRecs <=> f \in Touched /\ B = txn[f]
    BY TxnChanges
  <2>2. \A f \in Touched : f \in Fsids /\ txn[f] \in SUBSET Blocks
    BY TxnChanges
  <2>3. \A f \in Fsids, B \in SUBSET Blocks : InodeRec(f, B) \in TxnRecs => f < n1
    BY <1>2, <1>5, <2>1
  <2>4. \/ n1 = vol_hdr.next_fsid
        \/ \E f \in Fsids, B \in SUBSET Blocks : InodeRec(f, B) \in TxnRecs /\ n1 = f + 1
    BY <1>2, <2>1, <2>2
  <2> QED BY <1>2, <2>3, <2>4 DEF FsidsLogged, n1
<1> QED BY <1>13, <1>14, <1>15, <1>16

-----------------------------------------------------------------------------
(* What a step leaves as it was.                                           *)

\* A step that changes nothing a replay finds, and nothing in memory.
LEMMA SameLogged ==
  ASSUME Running, SameDisk, FilesLogged, BlocksLogged, FsidsLogged, NoLeakNoSharing,
         RecoveredFiles(view') = RecoveredFiles(view),
         RecoveredAlloc(view') = RecoveredAlloc(view),
         RecoveredNextFsid(view') = RecoveredNextFsid(view),
         disk' = view', view'.inode = view.inode, vol_hdr'.next_fsid = vol_hdr.next_fsid,
         \A b \in Blocks : b \in zmap'[ZoneOf[b]].alloc <=> b \in zmap[ZoneOf[b]].alloc,
         Batch' = Batch, ToApply' = ToApply
  PROVE  FilesLogged' /\ BlocksLogged' /\ FsidsLogged' /\ NoLeakNoSharing'
<1>1. view = disk
  BY DEF SameDisk, Running
<1>2. NoLeakNoSharing'
  BY <1>1 DEF NoLeakNoSharing
<1>3. FilesLogged'
  BY DEF FilesLogged
<1>4. BlocksLogged'
  BY DEF BlocksLogged
<1>5. FsidsLogged'
  BY DEF FsidsLogged
<1> QED BY <1>2, <1>3, <1>4, <1>5

\* The open transaction is as it was.
LEMMA SameTxn ==
  ASSUME txn' = txn, view'.inode = view.inode
  PROVE  /\ Touched' = Touched /\ Gains' = Gains /\ Losses' = Losses /\ TxnRecs' = TxnRecs
         /\ TxnUnits' = TxnUnits
<1>1. /\ Touched' = Touched
      /\ \A f : Gained(f)' = Gained(f) /\ Lost(f)' = Lost(f)
  BY DEF Touched, Gained, Lost
<1>2. Gains' = Gains /\ Losses' = Losses
  BY <1>1 DEF Gains, Losses
<1> QED BY <1>1, <1>2 DEF TxnRecs, TxnUnits

\* The stamps stay as they are while no zone map and no header is written.
LEMMA SameStamps ==
  ASSUME StampsOK, Running, view'.zone = view.zone, zmap' = zmap, vol_hdr' = vol_hdr,
         lastcommit' = lastcommit, pc' # "zsync"
  PROVE  StampsOK'
BY DEF StampsOK

-----------------------------------------------------------------------------
(* An entry is added to the log.                                           *)

\* A sequence of entries with one more behind it.
LEMMA RangeAppend ==
  ASSUME NEW q \in Seq(Rec), NEW r \in Rec
  PROVE  /\ Append(q, r) \in Seq(Rec) /\ Len(Append(q, r)) = Len(q) + 1
         /\ \A i \in 1..Len(q) : Append(q, r)[i] = q[i]
         /\ Append(q, r)[Len(q) + 1] = r
         /\ DOMAIN Append(q, r) = 1..(Len(q) + 1) /\ DOMAIN q = 1..Len(q)
         /\ Len(q) \in Nat
         /\ \A x : (\E i \in DOMAIN Append(q, r) : x = Append(q, r)[i])
                     <=> (x = r \/ \E i \in DOMAIN q : x = q[i])
<1>1. /\ Append(q, r) \in Seq(Rec) /\ Len(Append(q, r)) = Len(q) + 1
      /\ \A i \in 1..Len(q) : Append(q, r)[i] = q[i]
      /\ Append(q, r)[Len(q) + 1] = r
      /\ DOMAIN Append(q, r) = 1..(Len(q) + 1) /\ DOMAIN q = 1..Len(q)
      /\ Len(q) \in Nat
  OBVIOUS
<1>2. \A i : i \in 1..(Len(q) + 1) <=> i \in 1..Len(q) \/ i = Len(q) + 1
  BY <1>1
<1> QED BY <1>1, <1>2

\* The entry goes into the sector being filled, or fills it.
Fills(r) ==
  /\ view' = view /\ disk' = disk
  /\ current_log'.stamp = k /\ current_log'.first = current_log.first
  /\ current_log'.recs = Append(current_log.recs, r)
  /\ current_log'.size = current_log.size + UnitsOf(r) /\ current_log'.size > 0
WritesOut(r, s) ==
  /\ s \in Sector /\ s.stamp = k /\ s.first = current_log.first
  /\ s.recs = Append(current_log.recs, r)
  /\ view' = [view EXCEPT !.log[Slot(s.stamp)] = s] /\ disk' = view'
  /\ current_log'.stamp = k + 1 /\ current_log'.first = s.split /\ current_log'.recs = <<>>
  /\ current_log'.size = UnitsOf(r) - (Cap - current_log.size)
  /\ s.split <=> current_log'.size # 0

\* An entry either fits in the sector being filled or has it written (mfs_log_add_entry).
LEMMA AddRecIs ==
  ASSUME TypeInv, mode = "rw", NEW r \in Rec, AddRec(r)
  PROVE  Fills(r) \/ \E s : WritesOut(r, s)
<1> DEFINE space == Cap - current_log.size
           split == UnitsOf(r) > space
           full  == [stamp |-> current_log.stamp, first |-> current_log.first,
                     recs |-> Append(current_log.recs, r), split |-> split]
<1>1. /\ current_log \in [stamp : Nat, first : BOOLEAN, recs : Seq(Rec), size : 0..(Cap - 1)]
      /\ Cap \in Nat /\ UnitsOf(r) \in {1, 2}
  BY UnitsType, ConstantsOK DEF TypeInv, TypeOK
<1>2. CASE HasRoom(r)
  <2>1. /\ current_log' = [current_log EXCEPT !.recs = Append(@, r), !.size = @ + UnitsOf(r)]
        /\ UNCHANGED <<disk, view>>
    BY <1>2 DEF AddRec
  <2> QED BY <1>1, <2>1 DEF Fills, k
<1>3. CASE ~HasRoom(r)
  <2>1. /\ WriteVol([view EXCEPT !.log[Slot(full.stamp)] = full])
        /\ current_log' = EmptyLog(full.stamp + 1, split, UnitsOf(r) - space)
    BY <1>3 DEF AddRec
  <2>2. Append(current_log.recs, r) \in Seq(Rec)
    BY <1>1
  <2>3. split \in BOOLEAN
    OBVIOUS
  <2>4. full \in Sector /\ full.stamp = k /\ full.first = current_log.first
        /\ full.recs = Append(current_log.recs, r)
    BY <1>1, <2>2, <2>3 DEF Sector, k
  <2>5. split <=> UnitsOf(r) - space # 0
    BY <1>1, <1>3 DEF HasRoom
  <2>6. full.split = split
    OBVIOUS
  <2> HIDE DEF full, split
  <2>9. full.split <=> UnitsOf(r) - space # 0
    BY <2>5, <2>6
  <2>7. view' = [view EXCEPT !.log[Slot(full.stamp)] = full] /\ disk' = view'
    BY <2>1 DEF WriteVol
  <2>8. /\ current_log'.stamp = k + 1 /\ current_log'.first = full.split
        /\ current_log'.recs = <<>> /\ current_log'.size = UnitsOf(r) - space
    BY <2>1, <2>4, <2>6 DEF EmptyLog
  <2> QED BY <2>4, <2>7, <2>8, <2>9 DEF WritesOut
<1> QED BY <1>2, <1>3

\* What a step that adds an entry r does besides.
Adding(r) ==
  /\ r \in Rec
  /\ \/ \E b \in Blocks : AddsMap(r, b)
     \/ \E f \in Fsids : AddsInode(r, f)
     \/ AddsCommit(r) \/ AddsSync(r)
  /\ pc = "add" /\ pc' \in {"add", "ready", "close"}
  /\ UNCHANGED <<mode, lastcommit, lastsync, zmap, vol_hdr, txn>>
  /\ ~Applying /\ ~CommitLanded /\ ~Applying'
  /\ r.t = "commit" <=> (pc' = "close" /\ call' = "commit")
  /\ Running'

\* What adding the next entry of a call comes to.
LEMMA AddingIs ==
  ASSUME TypeInv, CallOK, Running, AddEntry
  PROVE  \E r \in Rec : Adding(r) /\ (Fills(r) \/ \E s : WritesOut(r, s))
<1>1. /\ pc = "add" /\ UNCHANGED <<mode, lastcommit, lastsync, zmap, vol_hdr, txn>>
      /\ mode = "rw"
  BY DEF AddEntry, memvars, Running
<1>2. PICK r \in Rec : /\ AddRec(r)
                       /\ \/ \E b \in Blocks : AddsMap(r, b)
                          \/ \E f \in Fsids : AddsInode(r, f)
                          \/ AddsCommit(r) \/ AddsSync(r)
  BY AddEntryIs
<1>3. Fills(r) \/ \E s : WritesOut(r, s)
  BY <1>1, <1>2, AddRecIs
<1>4. ~Applying /\ ~CommitLanded
  BY <1>1 DEF Applying, CommitLanded
<1>5. current_log' # NoLog
  BY <1>2, LogMoves
<1>6. /\ pc' \in {"add", "ready", "close"}
      /\ r.t = "commit" <=> (pc' = "close" /\ call' = "commit")
  <2>1. ASSUME NEW b \in Blocks, AddsMap(r, b) PROVE <1>6
    BY <2>1 DEF AddsMap, MapRec
  <2>2. ASSUME NEW f \in Fsids, AddsInode(r, f) PROVE <1>6
    BY <2>2, RecFields DEF AddsInode
  <2>3. CASE AddsCommit(r)
    BY <2>3, RecFields DEF AddsCommit
  <2>4. CASE AddsSync(r)
    BY <2>4, RecFields DEF AddsSync
  <2> QED BY <1>2, <2>1, <2>2, <2>3, <2>4
<1>7. ~Applying'
  BY <1>6 DEF Applying
<1>8. Running'
  BY <1>1, <1>5, <1>6 DEF Running
<1> QED BY <1>1, <1>2, <1>3, <1>4, <1>6, <1>7, <1>8 DEF Adding

\* No sector is written: a replay finds what it found.
LEMMA FillsKeeps ==
  ASSUME TypeInv, TypeInv', TxnInv, RecoveryInv, Running, NEW r, Adding(r), Fills(r)
  PROVE  /\ LogWhole' /\ CommitsLast' /\ FilesLogged' /\ BlocksLogged' /\ FsidsLogged'
         /\ NoLeakNoSharing' /\ SameDisk'
<1>1. /\ r \in Rec /\ view' = view /\ disk' = disk /\ disk = view
      /\ k' = k /\ H' = H /\ lastcommit' = lastcommit /\ zmap' = zmap /\ vol_hdr' = vol_hdr
      /\ current_log'.first = current_log.first /\ current_log'.size > 0
      /\ current_log'.recs = Append(current_log.recs, r)
      /\ \A i \in DOMAIN current_log.recs : current_log.recs[i].t # "commit"
      /\ ~Applying' /\ Running' /\ pc = "add"
  BY DEF Adding, Fills, k, H, RecoveryInv, SameDisk, Running, CommitsLast
<1>2. ~CommitLanded'
  BY <1>1 DEF CommitLanded
<1>3. /\ Frontier = lastcommit /\ Frontier' = lastcommit
      /\ Batch = {} /\ Batch' = {} /\ ToApply = {} /\ ToApply' = {}
  BY <1>1, <1>2, NoBatch, NoBatchNext DEF Adding
<1>4. LogWhole'
  BY <1>1, <1>3 DEF LogWhole, RecoveryInv
<1>5. SameDisk'
  BY <1>1 DEF SameDisk
<1>6. FilesLogged' /\ BlocksLogged' /\ FsidsLogged' /\ NoLeakNoSharing'
  <2>1. /\ RecoveredFiles(view') = RecoveredFiles(view)
        /\ RecoveredAlloc(view') = RecoveredAlloc(view)
        /\ RecoveredNextFsid(view') = RecoveredNextFsid(view)
        /\ disk' = view' /\ view'.inode = view.inode
    BY <1>1
  <2> QED BY <1>1, <1>3, <2>1, SameLogged DEF RecoveryInv
<1>7. CommitsLast'
  <2>1. CommitsEnd(view', k' - 1, Frontier')
    BY <1>1, <1>3 DEF RecoveryInv, CommitsLast
  <2>2. \A s \in (Frontier' + 1)..(k' - 1) : \A i \in DOMAIN SectorAt(view', s).recs :
          SectorAt(view', s).recs[i].t # "commit"
    BY <1>1, <1>3 DEF RecoveryInv, CommitsLast, RecsAt
  <2>3. /\ current_log.recs \in Seq(Rec) /\ DOMAIN current_log.recs = 1..Len(current_log.recs)
        /\ Len(current_log.recs) \in Nat
    BY RunTypes
  <2>4. \A i \in DOMAIN current_log'.recs : current_log'.recs[i].t = "commit" =>
          i = Len(current_log'.recs) /\ r.t = "commit"
    BY <1>1, <2>3, RangeAppend
  <2>5. r.t = "commit" => EndsInCommit(current_log'.recs)
    BY <1>1, <2>3, RangeAppend DEF EndsInCommit
  <2> QED BY <2>1, <2>2, <2>4, <2>5 DEF CommitsLast, Adding, RecsAt
<1> QED BY <1>4, <1>5, <1>6, <1>7

-----------------------------------------------------------------------------
(* A sector of the log is written.                                         *)

Written(s) ==
  /\ s \in Sector /\ s.stamp = k /\ s.first = current_log.first
  /\ view' = [view EXCEPT !.log[Slot(s.stamp)] = s] /\ disk' = view'

\* A sector that is written changes nothing else on the drives, and the log stays whole.
LEMMA SectorWritten ==
  ASSUME TypeInv, Running, LogWhole, CommitsLast, k <= H + NSectors, NEW s, Written(s)
  PROVE  /\ view'.inode = view.inode /\ view'.zone = view.zone /\ view'.hdr = view.hdr
         /\ H' = H
         /\ \A t \in (H + 1)..(k - 1) : SectorAt(view', t) = SectorAt(view, t)
         /\ SectorAt(view', k) = s
         /\ WholeLog(view', k)
<1>1. /\ k \in Nat /\ k - 1 \in Nat /\ H \in Nat /\ view \in Volume /\ H = view.hdr.stamp
      /\ (k - 1) + 1 = k
  BY RunTypes, RunFacts DEF H
<1>2. WholeLog(view, k - 1)
  BY DEF LogWhole
<1>3. k - 1 > view.hdr.stamp => s.first = SectorAt(view, k - 1).split
  BY <1>1 DEF LogWhole, Written
<1>4. /\ view'.inode = view.inode /\ view'.zone = view.zone /\ view'.hdr = view.hdr
      /\ \A t \in (view.hdr.stamp + 1)..(k - 1) : SectorAt(view', t) = SectorAt(view, t)
      /\ SectorAt(view', (k - 1) + 1) = s
      /\ WholeLog(view', (k - 1) + 1)
  BY <1>1, <1>2, <1>3, GrownLog DEF Written
<1> QED BY <1>1, <1>4 DEF H

\* It ends no commit: a replay finds what it found.
LEMMA NoCommitWritten ==
  ASSUME TypeInv, TypeInv', TxnInv, RecoveryInv, Running, ~Applying, ~CommitLanded,
         k <= H + NSectors, NEW s, Written(s),
         \A t \in (lastcommit + 1)..(k - 1) : \A i \in DOMAIN RecsAt(t) : RecsAt(t)[i].t # "commit",
         \A i \in DOMAIN s.recs : s.recs[i].t = "commit" => i = Len(s.recs) /\ s.split,
         ~Applying', ~CommitLanded', UNCHANGED <<zmap, vol_hdr, lastcommit>>
  PROVE  /\ CommitsEnd(view', k, lastcommit)
         /\ FilesLogged' /\ BlocksLogged' /\ FsidsLogged' /\ NoLeakNoSharing'
<1>1. /\ Frontier = lastcommit /\ Batch = {} /\ Batch' = {} /\ ToApply = {} /\ ToApply' = {}
  BY NoBatch, NoBatchNext
<1>2. /\ view'.inode = view.inode /\ view'.zone = view.zone /\ view'.hdr = view.hdr
      /\ \A t \in (H + 1)..(k - 1) : SectorAt(view', t) = SectorAt(view, t)
      /\ SectorAt(view', k) = s
      /\ WholeLog(view', k)
  BY SectorWritten DEF RecoveryInv
<1>3. /\ k \in Nat /\ k - 1 \in Nat /\ H \in Nat /\ view \in Volume /\ H = view.hdr.stamp
      /\ lastcommit \in Nat /\ H <= lastcommit /\ lastcommit <= k - 1 /\ (k - 1) + 1 = k
      /\ Committed(view) = PlacesUpto(view, lastcommit)
      /\ \A p \in PlacesUpto(view, lastcommit) : IsPlace(view, p)
  BY <1>1, RunTypes, RunFacts DEF H, RecoveryInv
<1>4. view' \in Volume /\ SplitOK(view')
  BY DEF TypeInv, TypeOK
<1>5. CommitsEnd(view, k - 1, lastcommit)
  BY <1>1 DEF RecoveryInv, CommitsLast
<1>6. CommitsEnd(view', (k - 1) + 1, lastcommit)
  <2>1. \A t \in (lastcommit + 1)..(k - 1) : \A i \in DOMAIN SectorAt(view, t).recs :
          SectorAt(view, t).recs[i].t # "commit"
    BY DEF RecsAt
  <2>2. \A i \in DOMAIN SectorAt(view', (k - 1) + 1).recs :
          SectorAt(view', (k - 1) + 1).recs[i].t = "commit" =>
             i = Len(SectorAt(view', (k - 1) + 1).recs) /\ SectorAt(view', (k - 1) + 1).split
    BY <1>2, <1>3
  <2>3. \A t \in (view.hdr.stamp + 1)..(k - 1) : SectorAt(view', t) = SectorAt(view, t)
    BY <1>2, <1>3
  <2> QED BY <1>2, <1>3, <1>4, <1>5, <2>1, <2>2, <2>3, GrownNoCommit
<1>7. CommitsEnd(view', k, lastcommit)
  BY <1>3, <1>6
<1>8. Committed(view') = PlacesUpto(view', lastcommit)
  BY <1>2, <1>3, <1>4, <1>7, CommittedPlaces
<1>9. \A t \in (H + 1)..lastcommit : SectorAt(view', t) = SectorAt(view, t)
  BY <1>2, <1>3
<1> DEFINE C == PlacesUpto(view, lastcommit)
<1>10. PlacesUpto(view', lastcommit) = C
  BY <1>2, <1>3, <1>9 DEF PlacesUpto
<1>11. \A p \in C : RecAt(view', p) = RecAt(view, p)
  BY <1>3, <1>9, PlaceUptoIs DEF RecAt
<1>12. C = Committed(view) /\ C = Committed(view') /\ \A p \in C : IsPlace(view, p)
  BY <1>3, <1>8, <1>10
<1> HIDE DEF C
<1>13. /\ RecoveredFiles(view') = RecoveredFiles(view)
       /\ RecoveredAlloc(view') = RecoveredAlloc(view)
       /\ RecoveredNextFsid(view') = RecoveredNextFsid(view)
  BY <1>2, <1>3, <1>4, <1>11, <1>12, SameReplay
<1>14. FilesLogged' /\ BlocksLogged' /\ FsidsLogged' /\ NoLeakNoSharing'
  BY <1>1, <1>2, <1>13, SameLogged DEF RecoveryInv, Written
<1> QED BY <1>7, <1>14

\* It ends a commit: a replay finds the open transaction.
LEMMA CommitWritten ==
  ASSUME TypeInv, TypeInv', TxnInv, RecoveryInv, Running, ~Applying, ~CommitLanded,
         k <= H + NSectors, NEW s, Written(s), ~s.split,
         \/ EndsInCommit(s.recs)
         \/ s.recs = <<>> /\ k - 1 > lastcommit /\ EndsInCommit(RecsAt(k - 1)),
         \A i \in DOMAIN s.recs : s.recs[i].t = "commit" => i = Len(s.recs),
         \A r : r \in TxnRecs <=>
                  /\ r.t \in {"map", "inode"}
                  /\ \/ \E t \in (lastcommit + 1)..(k - 1) : \E i \in DOMAIN SectorAt(view, t).recs :
                          r = SectorAt(view, t).recs[i]
                     \/ \E i \in DOMAIN s.recs : r = s.recs[i],
         Frontier' = k, ToApply' = Batch', UNCHANGED <<zmap, vol_hdr, lastcommit>>
  PROVE  /\ CommitsEnd(view', k, k)
         /\ FilesLogged' /\ BlocksLogged' /\ FsidsLogged' /\ NoLeakNoSharing'
<1>1. Frontier = lastcommit /\ Batch = {} /\ ToApply = {}
  BY NoBatch
<1>2. /\ view'.inode = view.inode /\ view'.zone = view.zone /\ view'.hdr = view.hdr
      /\ \A t \in (H + 1)..(k - 1) : SectorAt(view', t) = SectorAt(view, t)
      /\ SectorAt(view', k) = s
      /\ WholeLog(view', k)
  BY SectorWritten DEF RecoveryInv
<1>3. /\ k \in Nat /\ k - 1 \in Nat /\ H \in Nat /\ view \in Volume /\ H = view.hdr.stamp
      /\ lastcommit \in Nat /\ H <= lastcommit /\ lastcommit <= k - 1 /\ (k - 1) + 1 = k
  BY <1>1, RunTypes, RunFacts DEF H, RecoveryInv
<1>4. view' \in Volume /\ SplitOK(view')
  BY DEF TypeInv, TypeOK
<1>5. CommitsEnd(view, k - 1, lastcommit)
  BY <1>1 DEF RecoveryInv, CommitsLast
<1>6. CommitsEnd(view', (k - 1) + 1, (k - 1) + 1)
  <2>1. /\ \A i \in DOMAIN SectorAt(view', (k - 1) + 1).recs :
             SectorAt(view', (k - 1) + 1).recs[i].t = "commit" =>
               i = Len(SectorAt(view', (k - 1) + 1).recs)
        /\ ~SectorAt(view', (k - 1) + 1).split
        /\ \/ EndsInCommit(SectorAt(view', (k - 1) + 1).recs)
           \/ /\ SectorAt(view', (k - 1) + 1).recs = <<>> /\ k - 1 > view.hdr.stamp
              /\ EndsInCommit(SectorAt(view, k - 1).recs)
    BY <1>2, <1>3 DEF RecsAt
  <2>2. \A t \in (view.hdr.stamp + 1)..(k - 1) : SectorAt(view', t) = SectorAt(view, t)
    BY <1>2, <1>3
  <2> QED BY <1>2, <1>3, <1>4, <1>5, <2>1, <2>2, GrownCommit
<1>7. CommitsEnd(view', k, k)
  BY <1>3, <1>6
<1>8. \A r : r \in TxnRecs <=>
               /\ r.t \in {"map", "inode"}
               /\ \E t \in (lastcommit + 1)..k : \E i \in DOMAIN SectorAt(view', t).recs :
                    r = SectorAt(view', t).recs[i]
  <2>1. \A t : t \in (lastcommit + 1)..k <=> t \in (lastcommit + 1)..(k - 1) \/ t = k
    BY <1>3
  <2>2. \A t \in (lastcommit + 1)..(k - 1) : SectorAt(view', t) = SectorAt(view, t)
    BY <1>2, <1>3
  <2> QED BY <1>2, <2>1, <2>2, SMTT(40)
<1>9. Batch' = TxnRecs
  <2>1. \A r : r \in Batch' <=> r \in TxnRecs
    BY <1>8, BatchIs
  <2> QED BY <2>1
<1>10. FilesLogged' /\ BlocksLogged' /\ FsidsLogged' /\ NoLeakNoSharing'
  BY <1>2, <1>7, <1>8, <1>9, CommitLogged DEF RecoveryInv, Written
<1> QED BY <1>7, <1>10

\* What a call adds to the log, as sets of entries.
LEMMA OpenIs ==
  ASSUME NEW r
  PROVE  r \in OpenRecs <=>
           \/ \E t \in (lastcommit + 1)..(k - 1) : \E i \in DOMAIN SectorAt(view, t).recs :
                r = SectorAt(view, t).recs[i]
           \/ \E i \in DOMAIN current_log.recs : r = current_log.recs[i]
BY DEF OpenRecs, RecsIn, RecsAt, RecSet

\* The entries a call has left to add.
LEMMA TodoRecsAre ==
  ASSUME NEW r
  PROVE  r \in TodoRecs <=> \/ \E b \in todo.free : r = MapRec(b, TRUE)
                            \/ \E b \in todo.alloc : r = MapRec(b, FALSE)
                            \/ \E i \in DOMAIN todo.tail : r = todo.tail[i]
BY DEF TodoRecs, RecSet

\* Marks alone say nothing of files and blocks.
LEMMA NoDataTodo ==
  ASSUME \/ todo = NoTodo
         \/ \E t \in {"commit", "fssync"} : todo = [free |-> {}, alloc |-> {}, tail |-> <<Mark(t)>>]
         \/ todo = [free |-> {}, alloc |-> {}, tail |-> <<Mark("replay"), Mark("fssync")>>]
  PROVE  Data(TodoRecs) = {}
<1>1. todo.free = {} /\ todo.alloc = {}
  BY DEF NoTodo
<1>2. \A i \in DOMAIN todo.tail : todo.tail[i].t \notin {"map", "inode"}
  <2>1. CASE todo = NoTodo
    <3>1. todo.tail = <<>>
      BY <2>1 DEF NoTodo
    <3> QED BY <3>1
  <2>2. ASSUME NEW t \in {"commit", "fssync"}, todo = [free |-> {}, alloc |-> {}, tail |-> <<Mark(t)>>]
        PROVE  <1>2
    <3>1. todo.tail = <<Mark(t)>>
      BY <2>2
    <3> QED BY <3>1, RecFields
  <2>3. CASE todo = [free |-> {}, alloc |-> {}, tail |-> <<Mark("replay"), Mark("fssync")>>]
    <3>1. todo.tail = <<Mark("replay"), Mark("fssync")>>
      BY <2>3
    <3> QED BY <3>1, RecFields
  <2> QED BY <2>1, <2>2, <2>3
<1>3. \A r \in TodoRecs : r.t \notin {"map", "inode"}
  BY <1>1, <1>2, TodoRecsAre
<1> QED BY <1>3 DEF Data

\* An entry that has the sector before it written: the log, the files and the blocks stay
\* as required.
LEMMA WritesOutKeeps ==
  ASSUME TypeInv, TypeInv', TxnInv, RecoveryInv, Running, NEW r, Adding(r), NEW s, WritesOut(r, s),
         k <= H + NSectors
  PROVE  /\ LogWhole' /\ CommitsLast' /\ FilesLogged' /\ BlocksLogged' /\ FsidsLogged'
         /\ NoLeakNoSharing' /\ SameDisk'
<1>1. /\ r \in Rec /\ lastcommit' = lastcommit /\ zmap' = zmap /\ vol_hdr' = vol_hdr
      /\ current_log.recs \in Seq(Rec)
      /\ \A i \in DOMAIN current_log.recs : current_log.recs[i].t # "commit"
      /\ ~Applying /\ ~CommitLanded /\ ~Applying' /\ Running' /\ pc = "add"
      /\ r.t = "commit" <=> (pc' = "close" /\ call' = "commit")
  BY RunTypes DEF Adding, RecoveryInv, Running, CommitsLast
<1>2. /\ Written(s) /\ s.recs = Append(current_log.recs, r) /\ k' = k + 1 /\ k' - 1 = k
      /\ current_log'.first = s.split /\ current_log'.recs = <<>>
      /\ s.split <=> current_log'.size # 0
  BY RunTypes DEF WritesOut, Written, k
<1>3. Frontier = lastcommit
  BY <1>1, NoBatch
<1>4. /\ H' = H /\ SectorAt(view', k) = s /\ WholeLog(view', k)
      /\ \A t \in (H + 1)..(k - 1) : SectorAt(view', t) = SectorAt(view, t)
  BY <1>2, SectorWritten DEF RecoveryInv
<1>5. /\ k \in Nat /\ k - 1 \in Nat /\ H \in Nat /\ lastcommit \in Nat
      /\ H <= lastcommit /\ lastcommit <= k - 1
  BY <1>3, RunTypes, RunFacts DEF RecoveryInv
<1>6. \A i \in DOMAIN s.recs : s.recs[i].t = "commit" => i = Len(s.recs) /\ r.t = "commit"
  BY <1>1, <1>2, RangeAppend
<1>7. r.t = "commit" => EndsInCommit(s.recs)
  BY <1>1, <1>2, RangeAppend DEF EndsInCommit
<1>8. \A t \in (lastcommit + 1)..(k - 1) : \A i \in DOMAIN RecsAt(t) : RecsAt(t)[i].t # "commit"
  BY <1>1, <1>3 DEF RecoveryInv, CommitsLast
<1>9. /\ lastcommit <= Frontier' /\ CommitsEnd(view', k, Frontier')
      /\ FilesLogged' /\ BlocksLogged' /\ FsidsLogged' /\ NoLeakNoSharing'
  <2>1. CASE r.t = "commit" /\ ~s.split
    <3>1. CommitLanded'
      BY <1>1, <1>2, <2>1 DEF CommitLanded
    <3>2. Frontier' = k
      BY <1>1, <1>2, <3>1 DEF Frontier
    <3>3. ToApply' = Batch'
      BY <1>1 DEF ToApply
    <3>4. AddsCommit(r)
      BY <1>1, <2>1 DEF Adding, AddsMap, AddsInode, AddsSync
    <3>5. Data(TodoRecs) = {}
      BY <3>4, NoDataTodo DEF AddsCommit
    <3>6. TxnRecs = Data(OpenRecs)
      BY <1>1, <3>5 DEF RecoveryInv, TxnInLog
    <3>7. \A x : x \in TxnRecs <=>
                  /\ x.t \in {"map", "inode"}
                  /\ \/ \E t \in (lastcommit + 1)..(k - 1) : \E i \in DOMAIN SectorAt(view, t).recs :
                          x = SectorAt(view, t).recs[i]
                     \/ \E i \in DOMAIN s.recs : x = s.recs[i]
      <4>1. \A x : (\E i \in DOMAIN s.recs : x = s.recs[i])
                      <=> (x = r \/ \E i \in DOMAIN current_log.recs : x = current_log.recs[i])
        <5>1. \A x : (\E i \in DOMAIN Append(current_log.recs, r) : x = Append(current_log.recs, r)[i])
                       <=> (x = r \/ \E i \in DOMAIN current_log.recs : x = current_log.recs[i])
          BY <1>1, RangeAppend
        <5>2. s.recs = Append(current_log.recs, r)
          BY <1>2
        <5> QED BY <5>1, <5>2, Zenon
      <4>2. r.t \notin {"map", "inode"}
        BY <2>1
      <4>3. \A x : x \in TxnRecs <=> x \in OpenRecs /\ x.t \in {"map", "inode"}
        BY <3>6 DEF Data
      <4>4. \A x : x.t \in {"map", "inode"} => x # r
        BY <4>2
      <4>5. ASSUME NEW x, x.t \in {"map", "inode"}
            PROVE  x \in OpenRecs <=>
                     \/ \E t \in (lastcommit + 1)..(k - 1) : \E i \in DOMAIN SectorAt(view, t).recs :
                          x = SectorAt(view, t).recs[i]
                     \/ \E i \in DOMAIN s.recs : x = s.recs[i]
        <5>1. x # r
          BY <4>4, <4>5
        <5>2. (\E i \in DOMAIN s.recs : x = s.recs[i])
                <=> (\E i \in DOMAIN current_log.recs : x = current_log.recs[i])
          BY <4>1, <5>1, Zenon
        <5> QED BY <5>2, OpenIs, Zenon
      <4> SUFFICES ASSUME NEW x
                   PROVE  x \in TxnRecs <=>
                            /\ x.t \in {"map", "inode"}
                            /\ \/ \E t \in (lastcommit + 1)..(k - 1) : \E i \in DOMAIN SectorAt(view, t).recs :
                                    x = SectorAt(view, t).recs[i]
                               \/ \E i \in DOMAIN s.recs : x = s.recs[i]
        OBVIOUS
      <4>6. x \in TxnRecs <=> x \in OpenRecs /\ x.t \in {"map", "inode"}
        BY <4>3
      <4>7. CASE x.t \in {"map", "inode"}
        <5>1. x \in OpenRecs <=>
                \/ \E t \in (lastcommit + 1)..(k - 1) : \E i \in DOMAIN SectorAt(view, t).recs :
                     x = SectorAt(view, t).recs[i]
                \/ \E i \in DOMAIN s.recs : x = s.recs[i]
          BY <4>5, <4>7
        <5> QED BY <4>6, <4>7, <5>1, Zenon
      <4>8. CASE ~(x.t \in {"map", "inode"})
        BY <4>6, <4>8, Zenon
      <4> QED BY <4>7, <4>8
    <3>8. /\ CommitsEnd(view', k, k)
          /\ FilesLogged' /\ BlocksLogged' /\ FsidsLogged' /\ NoLeakNoSharing'
      BY <1>1, <1>2, <1>6, <1>7, <2>1, <3>2, <3>3, <3>7, CommitWritten
    <3> QED BY <1>5, <3>2, <3>8
  <2>2. CASE ~(r.t = "commit" /\ ~s.split)
    <3>1. ~CommitLanded'
      BY <1>1, <1>2, <2>2 DEF CommitLanded
    <3>2. Frontier' = lastcommit
      BY <1>1, <3>1 DEF Frontier
    <3>3. \A i \in DOMAIN s.recs : s.recs[i].t = "commit" => i = Len(s.recs) /\ s.split
      BY <1>6, <2>2
    <3>4. /\ CommitsEnd(view', k, lastcommit)
          /\ FilesLogged' /\ BlocksLogged' /\ FsidsLogged' /\ NoLeakNoSharing'
      BY <1>1, <1>2, <1>8, <3>1, <3>3, NoCommitWritten
    <3> QED BY <1>5, <3>2, <3>4
  <2> QED BY <2>1, <2>2
<1>10. LogWhole'
  BY <1>1, <1>2, <1>4, <1>5, <1>9 DEF LogWhole
<1>11. SameDisk'
  BY <1>2 DEF SameDisk, Written
<1>12. CommitsLast'
  <2>1. \A t \in (lastcommit + 1)..k : \A i \in DOMAIN SectorAt(view', t).recs :
          SectorAt(view', t).recs[i].t = "commit" => r.t = "commit"
    <3>1. \A t : t \in (lastcommit + 1)..k <=> t \in (lastcommit + 1)..(k - 1) \/ t = k
      BY <1>5
    <3>2. \A t \in (lastcommit + 1)..(k - 1) : SectorAt(view', t) = SectorAt(view, t)
      BY <1>4, <1>5
    <3> QED BY <1>4, <1>6, <1>8, <3>1, <3>2 DEF RecsAt
  <2>2. \A t \in (Frontier' + 1)..k : t \in (lastcommit + 1)..k
    <3>1. Frontier' = lastcommit \/ Frontier' = k
      BY <1>1, <1>2 DEF Frontier
    <3> QED BY <1>5, <1>9, <3>1
  <2>3. \A i \in DOMAIN current_log'.recs : FALSE
    BY <1>2
  <2>4. r.t = "commit" => k > lastcommit /\ EndsInCommit(SectorAt(view', k).recs)
    BY <1>4, <1>5, <1>7
  <2> QED BY <1>1, <1>2, <1>9, <2>1, <2>2, <2>3, <2>4 DEF CommitsLast, RecsAt
<1> QED BY <1>9, <1>10, <1>11, <1>12

\* What is added leaves what there is to do.
LEMMA AddedOpen ==
  ASSUME TypeInv, TypeInv', TxnInv, RecoveryInv, Running, NEW r, Adding(r),
         Fills(r) \/ \E s : WritesOut(r, s), k <= H + NSectors
  PROVE  \A x : x \in OpenRecs' <=> x \in OpenRecs \/ x = r
<1>1. /\ r \in Rec /\ current_log.recs \in Seq(Rec) /\ lastcommit' = lastcommit
      /\ ~Applying /\ ~CommitLanded
  BY RunTypes DEF Adding
<1>2. /\ k \in Nat /\ k - 1 \in Nat /\ H \in Nat /\ lastcommit \in Nat
      /\ H <= lastcommit /\ lastcommit <= k - 1
  BY <1>1, NoBatch, RunTypes, RunFacts DEF RecoveryInv
<1>3. \A x : x \in OpenRecs' <=>
           \/ \E t \in (lastcommit' + 1)..(k' - 1) : \E i \in DOMAIN SectorAt(view', t).recs :
                x = SectorAt(view', t).recs[i]
           \/ \E i \in DOMAIN current_log'.recs : x = current_log'.recs[i]
  BY DEF OpenRecs, RecsIn, RecsAt, RecSet
<1>4. \A x : (\E i \in DOMAIN Append(current_log.recs, r) : x = Append(current_log.recs, r)[i])
               <=> (x = r \/ \E i \in DOMAIN current_log.recs : x = current_log.recs[i])
  BY <1>1, RangeAppend
<1>5. CASE Fills(r)
  <2>1. /\ k' = k /\ view' = view /\ current_log'.recs = Append(current_log.recs, r)
    BY <1>5 DEF Fills, k
  <2> QED BY <1>1, <1>3, <1>4, <2>1, OpenIs
<1>6. ASSUME NEW s, WritesOut(r, s) PROVE \A x : x \in OpenRecs' <=> x \in OpenRecs \/ x = r
  <2>1. Written(s) /\ k' - 1 = k /\ current_log'.recs = <<>>
    BY <1>6, RunTypes DEF WritesOut, Written, k
  <2>2. s.recs = Append(current_log.recs, r)
    BY <1>6 DEF WritesOut
  <2>3. /\ SectorAt(view', k) = s
        /\ \A t \in (H + 1)..(k - 1) : SectorAt(view', t) = SectorAt(view, t)
    BY <2>1, SectorWritten DEF RecoveryInv
  <2>4. \A t : t \in (lastcommit + 1)..k <=> t \in (lastcommit + 1)..(k - 1) \/ t = k
    BY <1>2
  <2>5. \A t \in (lastcommit + 1)..(k - 1) : SectorAt(view', t) = SectorAt(view, t)
    BY <1>2, <2>3
  <2>6. \A x : (\E t \in (lastcommit + 1)..k : \E i \in DOMAIN SectorAt(view', t).recs :
                   x = SectorAt(view', t).recs[i])
           <=> \/ \E t \in (lastcommit + 1)..(k - 1) : \E i \in DOMAIN SectorAt(view, t).recs :
                    x = SectorAt(view, t).recs[i]
               \/ \E i \in DOMAIN SectorAt(view', k).recs : x = SectorAt(view', k).recs[i]
    BY <2>4, <2>5
  <2>7. SectorAt(view', k).recs = Append(current_log.recs, r)
    BY <2>2, <2>3
  <2>8. ~\E i \in DOMAIN current_log'.recs : TRUE
    BY <2>1
  <2>9. \A x : x \in OpenRecs' <=>
          \E t \in (lastcommit + 1)..k : \E i \in DOMAIN SectorAt(view', t).recs :
             x = SectorAt(view', t).recs[i]
    BY <1>1, <1>3, <2>1, <2>8
  <2>10. \A x : (\E i \in DOMAIN SectorAt(view', k).recs : x = SectorAt(view', k).recs[i])
                  <=> (x = r \/ \E i \in DOMAIN current_log.recs : x = current_log.recs[i])
    BY <1>4, <2>7, Zenon
  <2> QED BY <2>6, <2>9, <2>10, OpenIs
<1> QED BY <1>5, <1>6

\* An entry that is added was one of those to come.
LEMMA AddedTodo ==
  ASSUME TypeInv, NEW r, Adding(r)
  PROVE  \A x : x \in TodoRecs <=> x \in TodoRecs' \/ x = r
<1> DEFINE F(b) == MapRec(b, TRUE)
           A(b) == MapRec(b, FALSE)
           Tail0(x) == \E i \in DOMAIN todo.tail : x = todo.tail[i]
           Tail1(x) == \E i \in DOMAIN todo'.tail : x = todo'.tail[i]
<1>1. todo \in [free : SUBSET Blocks, alloc : SUBSET Blocks, tail : Seq(Rec)]
  BY DEF TypeInv, TypeOK
<1>2. \A x : /\ x \in TodoRecs <=> \/ \E b \in todo.free : x = F(b)
                                   \/ \E b \in todo.alloc : x = A(b)
                                   \/ Tail0(x)
             /\ x \in TodoRecs' <=> \/ \E b \in todo'.free : x = F(b)
                                    \/ \E b \in todo'.alloc : x = A(b)
                                    \/ Tail1(x)
  BY DEF TodoRecs, RecSet
<1>3. ASSUME NEW b \in todo.free, r = MapRec(b, TRUE), todo' = [todo EXCEPT !.free = @ \ {b}]
      PROVE  \A x : x \in TodoRecs <=> x \in TodoRecs' \/ x = r
  <2>1. todo'.free = todo.free \ {b} /\ todo'.alloc = todo.alloc /\ todo'.tail = todo.tail
    BY <1>1, <1>3
  <2>2. r = F(b) /\ \A x : Tail0(x) <=> Tail1(x)
    BY <1>3, <2>1
  <2> HIDE DEF F, A, Tail0, Tail1
  <2> QED BY <1>2, <2>1, <2>2
<1>4. ASSUME NEW b \in todo.alloc, r = MapRec(b, FALSE), todo' = [todo EXCEPT !.alloc = @ \ {b}]
      PROVE  \A x : x \in TodoRecs <=> x \in TodoRecs' \/ x = r
  <2>1. todo'.free = todo.free /\ todo'.alloc = todo.alloc \ {b} /\ todo'.tail = todo.tail
    BY <1>1, <1>4
  <2>2. r = A(b) /\ \A x : Tail0(x) <=> Tail1(x)
    BY <1>4, <2>1
  <2> HIDE DEF F, A, Tail0, Tail1
  <2> QED BY <1>2, <2>1, <2>2
<1>5. ASSUME todo = [free |-> {}, alloc |-> {}, tail |-> <<r>>], todo' = NoTodo
      PROVE  \A x : x \in TodoRecs <=> x \in TodoRecs' \/ x = r
  <2>1. /\ todo.free = {} /\ todo.alloc = {} /\ todo.tail = <<r>>
        /\ todo'.free = {} /\ todo'.alloc = {} /\ todo'.tail = <<>>
    BY <1>5 DEF NoTodo
  <2>2. \A x : (Tail0(x) <=> x = r) /\ ~Tail1(x)
    BY <2>1
  <2> HIDE DEF F, A, Tail0, Tail1
  <2> QED BY <1>2, <2>1, <2>2
<1>6. ASSUME NEW q, todo = [free |-> {}, alloc |-> {}, tail |-> <<r, q>>],
             todo' = [free |-> {}, alloc |-> {}, tail |-> <<q>>]
      PROVE  \A x : x \in TodoRecs <=> x \in TodoRecs' \/ x = r
  <2>1. /\ todo.free = {} /\ todo.alloc = {} /\ todo.tail = <<r, q>>
        /\ todo'.free = {} /\ todo'.alloc = {} /\ todo'.tail = <<q>>
    BY <1>6
  <2>2. \A x : (Tail0(x) <=> x = r \/ x = q) /\ (Tail1(x) <=> x = q)
    BY <2>1
  <2> HIDE DEF F, A, Tail0, Tail1
  <2> QED BY <1>2, <2>1, <2>2
<1> QED BY <1>3, <1>4, <1>5, <1>6 DEF Adding, AddsMap, AddsInode, AddsCommit, AddsSync

\* The entries in the log and to come still are those of the open transaction.
LEMMA TxnInLogAdded ==
  ASSUME TypeInv, TypeInv', TxnInv, RecoveryInv, Running, NEW r, Adding(r),
         Fills(r) \/ \E s : WritesOut(r, s), k <= H + NSectors
  PROVE  TxnInLog' /\ view'.inode = view.inode /\ view'.zone = view.zone /\ H' = H
<1>1. view'.inode = view.inode /\ view'.zone = view.zone /\ H' = H
  <2>1. CASE Fills(r)
    BY <2>1 DEF Fills, H
  <2>2. ASSUME NEW s, WritesOut(r, s) PROVE <1>1
    <3>1. Written(s)
      BY <2>2 DEF WritesOut, Written
    <3> QED BY <3>1, SectorWritten DEF RecoveryInv
  <2> QED BY <2>1, <2>2
<1>2. TxnRecs' = TxnRecs
  BY <1>1, SameTxn DEF Adding
<1>3. Data(OpenRecs) \cup Data(TodoRecs) = TxnRecs
  BY DEF Adding, RecoveryInv, TxnInLog
<1>4. \A x : x \in OpenRecs' \cup TodoRecs' <=> x \in OpenRecs \cup TodoRecs
  BY AddedOpen, AddedTodo
<1>5. Data(OpenRecs)' \cup Data(TodoRecs)' = TxnRecs
  BY <1>3, <1>4 DEF Data
<1> QED BY <1>1, <1>2, <1>5 DEF TxnInLog

-----------------------------------------------------------------------------
(* How full the log is.                                                    *)

\* The blocks and the inodes of a transaction can be counted.
LEMMA FiniteBlocks ==
  /\ \A S \in SUBSET Blocks : IsFiniteSet(S) /\ Cardinality(S) \in Nat
  /\ \A S \in SUBSET Fsids : IsFiniteSet(S) /\ Cardinality(S) \in Nat
BY DrivesFinite, FS_Subset, FS_CardinalityType

\* The lengths of the entries and of the log.
LEMMA UnitLens ==
  /\ MapLen \in {1, 2} /\ InodeLen \in {1, 2} /\ MarkLen \in {1, 2}
  /\ Cap \in Nat \ {0} /\ NSectors \in Nat \ {0} /\ Half \in Nat
  /\ SyncLen \in Nat /\ SyncLen <= 2 * MarkLen
  /\ \A n \in Nat : Beyond(n) \in Nat
<1>1. /\ MapLen \in {1, 2} /\ InodeLen \in {1, 2} /\ MarkLen \in {1, 2}
      /\ Cap \in Nat \ {0} /\ NSectors \in Nat \ {0}
  BY ConstantsOK
<1>2. Half \in Nat
  BY <1>1 DEF Half
<1>3. \A n \in Nat : Beyond(n) \in Nat
  BY <1>1, DivFacts DEF Beyond
<1>4. SyncLen \in Nat /\ SyncLen <= 2 * MarkLen
  BY <1>1 DEF SyncLen
<1> QED BY <1>1, <1>2, <1>3, <1>4

\* The units to come and of the transaction are numbers.
LEMMA UnitTypes == TypeInv => TodoUnits \in Nat /\ TxnUnits \in Nat
<1> SUFFICES ASSUME TypeInv PROVE TodoUnits \in Nat /\ TxnUnits \in Nat
  OBVIOUS
<1>1. /\ todo.free \in SUBSET Blocks /\ todo.alloc \in SUBSET Blocks /\ todo.tail \in Seq(Rec)
      /\ view.inode \in [Fsids -> SUBSET Blocks] /\ txn \in [Fsids -> {NoChange} \cup SUBSET Blocks]
  BY DEF TypeInv, TypeOK, Volume
<1>2. Len(todo.tail) \in Nat
  BY <1>1
<1>3. Gains \cup Losses \in SUBSET Blocks
  BY <1>1 DEF Gains, Losses, Gained, Lost
<1>4. Touched \in SUBSET Fsids
  BY DEF Touched
<1>5. TodoUnits \in Nat
  <2>1. Cardinality(todo.free) \in Nat /\ Cardinality(todo.alloc) \in Nat
    BY <1>1, FiniteBlocks
  <2>2. \A m \in {1, 2}, i \in {1, 2}, n \in Nat, p \in Nat, q \in Nat : m * (n + p) + i * q \in Nat
    OBVIOUS
  <2> QED BY <1>2, <2>1, <2>2, UnitLens DEF TodoUnits
<1>6. TxnUnits \in Nat
  <2>1. Cardinality(Gains \cup Losses) \in Nat /\ Cardinality(Touched) \in Nat
    BY <1>3, <1>4, FiniteBlocks
  <2>2. \A m \in {1, 2}, i \in {1, 2}, n \in Nat, q \in Nat : m * n + i * q \in Nat
    OBVIOUS
  <2> QED BY <2>1, <2>2, UnitLens DEF TxnUnits
<1> QED BY <1>5, <1>6

\* Nothing to do takes no room, and a mark or two little.
MarkUnits ==
  /\ todo = NoTodo => TodoUnits = 0
  /\ \A r : todo = [free |-> {}, alloc |-> {}, tail |-> <<r>>] =>
              TodoUnits = IF call = "log" THEN InodeLen ELSE MarkLen
  /\ \A r, q : todo = [free |-> {}, alloc |-> {}, tail |-> <<r, q>>] =>
              TodoUnits = (IF call = "log" THEN InodeLen ELSE MarkLen) * 2

\* The units of a call that has only marks to add,
LEMMA TodoUnitsAre == MarkUnits
<1>1. Cardinality({}) = 0
  BY FS_EmptySet
<1>2. MapLen * (0 + 0) = 0 /\ MarkLen * 0 = 0 /\ InodeLen * 0 = 0 /\ MarkLen * 1 = MarkLen
      /\ InodeLen * 1 = InodeLen /\ MarkLen \in Nat /\ InodeLen \in Nat
  BY UnitLens
<1>3. ASSUME todo = NoTodo PROVE TodoUnits = 0
  <2>1. todo.free = {} /\ todo.alloc = {} /\ Len(todo.tail) = 0
    BY <1>3 DEF NoTodo
  <2> QED BY <1>1, <1>2, <2>1 DEF TodoUnits
<1>4. ASSUME NEW r, todo = [free |-> {}, alloc |-> {}, tail |-> <<r>>]
      PROVE  TodoUnits = IF call = "log" THEN InodeLen ELSE MarkLen
  <2>1. todo.free = {} /\ todo.alloc = {} /\ Len(todo.tail) = 1
    BY <1>4
  <2> QED BY <1>1, <1>2, <2>1 DEF TodoUnits
<1>5. ASSUME NEW r, NEW q, todo = [free |-> {}, alloc |-> {}, tail |-> <<r, q>>]
      PROVE  TodoUnits = (IF call = "log" THEN InodeLen ELSE MarkLen) * 2
  <2>1. todo.free = {} /\ todo.alloc = {} /\ Len(todo.tail) = 2
    BY <1>5
  <2> QED BY <1>1, <1>2, <2>1 DEF TodoUnits
<1> QED BY <1>3, <1>4, <1>5 DEF MarkUnits

\* and the same after a step.
LEMMA TodoUnitsNext == MarkUnits'
BY TodoUnitsAre, PTL

\* An entry takes its units from what there is to do.
LEMMA TodoShrinks ==
  ASSUME TypeInv, NEW r, Adding(r)
  PROVE  TodoUnits = TodoUnits' + UnitsOf(r)
<1>1. /\ todo \in [free : SUBSET Blocks, alloc : SUBSET Blocks, tail : Seq(Rec)]
      /\ MapLen \in Nat /\ InodeLen \in Nat /\ MarkLen \in Nat
  <2>1. todo \in [free : SUBSET Blocks, alloc : SUBSET Blocks, tail : Seq(Rec)]
    BY DEF TypeInv, TypeOK
  <2>2. MapLen \in Nat /\ InodeLen \in Nat /\ MarkLen \in Nat
    BY UnitLens
  <2> QED BY <2>1, <2>2
<1>2. /\ \A b : UnitsOf(MapRec(b, TRUE)) = MapLen /\ UnitsOf(MapRec(b, FALSE)) = MapLen
      /\ \A f, B : UnitsOf(InodeRec(f, B)) = InodeLen
      /\ \A t \in {"commit", "fssync", "replay"} : UnitsOf(Mark(t)) = MarkLen
  <2>1. \A q : /\ q.t = "map" => UnitsOf(q) = MapLen
               /\ q.t = "inode" => UnitsOf(q) = InodeLen
               /\ q.t \in {"commit", "fssync", "replay"} => UnitsOf(q) = MarkLen
    BY DEF UnitsOf
  <2>2. \A b : MapRec(b, TRUE).t = "map" /\ MapRec(b, FALSE).t = "map"
    BY DEF MapRec
  <2>3. \A b : UnitsOf(MapRec(b, TRUE)) = MapLen /\ UnitsOf(MapRec(b, FALSE)) = MapLen
    BY <2>1, <2>2
  <2>4. \A f, B : UnitsOf(InodeRec(f, B)) = InodeLen
    BY <2>1, RecFields
  <2>5. \A t \in {"commit", "fssync", "replay"} : UnitsOf(Mark(t)) = MarkLen
    BY <2>1, RecFields
  <2> QED BY <2>3, <2>4, <2>5
<1>3. ASSUME NEW b \in Blocks, AddsMap(r, b) PROVE TodoUnits = TodoUnits' + UnitsOf(r)
  <2>1. /\ call = "log" /\ call' = "log" /\ UnitsOf(r) = MapLen
        /\ \/ /\ b \in todo.free /\ todo'.free = todo.free \ {b} /\ todo'.alloc = todo.alloc
           \/ /\ b \in todo.alloc /\ todo'.alloc = todo.alloc \ {b} /\ todo'.free = todo.free
        /\ todo'.tail = todo.tail
    BY <1>1, <1>2, <1>3 DEF AddsMap
  <2>2. /\ IsFiniteSet(todo.free) /\ Cardinality(todo.free) \in Nat
        /\ IsFiniteSet(todo.alloc) /\ Cardinality(todo.alloc) \in Nat
        /\ Len(todo.tail) \in Nat
    BY <1>1, FiniteBlocks
  <2>3. /\ b \in todo.free => Cardinality(todo.free \ {b}) = Cardinality(todo.free) - 1
        /\ b \in todo.alloc => Cardinality(todo.alloc \ {b}) = Cardinality(todo.alloc) - 1
    BY <2>2, FS_RemoveElement
  <2>4. Cardinality(todo'.free) + Cardinality(todo'.alloc)
          = Cardinality(todo.free) + Cardinality(todo.alloc) - 1
    <3>1. CASE b \in todo.free /\ todo'.free = todo.free \ {b} /\ todo'.alloc = todo.alloc
      <4>1. Cardinality(todo'.free) = Cardinality(todo.free) - 1
        BY <2>3, <3>1
      <4>2. Cardinality(todo'.alloc) = Cardinality(todo.alloc)
        BY <3>1
      <4> QED BY <2>2, <4>1, <4>2
    <3>2. CASE b \in todo.alloc /\ todo'.alloc = todo.alloc \ {b} /\ todo'.free = todo.free
      <4>1. Cardinality(todo'.alloc) = Cardinality(todo.alloc) - 1
        BY <2>3, <3>2
      <4>2. Cardinality(todo'.free) = Cardinality(todo.free)
        BY <3>2
      <4> QED BY <2>2, <4>1, <4>2
    <3> QED BY <2>1, <3>1, <3>2
  <2>5. \A n \in Nat, p \in Int : p = n - 1 => MapLen * n = MapLen * p + MapLen
    BY <1>1
  <2>6. Cardinality(todo'.free) + Cardinality(todo'.alloc) \in Int
    BY <2>2, <2>4
  <2>7. MapLen * (Cardinality(todo.free) + Cardinality(todo.alloc))
          = MapLen * (Cardinality(todo'.free) + Cardinality(todo'.alloc)) + MapLen
    BY <2>2, <2>4, <2>5, <2>6
  <2>8. InodeLen * Len(todo.tail) \in Nat
    BY <1>1, <2>2
  <2>9. MapLen * (Cardinality(todo'.free) + Cardinality(todo'.alloc)) \in Int
    BY <1>1, <2>6
  <2> QED BY <1>1, <2>1, <2>7, <2>8, <2>9 DEF TodoUnits
<1>4. ASSUME NEW f \in Fsids, AddsInode(r, f) PROVE TodoUnits = TodoUnits' + UnitsOf(r)
  <2>1. TodoUnits = InodeLen
    BY <1>4, TodoUnitsAre DEF MarkUnits, AddsInode
  <2>2. TodoUnits' = 0 /\ UnitsOf(r) = InodeLen
    BY <1>2, <1>4, TodoUnitsNext DEF MarkUnits, AddsInode
  <2> QED BY <1>1, <2>1, <2>2
<1>5. ASSUME AddsCommit(r) PROVE TodoUnits = TodoUnits' + UnitsOf(r)
  <2>1. TodoUnits = MarkLen
    BY <1>5, TodoUnitsAre DEF MarkUnits, AddsCommit
  <2>2. TodoUnits' = 0 /\ UnitsOf(r) = MarkLen
    BY <1>2, <1>5, TodoUnitsNext DEF MarkUnits, AddsCommit
  <2> QED BY <1>1, <2>1, <2>2
<1>6. ASSUME AddsSync(r) PROVE TodoUnits = TodoUnits' + UnitsOf(r)
  <2>1. UnitsOf(r) = MarkLen /\ call = "fssync" /\ call' = "fssync"
    BY <1>2, <1>6 DEF AddsSync
  <2>2. CASE /\ todo = [free |-> {}, alloc |-> {}, tail |-> <<r, Mark("fssync")>>]
             /\ todo' = [free |-> {}, alloc |-> {}, tail |-> <<Mark("fssync")>>]
    <3>1. TodoUnits = MarkLen * 2
      BY <2>1, <2>2, TodoUnitsAre DEF MarkUnits
    <3>2. TodoUnits' = MarkLen
      BY <2>1, <2>2, TodoUnitsNext DEF MarkUnits
    <3> QED BY <1>1, <2>1, <3>1, <3>2
  <2>3. CASE todo = [free |-> {}, alloc |-> {}, tail |-> <<r>>] /\ todo' = NoTodo
    <3>1. TodoUnits = MarkLen
      BY <2>1, <2>3, TodoUnitsAre DEF MarkUnits
    <3>2. TodoUnits' = 0
      BY <2>1, <2>3, TodoUnitsNext DEF MarkUnits
    <3> QED BY <1>1, <2>1, <3>1, <3>2
  <2> QED BY <1>6, <2>2, <2>3 DEF AddsSync
<1> QED BY <1>3, <1>4, <1>5, <1>6 DEF Adding

\* The units in the log and those to come stay what they were.
LEMMA UnitsKept ==
  ASSUME TypeInv, TypeInv', NEW r, Adding(r), Fills(r) \/ \E s : WritesOut(r, s), NEW b \in Int
  PROVE  (k' - b) * Cap + current_log'.size + TodoUnits'
           = (k - b) * Cap + current_log.size + TodoUnits
<1>1. /\ k \in Nat /\ current_log.size \in Nat /\ Cap \in Nat /\ UnitsOf(r) \in Nat
      /\ TodoUnits \in Nat /\ TodoUnits = TodoUnits' + UnitsOf(r)
  BY RunTypes, UnitTypes, UnitsType, TodoShrinks DEF Adding
<1>4. TodoUnits' \in Nat
  <2>1. TypeInv' => (TodoUnits \in Nat /\ TxnUnits \in Nat)'
    BY UnitTypes, PTL
  <2> QED BY <2>1
<1>2. CASE Fills(r)
  <2>1. k' = k /\ current_log'.size = current_log.size + UnitsOf(r)
    BY <1>2 DEF Fills, k
  <2>2. (k - b) * Cap \in Int
    BY <1>1
  <2> QED BY <1>1, <1>4, <2>1, <2>2
<1>3. ASSUME NEW s, WritesOut(r, s)
      PROVE  (k' - b) * Cap + current_log'.size + TodoUnits'
               = (k - b) * Cap + current_log.size + TodoUnits
  <2>1. k' = k + 1 /\ current_log'.size = UnitsOf(r) - (Cap - current_log.size)
    BY <1>3 DEF WritesOut, k
  <2>2. (k + 1 - b) * Cap = (k - b) * Cap + Cap /\ (k - b) * Cap \in Int
    BY <1>1
  <2> QED BY <1>1, <1>4, <2>1, <2>2
<1> QED BY <1>2, <1>3

\* More units go over no fewer sectors.
LEMMA BeyondGrows ==
  ASSUME NEW m \in Nat, NEW n \in Nat, m <= n
  PROVE  Beyond(m) <= Beyond(n)
<1>1. Cap \in Nat \ {0} /\ m \div Cap \in Nat /\ Cap * (m \div Cap) <= m
  BY UnitLens, DivFacts
<1>2. (m \div Cap) * Cap <= n /\ m \div Cap \in Int
  BY <1>1
<1> QED BY <1>1, <1>2, DivBound DEF Beyond

\* The sector being filled is never one that a replay needs, and behind a commit there
\* is room for a sync.
LEMMA RoomLeft ==
  ASSUME NEW n \in Nat, Fits(n), ShortTxn(n), TypeInv, TxnInv, RecoveryInv, Running, ~Applying,
         pc \in {"ready", "add", "close"}
  PROVE  /\ k <= H + NSectors
         /\ call # "fssync" => k + 1 + Beyond(MarkLen) <= H + NSectors
<1>1. /\ k \in Nat /\ H \in Nat /\ lastcommit \in Nat /\ NSectors \in Nat /\ Cap \in Nat \ {0}
      /\ current_log.size \in Nat /\ TodoUnits \in Nat /\ TxnUnits \in Nat
      /\ MarkLen \in Nat /\ SyncLen \in Nat /\ SyncLen <= 2 * MarkLen /\ Half \in Nat
      /\ H <= lastcommit /\ 2 * MarkLen \in Nat
  BY RunTypes, RunFacts, UnitTypes, UnitLens DEF RecoveryInv
<1>2. /\ Beyond(n) \in Nat /\ Beyond(MarkLen) \in Nat /\ Beyond(SyncLen) \in Nat
      /\ Beyond(2 * MarkLen) \in Nat /\ Beyond(SyncLen) <= Beyond(2 * MarkLen)
  BY <1>1, UnitLens, BeyondGrows
<1>3. CASE call = "fssync"
  <2>1. (k - (lastcommit + 1)) * Cap + current_log.size + TodoUnits <= SyncLen
    BY <1>3 DEF RecoveryInv, LogRoom, CallOK
  <2>2. (k - (lastcommit + 1)) * Cap \in Int /\ k - (lastcommit + 1) \in Int
    BY <1>1
  <2>3. (k - (lastcommit + 1)) * Cap <= SyncLen
    BY <1>1, <2>1, <2>2
  <2>4. k - (lastcommit + 1) <= Beyond(SyncLen)
    BY <1>1, <2>2, <2>3, DivBound DEF Beyond
  <2>5. lastcommit + 1 + Beyond(SyncLen) <= H + NSectors
    BY <1>3 DEF RecoveryInv, LogRoom
  <2> QED BY <1>1, <1>2, <1>3, <2>4, <2>5
<1>4. CASE call # "fssync"
  <2>1. /\ (k - Base) * Cap + current_log.size + TodoUnits
             <= TxnUnits + (IF call = "commit" THEN MarkLen ELSE 0)
        /\ H = lastcommit \/ lastcommit <= Half
    BY <1>4 DEF RecoveryInv, LogRoom
  <2>2. TxnUnits + MarkLen <= n
    BY DEF ShortTxn
  <2>3. Base \in Nat
    BY <1>1, <1>2 DEF Base
  <2>4. (k - Base) * Cap \in Int /\ k - Base \in Int
    BY <1>1, <2>3
  <2>5. (k - Base) * Cap <= n
    BY <1>1, <2>1, <2>2, <2>4
  <2>6. k - Base <= Beyond(n)
    BY <1>1, <2>4, <2>5, DivBound DEF Beyond
  <2>7. CASE H = lastcommit
    <3>1. Base = lastcommit + 2 + Beyond(SyncLen)
      BY <2>7 DEF Base
    <3>2. 2 + Beyond(2 * MarkLen) + Beyond(n) + 1 + Beyond(MarkLen) <= NSectors
      BY DEF Fits
    <3> QED BY <1>1, <1>2, <2>3, <2>6, <2>7, <3>1, <3>2
  <2>8. CASE H # lastcommit
    <3>1. Base = lastcommit + 1 /\ lastcommit <= Half
      BY <2>1, <2>8 DEF Base
    <3>2. Half + 1 + Beyond(n) + 1 + Beyond(MarkLen) <= NSectors
      BY DEF Fits
    <3> QED BY <1>1, <1>2, <2>3, <2>6, <3>1, <3>2
  <2> QED BY <2>7, <2>8
<1> QED BY <1>3, <1>4

\* Adding an entry keeps the account of the room in the log.
LEMMA RoomAdded ==
  ASSUME TypeInv, TypeInv', TxnInv, RecoveryInv, Running, NEW r, Adding(r),
         Fills(r) \/ \E s : WritesOut(r, s), view'.inode = view.inode, H' = H
  PROVE  LogRoom'
<1>1. /\ lastcommit' = lastcommit /\ lastsync' = lastsync /\ Base' = Base /\ SyncLen' = SyncLen
      /\ ~Applying /\ ~Applying' /\ Running' /\ pc = "add" /\ pc' \in {"add", "ready", "close"}
  BY DEF Adding, Base, SyncLen
<1>2. TxnUnits' = TxnUnits
  BY SameTxn DEF Adding
<1>3. /\ k \in Nat /\ lastcommit \in Nat /\ Base \in Int
  <2>1. k \in Nat /\ lastcommit \in Nat /\ SyncLen \in Nat
    BY RunTypes, UnitLens
  <2>2. Beyond(SyncLen) \in Nat
    BY <2>1, UnitLens
  <2> QED BY <2>1, <2>2 DEF Base
<1>4. \/ call = "fssync" /\ call' = "fssync" /\ pc' \in {"add", "close"}
      \/ /\ call # "fssync" /\ call' # "fssync"
         /\ call' = "commit" <=> call = "commit"
  BY DEF Adding, AddsMap, AddsInode, AddsCommit, AddsSync
<1>5. CASE call = "fssync" /\ call' = "fssync" /\ pc' \in {"add", "close"}
  <2>1. (k' - (lastcommit + 1)) * Cap + current_log'.size + TodoUnits'
          = (k - (lastcommit + 1)) * Cap + current_log.size + TodoUnits
    BY <1>3, UnitsKept
  <2> QED BY <1>1, <1>5, <2>1 DEF RecoveryInv, LogRoom
<1>6. CASE call # "fssync" /\ call' # "fssync" /\ (call' = "commit" <=> call = "commit")
  <2>1. (k' - Base) * Cap + current_log'.size + TodoUnits'
          = (k - Base) * Cap + current_log.size + TodoUnits
    BY <1>3, UnitsKept
  <2> QED BY <1>1, <1>2, <1>6, <2>1 DEF RecoveryInv, LogRoom
<1> QED BY <1>4, <1>5, <1>6

\* Adding an entry (mfs_log_add_entry) keeps the whole invariant.
LEMMA RecoveryAddEntry ==
  ASSUME NEW n \in Nat, Fits(n), ShortTxn(n), TypeInv, TypeInv', TxnInv, RecoveryInv, Running, AddEntry
  PROVE  RecoveryInv'
<1>1. PICK r \in Rec : Adding(r) /\ (Fills(r) \/ \E s : WritesOut(r, s))
  BY AddingIs DEF RecoveryInv
<1>2. /\ mode' = mode /\ Running' /\ ~Applying /\ ~Applying' /\ pc = "add" /\ pc' # "zsync"
      /\ UNCHANGED <<lastcommit, zmap, vol_hdr>>
  BY <1>1 DEF Adding
<1>3. k <= H + NSectors
  BY <1>2, RoomLeft
<1>4. /\ LogWhole' /\ CommitsLast' /\ FilesLogged' /\ BlocksLogged' /\ FsidsLogged'
      /\ NoLeakNoSharing' /\ SameDisk'
  BY <1>1, <1>3, FillsKeeps, WritesOutKeeps
<1>5. TxnInLog' /\ view'.inode = view.inode /\ view'.zone = view.zone /\ H' = H
  BY <1>1, <1>3, TxnInLogAdded
<1>6. LogRoom'
  BY <1>1, <1>5, RoomAdded
<1>7. StampsOK'
  BY <1>2, <1>5, SameStamps DEF RecoveryInv
<1>8. LoaderOK' /\ BatchApplied' /\ FreshStart'
  BY <1>2 DEF LoaderOK, BatchApplied, FreshStart, Running
<1>9. CallOK'
  BY CallAddEntry DEF RecoveryInv
<1> QED BY <1>4, <1>5, <1>6, <1>7, <1>8, <1>9 DEF RecoveryInv

-----------------------------------------------------------------------------
(* The call ends its sector.                                               *)

\* The sector that CloseSector writes.
Closed == [stamp |-> current_log.stamp, first |-> current_log.first,
           recs |-> current_log.recs, split |-> FALSE]

\* The sector that ends a call, and the empty one that follows it
\* (mfs_log_write_current_log).
LEMMA ClosingIs ==
  ASSUME TypeInv, TypeInv', TxnInv, CallOK, Running, CloseSector
  PROVE  /\ Written(Closed) /\ Closed.recs = current_log.recs /\ ~Closed.split
         /\ Closed.first = current_log.first
         /\ current_log' = EmptyLog(k + 1, FALSE, 0) /\ k' = k + 1
         /\ current_log'.recs = <<>> /\ ~current_log'.first /\ current_log'.size = 0
         /\ UNCHANGED <<mode, call, lastcommit, lastsync, zmap, vol_hdr, todo>>
         /\ list' = <<>> /\ pc = "close" /\ todo' = NoTodo
         /\ call = "commit" \/ call = "fssync"
         /\ call = "commit" =>
              /\ pc' = "load" /\ txn' = NoTxn
              /\ ld' = [next |-> lastcommit + 1, last |-> k, part |-> <<>>]
         /\ call = "fssync" => pc' = "zsync" /\ zi' = 1 /\ txn' = txn
         /\ Running' /\ ~Applying
<1>1. /\ current_log \in [stamp : Nat, first : BOOLEAN, recs : Seq(Rec), size : 0..(Cap - 1)]
      /\ mode = "rw" /\ pc = "close" /\ todo = NoTodo /\ call \in {"commit", "fssync"}
  BY DEF TypeInv, TypeOK, CloseSector, Running, CallOK
<1>2. /\ Closed \in Sector /\ Closed.stamp = k /\ Closed.first = current_log.first
      /\ Closed.recs = current_log.recs /\ ~Closed.split
  BY <1>1 DEF Closed, Sector, k
<1>3. /\ WriteVol([view EXCEPT !.log[Slot(Closed.stamp)] = Closed])
      /\ current_log' = EmptyLog(Closed.stamp + 1, FALSE, 0)
      /\ IF call = "commit"
           THEN /\ pc' = "load"
                /\ ld' = [next |-> lastcommit + 1, last |-> Closed.stamp, part |-> <<>>]
                /\ txn' = NoTxn
           ELSE pc' = "zsync" /\ zi' = 1 /\ txn' = txn
      /\ list' = <<>>
      /\ UNCHANGED <<mode, call, lastcommit, lastsync, zmap, vol_hdr, todo>>
  BY DEF CloseSector, Closed, memvars
<1>4. Written(Closed)
  BY <1>1, <1>2, <1>3 DEF Written, WriteVol
<1>5. /\ current_log' = EmptyLog(k + 1, FALSE, 0) /\ k' = k + 1
      /\ current_log'.recs = <<>> /\ ~current_log'.first /\ current_log'.size = 0
  BY <1>2, <1>3 DEF EmptyLog, k
<1>6. Running'
  <2>1. k + 1 # 0
    BY RunTypes
  <2> QED BY <1>1, <1>3, <1>5, <2>1 DEF Running, NoLog, EmptyLog
<1> QED BY <1>1, <1>2, <1>3, <1>4, <1>5, <1>6 DEF Applying

\* A call that has nothing left to add, and its transaction in the log.
LEMMA TxnAllOpen ==
  ASSUME RecoveryInv, Running, ~Applying, todo = NoTodo
  PROVE  TxnRecs = Data(OpenRecs)
<1>1. Data(TodoRecs) = {}
  BY NoDataTodo
<1> QED BY <1>1 DEF RecoveryInv, TxnInLog

\* The sector that ends a commit brings the transaction into the log,
LEMMA CommitClosed ==
  ASSUME TypeInv, TypeInv', TxnInv, RecoveryInv, Running, CloseSector, call = "commit",
         ~CommitLanded, k <= H + NSectors, Frontier' = k, ToApply' = Batch'
  PROVE  /\ CommitsEnd(view', k, k)
         /\ FilesLogged' /\ BlocksLogged' /\ FsidsLogged' /\ NoLeakNoSharing'
<1>1. /\ Written(Closed) /\ Closed.recs = current_log.recs /\ ~Closed.split
      /\ UNCHANGED <<lastcommit, zmap, vol_hdr>> /\ pc = "close" /\ todo' = todo
      /\ todo' = NoTodo /\ ~Applying
  BY ClosingIs DEF RecoveryInv
<1>2. /\ \A i \in DOMAIN current_log.recs : current_log.recs[i].t = "commit" =>
           i = Len(current_log.recs)
      /\ \/ EndsInCommit(current_log.recs)
         \/ current_log.recs = <<>> /\ k - 1 > lastcommit /\ EndsInCommit(RecsAt(k - 1))
  BY <1>1 DEF RecoveryInv, CommitsLast
<1>3. TxnRecs = Data(OpenRecs)
  BY <1>1, TxnAllOpen
<1>4. \A r : r \in TxnRecs <=>
               /\ r.t \in {"map", "inode"}
               /\ \/ \E t \in (lastcommit + 1)..(k - 1) : \E i \in DOMAIN SectorAt(view, t).recs :
                       r = SectorAt(view, t).recs[i]
                  \/ \E i \in DOMAIN current_log.recs : r = current_log.recs[i]
  BY <1>3, OpenIs DEF Data
<1> HIDE DEF Closed
<1> QED BY <1>1, <1>2, <1>4, CommitWritten

\* or follows it, when the commit filled up the sector before.
LEMMA LandedClosed ==
  ASSUME TypeInv, TypeInv', TxnInv, RecoveryInv, Running, CloseSector, call = "commit",
         CommitLanded, k <= H + NSectors, Frontier' = k, ToApply' = Batch'
  PROVE  /\ CommitsEnd(view', k, k)
         /\ FilesLogged' /\ BlocksLogged' /\ FsidsLogged' /\ NoLeakNoSharing'
<1>1. /\ Written(Closed) /\ Closed.recs = current_log.recs /\ ~Closed.split
      /\ UNCHANGED <<lastcommit, zmap, vol_hdr>> /\ pc = "close" /\ ~Applying
  BY ClosingIs DEF RecoveryInv
<1>2. /\ current_log.recs = <<>> /\ Frontier = k - 1
      /\ k - 1 > lastcommit /\ EndsInCommit(RecsAt(k - 1))
  <2>1. current_log.recs = <<>>
    BY DEF CommitLanded, RecoveryInv, LogWhole
  <2>2. \/ EndsInCommit(current_log.recs)
        \/ (current_log.recs = <<>> /\ k - 1 > lastcommit /\ EndsInCommit(RecsAt(k - 1)))
    BY <1>1 DEF RecoveryInv, CommitsLast
  <2> QED BY <1>1, <2>1, <2>2 DEF EndsInCommit, Frontier
<1>3. /\ view'.inode = view.inode /\ view'.zone = view.zone /\ view'.hdr = view.hdr
      /\ \A t \in (H + 1)..(k - 1) : SectorAt(view', t) = SectorAt(view, t)
      /\ SectorAt(view', k) = Closed
      /\ WholeLog(view', k)
  BY <1>1, SectorWritten DEF RecoveryInv
<1>4. /\ k \in Nat /\ k - 1 \in Nat /\ H \in Nat /\ view \in Volume /\ H = view.hdr.stamp
      /\ lastcommit \in Nat /\ H <= lastcommit /\ lastcommit <= k - 1 /\ (k - 1) + 1 = k
      /\ Committed(view) = PlacesUpto(view, k - 1)
      /\ \A p \in PlacesUpto(view, k - 1) : IsPlace(view, p)
  BY <1>2, RunTypes, RunFacts DEF H, RecoveryInv
<1>5. view' \in Volume /\ SplitOK(view')
  BY DEF TypeInv, TypeOK
<1>6. CommitsEnd(view, k - 1, k - 1)
  BY <1>2 DEF RecoveryInv, CommitsLast
<1>7. CommitsEnd(view', (k - 1) + 1, (k - 1) + 1)
  <2>1. SectorAt(view', (k - 1) + 1).recs = <<>> /\ ~SectorAt(view', (k - 1) + 1).split
    BY <1>1, <1>2, <1>3, <1>4
  <2>2. k - 1 > view.hdr.stamp /\ EndsInCommit(SectorAt(view, k - 1).recs)
    BY <1>2, <1>4 DEF RecsAt
  <2>3. \A t \in (view.hdr.stamp + 1)..(k - 1) : SectorAt(view', t) = SectorAt(view, t)
    BY <1>3, <1>4
  <2>4. DOMAIN SectorAt(view', (k - 1) + 1).recs = {}
    BY <2>1
  <2> QED BY <1>3, <1>4, <1>5, <1>6, <2>1, <2>2, <2>3, <2>4, GrownCommit
<1>8. CommitsEnd(view', k, k)
  BY <1>4, <1>7
<1>9. Committed(view') = PlacesUpto(view', k)
  BY <1>3, <1>4, <1>5, <1>8, CommittedPlaces
<1>10. DOMAIN SectorAt(view', k).recs = {}
  BY <1>1, <1>2, <1>3
<1>11. \A t : t \in (H + 1)..k <=> t \in (H + 1)..(k - 1) \/ t = k
  BY <1>2, <1>4
<1> DEFINE C == PlacesUpto(view, k - 1)
<1>12. PlacesUpto(view', k) = C
  <2>1. \A p : p \in PlacesUpto(view', k) <=>
                 \E t \in (H + 1)..k : \E i \in DOMAIN SectorAt(view', t).recs : p = <<t, i>>
    BY <1>3, <1>4 DEF PlacesUpto
  <2>2. \A p : p \in C <=>
                 \E t \in (H + 1)..(k - 1) : \E i \in DOMAIN SectorAt(view, t).recs : p = <<t, i>>
    BY <1>4 DEF PlacesUpto
  <2> HIDE DEF C
  <2>3. \A p : p \in PlacesUpto(view', k) <=> p \in C
    BY <1>3, <1>10, <1>11, <2>1, <2>2
  <2> QED BY <2>3
<1>13. \A p \in C : RecAt(view', p) = RecAt(view, p)
  BY <1>3, <1>4, PlaceUptoIs DEF RecAt
<1>14. C = Committed(view) /\ C = Committed(view') /\ \A p \in C : IsPlace(view, p)
  BY <1>4, <1>9, <1>12
<1> HIDE DEF C
<1>15. /\ RecoveredFiles(view') = RecoveredFiles(view)
       /\ RecoveredAlloc(view') = RecoveredAlloc(view)
       /\ RecoveredNextFsid(view') = RecoveredNextFsid(view)
  BY <1>3, <1>4, <1>5, <1>13, <1>14, SameReplay
<1>16. Batch' = Batch
  <2>1. \A t : t \in (lastcommit + 1)..k <=> t \in (lastcommit + 1)..(k - 1) \/ t = k
    BY <1>2, <1>4
  <2>2. \A t \in (lastcommit + 1)..(k - 1) : SectorAt(view', t) = SectorAt(view, t)
    BY <1>3, <1>4
  <2>3. \A r : r \in Batch' <=> r \in Batch
    BY <1>1, <1>2, <1>10, <2>1, <2>2, BatchIs
  <2> QED BY <2>3
<1>17. ToApply = Batch
  BY <1>1 DEF ToApply
<1>18. FilesLogged' /\ BlocksLogged' /\ FsidsLogged' /\ NoLeakNoSharing'
  BY <1>1, <1>3, <1>15, <1>16, <1>17, SameLogged DEF RecoveryInv, Written
<1> QED BY <1>8, <1>18

-----------------------------------------------------------------------------
(* The call ends its sector.                                               *)

\* A commit goes on with the loader, which has everything still before it.
LEMMA CommitStarts ==
  ASSUME TypeInv, Running', call' = "commit", pc' = "load", list' = <<>>,
         ld' = [next |-> lastcommit + 1, last |-> k, part |-> <<>>], lastcommit' = lastcommit
  PROVE  /\ Applying' /\ Frontier' = k /\ ToApply' = Batch'
         /\ ld'.next = lastcommit + 1 /\ ld'.last = k /\ ld'.part = <<>>
         /\ LoadedRecs' = {}
<1>1. /\ Applying' /\ ld'.next = lastcommit + 1 /\ ld'.last = k /\ ld'.part = <<>>
  BY DEF Applying
<1>2. Frontier' = k
  BY <1>1 DEF Frontier
<1>3. LoadedRecs' = {}
  BY <1>1 DEF LoadedRecs
<1>4. RecsIn(ld.next..ld.last)' = RecsIn((lastcommit + 1)..Frontier)'
  <2>1. (ld.next..ld.last)' = ((lastcommit + 1)..Frontier)'
    BY <1>1, <1>2
  <2> QED BY <2>1 DEF RecsIn, RecsAt, RecSet
<1>5. ToApply' = Batch'
  BY <1>1, <1>3, <1>4 DEF ToApply, Batch, Data
<1> QED BY <1>1, <1>2, <1>3, <1>5

\* Ending a sector of the log keeps the invariant.
LEMMA RecoveryCloseSector ==
  ASSUME NEW n \in Nat, Fits(n), ShortTxn(n), TypeInv, TypeInv', TxnInv, RecoveryInv, Running,
         CloseSector
  PROVE  RecoveryInv'
<1>1. /\ Written(Closed) /\ Closed.recs = current_log.recs /\ ~Closed.split
      /\ k' = k + 1 /\ current_log'.recs = <<>> /\ ~current_log'.first /\ current_log'.size = 0
      /\ UNCHANGED <<mode, call, lastcommit, lastsync, zmap, vol_hdr, todo>>
      /\ list' = <<>> /\ pc = "close" /\ todo' = NoTodo /\ todo = NoTodo
      /\ call \in {"commit", "fssync"}
      /\ call = "commit" =>
           /\ pc' = "load" /\ txn' = NoTxn
           /\ ld' = [next |-> lastcommit + 1, last |-> k, part |-> <<>>]
      /\ call = "fssync" => pc' = "zsync" /\ zi' = 1 /\ txn' = txn
      /\ Running' /\ ~Applying
  BY ClosingIs DEF RecoveryInv
<1>0. Closed.split = FALSE /\ current_log'.first = FALSE
  <2>1. current_log' = EmptyLog(k + 1, FALSE, 0)
    BY ClosingIs DEF RecoveryInv
  <2> QED BY <2>1 DEF Closed, EmptyLog
<1> HIDE DEF Closed
<1>2. /\ k <= H + NSectors
      /\ call = "commit" => k + 1 + Beyond(MarkLen) <= H + NSectors
  BY <1>1, RoomLeft
<1>3. /\ view'.inode = view.inode /\ view'.zone = view.zone /\ view'.hdr = view.hdr
      /\ \A t \in (H + 1)..(k - 1) : SectorAt(view', t) = SectorAt(view, t)
      /\ SectorAt(view', k) = Closed
      /\ WholeLog(view', k) /\ H' = H
  BY <1>1, <1>2, SectorWritten DEF RecoveryInv
<1>4. /\ k \in Nat /\ k - 1 \in Nat /\ H \in Nat /\ lastcommit \in Nat /\ NSectors \in Nat
      /\ H <= lastcommit /\ lastcommit <= Frontier /\ Frontier <= k - 1 /\ Frontier \in Nat
      /\ k' - 1 = k /\ lastcommit <= k - 1
  BY <1>1, RunTypes, RunFacts, SMTT(40) DEF RecoveryInv
<1>5. CallOK' /\ FreshStart' /\ SameDisk'
  <2>1. CallOK'
    BY CallStep DEF RecoveryInv, Next, Step
  <2> QED BY <1>1, <2>1 DEF FreshStart, Running, SameDisk, Written
<1>6. CASE call = "commit"
  <2>1. /\ Applying' /\ Frontier' = k /\ ToApply' = Batch'
        /\ ld'.next = lastcommit + 1 /\ ld'.last = k /\ ld'.part = <<>>
        /\ LoadedRecs' = {}
    BY <1>1, <1>6, CommitStarts
  <2>2. /\ CommitsEnd(view', k, k)
        /\ FilesLogged' /\ BlocksLogged' /\ FsidsLogged' /\ NoLeakNoSharing'
    <3>1. CASE CommitLanded
      BY <1>2, <1>6, <2>1, <3>1, LandedClosed
    <3>2. CASE ~CommitLanded
      BY <1>2, <1>6, <2>1, <3>2, CommitClosed
    <3> QED BY <3>1, <3>2
  <2>3. LogWhole'
    <3>1. lastcommit' <= Frontier' /\ H' <= lastcommit' /\ WholeLog(view', k' - 1)
      BY <1>1, <1>3, <1>4, <2>1
    <3>2. current_log'.first = SectorAt(view', k' - 1).split
      BY <1>0, <1>3, <1>4
    <3> QED BY <1>1, <3>1, <3>2 DEF LogWhole
  <2>4. CommitsLast'
    <3>1. (Frontier' + 1)..(k' - 1) = {}
      BY <1>4, <2>1
    <3>2. DOMAIN current_log'.recs = {}
      BY <1>1
    <3>3. CommitsEnd(view', k' - 1, Frontier') /\ pc' # "close"
      BY <1>1, <1>4, <1>6, <2>1, <2>2
    <3> QED BY <3>1, <3>2, <3>3 DEF CommitsLast
  <2>5. TxnInLog' /\ BatchApplied'
    BY <2>1 DEF TxnInLog, BatchApplied
  <2>6. LoaderOK'
    <3>1. lastcommit + 1 \in (lastcommit + 1)..(k + 1)
      BY <1>4
    <3>2. DOMAIN list' = {} /\ DOMAIN ld'.part = {}
      BY <1>1, <2>1
    <3>3. Data(LoadedRecs)' = {}
      BY <2>1 DEF Data
    <3>4. pc' = "load" /\ list' = <<>> /\ ld'.part = <<>> /\ ~(lastcommit' + 1 > lastcommit' + 1)
      BY <1>1, <1>4, <1>6, <2>1
    <3>5. /\ ld'.last = k' - 1 /\ lastcommit' < ld'.last /\ ld'.next = lastcommit' + 1
          /\ ld'.next \in (lastcommit' + 1)..(ld'.last + 1)
      BY <1>1, <1>4, <2>1, <3>1
    <3> QED BY <1>1, <3>2, <3>3, <3>4, <3>5 DEF LoaderOK
  <2>7. StampsOK'
    BY <1>1, <1>3, <1>6, SameStamps DEF RecoveryInv
  <2>8. LogRoom'
    <3>1. lastsync' = 0 /\ call' = "commit"
      BY <1>1, <1>6 DEF RecoveryInv, LogRoom
    <3>2. ld'.last + 1 + Beyond(MarkLen) <= H' + NSectors
      BY <1>2, <1>3, <1>6, <2>1
    <3> QED BY <2>1, <3>1, <3>2 DEF LogRoom
  <2> QED BY <1>5, <2>2, <2>3, <2>4, <2>5, <2>6, <2>7, <2>8 DEF RecoveryInv
<1>7. CASE call = "fssync"
  <2>1. /\ ~Applying' /\ ~CommitLanded /\ ~CommitLanded' /\ pc' = "zsync" /\ call' = "fssync"
    BY <1>1, <1>7 DEF Applying, CommitLanded
  <2>2. Frontier = lastcommit /\ Frontier' = lastcommit
    BY <1>1, <2>1, NoBatch DEF Frontier
  <2>3. /\ \A t \in (lastcommit + 1)..(k - 1) : \A i \in DOMAIN RecsAt(t) : RecsAt(t)[i].t # "commit"
        /\ \A i \in DOMAIN current_log.recs : current_log.recs[i].t # "commit"
    BY <1>1, <1>7, <2>2 DEF RecoveryInv, CommitsLast
  <2>4. /\ CommitsEnd(view', k, lastcommit)
        /\ FilesLogged' /\ BlocksLogged' /\ FsidsLogged' /\ NoLeakNoSharing'
    <3>1. \A i \in DOMAIN Closed.recs : Closed.recs[i].t = "commit" =>
             i = Len(Closed.recs) /\ Closed.split
      BY <1>1, <2>3
    <3> QED BY <1>1, <1>2, <2>1, <2>3, <3>1, NoCommitWritten
  <2>5. LogWhole'
    BY <1>0, <1>1, <1>3, <1>4, <2>2 DEF LogWhole
  <2>6. CommitsLast'
    <3>1. \A t : t \in (lastcommit + 1)..k =>
                  (t \in (H + 1)..(k - 1) /\ t \in (lastcommit + 1)..(k - 1)) \/ t = k
      BY <1>4
    <3>2. \A t \in (lastcommit + 1)..k : \A i \in DOMAIN SectorAt(view', t).recs :
             SectorAt(view', t).recs[i].t # "commit"
      BY <1>1, <1>3, <2>3, <3>1 DEF RecsAt
    <3>3. DOMAIN current_log'.recs = {}
      BY <1>1
    <3>4. CommitsEnd(view', k' - 1, Frontier')
      BY <1>4, <2>2, <2>4
    <3> QED BY <1>4, <2>1, <2>2, <3>2, <3>3, <3>4 DEF CommitsLast, RecsAt
  <2>7. TxnInLog'
    <3>1. txn = NoTxn
      BY <1>1, <1>7 DEF TxnInv, TxnOpen
    <3>2. TxnRecs' = TxnRecs
      BY <1>1, <1>3, <1>7, SameTxn
    <3>3. \A x : x \in OpenRecs' <=> x \in OpenRecs
      <4>1. \A x : x \in OpenRecs' <=>
               \/ \E t \in (lastcommit' + 1)..(k' - 1) : \E i \in DOMAIN SectorAt(view', t).recs :
                    x = SectorAt(view', t).recs[i]
               \/ \E i \in DOMAIN current_log'.recs : x = current_log'.recs[i]
        BY DEF OpenRecs, RecsIn, RecsAt, RecSet
      <4>2. ~\E i \in DOMAIN current_log'.recs : TRUE
        BY <1>1
      <4>3. \A t : t \in (lastcommit + 1)..k <=> t \in (lastcommit + 1)..(k - 1) \/ t = k
        BY <1>4
      <4>4. \A t \in (lastcommit + 1)..(k - 1) : SectorAt(view', t) = SectorAt(view, t)
        BY <1>3, <1>4
      <4>5. \A x : x \in OpenRecs' <=>
               \E t \in (lastcommit + 1)..k : \E i \in DOMAIN SectorAt(view', t).recs :
                    x = SectorAt(view', t).recs[i]
        BY <1>1, <1>4, <4>1, <4>2
      <4>6. SectorAt(view', k).recs = current_log.recs
        BY <1>1, <1>3
      <4>7. \A x : (\E t \in (lastcommit + 1)..k : \E i \in DOMAIN SectorAt(view', t).recs :
                    x = SectorAt(view', t).recs[i])
              <=> \/ \E t \in (lastcommit + 1)..(k - 1) : \E i \in DOMAIN SectorAt(view, t).recs :
                       x = SectorAt(view, t).recs[i]
                  \/ \E i \in DOMAIN current_log.recs : x = current_log.recs[i]
        BY <4>3, <4>4, <4>6
      <4> QED BY <4>5, <4>7, OpenIs
    <3>4. Data(OpenRecs)' = Data(OpenRecs)
      BY <3>3 DEF Data
    <3>5. Data(TodoRecs) = {} /\ Data(TodoRecs)' = {}
      <4>1. TodoRecs' = TodoRecs
        BY <1>1 DEF TodoRecs, RecSet
      <4>2. Data(TodoRecs) = {}
        BY <1>1, NoDataTodo
      <4> QED BY <4>1, <4>2 DEF Data
    <3> QED BY <1>1, <3>2, <3>4, <3>5 DEF RecoveryInv, TxnInLog
  <2>8. LoaderOK' /\ BatchApplied'
    BY <2>1 DEF LoaderOK, BatchApplied
  <2>9. StampsOK'
    <3>1. \A z \in Zones : ~(z < 1)
      BY ConstantsOK DEF Zones
    <3> QED BY <1>1, <1>3, <1>7, <3>1 DEF RecoveryInv, StampsOK
  <2>10. LogRoom'
    <3>1. lastsync' = 0 /\ SyncLen' = SyncLen
      BY <1>1 DEF RecoveryInv, LogRoom, SyncLen
    <3>2. /\ (k - (lastcommit + 1)) * Cap + current_log.size + TodoUnits <= SyncLen
          /\ lastcommit + 1 + Beyond(SyncLen) <= H + NSectors
      BY <1>1, <1>7 DEF RecoveryInv, LogRoom
    <3>3. /\ TodoUnits \in Nat /\ SyncLen \in Nat /\ Cap \in Nat \ {0} /\ current_log.size \in Nat
          /\ Beyond(SyncLen) \in Nat
      <4>1. Cap \in Nat \ {0} /\ SyncLen \in Nat /\ \A m \in Nat : Beyond(m) \in Nat
        BY UnitLens
      <4>2. current_log.size \in Nat
        BY RunTypes
      <4> QED BY <4>1, <4>2, UnitTypes
    <3>4. (k - (lastcommit + 1)) * Cap \in Int /\ k - (lastcommit + 1) \in Int
      BY <1>4, <3>3
    <3>5. (k - (lastcommit + 1)) * Cap <= SyncLen
      BY <3>2, <3>3, <3>4
    <3>6. k - (lastcommit + 1) <= Beyond(SyncLen)
      BY <3>3, <3>4, <3>5, DivBound DEF Beyond
    <3>7. k' <= lastcommit' + 2 + Beyond(SyncLen')
      BY <1>1, <1>4, <3>1, <3>3, <3>6
    <3>8. lastcommit' + 1 + Beyond(SyncLen') <= H' + NSectors
      BY <1>1, <1>3, <3>1, <3>2
    <3> QED BY <1>1, <2>1, <3>1, <3>7, <3>8 DEF LogRoom
  <2> QED BY <1>5, <2>4, <2>5, <2>6, <2>7, <2>8, <2>9, <2>10 DEF RecoveryInv
<1> QED BY <1>1, <1>6, <1>7

-----------------------------------------------------------------------------
(* A commit is read back from the log.                                     *)

\* A commit that is being applied.
LEMMA ApplyFacts ==
  ASSUME TypeInv, TxnInv, RecoveryInv, Running, pc \in {"load", "apply"}
  PROVE  /\ call = "commit" /\ Applying /\ Frontier = ld.last /\ ld.last = k - 1 /\ txn = NoTxn
         /\ todo = NoTodo /\ view = disk /\ mode = "rw"
         /\ k \in Nat /\ H \in Nat /\ lastcommit \in Nat /\ ld.next \in Nat /\ ld.last \in Nat
         /\ H <= lastcommit /\ lastcommit < ld.last
         /\ ld.next \in (lastcommit + 1)..(ld.last + 1)
         /\ list \in Seq(Entry) /\ ld.part \in Seq(Entry)
         /\ ld \in [next : Nat, last : Nat, part : Seq(Entry)]
<1>1. call = "commit"
  BY DEF TxnInv, ReplayFirst, RecoveryInv, CallOK, Running
<1>2. Applying
  BY <1>1 DEF Applying
<1>3. /\ ld.last = k - 1 /\ lastcommit < ld.last /\ ld.next \in (lastcommit + 1)..(ld.last + 1)
  BY <1>2 DEF RecoveryInv, LoaderOK
<1>4. /\ list \in Seq(Entry) /\ ld \in [next : Nat, last : Nat, part : Seq(Entry)]
  BY DEF TypeInv, TypeOK
<1>5. txn = NoTxn
  BY DEF TxnInv, TxnOpen
<1> QED BY <1>1, <1>2, <1>3, <1>4, <1>5, RunTypes, RunFacts
       DEF RecoveryInv, Frontier, CallOK, SameDisk, Running

\* What the loader does to its own variables alone.
LEMMA LoaderKeeps ==
  ASSUME TypeInv, RecoveryInv, Running, Applying, Applying',
         UNCHANGED <<disk, view, mode, call, current_log, lastcommit, lastsync, zmap, vol_hdr>>,
         ld'.last = ld.last, ToApply' = ToApply, CallOK', LoaderOK'
  PROVE  RecoveryInv'
<1>1. /\ Frontier' = Frontier /\ Frontier = ld.last
      /\ Running' /\ k' = k /\ H' = H
      /\ pc' \in {"load", "apply"} /\ call = "commit" /\ call' = "commit"
  BY DEF Frontier, Running, Applying, k, H
<1>2. Batch' = Batch
  <2>1. RecsIn((lastcommit + 1)..Frontier)' = RecsIn((lastcommit + 1)..Frontier)
    BY <1>1 DEF RecsIn, RecsAt, RecSet
  <2> QED BY <2>1 DEF Batch, Data
<1>3. SameDisk' /\ FreshStart' /\ LogWhole'
  BY <1>1 DEF RecoveryInv, SameDisk, FreshStart, LogWhole, Running
<1>4. CommitsLast'
  BY <1>1 DEF RecoveryInv, CommitsLast, RecsAt, Applying
<1>5. TxnInLog' /\ BatchApplied'
  BY <1>2 DEF RecoveryInv, TxnInLog, BatchApplied
<1>6. StampsOK'
  BY <1>1 DEF RecoveryInv, StampsOK
<1>7. /\ RecoveredFiles(view') = RecoveredFiles(view)
      /\ RecoveredAlloc(view') = RecoveredAlloc(view)
      /\ RecoveredNextFsid(view') = RecoveredNextFsid(view)
      /\ disk' = view' /\ view'.inode = view.inode
  BY DEF RecoveryInv, SameDisk, Running
<1>8. FilesLogged' /\ BlocksLogged' /\ FsidsLogged' /\ NoLeakNoSharing'
  BY <1>2, <1>7, SameLogged DEF RecoveryInv
<1>9. LogRoom'
  BY <1>1 DEF RecoveryInv, LogRoom
<1> QED BY <1>3, <1>4, <1>5, <1>6, <1>8, <1>9 DEF RecoveryInv

\* The members of sequences put together and taken apart.
In(x, q) == \E i \in DOMAIN q : x = q[i]

\* The members of two sequences one behind the other,
LEMMA InConcat ==
  ASSUME NEW S, NEW p \in Seq(S), NEW q \in Seq(S)
  PROVE  /\ p \o q \in Seq(S)
         /\ \A x : In(x, p \o q) <=> In(x, p) \/ In(x, q)
<1>1. /\ p \o q \in Seq(S) /\ Len(p \o q) = Len(p) + Len(q)
      /\ DOMAIN (p \o q) = 1..(Len(p) + Len(q)) /\ DOMAIN p = 1..Len(p) /\ DOMAIN q = 1..Len(q)
      /\ Len(p) \in Nat /\ Len(q) \in Nat
      /\ \A i \in 1..(Len(p) + Len(q)) :
           (p \o q)[i] = IF i <= Len(p) THEN p[i] ELSE q[i - Len(p)]
  OBVIOUS
<1> DEFINE r == p \o q
<1>2. ASSUME NEW x, In(x, r) PROVE In(x, p) \/ In(x, q)
  <2>1. PICK i \in 1..(Len(p) + Len(q)) : x = r[i]
    BY <1>1, <1>2 DEF In
  <2>2. CASE i <= Len(p)
    <3>1. i \in 1..Len(p) /\ x = p[i]
      BY <1>1, <2>1, <2>2
    <3> QED BY <1>1, <3>1 DEF In
  <2>3. CASE ~(i <= Len(p))
    <3>1. i - Len(p) \in 1..Len(q) /\ x = q[i - Len(p)]
      BY <1>1, <2>1, <2>3
    <3> QED BY <1>1, <3>1 DEF In
  <2> QED BY <2>2, <2>3
<1>3. ASSUME NEW x, In(x, p) PROVE In(x, r)
  <2>1. PICK i \in 1..Len(p) : x = p[i]
    BY <1>1, <1>3 DEF In
  <2>2. i \in DOMAIN r /\ r[i] = x
    BY <1>1, <2>1
  <2> QED BY <2>2 DEF In
<1>4. ASSUME NEW x, In(x, q) PROVE In(x, r)
  <2>1. PICK i \in 1..Len(q) : x = q[i]
    BY <1>1, <1>4 DEF In
  <2>2. Len(p) + i \in DOMAIN r /\ r[Len(p) + i] = x
    BY <1>1, <2>1
  <2> QED BY <2>2 DEF In
<1> QED BY <1>1, <1>2, <1>3, <1>4

\* and of the two parts of a sequence.
LEMMA InParts ==
  ASSUME NEW S, NEW q \in Seq(S), NEW n \in 0..Len(q)
  PROVE  /\ SubSeq(q, 1, n) \in Seq(S) /\ SubSeq(q, n + 1, Len(q)) \in Seq(S)
         /\ SubSeq(q, n + 1, Len(q)) = <<>> <=> n = Len(q)
         /\ \A x : In(x, q) <=> In(x, SubSeq(q, 1, n)) \/ In(x, SubSeq(q, n + 1, Len(q)))
<1> DEFINE a == SubSeq(q, 1, n)
           b == SubSeq(q, n + 1, Len(q))
<1>1. /\ Len(q) \in Nat /\ n \in Nat /\ n <= Len(q)
      /\ a \in Seq(S) /\ DOMAIN a = 1..n /\ \A i \in 1..n : a[i] = q[i]
      /\ b \in Seq(S) /\ DOMAIN b = 1..(Len(q) - n)
      /\ \A i \in 1..(Len(q) - n) : b[i] = q[n + i]
      /\ DOMAIN q = 1..Len(q) /\ Len(b) = Len(q) - n
  OBVIOUS
<1>2. b = <<>> <=> n = Len(q)
  <2>1. \A x \in Seq(S) : x = <<>> <=> Len(x) = 0
    OBVIOUS
  <2>2. b \in Seq(S) /\ Len(b) = Len(q) - n /\ Len(q) \in Nat /\ n \in Nat
    BY <1>1
  <2> HIDE DEF b
  <2>3. b = <<>> <=> Len(b) = 0
    BY <2>1, <2>2
  <2> QED BY <2>2, <2>3
<1> HIDE DEF a, b
<1>3. ASSUME NEW x, In(x, q) PROVE In(x, a) \/ In(x, b)
  <2>1. PICK i \in 1..Len(q) : x = q[i]
    BY <1>1, <1>3 DEF In
  <2>2. CASE i <= n
    BY <1>1, <2>1, <2>2, SMTT(40) DEF In
  <2>3. CASE ~(i <= n)
    <3>1. i - n \in 1..(Len(q) - n) /\ n + (i - n) = i
      BY <1>1, <2>1, <2>3
    <3>2. b[i - n] = q[i]
      BY <1>1, <3>1
    <3> QED BY <1>1, <2>1, <3>1, <3>2 DEF In
  <2> QED BY <2>2, <2>3
<1>4. ASSUME NEW x, In(x, a) \/ In(x, b) PROVE In(x, q)
  <2>1. CASE In(x, a)
    <3>1. PICK i \in 1..n : x = q[i]
      BY <1>1, <2>1 DEF In
    <3>2. i \in 1..Len(q)
      BY <1>1
    <3> QED BY <1>1, <3>1, <3>2 DEF In
  <2>2. CASE In(x, b)
    <3>1. PICK i \in 1..(Len(q) - n) : x = q[n + i]
      BY <1>1, <2>2 DEF In
    <3>2. n + i \in 1..Len(q)
      BY <1>1
    <3> QED BY <1>1, <3>1, <3>2 DEF In
  <2> QED BY <1>4, <2>1, <2>2
<1> QED BY <1>1, <1>2, <1>3, <1>4 DEF a, b

\* An entry that runs over the end of a sector always finds its rest, and all that the
\* sector holds goes to the list.
LEMMA SectorLoaded ==
  ASSUME TypeInv, TypeInv', TxnInv, RecoveryInv, Running, LoadSector, NEW s, s = SectorAt(view, ld.next)
  PROVE  /\ s \in Sector /\ s.stamp = ld.next /\ ld.next <= ld.last
         /\ pc' = "load" /\ err' = err
         /\ ld'.next = ld.next + 1 /\ ld'.last = ld.last
         /\ ld'.part = <<>> <=> ~s.split
         /\ \A e : In(e, list') \/ In(e, ld'.part)
                     <=> In(e, list) \/ In(e, ld.part) \/ In(e, EntriesOf(s))
<1>1. /\ Applying /\ ld.last = k - 1 /\ k \in Nat /\ H \in Nat /\ lastcommit \in Nat
      /\ ld.next \in Nat /\ ld.last \in Nat /\ H <= lastcommit /\ lastcommit < ld.last
      /\ ld.next \in (lastcommit + 1)..(ld.last + 1)
      /\ list \in Seq(Entry) /\ ld.part \in Seq(Entry)
      /\ ld \in [next : Nat, last : Nat, part : Seq(Entry)]
  BY ApplyFacts DEF LoadSector, Loading
<1>2. ld.next <= ld.last /\ pc = "load"
  BY <1>1 DEF LoadSector, Loading, NoEnd
<1>3. s \in Sector /\ SplitOK(view) /\ view \in Volume
  BY <1>1, RunTypes, SectorType
<1>4. /\ s.stamp = ld.next
      /\ ld.next > lastcommit + 1 => s.first = SectorAt(view, ld.next - 1).split
  <2>1. WholeLog(view, k - 1) /\ H = view.hdr.stamp
    BY DEF RecoveryInv, LogWhole, H
  <2>2. ld.next \in (H + 1)..(k - 1)
    BY <1>1, <1>2
  <2>3. ld.next > lastcommit + 1 => ld.next - 1 \in (H + 1)..((k - 1) - 1) /\ (ld.next - 1) + 1 = ld.next
    BY <1>1, <1>2
  <2> QED BY <2>1, <2>2, <2>3 DEF WholeLog
<1>5. /\ ld.part # <<>> <=> ld.next > lastcommit + 1 /\ SectorAt(view, ld.next - 1).split
      /\ list # <<>> => ld.next > lastcommit + 1
  BY <1>1, <1>2 DEF RecoveryInv, LoaderOK
<1>6. ~Broken(s)
  BY <1>4, <1>5 DEF Broken
<1> DEFINE es == EntriesOf(s)
           n == WholeIn(s)
           a == SubSeq(es, 1, n)
           b == SubSeq(es, n + 1, Len(es))
<1>7. view.log[Slot(ld.next)] = s
  BY DEF SectorAt
<1>8. /\ pc' = pc /\ err' = err /\ list' = list \o ld.part \o a
      /\ ld' = [ld EXCEPT !.next = @ + 1, !.part = b]
  BY <1>6, <1>7 DEF LoadSector
<1>9. es \in Seq(Entry) /\ Len(es) = Len(s.recs)
  BY <1>3, EntriesType
<1>10. n \in 0..Len(es) /\ (n = Len(es) <=> ~s.split)
  <2>1. s.split => s.recs # <<>>
    BY <1>1, <1>3, SlotInLog DEF SplitOK, SectorAt
  <2>2. s.recs \in Seq(Rec)
    BY <1>3 DEF Sector
  <2>3. Len(s.recs) \in Nat /\ (s.split => Len(s.recs) > 0)
    BY <2>1, <2>2
  <2> QED BY <1>9, <2>3 DEF WholeIn
<1> HIDE DEF es, n
<1>11. /\ a \in Seq(Entry) /\ b \in Seq(Entry) /\ (b = <<>> <=> n = Len(es))
       /\ \A e : In(e, es) <=> In(e, a) \/ In(e, b)
  BY <1>9, <1>10, InParts
<1> HIDE DEF a, b
<1>12. list \o ld.part \in Seq(Entry) /\ \A e : In(e, list \o ld.part) <=> In(e, list) \/ In(e, ld.part)
  BY <1>1, InConcat
<1> DEFINE c == list \o ld.part
<1>13. c \in Seq(Entry) /\ (\A e : In(e, c) <=> In(e, list) \/ In(e, ld.part)) /\ list' = c \o a
  BY <1>8, <1>12
<1> HIDE DEF c
<1>14. \A e : In(e, list') <=> In(e, list) \/ In(e, ld.part) \/ In(e, a)
  <2>1. \A e : In(e, c \o a) <=> In(e, c) \/ In(e, a)
    BY <1>11, <1>13, InConcat
  <2> QED BY <1>13, <2>1
<1>15. ld'.next = ld.next + 1 /\ ld'.last = ld.last /\ ld'.part = b
  BY <1>1, <1>8
<1>16. \A e : In(e, list') \/ In(e, ld'.part) <=> In(e, list) \/ In(e, ld.part) \/ In(e, es)
  BY <1>11, <1>14, <1>15
<1>17. ld'.part = <<>> <=> ~s.split
  BY <1>10, <1>11, <1>15
<1>18. \A e : In(e, list') \/ In(e, ld'.part) <=> In(e, list) \/ In(e, ld.part) \/ In(e, EntriesOf(s))
  BY <1>16 DEF es
<1> QED BY <1>2, <1>3, <1>4, <1>8, <1>15, <1>17, <1>18

\* What is loaded, as entries.
LEMMA LoadedIs ==
  /\ \A r : r \in LoadedRecs <=> \E e : r = e.rec /\ (In(e, list) \/ In(e, ld.part))
  /\ \A r : r \in LoadedRecs' <=> \E e : r = e.rec /\ (In(e, list') \/ In(e, ld'.part))
BY DEF LoadedRecs, In

\* The entries of a sector carry its stamp.
LEMMA EntriesAre ==
  ASSUME NEW s \in Sector
  PROVE  /\ \A e : In(e, EntriesOf(s)) => e.stamp = s.stamp
         /\ \A r : (\E e : r = e.rec /\ In(e, EntriesOf(s))) <=> In(r, s.recs)
<1> DEFINE es == EntriesOf(s)
<1>1. /\ DOMAIN es = 1..Len(s.recs) /\ DOMAIN s.recs = 1..Len(s.recs)
      /\ \A i \in 1..Len(s.recs) : es[i].stamp = s.stamp /\ es[i].rec = s.recs[i]
  BY DEF EntriesOf, Sector
<1> HIDE DEF es
<1>2. \A e : In(e, es) => e.stamp = s.stamp
  BY <1>1 DEF In
<1>3. \A r : (\E e : r = e.rec /\ In(e, es)) <=> In(r, s.recs)
  BY <1>1 DEF In
<1> QED BY <1>2, <1>3 DEF es

\* Loading a sector of the commit (mfs_log_load_list) keeps the invariant.
LEMMA RecoveryLoadSector ==
  ASSUME TypeInv, TypeInv', TxnInv, RecoveryInv, Running, LoadSector
  PROVE  RecoveryInv' /\ err' = err
<1> DEFINE s == SectorAt(view, ld.next)
<1>1. /\ pc = "load" /\ call = "commit" /\ Applying /\ ld.last = k - 1 /\ Frontier = ld.last
      /\ k \in Nat /\ lastcommit \in Nat
      /\ ld.next \in Nat /\ ld.last \in Nat /\ lastcommit < ld.last
      /\ ld.next \in (lastcommit + 1)..(ld.last + 1)
  BY ApplyFacts DEF LoadSector, Loading
<1>2. UNCHANGED <<disk, view, mode, call, current_log, lastcommit, lastsync, zmap, vol_hdr, todo>>
  BY DEF LoadSector, logvars, memvars
<1>3. /\ s \in Sector /\ s.stamp = ld.next /\ ld.next <= ld.last
      /\ pc' = "load" /\ err' = err
      /\ ld'.next = ld.next + 1 /\ ld'.last = ld.last
      /\ ld'.part = <<>> <=> ~s.split
      /\ \A e : In(e, list') \/ In(e, ld'.part)
                  <=> In(e, list) \/ In(e, ld.part) \/ In(e, EntriesOf(s))
  <2> HIDE DEF s
  <2>1. s = SectorAt(view, ld.next)
    BY DEF s
  <2> QED BY <2>1, SectorLoaded
<1>5. s = SectorAt(view, ld.next)
  OBVIOUS
<1> HIDE DEF s
<1>6. /\ \A e : In(e, EntriesOf(s)) => e.stamp = s.stamp
      /\ \A r : (\E e : r = e.rec /\ In(e, EntriesOf(s))) <=> In(r, s.recs)
  BY <1>3, EntriesAre
<1>7. Applying' /\ CallOK'
  <2>1. CallOK'
    BY CallStep DEF RecoveryInv, Next, Step
  <2> QED BY <1>1, <1>2, <1>3, <2>1 DEF Applying
<1>8. \A r : r \in LoadedRecs' <=> r \in LoadedRecs \/ In(r, s.recs)
  BY <1>3, <1>6, LoadedIs
<1>9. \A r : In(r, s.recs) /\ r.t \in {"map", "inode"} => r \in Batch
  <2>1. ld.next \in (lastcommit + 1)..Frontier
    BY <1>1, <1>3
  <2> QED BY <1>5, <2>1, BatchIs DEF In
<1>10. Data(LoadedRecs') \subseteq Batch
  BY <1>1, <1>8, <1>9 DEF RecoveryInv, LoaderOK, Data
<1>11. Frontier' = Frontier /\ Batch' = Batch
  <2>1. Frontier' = Frontier
    BY <1>1, <1>3, <1>7 DEF Frontier
  <2>2. RecsIn((lastcommit + 1)..Frontier)' = RecsIn((lastcommit + 1)..Frontier)
    BY <1>2, <2>1 DEF RecsIn, RecsAt, RecSet
  <2> QED BY <2>1, <2>2 DEF Batch, Data
<1>12. ToApply' = ToApply
  <2>1. \A t : t \in ld.next..ld.last <=> t \in (ld.next + 1)..ld.last \/ t = ld.next
    BY <1>1, <1>3
  <2>2. \A r : r \in RecsIn(ld.next..ld.last) <=> In(r, s.recs) \/ r \in RecsIn((ld.next + 1)..ld.last)
    <3>1. \A r : r \in RecsIn(ld.next..ld.last) <=>
                    \E t \in ld.next..ld.last : In(r, SectorAt(view, t).recs)
      BY RecsInIs DEF In
    <3>2. \A r : r \in RecsIn((ld.next + 1)..ld.last) <=>
                    \E t \in (ld.next + 1)..ld.last : In(r, SectorAt(view, t).recs)
      BY RecsInIs DEF In
    <3> QED BY <1>5, <2>1, <3>1, <3>2
  <2>3. RecsIn(ld.next..ld.last)' = RecsIn((ld.next + 1)..ld.last)
    BY <1>2, <1>3 DEF RecsIn, RecsAt, RecSet
  <2>4. \A r : r \in LoadedRecs' \cup RecsIn(ld.next..ld.last)' <=> r \in LoadedRecs \cup RecsIn(ld.next..ld.last)
    BY <1>8, <2>2, <2>3
  <2> QED BY <1>1, <1>7, <2>4 DEF ToApply, Data
<1>13. LoaderOK'
  <2>1. /\ \A e : In(e, list') => e.stamp > lastcommit
        /\ \A e : In(e, ld'.part) => e.stamp > lastcommit
    <3>1. \A e : In(e, list) \/ In(e, ld.part) => e.stamp > lastcommit
      BY <1>1 DEF RecoveryInv, LoaderOK, In
    <3>2. \A e : In(e, EntriesOf(s)) => e.stamp > lastcommit
      BY <1>1, <1>3, <1>6
    <3> QED BY <1>3, <3>1, <3>2
  <2>2. /\ \A i \in DOMAIN list' : list'[i].stamp > lastcommit
        /\ \A i \in DOMAIN ld'.part : ld'.part[i].stamp > lastcommit
    BY <2>1 DEF In
  <2>3. /\ ld'.last = k' - 1 /\ lastcommit' < ld'.last
        /\ ld'.next \in (lastcommit' + 1)..(ld'.last + 1) /\ ld'.next > lastcommit' + 1
        /\ ld'.next - 1 = ld.next
    BY <1>1, <1>2, <1>3 DEF k
  <2>4. current_log'.recs = <<>> /\ current_log'.size = 0
    BY <1>1, <1>2 DEF RecoveryInv, LoaderOK
  <2>5. ld'.part # <<>> <=> SectorAt(view', ld'.next - 1).split
    BY <1>2, <1>3, <1>5, <2>3
  <2> QED BY <1>2, <1>3, <1>10, <1>11, <2>2, <2>3, <2>4, <2>5 DEF LoaderOK, Data
<1> QED BY <1>1, <1>2, <1>3, <1>7, <1>12, <1>13, LoaderKeeps

-----------------------------------------------------------------------------
(* A commit is applied.                                                    *)

\* What a replay finds in the log depends on nothing but the log and the header.
LEMMA SameCommitted ==
  ASSUME NEW v, NEW w, w.log = v.log, w.hdr = v.hdr
  PROVE  Committed(w) = Committed(v) /\ \A p : RecAt(w, p) = RecAt(v, p)
<1>1. \A s : SectorAt(w, s) = SectorAt(v, s)
  BY DEF SectorAt
<1>2. /\ \A p : RecAt(w, p) = RecAt(v, p)
      /\ \A s : Ended(w, s) = Ended(v, s)
  BY <1>1 DEF RecAt, Ended
<1>3. LiveStamps(w) = LiveStamps(v)
  BY DEF LiveStamps
<1>4. LivePlaces(w) = LivePlaces(v)
  BY <1>2, <1>3 DEF LivePlaces
<1>5. Commits(w) = Commits(v)
  BY <1>2, <1>4 DEF Commits
<1> QED BY <1>2, <1>4, <1>5 DEF Committed

\* What applying an entry leaves alone.
LEMMA ApplyKeeps ==
  ASSUME TypeInv, RecoveryInv, Running, Applying, Applying',
         view'.log = view.log, view'.hdr = view.hdr, disk' = view', ld'.last = ld.last,
         UNCHANGED <<mode, call, current_log, lastcommit, lastsync>>
  PROVE  /\ Frontier' = Frontier /\ Frontier = ld.last /\ Batch' = Batch
         /\ SameDisk' /\ FreshStart' /\ LogWhole' /\ CommitsLast' /\ TxnInLog' /\ LogRoom'
         /\ Running' /\ k' = k /\ H' = H
<1>1. /\ Frontier' = Frontier /\ Frontier = ld.last
      /\ Running' /\ k' = k /\ H' = H
      /\ pc' \in {"load", "apply"} /\ call = "commit" /\ call' = "commit"
  BY DEF Frontier, Running, Applying, k, H
<1>2. \A t : SectorAt(view', t) = SectorAt(view, t)
  BY DEF SectorAt
<1>3. Batch' = Batch
  <2>1. RecsIn((lastcommit + 1)..Frontier)' = RecsIn((lastcommit + 1)..Frontier)
    BY <1>1, <1>2 DEF RecsIn, RecsAt, RecSet
  <2> QED BY <2>1 DEF Batch, Data
<1>4. SameDisk' /\ FreshStart' /\ TxnInLog'
  BY <1>1 DEF SameDisk, FreshStart, Running, TxnInLog
<1>5. LogWhole'
  <2>1. WholeLog(view', k - 1)
    BY <1>2 DEF RecoveryInv, LogWhole, WholeLog
  <2> QED BY <1>1, <1>2, <2>1 DEF RecoveryInv, LogWhole
<1>6. CommitsLast'
  <2>1. CommitsEnd(view', k - 1, Frontier)
    BY <1>2 DEF RecoveryInv, CommitsLast, CommitsEnd
  <2> QED BY <1>1, <1>2, <2>1 DEF RecoveryInv, CommitsLast, RecsAt, Applying
<1>7. LogRoom'
  BY <1>1 DEF RecoveryInv, LogRoom
<1> QED BY <1>1, <1>3, <1>4, <1>5, <1>6, <1>7

\* A member of a sequence is its first or in the rest.
LEMMA InHead ==
  ASSUME NEW S, NEW q \in Seq(S), q # <<>>
  PROVE  /\ Head(q) \in S /\ Tail(q) \in Seq(S)
         /\ \A x : In(x, q) <=> x = Head(q) \/ In(x, Tail(q))
<1>1. /\ Len(q) \in Nat \ {0} /\ DOMAIN q = 1..Len(q) /\ Head(q) = q[1]
      /\ DOMAIN Tail(q) = 1..(Len(q) - 1) /\ \A i \in 1..(Len(q) - 1) : Tail(q)[i] = q[i + 1]
      /\ Tail(q) \in Seq(S) /\ Head(q) \in S
  OBVIOUS
<1> DEFINE u == Tail(q)
<1>2. /\ u = Tail(q) /\ DOMAIN u = 1..(Len(q) - 1) /\ \A i \in 1..(Len(q) - 1) : u[i] = q[i + 1]
  BY <1>1
<1> HIDE DEF u
<1>3. ASSUME NEW x, In(x, q) PROVE x = Head(q) \/ In(x, u)
  <2>1. PICK i \in 1..Len(q) : x = q[i]
    BY <1>1, <1>3 DEF In
  <2>2. CASE i = 1
    BY <1>1, <2>1, <2>2
  <2>3. CASE i # 1
    <3>1. i - 1 \in 1..(Len(q) - 1) /\ (i - 1) + 1 = i
      BY <1>1, <2>3
    <3>2. u[i - 1] = q[i]
      BY <1>2, <3>1
    <3> QED BY <1>2, <2>1, <3>1, <3>2 DEF In
  <2> QED BY <2>2, <2>3
<1>4. ASSUME NEW x, x = Head(q) \/ In(x, u) PROVE In(x, q)
  <2>1. CASE x = Head(q)
    <3>1. 1 \in DOMAIN q /\ q[1] = x
      BY <1>1, <2>1
    <3> QED BY <3>1 DEF In
  <2>2. CASE In(x, u)
    <3>1. PICK i \in 1..(Len(q) - 1) : x = u[i]
      BY <1>2, <2>2 DEF In
    <3>2. i + 1 \in DOMAIN q /\ q[i + 1] = x
      BY <1>1, <1>2, <3>1
    <3> QED BY <3>2 DEF In
  <2> QED BY <1>4, <2>1, <2>2
<1> QED BY <1>1, <1>2, <1>3, <1>4

\* The next entry of a commit.
LEMMA NextEntry ==
  ASSUME TypeInv, TypeInv', TxnInv, RecoveryInv, Running, ApplyEntry, NEW e, e = Head(list)
  PROVE  /\ pc = "apply" /\ Applying /\ Applying' /\ CallOK' /\ LoaderOK'
         /\ UNCHANGED <<mode, call, pc, err, current_log, lastsync, txn, todo, ld>>
         /\ e \in Entry /\ e.rec \in Rec /\ e.stamp > lastcommit
         /\ e.rec.t \in {"map", "inode"} => e.rec \in Batch
         /\ \A r : r \in ToApply <=> r \in ToApply' \/ (r = e.rec /\ r.t \in {"map", "inode"})
         /\ \/ e.rec.t = "map" /\ ZoneMapUpdate(e) /\ UNCHANGED <<disk, view, lastcommit, vol_hdr>>
            \/ /\ e.rec.t = "inode" /\ UNCHANGED <<lastcommit, zmap>>
               /\ WriteVol([view EXCEPT !.inode[e.rec.fsid] = e.rec.blks])
               /\ vol_hdr' = [vol_hdr EXCEPT !.next_fsid = NextFsidAfter(e.rec.fsid)]
            \/ /\ e.rec.t \notin {"map", "inode"}
               /\ UNCHANGED <<disk, view, lastcommit, zmap, vol_hdr>>
<1>1. /\ pc = "apply" /\ call = "commit" /\ Applying /\ list \in Seq(Entry) /\ list # <<>>
      /\ ld.last \in Nat /\ ld.next = ld.last + 1 /\ ld.part = <<>> /\ list' = Tail(list)
      /\ UNCHANGED <<mode, call, pc, err, current_log, lastsync, txn, todo, ld>>
  BY ApplyFacts DEF ApplyEntry, RecoveryInv, LoaderOK
<1>2. Applying' /\ CallOK'
  <2>1. CallOK'
    BY CallStep DEF RecoveryInv, Next, Step
  <2> QED BY <1>1, <2>1 DEF Applying
<1>3. /\ e \in Entry /\ list' \in Seq(Entry)
      /\ \A x : In(x, list) <=> x = e \/ In(x, list')
  BY <1>1, InHead
<1>4. /\ \A x : In(x, list) => x.stamp > lastcommit
      /\ Data(LoadedRecs) \subseteq Batch
  BY <1>1 DEF RecoveryInv, LoaderOK, In
<1>5. /\ \A r : r \in LoadedRecs <=> \E x : r = x.rec /\ In(x, list)
      /\ \A r : r \in LoadedRecs' <=> \E x : r = x.rec /\ In(x, list')
  <2>1. \A x : ~In(x, ld.part) /\ ~In(x, ld'.part)
    BY <1>1 DEF In
  <2> QED BY <2>1, LoadedIs
<1>6. \A r : r \in LoadedRecs <=> r \in LoadedRecs' \/ r = e.rec
  BY <1>3, <1>5
<1>7. /\ \A r : r \in ToApply <=> r \in LoadedRecs /\ r.t \in {"map", "inode"}
      /\ \A r : r \in ToApply' <=> r \in LoadedRecs' /\ r.t \in {"map", "inode"}
  <2>1. ld.next..ld.last = {} /\ ld'.next..ld'.last = {}
    BY <1>1
  <2>2. RecsIn(ld.next..ld.last) = {} /\ RecsIn(ld.next..ld.last)' = {}
    BY <2>1 DEF RecsIn
  <2> QED BY <1>1, <1>2, <2>2 DEF ToApply, Data
<1>8. e.stamp > lastcommit /\ e.rec \in Rec
  BY <1>3, <1>4 DEF Entry
<1>9. e.rec.t \in {"map", "inode"} => e.rec \in Batch
  BY <1>4, <1>6 DEF Data
<1>10. \/ e.rec.t = "map" /\ ZoneMapUpdate(e) /\ UNCHANGED <<disk, view, lastcommit, vol_hdr>>
       \/ /\ e.rec.t = "inode" /\ UNCHANGED <<lastcommit, zmap>>
          /\ WriteVol([view EXCEPT !.inode[e.rec.fsid] = e.rec.blks])
          /\ vol_hdr' = [vol_hdr EXCEPT !.next_fsid = NextFsidAfter(e.rec.fsid)]
       \/ /\ e.rec.t \notin {"map", "inode"}
          /\ UNCHANGED <<disk, view, lastcommit, zmap, vol_hdr>>
  BY <1>1 DEF ApplyEntry, memvars
<1>11. LoaderOK'
  <2>1. lastcommit' = lastcommit /\ k' = k /\ k \in Nat /\ \A t : SectorAt(view', t) = SectorAt(view, t)
    <3>1. lastcommit' = lastcommit /\ k' = k /\ k \in Nat
      BY <1>1, <1>10, RunTypes DEF k
    <3>2. view'.log = view.log
      BY <1>10, RunTypes DEF WriteVol, Volume
    <3> QED BY <3>1, <3>2 DEF SectorAt
  <2>2. Frontier' = Frontier
    BY <1>1, <1>2 DEF Frontier
  <2>3. Batch' = Batch
    <3>1. RecsIn((lastcommit + 1)..Frontier)' = RecsIn((lastcommit + 1)..Frontier)
      BY <2>1, <2>2 DEF RecsIn, RecsAt, RecSet
    <3> QED BY <3>1 DEF Batch, Data
  <2>4. \A i \in DOMAIN list' : list'[i].stamp > lastcommit'
    <3>1. \A i \in DOMAIN list' : In(list'[i], list')
      BY DEF In
    <3> QED BY <1>3, <1>4, <2>1, <3>1
  <2>5. Data(LoadedRecs)' \subseteq Batch'
    BY <1>4, <1>6, <2>3 DEF Data
  <2>6. LoaderOK
    BY DEF RecoveryInv
  <2> QED BY <1>1, <1>2, <2>1, <2>4, <2>5, <2>6 DEF LoaderOK, Running
<1> QED BY <1>1, <1>2, <1>3, <1>6, <1>7, <1>8, <1>9, <1>10, <1>11

\* A block's zone map comes to say what the entry says.
LEMMA BlockApplied ==
  ASSUME TypeInv, RecoveryInv, Running, NEW e \in Entry, NEW b \in Blocks, NEW x \in BOOLEAN,
         e.rec = MapRec(b, x), e.stamp > lastcommit, ZoneMapUpdate(e)
  PROVE  /\ b \in zmap'[ZoneOf[b]].alloc <=> ~x
         /\ \A c \in Blocks \ {b} : c \in zmap'[ZoneOf[c]].alloc <=> c \in zmap[ZoneOf[c]].alloc
         /\ \A z \in Zones : zmap'[z].stamp = zmap[z].stamp
         /\ \A z \in Zones : ~zmap'[z].dirty => ~zmap[z].dirty /\ zmap'[z].alloc = zmap[z].alloc
<1>1. /\ zmap \in [Zones -> [alloc : SUBSET Blocks, stamp : Nat, dirty : BOOLEAN]]
      /\ ZoneOf[b] \in Zones /\ \A c \in Blocks : ZoneOf[c] \in Zones
  BY ConstantsOK DEF TypeInv, TypeOK, Zones
<1>2. e.rec.blk = b /\ e.rec.free = x
  BY RecFields
<1>3. ~(e.stamp <= zmap[ZoneOf[b]].stamp)
  <2>1. zmap[ZoneOf[b]].stamp <= lastcommit /\ zmap[ZoneOf[b]].stamp \in Nat /\ lastcommit \in Nat
    BY <1>1, RunTypes DEF RecoveryInv, StampsOK
  <2>2. e.stamp \in Nat
    BY DEF Entry
  <2> QED BY <2>1, <2>2
<1> DEFINE z == ZoneOf[b]
<1>4. CASE (b \in zmap[z].alloc) # x
  <2>1. zmap' = zmap
    BY <1>2, <1>4 DEF ZoneMapUpdate
  <2> QED BY <1>4, <2>1
<1>5. CASE (b \in zmap[z].alloc) = x
  <2> DEFINE A == IF x THEN zmap[z].alloc \ {b} ELSE zmap[z].alloc \cup {b}
  <2>1. zmap' = [zmap EXCEPT ![z].alloc = IF x THEN @ \ {b} ELSE @ \cup {b}, ![z].dirty = TRUE]
    BY <1>2, <1>3, <1>5 DEF ZoneMapUpdate
  <2>2. /\ zmap'[z].alloc = A /\ zmap'[z].dirty = TRUE /\ zmap'[z].stamp = zmap[z].stamp
        /\ \A y \in Zones \ {z} : zmap'[y] = zmap[y]
    BY <1>1, <2>1
  <2>3. (b \in A <=> ~x) /\ \A c \in Blocks \ {b} : c \in A <=> c \in zmap[z].alloc
    OBVIOUS
  <2> HIDE DEF A
  <2> QED BY <1>1, <2>2, <2>3
<1> QED BY <1>4, <1>5

\* Applying a map entry (mfs_log_zone_update) keeps the invariant.
LEMMA RecoveryApplyMap ==
  ASSUME TypeInv, TypeInv', TxnInv, RecoveryInv, Running, ApplyEntry,
         NEW e, e = Head(list), e.rec.t = "map"
  PROVE  RecoveryInv'
<1>1. /\ pc = "apply" /\ Applying /\ Applying' /\ CallOK' /\ LoaderOK'
      /\ UNCHANGED <<mode, call, pc, current_log, lastcommit, lastsync, ld, disk, view, vol_hdr>>
      /\ e \in Entry /\ e.rec \in Rec /\ e.stamp > lastcommit /\ e.rec \in Batch
      /\ \A r : r \in ToApply <=> r \in ToApply' \/ (r = e.rec /\ r.t \in {"map", "inode"})
      /\ ZoneMapUpdate(e)
  BY NextEntry
<1>2. PICK b \in Blocks, x \in BOOLEAN : e.rec = MapRec(b, x)
  BY <1>1, RecShape
<1>3. /\ b \in zmap'[ZoneOf[b]].alloc <=> ~x
      /\ \A c \in Blocks \ {b} : c \in zmap'[ZoneOf[c]].alloc <=> c \in zmap[ZoneOf[c]].alloc
      /\ \A z \in Zones : zmap'[z].stamp = zmap[z].stamp
      /\ \A z \in Zones : ~zmap'[z].dirty => ~zmap[z].dirty /\ zmap'[z].alloc = zmap[z].alloc
  BY <1>1, <1>2, BlockApplied
<1>4. disk' = view' /\ disk' = disk
  BY <1>1 DEF RecoveryInv, SameDisk, Running
<1>5. /\ Frontier' = Frontier /\ Batch' = Batch
      /\ SameDisk' /\ FreshStart' /\ LogWhole' /\ CommitsLast' /\ TxnInLog' /\ LogRoom'
      /\ Running'
  BY <1>1, <1>4, ApplyKeeps
<1>6. StampsOK'
  <2>1. /\ \A z \in Zones : view'.zone[z].stamp <= lastcommit' /\ zmap'[z].stamp <= lastcommit'
        /\ \A z \in Zones : ~zmap'[z].dirty => zmap'[z].alloc = view'.zone[z].alloc
        /\ vol_hdr'.stamp = lastcommit'
    BY <1>1, <1>3 DEF RecoveryInv, StampsOK
  <2> QED BY <1>1, <2>1 DEF StampsOK
<1>7. FilesLogged' /\ NoLeakNoSharing'
  BY <1>1, <1>4, <1>5 DEF RecoveryInv, FilesLogged, NoLeakNoSharing
<1>8. \A c \in Blocks, y \in BOOLEAN : MapRec(c, y) \in Batch => (c \in RecoveredAlloc(view) <=> ~y)
  BY DEF RecoveryInv, BlocksLogged
<1>9. BlocksLogged'
  <2>1. \A c \in Blocks : (c \in RecoveredAlloc(view) <=> c \in zmap'[ZoneOf[c]].alloc)
                          \/ \E y \in BOOLEAN : MapRec(c, y) \in Batch
    <3> SUFFICES ASSUME NEW c \in Blocks
                 PROVE  (c \in RecoveredAlloc(view) <=> c \in zmap'[ZoneOf[c]].alloc)
                          \/ \E y \in BOOLEAN : MapRec(c, y) \in Batch
      OBVIOUS
    <3>1. CASE c = b
      BY <1>1, <1>2, <3>1
    <3>2. CASE c # b
      BY <1>3, <3>2 DEF RecoveryInv, BlocksLogged
    <3> QED BY <3>1, <3>2
  <2> QED BY <1>1, <1>5, <1>8, <2>1 DEF BlocksLogged
<1>10. \A f, B : InodeRec(f, B) \in ToApply <=> InodeRec(f, B) \in ToApply'
  <2>1. \A f, B : InodeRec(f, B).t = "inode"
    BY RecFields
  <2> QED BY <1>1, <2>1
<1>11. FsidsLogged'
  BY <1>1, <1>5, <1>10 DEF RecoveryInv, FsidsLogged
<1>12. BatchApplied'
  <2>1. \A f \in Fsids, B \in SUBSET Blocks : InodeRec(f, B) \in Batch' =>
           InodeRec(f, B) \in ToApply' \/ view'.inode[f] = B
    BY <1>1, <1>5, <1>10 DEF RecoveryInv, BatchApplied
  <2>2. ASSUME NEW c \in Blocks, NEW y \in BOOLEAN, MapRec(c, y) \in Batch
        PROVE  MapRec(c, y) \in ToApply' \/ (c \in zmap'[ZoneOf[c]].alloc <=> ~y)
    <3>1. CASE c = b
      <4>1. MapRec(b, x) \in Batch
        BY <1>1, <1>2
      <4>2. y = x
        BY <1>8, <2>2, <3>1, <4>1
      <4> QED BY <1>3, <3>1, <4>2
    <3>2. CASE c # b
      <4>1. MapRec(c, y) # e.rec
        <5>1. MapRec(c, y).blk = c /\ e.rec.blk = b
          BY <1>2, RecFields
        <5> QED BY <3>2, <5>1
      <4>2. MapRec(c, y) \in ToApply \/ (c \in zmap[ZoneOf[c]].alloc <=> ~y)
        BY <1>1, <2>2 DEF RecoveryInv, BatchApplied
      <4> QED BY <1>1, <1>3, <3>2, <4>1, <4>2
    <3> QED BY <3>1, <3>2
  <2> QED BY <1>5, <2>1, <2>2 DEF BatchApplied
<1> QED BY <1>1, <1>5, <1>6, <1>7, <1>9, <1>11, <1>12 DEF RecoveryInv

\* Applying an inode entry (mfs_log_inode_update) keeps the invariant.
LEMMA RecoveryApplyInode ==
  ASSUME TypeInv, TypeInv', TxnInv, RecoveryInv, Running, ApplyEntry,
         NEW e, e = Head(list), e.rec.t = "inode"
  PROVE  RecoveryInv'
<1>1. /\ pc = "apply" /\ Applying /\ Applying' /\ CallOK' /\ LoaderOK'
      /\ UNCHANGED <<mode, call, pc, current_log, lastcommit, lastsync, ld, zmap>>
      /\ e.rec \in Rec /\ e.rec \in Batch
      /\ \A r : r \in ToApply <=> r \in ToApply' \/ (r = e.rec /\ r.t \in {"map", "inode"})
      /\ WriteVol([view EXCEPT !.inode[e.rec.fsid] = e.rec.blks])
      /\ vol_hdr' = [vol_hdr EXCEPT !.next_fsid = NextFsidAfter(e.rec.fsid)]
  BY NextEntry
<1>2. PICK f \in Fsids, B \in SUBSET Blocks : e.rec = InodeRec(f, B)
  BY <1>1, RecShape
<1>3. e.rec.fsid = f /\ e.rec.blks = B /\ InodeRec(f, B) \in Batch
  BY <1>1, <1>2, RecFields
<1>4. /\ view \in Volume /\ vol_hdr \in [stamp : Nat, next_fsid : Nat] /\ Fsids \subseteq Nat
      /\ view' \in Volume
  BY ConstantsOK DEF TypeInv, TypeOK
<1>5. /\ view'.log = view.log /\ view'.hdr = view.hdr /\ view'.zone = view.zone
      /\ view'.inode = [view.inode EXCEPT ![f] = B] /\ disk' = view'
  BY <1>1, <1>3, <1>4 DEF WriteVol, Volume, Running
<1>6. vol_hdr'.stamp = vol_hdr.stamp /\ vol_hdr'.next_fsid = HigherOf(vol_hdr.next_fsid, f + 1)
  BY <1>1, <1>3, <1>4 DEF NextFsidAfter
<1>7. /\ Frontier' = Frontier /\ Batch' = Batch
      /\ SameDisk' /\ FreshStart' /\ LogWhole' /\ CommitsLast' /\ TxnInLog' /\ LogRoom'
      /\ Running'
  BY <1>1, <1>5, ApplyKeeps
<1>8. /\ Committed(view') = Committed(view) /\ \A p : RecAt(view', p) = RecAt(view, p)
      /\ \A p \in Committed(view) : IsPlace(view, p)
      /\ Committed(view) = PlacesUpto(view, Frontier)
  BY <1>5, SameCommitted, RunFacts DEF RecoveryInv
<1>9. InodePlaces(view, Committed(view), f) # {}
  <2>1. PICK s \in (lastcommit + 1)..Frontier : \E i \in DOMAIN SectorAt(view, s).recs :
                InodeRec(f, B) = SectorAt(view, s).recs[i]
    BY <1>3, BatchIs
  <2>2. PICK i \in DOMAIN SectorAt(view, s).recs : InodeRec(f, B) = SectorAt(view, s).recs[i]
    BY <2>1
  <2>3. s \in (view.hdr.stamp + 1)..Frontier
    BY RunTypes, RunFacts, SMTT(40) DEF RecoveryInv, H
  <2>4. <<s, i>> \in Committed(view)
    BY <1>4, <1>8, <2>2, <2>3, PlaceUptoIs
  <2>5. RecAt(view, <<s, i>>) = InodeRec(f, B)
    BY <2>2 DEF RecAt
  <2> QED BY <2>4, <2>5, RecFields DEF InodePlaces
<1>10. \A g \in Fsids : view'.inode[g] = view.inode[g] \/ InodePlaces(view, Committed(view), g) # {}
  BY <1>4, <1>5, <1>9 DEF Volume
<1>11. /\ RecoveredFiles(view') = RecoveredFiles(view)
       /\ RecoveredAlloc(view') = RecoveredAlloc(view)
       /\ RecoveredNextFsid(view') = RecoveredNextFsid(view)
  <2> DEFINE C == Committed(view)
  <2>1. C = Committed(view) /\ C = Committed(view') /\ \A p \in C : IsPlace(view, p) /\ RecAt(view', p) = RecAt(view, p)
    BY <1>8
  <2>2. \A g \in Fsids : view'.inode[g] = view.inode[g] \/ InodePlaces(view, C, g) # {}
    BY <1>10
  <2> HIDE DEF C
  <2> QED BY <1>4, <1>5, <2>1, <2>2, SameReplay
<1>12. /\ RecoveredFiles(view)[f] = B
       /\ \A g \in Fsids, D \in SUBSET Blocks : InodeRec(g, D) \in Batch => RecoveredFiles(view)[g] = D
  BY <1>3 DEF RecoveryInv, FilesLogged
<1>13. FilesLogged'
  <2>1. \A g \in Fsids : RecoveredFiles(view)[g] = view'.inode[g]
                          \/ InodeRec(g, RecoveredFiles(view)[g]) \in Batch
    BY <1>3, <1>4, <1>5, <1>12 DEF RecoveryInv, FilesLogged, Volume
  <2> QED BY <1>7, <1>11, <1>12, <2>1 DEF FilesLogged
<1>14. BlocksLogged' /\ NoLeakNoSharing'
  <2>1. view = disk
    BY DEF RecoveryInv, SameDisk, Running
  <2>2. NoLeakNoSharing'
    BY <1>5, <1>11, <2>1 DEF RecoveryInv, NoLeakNoSharing
  <2> QED BY <1>1, <1>7, <1>11, <2>2 DEF RecoveryInv, BlocksLogged
<1>15. StampsOK'
  BY <1>1, <1>5, <1>6 DEF RecoveryInv, StampsOK
<1>16. BatchApplied'
  <2>1. ASSUME NEW g \in Fsids, NEW D \in SUBSET Blocks, InodeRec(g, D) \in Batch
        PROVE  InodeRec(g, D) \in ToApply' \/ view'.inode[g] = D
    <3>1. CASE g = f
      BY <1>4, <1>5, <1>12, <2>1, <3>1 DEF Volume
    <3>2. CASE g # f
      <4>1. InodeRec(g, D) # e.rec
        <5>1. InodeRec(g, D).fsid = g
          BY RecFields
        <5> QED BY <1>3, <3>2, <5>1
      <4>2. InodeRec(g, D) \in ToApply \/ view.inode[g] = D
        BY <1>1, <2>1 DEF RecoveryInv, BatchApplied
      <4> QED BY <1>1, <1>4, <1>5, <3>2, <4>1, <4>2 DEF Volume
    <3> QED BY <3>1, <3>2
  <2>2. \A c \in Blocks, y \in BOOLEAN : MapRec(c, y) \in Batch =>
          MapRec(c, y) \in ToApply' \/ (c \in zmap'[ZoneOf[c]].alloc <=> ~y)
    <3>1. \A c \in Blocks, y \in BOOLEAN : MapRec(c, y) # e.rec
      <4>1. \A c \in Blocks, y \in BOOLEAN : MapRec(c, y).t = "map"
        BY RecFields
      <4> QED BY <4>1
    <3> QED BY <1>1, <3>1 DEF RecoveryInv, BatchApplied
  <2> QED BY <1>7, <2>1, <2>2 DEF BatchApplied
<1>17. FsidsLogged'
  <2> DEFINE n == RecoveredNextFsid(view)
  <2>1. n \in Nat
    BY <1>4, NextFsidIs
  <2>2. /\ f < n /\ vol_hdr.next_fsid <= n
        /\ \A g \in Fsids, D \in SUBSET Blocks : InodeRec(g, D) \in Batch => g < n
        /\ \/ vol_hdr.next_fsid = n
           \/ \E g \in Fsids, D \in SUBSET Blocks : InodeRec(g, D) \in ToApply /\ n = g + 1
    BY <1>3 DEF RecoveryInv, FsidsLogged
  <2> HIDE DEF n
  <2>3. vol_hdr'.next_fsid <= n
    BY <1>4, <1>6, <2>1, <2>2 DEF HigherOf
  <2>4. \/ vol_hdr'.next_fsid = n
        \/ \E g \in Fsids, D \in SUBSET Blocks : InodeRec(g, D) \in ToApply' /\ n = g + 1
    <3>1. CASE vol_hdr.next_fsid = n
      BY <1>4, <1>6, <2>1, <2>2, <3>1 DEF HigherOf
    <3>2. CASE \E g \in Fsids, D \in SUBSET Blocks : InodeRec(g, D) \in ToApply /\ n = g + 1
      <4>1. PICK g \in Fsids, D \in SUBSET Blocks : InodeRec(g, D) \in ToApply /\ n = g + 1
        BY <3>2
      <4>2. CASE InodeRec(g, D) \in ToApply'
        BY <4>1, <4>2
      <4>3. CASE InodeRec(g, D) = e.rec
        <5>1. g = f
          BY <1>3, <4>3, RecFields
        <5> QED BY <1>4, <1>6, <2>1, <2>2, <4>1, <5>1 DEF HigherOf
      <4> QED BY <1>1, <4>1, <4>2, <4>3
    <3> QED BY <2>2, <3>1, <3>2
  <2> QED BY <1>7, <1>11, <2>2, <2>3, <2>4 DEF FsidsLogged, n
<1> QED BY <1>1, <1>7, <1>13, <1>14, <1>15, <1>16, <1>17 DEF RecoveryInv

\* Applying an entry of a commit keeps the invariant.
LEMMA RecoveryApplyEntry ==
  ASSUME TypeInv, TypeInv', TxnInv, RecoveryInv, Running, ApplyEntry
  PROVE  RecoveryInv'
<1> DEFINE e == Head(list)
<1>1. CASE e.rec.t = "map"
  BY <1>1, RecoveryApplyMap
<1>2. CASE e.rec.t = "inode"
  BY <1>2, RecoveryApplyInode
<1>3. CASE e.rec.t \notin {"map", "inode"}
  <2>1. e = Head(list)
    OBVIOUS
  <2> HIDE DEF e
  <2>2. /\ Applying /\ Applying' /\ CallOK' /\ LoaderOK'
        /\ UNCHANGED <<disk, view, mode, call, current_log, lastcommit, lastsync, zmap, vol_hdr, ld>>
        /\ \A r : r \in ToApply <=> r \in ToApply' \/ (r = e.rec /\ r.t \in {"map", "inode"})
    BY <1>3, <2>1, NextEntry
  <2>3. ToApply' = ToApply
    <3>1. \A r : r \in ToApply <=> r \in ToApply'
      BY <1>3, <2>2
    <3> QED BY <3>1
  <2> QED BY <2>2, <2>3, LoaderKeeps
<1> QED BY <1>1, <1>2, <1>3

\* The end of the loading keeps the invariant.
LEMMA RecoveryLoadDone ==
  ASSUME TypeInv, TypeInv', TxnInv, RecoveryInv, Running, LoadDone
  PROVE  RecoveryInv'
<1>1. /\ pc = "load" /\ call = "commit" /\ Applying /\ Frontier = ld.last /\ ld.last = k - 1
      /\ k \in Nat /\ H \in Nat /\ lastcommit \in Nat /\ ld.next \in Nat /\ ld.last \in Nat
      /\ H <= lastcommit /\ lastcommit < ld.last /\ ld.next \in (lastcommit + 1)..(ld.last + 1)
      /\ ld \in [next : Nat, last : Nat, part : Seq(Entry)]
  BY ApplyFacts DEF LoadDone
<1>2. /\ pc' = "apply" /\ ld' = [ld EXCEPT !.part = <<>>] /\ list' = list
      /\ UNCHANGED <<disk, view, mode, call, current_log, lastcommit, lastsync, zmap, vol_hdr, todo>>
  BY <1>1 DEF LoadDone, logvars, memvars
<1>3. ld.next = ld.last + 1
  <2>1. SUFFICES ASSUME ld.next <= ld.last PROVE FALSE
    BY <1>1
  <2>2. ~Readable(ld.next)
    BY <1>1, <2>1 DEF LoadDone, Loading
  <2>3. ld.next \in (view.hdr.stamp + 1)..(k - 1)
    BY <1>1, <2>1 DEF H
  <2> QED BY <2>2, <2>3 DEF RecoveryInv, LogWhole, WholeLog, Readable, SectorAt
<1>4. ld.part = <<>>
  <2>1. ~SectorAt(view, Frontier).split
    BY <1>1 DEF RecoveryInv, CommitsLast, CommitsEnd, H
  <2>2. ld.part # <<>> => SectorAt(view, ld.next - 1).split
    BY <1>1 DEF RecoveryInv, LoaderOK
  <2>3. ld.next - 1 = Frontier
    BY <1>1, <1>3
  <2> QED BY <2>1, <2>2, <2>3
<1>5. ld' = ld
  BY <1>1, <1>2, <1>4
<1>6. Applying' /\ CallOK'
  <2>1. CallOK'
    BY CallStep DEF RecoveryInv, Next, Step
  <2> QED BY <1>1, <1>2, <2>1 DEF Applying
<1>7. Frontier' = Frontier /\ ToApply' = ToApply /\ Batch' = Batch
  <2>1. Frontier' = Frontier
    BY <1>1, <1>5, <1>6 DEF Frontier
  <2>2. LoadedRecs' = LoadedRecs
    BY <1>2, <1>5 DEF LoadedRecs
  <2>3. /\ RecsIn(ld.next..ld.last)' = RecsIn(ld.next..ld.last)
        /\ RecsIn((lastcommit + 1)..Frontier)' = RecsIn((lastcommit + 1)..Frontier)
    BY <1>2, <1>5, <2>1 DEF RecsIn, RecsAt, RecSet
  <2> QED BY <1>1, <1>6, <2>1, <2>2, <2>3 DEF ToApply, Batch, Data
<1>8. LoaderOK'
  <2>1. Data(LoadedRecs') \subseteq Batch'
    <3>1. LoadedRecs' = LoadedRecs
      BY <1>2, <1>5 DEF LoadedRecs
    <3> QED BY <1>1, <1>7, <3>1 DEF RecoveryInv, LoaderOK
  <2>2. /\ \A i \in DOMAIN list : list[i].stamp > lastcommit
        /\ ld.last = k - 1 /\ current_log.recs = <<>> /\ current_log.size = 0
    BY <1>1 DEF RecoveryInv, LoaderOK
  <2>3. DOMAIN ld'.part = {}
    BY <1>4, <1>5
  <2> QED BY <1>1, <1>2, <1>3, <1>4, <1>5, <2>1, <2>2, <2>3 DEF LoaderOK, k, Data
<1> QED BY <1>1, <1>2, <1>5, <1>6, <1>7, <1>8, LoaderKeeps

-----------------------------------------------------------------------------
(* A call that leaves marks alone to be added, and no transaction open.    *)

MarksLeft ==
  \/ todo = NoTodo
  \/ \E t \in {"commit", "fssync"} : todo = [free |-> {}, alloc |-> {}, tail |-> <<Mark(t)>>]
  \/ todo = [free |-> {}, alloc |-> {}, tail |-> <<Mark("replay"), Mark("fssync")>>]

NoData == Data(TodoRecs) = {}

\* Such a call adds nothing that speaks of a file.
LEMMA MarksNoData == MarksLeft => NoData
<1> SUFFICES ASSUME MarksLeft PROVE NoData
  OBVIOUS
<1>1. \/ todo = NoTodo
      \/ \E t \in {"commit", "fssync"} : todo = [free |-> {}, alloc |-> {}, tail |-> <<Mark(t)>>]
      \/ todo = [free |-> {}, alloc |-> {}, tail |-> <<Mark("replay"), Mark("fssync")>>]
  BY DEF MarksLeft
<1> QED BY <1>1, NoDataTodo DEF NoData

\* The same after a step.
LEMMA MarksNoDataNext == MarksLeft' => Data(TodoRecs)' = {}
<1>1. MarksLeft' => NoData'
  BY MarksNoData, PTL
<1> QED BY <1>1 DEF NoData

NoneStaged == txn = NoTxn
NothingStaged == TxnRecs = {} /\ TxnUnits = 0

\* No open transaction, no entries for it,
LEMMA NoTxnNothing == txn = NoTxn => NothingStaged
<1> SUFFICES ASSUME txn = NoTxn PROVE NothingStaged
  OBVIOUS
<1>1. Touched = {} /\ \A f \in Fsids : txn[f] = NoChange
  BY DEF Touched, NoTxn
<1>2. Gains = {} /\ Losses = {}
  BY <1>1 DEF Gains, Losses, Gained, Lost
<1>3. TxnRecs = {}
  BY <1>1, <1>2 DEF TxnRecs
<1>4. Cardinality(Gains \cup Losses) = 0 /\ Cardinality(Touched) = 0
  BY <1>1, <1>2, FS_EmptySet
<1>5. MapLen * 0 + InodeLen * 0 = 0
  BY UnitLens
<1> QED BY <1>3, <1>4, <1>5 DEF NothingStaged, TxnUnits

\* and the same after a step.
LEMMA NoTxnNext == txn' = NoTxn => TxnRecs' = {} /\ TxnUnits' = 0
<1>1. NoneStaged => NothingStaged
  BY NoTxnNothing DEF NoneStaged
<1>2. NoneStaged' => NothingStaged'
  BY <1>1, PTL
<1>3. NoTxn' = NoTxn
  BY DEF NoTxn
<1> QED BY <1>2, <1>3 DEF NothingStaged, NoneStaged

\* Without a transaction nothing is in the log behind the last commit.
LEMMA NothingOpen ==
  ASSUME TypeInv, txn = NoTxn, TxnInLog, Running, ~Applying
  PROVE  Data(OpenRecs) = {} /\ Data(TodoRecs) = {}
<1>1. TxnRecs = {}
  BY NoTxnNothing DEF NothingStaged
<1> QED BY <1>1 DEF TxnInLog

\* Memory is what a replay finds, between commits.
LEMMA MemoryLogged ==
  ASSUME TypeInv, RecoveryInv, Running, ToApply = {}
  PROVE  /\ Applying \/ Batch = {} =>
              /\ \A f \in Fsids : RecoveredFiles(view)[f] = view.inode[f]
              /\ \A b \in Blocks : b \in RecoveredAlloc(view) <=> b \in zmap[ZoneOf[b]].alloc
         /\ RecoveredNextFsid(view) = vol_hdr.next_fsid
<1>1. RecoveredNextFsid(view) = vol_hdr.next_fsid
  BY DEF RecoveryInv, FsidsLogged
<1>2. CASE Batch = {}
  BY <1>1, <1>2 DEF RecoveryInv, FilesLogged, BlocksLogged
<1>3. CASE Applying
  <2>1. ASSUME NEW f \in Fsids PROVE RecoveredFiles(view)[f] = view.inode[f]
    <3> DEFINE F == RecoveredFiles(view)[f]
    <3>1. SUFFICES ASSUME InodeRec(f, F) \in Batch PROVE F = view.inode[f]
      BY DEF RecoveryInv, FilesLogged
    <3>2. F \in SUBSET Blocks
      <4>1. PICK s \in (lastcommit + 1)..Frontier : \E i \in DOMAIN SectorAt(view, s).recs :
                   InodeRec(f, F) = SectorAt(view, s).recs[i]
        BY <3>1, BatchIs
      <4>2. s \in Nat /\ view \in Volume
        BY RunTypes, RunFacts DEF RecoveryInv
      <4>3. InodeRec(f, F) \in Rec
        BY <4>1, <4>2, SectorType DEF Sector
      <4> HIDE DEF F
      <4> QED BY <4>3, RecShape, RecFields
    <3> HIDE DEF F
    <3> QED BY <1>3, <3>1, <3>2 DEF RecoveryInv, BatchApplied
  <2>2. ASSUME NEW b \in Blocks PROVE b \in RecoveredAlloc(view) <=> b \in zmap[ZoneOf[b]].alloc
    <3>1. SUFFICES ASSUME NEW x \in BOOLEAN, MapRec(b, x) \in Batch
                   PROVE  b \in RecoveredAlloc(view) <=> b \in zmap[ZoneOf[b]].alloc
      BY DEF RecoveryInv, BlocksLogged
    <3>2. b \in RecoveredAlloc(view) <=> ~x
      BY <3>1 DEF RecoveryInv, BlocksLogged
    <3>3. b \in zmap[ZoneOf[b]].alloc <=> ~x
      BY <1>3, <3>1 DEF RecoveryInv, BatchApplied
    <3> QED BY <3>2, <3>3
  <2> QED BY <1>1, <2>1, <2>2
<1> QED BY <1>1, <1>2, <1>3

-----------------------------------------------------------------------------
(* A commit is complete.                                                   *)

\* With its entries applied a commit is over: the invariant holds without the transaction.
LEMMA RecoveryCommitApplied ==
  ASSUME TypeInv, TypeInv', TxnInv, RecoveryInv, Running, CommitApplied
  PROVE  RecoveryInv'
<1>1. /\ pc = "apply" /\ call = "commit" /\ Applying /\ Frontier = ld.last /\ ld.last = k - 1
      /\ txn = NoTxn /\ todo = NoTodo /\ view = disk /\ mode = "rw"
      /\ k \in Nat /\ H \in Nat /\ lastcommit \in Nat /\ ld.last \in Nat
      /\ H <= lastcommit /\ lastcommit < ld.last /\ list = <<>>
  BY ApplyFacts DEF CommitApplied
<1>2. /\ ld.next = ld.last + 1 /\ ld.part = <<>> /\ current_log.recs = <<>> /\ current_log.size = 0
  BY <1>1 DEF RecoveryInv, LoaderOK
<1>3. /\ lastcommit' = ld.last /\ vol_hdr' = [vol_hdr EXCEPT !.stamp = ld.last]
      /\ zmap' = [z \in Zones |-> IF zmap[z].dirty THEN [zmap[z] EXCEPT !.stamp = ld.last] ELSE zmap[z]]
      /\ UNCHANGED <<disk, view, mode, current_log, lastsync, txn, ld, list>>
      /\ IF SyncDue(ld.last)
           THEN /\ pc' = "add" /\ call' = "fssync"
                /\ todo' = [NoTodo EXCEPT !.tail = <<Mark("fssync")>>]
           ELSE pc' = "ready" /\ call' = "none" /\ todo' = todo
  BY DEF CommitApplied, CommitPoint
<1>4. ToApply = {}
  <2>1. LoadedRecs = {}
    BY <1>1, <1>2 DEF LoadedRecs
  <2>2. ld.next..ld.last = {}
    BY <1>1, <1>2
  <2>3. RecsIn(ld.next..ld.last) = {}
    BY <2>2 DEF RecsIn
  <2> QED BY <1>1, <2>1, <2>3 DEF ToApply, Data
<1>5. /\ \A f \in Fsids : RecoveredFiles(view)[f] = view.inode[f]
      /\ \A b \in Blocks : b \in RecoveredAlloc(view) <=> b \in zmap[ZoneOf[b]].alloc
      /\ RecoveredNextFsid(view) = vol_hdr.next_fsid
  BY <1>1, <1>4, MemoryLogged
<1>6. /\ zmap \in [Zones -> [alloc : SUBSET Blocks, stamp : Nat, dirty : BOOLEAN]]
      /\ vol_hdr \in [stamp : Nat, next_fsid : Nat] /\ \A b \in Blocks : ZoneOf[b] \in Zones
      /\ view \in Volume
  BY ConstantsOK DEF TypeInv, TypeOK, Zones
<1>7. /\ \A z \in Zones : zmap'[z].alloc = zmap[z].alloc /\ zmap'[z].dirty = zmap[z].dirty
      /\ \A z \in Zones : zmap'[z].stamp = ld.last \/ zmap'[z].stamp = zmap[z].stamp
      /\ vol_hdr'.stamp = ld.last /\ vol_hdr'.next_fsid = vol_hdr.next_fsid
  BY <1>3, <1>6
<1>8. /\ k' = k /\ H' = H /\ Running' /\ ~Applying' /\ ~CommitLanded'
      /\ pc' \in {"add", "ready"} /\ call' \in {"fssync", "none"}
  BY <1>1, <1>3 DEF k, H, Running, Applying, CommitLanded
<1>9. Frontier' = ld.last /\ Batch' = {} /\ ToApply' = {}
  BY <1>3, <1>8, NoBatchNext
<1>10. CallOK' /\ SameDisk' /\ FreshStart'
  <2>1. CallOK'
    BY CallStep DEF RecoveryInv, Next, Step
  <2> QED BY <1>1, <1>3, <1>8, <2>1 DEF SameDisk, FreshStart, Running
<1>11. FilesLogged' /\ BlocksLogged' /\ FsidsLogged' /\ NoLeakNoSharing'
  <2>1. FilesLogged'
    BY <1>3, <1>5, <1>9 DEF FilesLogged
  <2>2. BlocksLogged'
    <3>1. \A b \in Blocks : b \in RecoveredAlloc(view') <=> b \in zmap'[ZoneOf[b]].alloc
      BY <1>3, <1>5, <1>6, <1>7
    <3> QED BY <1>9, <3>1 DEF BlocksLogged
  <2>3. FsidsLogged'
    <3>1. RecoveredNextFsid(view) \in Nat
      BY <1>6, NextFsidIs
    <3> QED BY <1>3, <1>5, <1>7, <1>9, <3>1 DEF FsidsLogged
  <2>4. NoLeakNoSharing'
    BY <1>3 DEF RecoveryInv, NoLeakNoSharing
  <2> QED BY <2>1, <2>2, <2>3, <2>4
<1>12. LogWhole' /\ CommitsLast'
  <2>1. LogWhole'
    BY <1>1, <1>2, <1>3, <1>8, <1>9 DEF RecoveryInv, LogWhole
  <2>2. CommitsEnd(view', k' - 1, Frontier')
    BY <1>1, <1>3, <1>8, <1>9 DEF RecoveryInv, CommitsLast
  <2>3. (Frontier' + 1)..(k' - 1) = {} /\ DOMAIN current_log'.recs = {}
    BY <1>1, <1>2, <1>3, <1>8, <1>9
  <2> QED BY <1>8, <2>1, <2>2, <2>3 DEF CommitsLast
<1>13. TxnInLog'
  <2>1. TxnRecs' = {}
    BY <1>1, <1>3, NoTxnNext
  <2>2. Data(TodoRecs)' = {}
    <3>1. MarksLeft'
      BY <1>1, <1>3, TodoIs DEF MarksLeft
    <3> QED BY <3>1, MarksNoDataNext
  <2>3. Data(OpenRecs)' = {}
    <3>1. (lastcommit' + 1)..(k' - 1) = {} /\ DOMAIN current_log'.recs = {}
      BY <1>1, <1>2, <1>3, <1>8
    <3>2. OpenRecs' = {}
      BY <3>1 DEF OpenRecs, RecsIn, RecSet
    <3> QED BY <3>2 DEF Data
  <2> QED BY <2>1, <2>2, <2>3 DEF TxnInLog
<1>14. LoaderOK' /\ BatchApplied'
  BY <1>8 DEF LoaderOK, BatchApplied
<1>15. StampsOK'
  <2>1. \A z \in Zones : view.zone[z].stamp <= ld.last /\ zmap'[z].stamp <= ld.last
    <3>1. \A z \in Zones : /\ view.zone[z].stamp <= lastcommit /\ zmap[z].stamp <= lastcommit
                           /\ view.zone[z].stamp \in Nat /\ zmap[z].stamp \in Nat
      BY <1>6 DEF RecoveryInv, StampsOK, Volume
    <3> QED BY <1>1, <1>7, <3>1
  <2> QED BY <1>3, <1>7, <1>8, <2>1 DEF RecoveryInv, StampsOK
<1>16. LogRoom'
  <2>1. lastsync' = 0 /\ lastsync = 0 /\ ld.last + 1 + Beyond(MarkLen) <= H + NSectors
    BY <1>1, <1>3 DEF RecoveryInv, LogRoom
  <2>2. MarkLen \in Nat /\ Half \in Nat /\ Cap \in Nat \ {0} /\ lastcommit' # 0
    BY <1>1, <1>3, UnitLens
  <2>3. SyncLen' = MarkLen
    BY <2>2 DEF SyncLen
  <2>4. CASE SyncDue(ld.last)
    <3>1. pc' = "add" /\ call' = "fssync" /\ todo' = [free |-> {}, alloc |-> {}, tail |-> <<Mark("fssync")>>]
      BY <1>3, <2>4, TodoIs
    <3>2. TodoUnits' = MarkLen
      BY <3>1, TodoUnitsNext DEF MarkUnits
    <3>3. (k' - (lastcommit' + 1)) * Cap + current_log'.size + TodoUnits' <= SyncLen'
      <4>1. k' - (lastcommit' + 1) = 0 /\ current_log'.size = 0
        BY <1>1, <1>2, <1>3, <1>8
      <4>2. 0 * Cap + 0 + MarkLen <= MarkLen
        BY <2>2
      <4> QED BY <2>3, <3>2, <4>1, <4>2
    <3>4. lastcommit' + 1 + Beyond(SyncLen') <= H' + NSectors
      BY <1>3, <1>8, <2>1, <2>3
    <3> QED BY <1>8, <2>1, <3>1, <3>3, <3>4 DEF LogRoom
  <2>5. CASE ~SyncDue(ld.last)
    <3>1. pc' = "ready" /\ call' = "none" /\ todo' = NoTodo
      BY <1>1, <1>3, <2>5
    <3>2. TodoUnits' = 0
      <4>1. NoTodo' = NoTodo
        BY DEF NoTodo
      <4> QED BY <3>1, <4>1, TodoUnitsNext DEF MarkUnits
    <3>3. lastcommit' <= Half
      BY <1>1, <1>3, <2>1, <2>2, <2>5 DEF SyncDue, Half
    <3>4. Base' \in Int /\ k' - Base' <= 0
      <4>1. Beyond(SyncLen') \in Nat
        BY <2>2, <2>3, UnitLens
      <4> QED BY <1>1, <1>3, <1>8, <4>1 DEF Base
    <3>5. (k' - Base') * Cap <= 0 /\ (k' - Base') * Cap \in Int
      <4>1. \A m \in Int, n \in Nat \ {0} : m <= 0 => m * n <= 0 /\ m * n \in Int
        OBVIOUS
      <4>2. k' - Base' \in Int
        BY <1>8, <1>1, <3>4
      <4> QED BY <2>2, <3>4, <4>1, <4>2
    <3>6. TxnUnits' = 0 /\ current_log'.size = 0
      BY <1>1, <1>2, <1>3, NoTxnNext
    <3>7. (k' - Base') * Cap + current_log'.size + TodoUnits'
             <= TxnUnits' + (IF call' = "commit" THEN MarkLen ELSE 0)
      BY <3>1, <3>2, <3>5, <3>6
    <3> QED BY <1>8, <2>1, <3>1, <3>3, <3>7 DEF LogRoom
  <2> QED BY <2>4, <2>5
<1> QED BY <1>10, <1>11, <1>12, <1>13, <1>14, <1>15, <1>16 DEF RecoveryInv

-----------------------------------------------------------------------------
(* A step that does not touch the log.                                     *)

\* A step that leaves log, header and commits alone leaves the log whole.
LEMMA LogKept ==
  ASSUME TypeInv, RecoveryInv, Running, Running', view'.log = view.log, view'.hdr = view.hdr,
         UNCHANGED <<current_log, lastcommit>>, Frontier' = Frontier,
         ~(pc = "close" /\ call = "commit"), ~(pc' = "close" /\ call' = "commit")
  PROVE  LogWhole' /\ CommitsLast' /\ OpenRecs' = OpenRecs /\ H' = H /\ k' = k
<1>1. H' = H /\ k' = k /\ \A t : SectorAt(view', t) = SectorAt(view, t)
  BY DEF H, k, SectorAt
<1>2. LogWhole'
  <2>1. WholeLog(view', k - 1)
    BY <1>1 DEF RecoveryInv, LogWhole, WholeLog
  <2> QED BY <1>1, <2>1 DEF RecoveryInv, LogWhole
<1>3. CommitsLast'
  <2>1. CommitsEnd(view', k - 1, Frontier)
    BY <1>1 DEF RecoveryInv, CommitsLast, CommitsEnd
  <2> QED BY <1>1, <2>1 DEF RecoveryInv, CommitsLast, RecsAt
<1>4. OpenRecs' = OpenRecs
  BY <1>1 DEF OpenRecs, RecsIn, RecsAt, RecSet
<1> QED BY <1>1, <1>2, <1>3, <1>4

-----------------------------------------------------------------------------
(* A checkpoint is written.                                                *)

\* A sync that has written its log entry.
LEMMA SyncFacts ==
  ASSUME TypeInv, TxnInv, RecoveryInv, Running, pc = "zsync"
  PROVE  /\ call = "fssync" /\ mode = "rw" /\ view = disk /\ txn = NoTxn /\ todo = NoTodo
         /\ ~Applying /\ ~CommitLanded
         /\ Frontier = lastcommit /\ Batch = {} /\ ToApply = {}
         /\ k \in Nat /\ H \in Nat /\ lastcommit \in Nat /\ view \in Volume
         /\ zmap \in [Zones -> [alloc : SUBSET Blocks, stamp : Nat, dirty : BOOLEAN]]
         /\ vol_hdr \in [stamp : Nat, next_fsid : Nat] /\ \A b \in Blocks : ZoneOf[b] \in Zones
         /\ H <= lastcommit /\ lastcommit < k
         /\ \A f \in Fsids : RecoveredFiles(view)[f] = view.inode[f]
         /\ \A b \in Blocks : b \in RecoveredAlloc(view) <=> b \in zmap[ZoneOf[b]].alloc
         /\ RecoveredNextFsid(view) = vol_hdr.next_fsid
<1>1. call = "fssync" /\ mode = "rw" /\ todo = NoTodo /\ view = disk
  BY DEF RecoveryInv, CallOK, SameDisk, Running
<1>2. txn = NoTxn
  BY DEF TxnInv, TxnOpen
<1>3. ~Applying /\ ~CommitLanded
  BY <1>1 DEF Applying, CommitLanded
<1>4. Frontier = lastcommit /\ Batch = {} /\ ToApply = {}
  BY <1>3, NoBatch
<1>5. /\ zmap \in [Zones -> [alloc : SUBSET Blocks, stamp : Nat, dirty : BOOLEAN]]
      /\ vol_hdr \in [stamp : Nat, next_fsid : Nat] /\ \A b \in Blocks : ZoneOf[b] \in Zones
      /\ view \in Volume
  BY ConstantsOK DEF TypeInv, TypeOK, Zones
<1>6. /\ \A f \in Fsids : RecoveredFiles(view)[f] = view.inode[f]
      /\ \A b \in Blocks : b \in RecoveredAlloc(view) <=> b \in zmap[ZoneOf[b]].alloc
      /\ RecoveredNextFsid(view) = vol_hdr.next_fsid
  BY <1>4, MemoryLogged
<1>7. k \in Nat /\ H \in Nat /\ lastcommit \in Nat /\ H <= lastcommit /\ lastcommit < k
  BY <1>4, RunTypes, RunFacts DEF RecoveryInv
<1> QED BY <1>1, <1>2, <1>3, <1>4, <1>5, <1>6, <1>7

\* Writing a zone map in a checkpoint (mfs_zone_map_sync) keeps the invariant.
LEMMA RecoveryZoneMapSync ==
  ASSUME TypeInv, TypeInv', TxnInv, RecoveryInv, Running, ZoneMapSync
  PROVE  RecoveryInv'
<1>1. /\ pc = "zsync" /\ call = "fssync" /\ mode = "rw" /\ view = disk /\ txn = NoTxn /\ todo = NoTodo
      /\ ~Applying /\ ~CommitLanded
      /\ Frontier = lastcommit /\ Batch = {} /\ ToApply = {}
      /\ k \in Nat /\ H \in Nat /\ lastcommit \in Nat /\ view \in Volume
      /\ zmap \in [Zones -> [alloc : SUBSET Blocks, stamp : Nat, dirty : BOOLEAN]]
      /\ H <= lastcommit
      /\ \A f \in Fsids : RecoveredFiles(view)[f] = view.inode[f]
      /\ \A b \in Blocks : b \in RecoveredAlloc(view) <=> b \in zmap[ZoneOf[b]].alloc
      /\ RecoveredNextFsid(view) = vol_hdr.next_fsid
  BY SyncFacts DEF ZoneMapSync
<1>2. /\ UNCHANGED <<mode, pc, call, current_log, lastcommit, lastsync, vol_hdr, txn, todo, ld, list>>
      /\ zi \in Zones /\ zi' = zi + 1 /\ zi \in Nat
  BY ConstantsOK DEF ZoneMapSync, logvars, Zones, ZoneAfter
<1>3. /\ view'.log = view.log /\ view'.inode = view.inode /\ view'.hdr = view.hdr
      /\ disk' = view' /\ view' \in Volume
      /\ \A y \in Zones \ {zi} : view'.zone[y] = view.zone[y] /\ zmap'[y] = zmap[y]
      /\ zmap'[zi].alloc = zmap[zi].alloc /\ zmap'[zi].dirty = zmap[zi].dirty
      /\ zmap'[zi].stamp = zmap[zi].stamp \/ zmap'[zi].stamp = lastcommit
      /\ IF zmap[zi].dirty THEN /\ view'.zone[zi].alloc = zmap[zi].alloc
                                /\ view'.zone[zi].stamp = lastcommit
                           ELSE view' = view
  <2>1. view' \in Volume
    BY DEF TypeInv, TypeOK
  <2>2. CASE zmap[zi].dirty
    <3>1. /\ zmap' = [zmap EXCEPT ![zi].stamp = lastcommit]
          /\ view' = [view EXCEPT !.zone[zi] = [alloc |-> zmap[zi].alloc, stamp |-> lastcommit]]
          /\ disk' = view'
      BY <1>1, <2>2 DEF ZoneMapSync, WriteVol
    <3>2. /\ \A y \in Zones \ {zi} : zmap'[y] = zmap[y]
          /\ zmap'[zi].alloc = zmap[zi].alloc /\ zmap'[zi].dirty = zmap[zi].dirty
          /\ zmap'[zi].stamp = lastcommit
      BY <1>1, <1>2, <3>1
    <3>3. /\ view'.log = view.log /\ view'.inode = view.inode /\ view'.hdr = view.hdr
          /\ \A y \in Zones \ {zi} : view'.zone[y] = view.zone[y]
          /\ view'.zone[zi].alloc = zmap[zi].alloc /\ view'.zone[zi].stamp = lastcommit
      BY <1>1, <1>2, <3>1 DEF Volume
    <3> QED BY <2>1, <2>2, <3>1, <3>2, <3>3
  <2>3. CASE ~zmap[zi].dirty
    BY <1>1, <2>1, <2>3 DEF ZoneMapSync
  <2> QED BY <2>2, <2>3
<1>4. Running' /\ ~Applying' /\ ~CommitLanded'
  BY <1>1, <1>2 DEF Running, Applying, CommitLanded
<1>5. Frontier' = Frontier /\ Batch' = {} /\ ToApply' = {}
  BY <1>1, <1>2, <1>4, NoBatchNext
<1>6. LogWhole' /\ CommitsLast' /\ OpenRecs' = OpenRecs /\ H' = H /\ k' = k
  BY <1>1, <1>2, <1>3, <1>4, <1>5, LogKept
<1>7. CallOK' /\ SameDisk' /\ FreshStart'
  <2>1. CallOK'
    BY CallStep DEF RecoveryInv, Next, Step
  <2> QED BY <1>1, <1>3, <1>4, <2>1 DEF SameDisk, FreshStart, Running
<1>8. TxnInLog' /\ LoaderOK' /\ BatchApplied'
  <2>1. TxnRecs' = TxnRecs
    BY <1>2, <1>3, SameTxn
  <2>2. TodoRecs' = TodoRecs
    BY <1>2 DEF TodoRecs, RecSet
  <2> QED BY <1>1, <1>4, <1>6, <2>1, <2>2 DEF RecoveryInv, TxnInLog, LoaderOK, BatchApplied, Data
<1>9. \A z \in Zones : zmap'[z].alloc = zmap[z].alloc /\ zmap'[z].dirty = zmap[z].dirty
  BY <1>3
<1>10. StampsOK'
  <2>1. StampsOK
    BY DEF RecoveryInv
  <2>2. \A z \in Zones : view'.zone[z].stamp <= lastcommit /\ zmap'[z].stamp <= lastcommit
    BY <1>1, <1>3, <2>1 DEF StampsOK
  <2>3. \A z \in Zones : ~zmap'[z].dirty => zmap'[z].alloc = view'.zone[z].alloc
    BY <1>3, <1>9, <2>1 DEF StampsOK
  <2>4. \A z \in Zones : z < zi' => z < zi \/ z = zi
    BY <1>2 DEF Zones
  <2>5. \A z \in Zones : z < zi' => zmap'[z].alloc = view'.zone[z].alloc
    BY <1>1, <1>2, <1>3, <1>9, <2>1, <2>4 DEF StampsOK
  <2>6. vol_hdr'.stamp = lastcommit'
    BY <1>2, <2>1 DEF StampsOK
  <2> QED BY <1>2, <2>2, <2>3, <2>5, <2>6 DEF StampsOK
<1>11. /\ RecoveredFiles(view') = RecoveredFiles(view)
       /\ RecoveredNextFsid(view') = RecoveredNextFsid(view)
       /\ \A b \in Blocks : b \in RecoveredAlloc(view') <=> b \in RecoveredAlloc(view)
  <2>1. CASE zmap[zi].dirty
    <3> DEFINE C == Committed(view)
    <3>1. C = Committed(view') /\ \A p : RecAt(view', p) = RecAt(view, p)
      BY <1>3, SameCommitted
    <3>2. C = PlacesUpto(view, lastcommit) /\ \A p \in C : IsPlace(view, p)
      BY <1>1, RunFacts DEF RecoveryInv
    <3>3. \A p \in C : p[1] <= lastcommit
      BY <1>1, <3>2, PlaceUptoIs DEF Volume
    <3>4. view'.zone[zi].stamp = lastcommit /\ view'.zone[zi].alloc = zmap[zi].alloc
      BY <1>3, <2>1
    <3>5. C = Committed(view)
      OBVIOUS
    <3> HIDE DEF C
    <3>7. \A p \in C : p[1] <= view'.zone[zi].stamp
      BY <3>3, <3>4
    <3>8. \A p \in C : RecAt(view', p) = RecAt(view, p)
      BY <3>1
    <3>9. view \in Volume /\ view' \in Volume /\ zi \in Zones
      BY <1>1, <1>2, <1>3
    <3>10. /\ \A y \in Zones \ {zi} : view'.zone[y] = view.zone[y]
           /\ view'.inode = view.inode /\ view'.hdr = view.hdr
      BY <1>3
    <3> DEFINE w == view'
    <3>11. w \in Volume /\ ZoneSaved(view, w, C, zi) /\ w.zone[zi].alloc = zmap[zi].alloc
      BY <3>1, <3>2, <3>4, <3>5, <3>7, <3>8, <3>9, <3>10 DEF ZoneSaved
    <3> HIDE DEF w
    <3>12. /\ RecoveredFiles(w) = RecoveredFiles(view)
           /\ RecoveredNextFsid(w) = RecoveredNextFsid(view)
           /\ \A b \in Blocks : ZoneOf[b] = zi =>
                (b \in RecoveredAlloc(w) <=> b \in w.zone[zi].alloc)
           /\ \A b \in Blocks : ZoneOf[b] # zi =>
                (b \in RecoveredAlloc(w) <=> b \in RecoveredAlloc(view))
      BY <3>9, <3>11, ZoneReplay
    <3>13. \A b \in Blocks : ZoneOf[b] = zi => (b \in zmap[zi].alloc <=> b \in RecoveredAlloc(view))
      BY <1>1
    <3>14. \A b \in Blocks : b \in RecoveredAlloc(w) <=> b \in RecoveredAlloc(view)
      BY <3>11, <3>12, <3>13
    <3> QED BY <3>12, <3>14 DEF w
  <2>2. CASE ~zmap[zi].dirty
    BY <1>3, <2>2
  <2> QED BY <2>1, <2>2
<1>12. RecoveredAlloc(view') = RecoveredAlloc(view)
  <2>1. RecoveredAlloc(view') \subseteq Blocks /\ RecoveredAlloc(view) \subseteq Blocks
    BY DEF RecoveredAlloc
  <2> QED BY <1>11, <2>1
<1>13. FilesLogged' /\ BlocksLogged' /\ FsidsLogged' /\ NoLeakNoSharing'
  <2>1. \A b \in Blocks : b \in zmap'[ZoneOf[b]].alloc <=> b \in zmap[ZoneOf[b]].alloc
    BY <1>9, SyncFacts DEF ZoneMapSync
  <2>2. Batch' = Batch /\ ToApply' = ToApply
    BY <1>1, <1>5
  <2> QED BY <1>2, <1>3, <1>11, <1>12, <2>1, <2>2, SameLogged DEF RecoveryInv
<1>14. LogRoom'
  <2>1. SyncLen' = SyncLen
    BY <1>2 DEF SyncLen
  <2> QED BY <1>1, <1>2, <1>4, <1>6, <2>1 DEF RecoveryInv, LogRoom
<1> QED BY <1>6, <1>7, <1>8, <1>10, <1>13, <1>14 DEF RecoveryInv

\* The header moves the checkpoint up to the last commit: the log holds nothing a replay
\* would apply, and everything is in the zone maps and inodes.
LEMMA RecoveryWriteVolumeHeader ==
  ASSUME TypeInv, TypeInv', TxnInv, RecoveryInv, Running, WriteVolumeHeader
  PROVE  RecoveryInv'
<1>1. /\ pc = "zsync" /\ call = "fssync" /\ mode = "rw" /\ view = disk /\ txn = NoTxn /\ todo = NoTodo
      /\ ~Applying /\ ~CommitLanded
      /\ Frontier = lastcommit /\ Batch = {} /\ ToApply = {}
      /\ k \in Nat /\ H \in Nat /\ lastcommit \in Nat /\ view \in Volume
      /\ vol_hdr \in [stamp : Nat, next_fsid : Nat] /\ \A b \in Blocks : ZoneOf[b] \in Zones
      /\ H <= lastcommit /\ lastcommit < k
      /\ \A f \in Fsids : RecoveredFiles(view)[f] = view.inode[f]
      /\ \A b \in Blocks : b \in RecoveredAlloc(view) <=> b \in zmap[ZoneOf[b]].alloc
      /\ RecoveredNextFsid(view) = vol_hdr.next_fsid
  BY SyncFacts DEF WriteVolumeHeader
<1>2. /\ UNCHANGED <<mode, current_log, lastcommit, lastsync, zmap, vol_hdr, txn, todo, ld, list>>
      /\ pc' = "ready" /\ call' = "none"
      /\ view' = [view EXCEPT !.hdr = vol_hdr] /\ disk' = view'
  BY <1>1 DEF WriteVolumeHeader, logvars, memvars, callvars, WriteVol
<1>3. StampsOK /\ vol_hdr.stamp = lastcommit /\ \A z \in Zones : zmap[z].alloc = view.zone[z].alloc
  <2>1. \A z \in Zones : z < zi
    <3>1. zi \in 1..(NZones + 1) /\ zi \notin Zones /\ NZones \in Nat
      BY ConstantsOK DEF WriteVolumeHeader, TypeInv, TypeOK
    <3> QED BY <3>1 DEF Zones
  <2> QED BY <1>1, <2>1 DEF RecoveryInv, StampsOK
<1>4. /\ view'.log = view.log /\ view'.inode = view.inode /\ view'.zone = view.zone
      /\ view'.hdr = vol_hdr /\ H' = lastcommit /\ k' = k
      /\ \A t : SectorAt(view', t) = SectorAt(view, t)
      /\ view' \in Volume /\ SplitOK(view')
  <2>1. view'.log = view.log /\ view'.inode = view.inode /\ view'.zone = view.zone /\ view'.hdr = vol_hdr
    BY <1>1, <1>2 DEF Volume
  <2>2. view' \in Volume /\ SplitOK(view')
    BY DEF TypeInv, TypeOK
  <2> QED BY <1>2, <1>3, <2>1, <2>2 DEF H, k, SectorAt
<1>5. Running' /\ ~Applying' /\ ~CommitLanded'
  BY <1>1, <1>2 DEF Running, Applying, CommitLanded
<1>6. Frontier' = lastcommit /\ Batch' = {} /\ ToApply' = {}
  BY <1>2, <1>5, NoBatchNext
<1>7. NSectors \in Nat /\ k - 1 \in Nat /\ k - 1 <= H + NSectors /\ lastcommit <= k - 1
  BY <1>1, RunTypes, RunFacts DEF RecoveryInv
<1>8. WholeLog(view', k - 1) /\ CommitsEnd(view', k - 1, lastcommit)
  <2>1. WholeLog(view, k - 1) /\ CommitsEnd(view, k - 1, lastcommit) /\ view.hdr.stamp = H
    BY <1>1 DEF RecoveryInv, LogWhole, CommitsLast, H
  <2>2. view'.hdr.stamp = lastcommit
    BY <1>3, <1>4
  <2>3. \A s \in (lastcommit + 1)..(k - 1) : s \in (H + 1)..(k - 1)
    BY <1>1, <1>7
  <2>4. \A s \in (lastcommit + 1)..((k - 1) - 1) : s \in (H + 1)..((k - 1) - 1)
    BY <1>1, <1>7
  <2>5. WholeLog(view', k - 1)
    <3>1. k - 1 <= lastcommit + NSectors
      BY <1>1, <1>7
    <3> QED BY <1>4, <1>7, <2>1, <2>2, <2>3, <2>4, <3>1 DEF WholeLog
  <2>6. CommitsEnd(view', k - 1, lastcommit)
    BY <1>1, <1>4, <1>7, <2>1, <2>2, <2>3 DEF CommitsEnd
  <2> QED BY <2>5, <2>6
<1>9. LogWhole' /\ CommitsLast'
  <2>1. LogWhole'
    <3>1. k - 1 > lastcommit => current_log.first = SectorAt(view, k - 1).split
      BY <1>1, <1>7 DEF RecoveryInv, LogWhole
    <3>2. current_log.size = 0 => ~current_log.first /\ current_log.recs = <<>>
      BY DEF RecoveryInv, LogWhole
    <3> QED BY <1>1, <1>2, <1>4, <1>5, <1>6, <1>8, <3>1, <3>2 DEF LogWhole
  <2>2. CommitsLast'
    <3>1. /\ \A s \in (lastcommit + 1)..(k - 1) : \A i \in DOMAIN RecsAt(s) : RecsAt(s)[i].t # "commit"
          /\ \A i \in DOMAIN current_log.recs : current_log.recs[i].t # "commit"
      BY <1>1 DEF RecoveryInv, CommitsLast
    <3> QED BY <1>2, <1>4, <1>6, <1>8, <3>1 DEF CommitsLast, RecsAt
  <2> QED BY <2>1, <2>2
<1>10. CallOK' /\ SameDisk' /\ FreshStart'
  <2>1. CallOK'
    BY CallStep DEF RecoveryInv, Next, Step
  <2> QED BY <1>2, <1>5, <2>1 DEF SameDisk, FreshStart, Running
<1>11. TxnInLog' /\ LoaderOK' /\ BatchApplied'
  <2>1. TxnRecs' = TxnRecs /\ OpenRecs' = OpenRecs /\ TodoRecs' = TodoRecs
    <3>1. TxnRecs' = TxnRecs
      BY <1>2, <1>4, SameTxn
    <3> QED BY <1>2, <1>4, <3>1 DEF OpenRecs, RecsIn, RecsAt, RecSet, TodoRecs
  <2> QED BY <1>1, <1>5, <2>1 DEF RecoveryInv, TxnInLog, LoaderOK, BatchApplied, Data
<1>12. StampsOK'
  BY <1>2, <1>3, <1>4, SameStamps
<1>13. /\ RecoveredFiles(view') = RecoveredFiles(view)
       /\ RecoveredAlloc(view') = RecoveredAlloc(view)
       /\ RecoveredNextFsid(view') = RecoveredNextFsid(view)
  <2>1. Committed(view') = PlacesUpto(view', lastcommit)
    BY <1>1, <1>4, <1>7, <1>8, CommittedPlaces
  <2>2. PlacesUpto(view', lastcommit) = {}
    <3>1. (view'.hdr.stamp + 1)..lastcommit = {}
      BY <1>1, <1>3, <1>4
    <3> QED BY <3>1 DEF PlacesUpto
  <2>3. /\ \A f \in Fsids : RecoveredFiles(view')[f] = view'.inode[f]
        /\ \A b \in Blocks : b \in RecoveredAlloc(view') <=> b \in view'.zone[ZoneOf[b]].alloc
        /\ RecoveredNextFsid(view') = view'.hdr.next_fsid
    BY <1>4, <2>1, <2>2, CleanReplay
  <2>4. \A f \in Fsids : RecoveredFiles(view')[f] = RecoveredFiles(view)[f]
    BY <1>1, <1>4, <2>3
  <2>5. \A b \in Blocks : b \in RecoveredAlloc(view') <=> b \in RecoveredAlloc(view)
    BY <1>1, <1>3, <1>4, <2>3
  <2>6. RecoveredAlloc(view') \subseteq Blocks /\ RecoveredAlloc(view) \subseteq Blocks
    BY DEF RecoveredAlloc
  <2>7. RecoveredFiles(view') = RecoveredFiles(view)
    BY <2>4 DEF RecoveredFiles
  <2>8. RecoveredAlloc(view') = RecoveredAlloc(view)
    BY <2>5, <2>6
  <2> QED BY <1>1, <1>4, <2>3, <2>7, <2>8
<1>14. FilesLogged' /\ BlocksLogged' /\ FsidsLogged' /\ NoLeakNoSharing'
  <2>1. Batch' = Batch /\ ToApply' = ToApply
    BY <1>1, <1>6
  <2> QED BY <1>2, <1>4, <1>13, <2>1, SameLogged DEF RecoveryInv
<1>15. LogRoom'
  <2>1. lastsync = 0 /\ current_log.size = 0 /\ k <= lastcommit + 2 + Beyond(SyncLen)
    BY <1>1 DEF RecoveryInv, LogRoom
  <2>2. SyncLen' = SyncLen /\ SyncLen \in Nat /\ Beyond(SyncLen) \in Nat /\ Cap \in Nat \ {0}
    BY <1>2, UnitLens DEF SyncLen
  <2>3. Base' = lastcommit + 2 + Beyond(SyncLen)
    BY <1>2, <1>4, <2>2 DEF Base
  <2>4. (k' - Base') * Cap <= 0 /\ (k' - Base') * Cap \in Int
    <3>1. \A m \in Int, n \in Nat \ {0} : m <= 0 => m * n <= 0 /\ m * n \in Int
      OBVIOUS
    <3>2. k' - Base' \in Int /\ k' - Base' <= 0
      BY <1>1, <1>4, <2>1, <2>2, <2>3
    <3> QED BY <2>2, <3>1, <3>2
  <2>5. TodoUnits' = 0
    <3>1. NoTodo' = NoTodo
      BY DEF NoTodo
    <3>2. todo' = NoTodo'
      BY <1>1, <1>2, <3>1
    <3> QED BY <3>2, TodoUnitsNext DEF MarkUnits
  <2>6. TxnUnits' = 0
    BY <1>1, <1>2, NoTxnNext
  <2>7. (k' - Base') * Cap + current_log'.size + TodoUnits'
             <= TxnUnits' + (IF call' = "commit" THEN MarkLen ELSE 0)
    BY <1>2, <2>1, <2>4, <2>5, <2>6
  <2> QED BY <1>2, <1>4, <1>5, <2>1, <2>7 DEF LogRoom
<1> QED BY <1>9, <1>10, <1>11, <1>12, <1>14, <1>15 DEF RecoveryInv

-----------------------------------------------------------------------------
(* A client starts a call.                                                 *)

\* Between calls, memory holds what a replay would find, and its zone maps and inodes agree.
LEMMA ReadyFacts ==
  ASSUME TypeInv, TxnInv, RecoveryInv, Running, pc = "ready"
  PROVE  /\ call = "none" /\ todo = NoTodo /\ mode = "rw" /\ view = disk
         /\ ~Applying /\ ~CommitLanded
         /\ Frontier = lastcommit /\ Batch = {} /\ ToApply = {}
         /\ \A f \in Fsids : RecoveredFiles(view)[f] = view.inode[f]
         /\ \A b \in Blocks : b \in RecoveredAlloc(view) <=> b \in zmap[ZoneOf[b]].alloc
         /\ RecoveredNextFsid(view) = vol_hdr.next_fsid
         /\ \A f \in Fsids : view.inode[f] \in SUBSET Blocks
         /\ \A f \in Fsids : \A b \in view.inode[f] : b \in zmap[ZoneOf[b]].alloc
         /\ \A f, g \in Fsids : f # g => view.inode[f] \cap view.inode[g] = {}
<1>1. call = "none" /\ todo = NoTodo /\ mode = "rw" /\ view = disk
  BY DEF RecoveryInv, CallOK, SameDisk, Running
<1>2. ~Applying /\ ~CommitLanded
  BY <1>1 DEF Applying, CommitLanded
<1>3. Frontier = lastcommit /\ Batch = {} /\ ToApply = {}
  BY <1>2, NoBatch
<1>4. /\ \A f \in Fsids : RecoveredFiles(view)[f] = view.inode[f]
      /\ \A b \in Blocks : b \in RecoveredAlloc(view) <=> b \in zmap[ZoneOf[b]].alloc
      /\ RecoveredNextFsid(view) = vol_hdr.next_fsid
  BY <1>3, MemoryLogged
<1>5. \A f \in Fsids : view.inode[f] \in SUBSET Blocks
  BY DEF TypeInv, TypeOK, Volume
<1>6. \A f \in Fsids : \A b \in view.inode[f] : b \in zmap[ZoneOf[b]].alloc
  <2>1. ASSUME NEW f \in Fsids, NEW b \in view.inode[f] PROVE b \in RecoveredAlloc(view)
    BY <1>1, <1>4, <2>1 DEF RecoveryInv, NoLeakNoSharing
  <2> QED BY <1>4, <1>5, <2>1
<1>7. \A f, g \in Fsids : f # g => view.inode[f] \cap view.inode[g] = {}
  <2>1. \A f, g \in Fsids : f # g => RecoveredFiles(view)[f] \cap RecoveredFiles(view)[g] = {}
    BY <1>1 DEF RecoveryInv, NoLeakNoSharing
  <2> QED BY <1>4, <2>1
<1> QED BY <1>1, <1>2, <1>3, <1>4, <1>5, <1>6, <1>7

\* What starting a call leaves alone.
LEMMA ClientKeeps ==
  ASSUME TypeInv, TypeInv', TxnInv, RecoveryInv, Running, pc = "ready",
         pc' \in {"ready", "add", "failed"}, CallOK',
         UNCHANGED <<disk, view, mode, current_log, lastcommit, lastsync, zmap, vol_hdr>>
  PROVE  /\ SameDisk' /\ FreshStart' /\ LogWhole' /\ CommitsLast' /\ LoaderOK'
         /\ BatchApplied' /\ StampsOK' /\ FilesLogged' /\ BlocksLogged' /\ FsidsLogged'
         /\ NoLeakNoSharing'
         /\ Running' /\ ~Applying' /\ OpenRecs' = OpenRecs /\ H' = H /\ k' = k /\ Base' = Base
<1>1. /\ ~Applying /\ ~CommitLanded /\ Frontier = lastcommit /\ Batch = {} /\ ToApply = {}
      /\ call = "none"
  BY ReadyFacts
<1>2. Running' /\ ~Applying' /\ ~CommitLanded'
  BY DEF Running, Applying, CommitLanded
<1>3. Frontier' = lastcommit /\ Batch' = {} /\ ToApply' = {}
  BY <1>2, NoBatchNext
<1>4. LogWhole' /\ CommitsLast' /\ OpenRecs' = OpenRecs /\ H' = H /\ k' = k
  <2>1. pc # "close" /\ pc' # "close" /\ view'.log = view.log /\ view'.hdr = view.hdr
    OBVIOUS
  <2> QED BY <1>1, <1>2, <1>3, <2>1, LogKept
<1>5. SameDisk' /\ FreshStart' /\ LoaderOK' /\ BatchApplied'
  BY <1>2 DEF RecoveryInv, SameDisk, FreshStart, Running, LoaderOK, BatchApplied
<1>6. StampsOK'
  BY SameStamps DEF RecoveryInv
<1>7. FilesLogged' /\ BlocksLogged' /\ FsidsLogged' /\ NoLeakNoSharing'
  <2>1. Batch' = Batch /\ ToApply' = ToApply
    BY <1>1, <1>3
  <2>2. view = disk
    BY ReadyFacts
  <2> QED BY <2>1, <2>2, SameLogged DEF RecoveryInv
<1>8. Base' = Base
  BY <1>4 DEF Base, SyncLen
<1> QED BY <1>2, <1>4, <1>5, <1>6, <1>7, <1>8

\* The blocks that an inode of the open transaction gains and gives up are no other's.
LEMMA NewChanges ==
  ASSUME TypeInv, TxnInv, RecoveryInv, Running, pc = "ready", NEW f \in Fsids, NEW B \in SUBSET Blocks,
         txn[f] = NoChange, B \ view.inode[f] \subseteq FreeBlocks
  PROVE  /\ (B \ view.inode[f]) \cap (Gains \cup Losses) = {}
         /\ (view.inode[f] \ B) \cap (Gains \cup Losses) = {}
<1> DEFINE old == view.inode[f]
<1>1. /\ \A g \in Fsids : \A b \in view.inode[g] : b \in zmap[ZoneOf[b]].alloc
      /\ \A g \in Fsids : f # g => view.inode[f] \cap view.inode[g] = {}
      /\ \A g \in Fsids : view.inode[g] \in SUBSET Blocks
  BY ReadyFacts
<1>2. \A b \in B \ old : b \notin zmap[ZoneOf[b]].alloc /\ b \notin pend
  BY DEF FreeBlocks
<1>3. \A b \in Gains : b \in pend /\ b \notin zmap[ZoneOf[b]].alloc
  BY DEF Gains, TxnInv, GainedPending, GainedIsOurs
<1>4. \A b \in Losses : \E g \in Fsids : g # f /\ b \in view.inode[g]
  BY DEF Losses, Lost
<1> QED BY <1>1, <1>2, <1>3, <1>4

\* The entries that an update of an inode adds to the log.
NewRec(r, f, B) ==
  \/ r = InodeRec(f, B)
  \/ \E b \in view.inode[f] \ B : r = MapRec(b, TRUE)
  \/ \E b \in B \ view.inode[f] : r = MapRec(b, FALSE)

\* The transaction with one more inode in it.
LEMMA TxnGrows ==
  ASSUME TypeInv, TypeInv', NEW f \in Fsids, NEW B \in SUBSET Blocks, txn[f] = NoChange,
         txn' = [txn EXCEPT ![f] = B], view' = view
  PROVE  /\ Touched' = Touched \cup {f} /\ f \notin Touched
         /\ Gains' = Gains \cup (B \ view.inode[f]) /\ Losses' = Losses \cup (view.inode[f] \ B)
         /\ \A r : r \in TxnRecs' <=> r \in TxnRecs \/ NewRec(r, f, B)
<1>1. txn \in [Fsids -> {NoChange} \cup SUBSET Blocks] /\ B # NoChange
  BY ConstantsOK DEF TypeInv, TypeOK
<1>2. txn'[f] = B /\ \A g \in Fsids \ {f} : txn'[g] = txn[g]
  BY <1>1
<1>3. Touched' = Touched \cup {f} /\ f \notin Touched
  BY <1>1, <1>2 DEF Touched
<1>4. /\ Gained(f)' = B \ view.inode[f] /\ Lost(f)' = view.inode[f] \ B
      /\ Gained(f) = {} /\ Lost(f) = {}
  BY <1>1, <1>2 DEF Gained, Lost
<1>5. \A g \in Fsids \ {f} : Gained(g)' = Gained(g) /\ Lost(g)' = Lost(g)
  BY <1>2 DEF Gained, Lost
<1>6. /\ \A b : b \in Gains <=> \E g \in Fsids : b \in Gained(g)
      /\ \A b : b \in Gains' <=> \E g \in Fsids : b \in Gained(g)'
      /\ \A b : b \in Losses <=> \E g \in Fsids : b \in Lost(g)
      /\ \A b : b \in Losses' <=> \E g \in Fsids : b \in Lost(g)'
  BY DEF Gains, Losses
<1>7. \A b : b \in Gains' <=> b \in Gains \/ b \in B \ view.inode[f]
  BY <1>4, <1>5, <1>6
<1>8. \A b : b \in Losses' <=> b \in Losses \/ b \in view.inode[f] \ B
  BY <1>4, <1>5, <1>6
<1>9. \A r : r \in TxnRecs <=> \/ \E g \in Touched : r = InodeRec(g, txn[g])
                               \/ \E b \in Losses : r = MapRec(b, TRUE)
                               \/ \E b \in Gains : r = MapRec(b, FALSE)
  BY DEF TxnRecs
<1>10. \A r : r \in TxnRecs' <=> \/ \E g \in Touched' : r = InodeRec(g, txn'[g])
                                 \/ \E b \in Losses' : r = MapRec(b, TRUE)
                                 \/ \E b \in Gains' : r = MapRec(b, FALSE)
  BY DEF TxnRecs
<1>11. \A r : (\E g \in Touched' : r = InodeRec(g, txn'[g]))
                <=> (r = InodeRec(f, B) \/ \E g \in Touched : r = InodeRec(g, txn[g]))
  <2>1. \A g \in Touched : g \in Fsids \ {f}
    BY <1>3 DEF Touched
  <2> QED BY <1>2, <1>3, <2>1
<1>12. \A r : r \in TxnRecs' <=> r \in TxnRecs \/ NewRec(r, f, B)
  BY <1>7, <1>8, <1>9, <1>10, <1>11 DEF NewRec
<1> QED BY <1>3, <1>7, <1>8, <1>12

\* Two sets with nothing in common.
LEMMA TwoSets ==
  ASSUME NEW S, NEW T, IsFiniteSet(S), IsFiniteSet(T), S \cap T = {}
  PROVE  /\ IsFiniteSet(S \cup T) /\ Cardinality(S \cup T) = Cardinality(S) + Cardinality(T)
         /\ Cardinality(S) \in Nat /\ Cardinality(T) \in Nat
<1>1. Cardinality(S) \in Nat /\ Cardinality(T) \in Nat
  BY FS_CardinalityType
<1>2. Cardinality(S \cap T) = 0
  BY FS_EmptySet
<1>3. IsFiniteSet(S \cup T) /\ Cardinality(S \cup T) = Cardinality(S) + Cardinality(T) - Cardinality(S \cap T)
  BY FS_Union
<1> QED BY <1>1, <1>2, <1>3

\* An update adds to the log what it adds to the transaction.
LEMMA UnitsGrow ==
  ASSUME TypeInv, TypeInv', TxnInv, RecoveryInv, Running, pc = "ready",
         NEW f \in Fsids, NEW B \in SUBSET Blocks, LogInodeUpdate(f, B)
  PROVE  TxnUnits' = TxnUnits + TodoUnits' /\ TxnUnits \in Nat /\ TodoUnits' \in Nat
<1> DEFINE old == view.inode[f]
           new == B \ old
           gone == old \ B
           C == Gains \cup Losses
<1>1. /\ txn[f] = NoChange /\ new \subseteq FreeBlocks /\ view' = view
      /\ txn' = [txn EXCEPT ![f] = B]
      /\ todo' = [free |-> gone, alloc |-> new, tail |-> <<InodeRec(f, B)>>] /\ call' = "log"
  BY DEF LogInodeUpdate, OnlyIn
<1>2. /\ Touched' = Touched \cup {f} /\ f \notin Touched
      /\ Gains' = Gains \cup new /\ Losses' = Losses \cup gone
  BY <1>1, TxnGrows
<1>3. new \cap C = {} /\ gone \cap C = {} /\ new \cap gone = {}
  BY <1>1, NewChanges
<1>4. C \in SUBSET Blocks /\ new \in SUBSET Blocks /\ gone \in SUBSET Blocks /\ Touched \in SUBSET Fsids
  <2>1. txn \in [Fsids -> {NoChange} \cup SUBSET Blocks] /\ old \in SUBSET Blocks
        /\ \A g \in Fsids : view.inode[g] \in SUBSET Blocks
    BY DEF TypeInv, TypeOK, Volume
  <2>2. \A g \in Fsids : Gained(g) \in SUBSET Blocks /\ Lost(g) \in SUBSET Blocks
    BY <2>1 DEF Gained, Lost
  <2>3. Gains \in SUBSET Blocks /\ Losses \in SUBSET Blocks
    BY <2>2 DEF Gains, Losses
  <2>4. Touched \in SUBSET Fsids
    BY DEF Touched
  <2> QED BY <2>1, <2>3, <2>4
<1> HIDE DEF C, new, gone, old
<1>5. IsFiniteSet(C) /\ IsFiniteSet(new) /\ IsFiniteSet(gone) /\ IsFiniteSet(Touched)
  BY <1>4, FiniteBlocks
<1>6. /\ Cardinality((C \cup new) \cup gone) = Cardinality(C) + Cardinality(new) + Cardinality(gone)
      /\ Cardinality(C) \in Nat /\ Cardinality(new) \in Nat /\ Cardinality(gone) \in Nat
  <2>1. /\ IsFiniteSet(C \cup new) /\ Cardinality(C \cup new) = Cardinality(C) + Cardinality(new)
        /\ Cardinality(C) \in Nat /\ Cardinality(new) \in Nat
    <3>1. C \cap new = {}
      BY <1>3
    <3> QED BY <1>5, <3>1, TwoSets
  <2>2. (C \cup new) \cap gone = {}
    BY <1>3
  <2> QED BY <1>5, <2>1, <2>2, TwoSets
<1>7. Cardinality(Touched') = Cardinality(Touched) + 1 /\ Cardinality(Touched) \in Nat
  BY <1>2, <1>5, FS_AddElement, FS_CardinalityType
<1>8. Gains' \cup Losses' = (C \cup new) \cup gone
  BY <1>2 DEF C
<1>9. TxnUnits' = MapLen * (Cardinality(C) + Cardinality(new) + Cardinality(gone))
                    + InodeLen * (Cardinality(Touched) + 1)
  BY <1>6, <1>7, <1>8 DEF TxnUnits
<1>10. TxnUnits = MapLen * Cardinality(C) + InodeLen * Cardinality(Touched)
  BY DEF TxnUnits, C
<1>11. TodoUnits' = MapLen * (Cardinality(gone) + Cardinality(new)) + InodeLen
  <2>1. Len(<<InodeRec(f, B)>>) = 1 /\ InodeLen * 1 = InodeLen
    BY UnitLens
  <2>2. todo'.free = gone /\ todo'.alloc = new /\ todo'.tail = <<InodeRec(f, B)>>
    BY <1>1
  <2>3. TodoUnits' = MapLen * (Cardinality(gone) + Cardinality(new)) + InodeLen * Len(<<InodeRec(f, B)>>)
    BY <1>1, <2>2 DEF TodoUnits
  <2> QED BY <2>1, <2>3
<1>12. TxnUnits \in Nat
  BY UnitTypes
<1>13. TodoUnits' \in Nat
  BY <1>6, <1>11, UnitLens
<1>14. TxnUnits' = TxnUnits + TodoUnits'
  <2>1. CASE MapLen = 1 /\ InodeLen = 1
    BY <1>6, <1>7, <1>9, <1>10, <1>11, <2>1
  <2>2. CASE MapLen = 1 /\ InodeLen = 2
    BY <1>6, <1>7, <1>9, <1>10, <1>11, <2>2
  <2>3. CASE MapLen = 2 /\ InodeLen = 1
    BY <1>6, <1>7, <1>9, <1>10, <1>11, <2>3
  <2>4. CASE MapLen = 2 /\ InodeLen = 2
    BY <1>6, <1>7, <1>9, <1>10, <1>11, <2>4
  <2> QED BY <2>1, <2>2, <2>3, <2>4, UnitLens
<1> QED BY <1>12, <1>13, <1>14

\* Starting an inode update (mfs_log_inode_update with its allocations) keeps the invariant.
LEMMA RecoveryLogInodeUpdate ==
  ASSUME TypeInv, TypeInv', TxnInv, RecoveryInv, Running,
         NEW f \in Fsids, NEW B \in SUBSET Blocks, LogInodeUpdate(f, B)
  PROVE  RecoveryInv'
<1>1. /\ pc = "ready" /\ pc' = "add" /\ call' = "log" /\ txn[f] = NoChange
      /\ UNCHANGED <<disk, view, mode, current_log, lastcommit, lastsync, zmap, vol_hdr>>
      /\ txn' = [txn EXCEPT ![f] = B]
      /\ todo' = [free |-> view.inode[f] \ B, alloc |-> B \ view.inode[f],
                  tail |-> <<InodeRec(f, B)>>]
  BY DEF LogInodeUpdate, OnlyIn, logvars
<1>2. CallOK'
  BY CallStep DEF RecoveryInv, Next, Client
<1>3. /\ SameDisk' /\ FreshStart' /\ LogWhole' /\ CommitsLast' /\ LoaderOK'
      /\ BatchApplied' /\ StampsOK' /\ FilesLogged' /\ BlocksLogged' /\ FsidsLogged'
      /\ NoLeakNoSharing'
      /\ Running' /\ ~Applying' /\ OpenRecs' = OpenRecs /\ H' = H /\ k' = k /\ Base' = Base
  BY <1>1, <1>2, ClientKeeps
<1>4. ~Applying /\ todo = NoTodo /\ call = "none"
  BY <1>1, ReadyFacts
<1>5. TxnInLog'
  <2>1. \A r : r \in TxnRecs' <=> r \in TxnRecs \/ NewRec(r, f, B)
    BY <1>1, TxnGrows
  <2>2. TxnRecs = Data(OpenRecs)
    BY <1>4, TxnAllOpen
  <2>3. \A r : r \in TodoRecs' <=> NewRec(r, f, B)
    <3>1. \A r : (\E i \in DOMAIN <<InodeRec(f, B)>> : r = <<InodeRec(f, B)>>[i]) <=> r = InodeRec(f, B)
      OBVIOUS
    <3>2. todo'.free = view.inode[f] \ B /\ todo'.alloc = B \ view.inode[f] /\ todo'.tail = <<InodeRec(f, B)>>
      BY <1>1
    <3>3. \A r : r \in TodoRecs' <=> \/ \E b \in todo'.free : r = MapRec(b, TRUE)
                                     \/ \E b \in todo'.alloc : r = MapRec(b, FALSE)
                                     \/ \E i \in DOMAIN todo'.tail : r = todo'.tail[i]
      BY DEF TodoRecs, RecSet
    <3> QED BY <3>1, <3>2, <3>3 DEF NewRec
  <2>4. \A r : r \in TodoRecs' => r.t \in {"map", "inode"}
    <3>1. /\ \A b : MapRec(b, TRUE).t = "map" /\ MapRec(b, FALSE).t = "map"
          /\ InodeRec(f, B).t = "inode"
      BY RecFields
    <3> QED BY <2>3, <3>1 DEF NewRec
  <2>5. Data(OpenRecs)' \cup Data(TodoRecs)' = TxnRecs'
    <3>1. \A r : r \in Data(OpenRecs)' <=> r \in TxnRecs
      BY <1>3, <2>2 DEF Data
    <3>2. \A r : r \in Data(TodoRecs)' <=> r \in TodoRecs'
      BY <2>4 DEF Data
    <3>3. \A r : r \in Data(OpenRecs)' \cup Data(TodoRecs)' <=> r \in TxnRecs'
      BY <2>1, <2>3, <3>1, <3>2
    <3> QED BY <3>3
  <2> QED BY <2>5 DEF TxnInLog
<1>6. LogRoom'
  <2>1. TxnUnits' = TxnUnits + TodoUnits' /\ TxnUnits \in Nat /\ TodoUnits' \in Nat
    BY <1>1, UnitsGrow
  <2>2. TodoUnits = 0
    BY <1>4, TodoUnitsAre DEF MarkUnits
  <2>3. /\ lastsync = 0 /\ (k - Base) * Cap + current_log.size + TodoUnits <= TxnUnits + 0
        /\ H = lastcommit \/ lastcommit <= Half
    BY <1>4 DEF RecoveryInv, LogRoom
  <2>4. (k - Base) * Cap + current_log.size \in Int
    <3>1. k \in Nat /\ lastcommit \in Nat /\ current_log.size \in 0..(Cap - 1) /\ Cap \in Nat
      BY RunTypes
    <3>2. Beyond(SyncLen) \in Nat
      BY UnitLens
    <3>3. Base \in Nat
      BY <3>1, <3>2 DEF Base
    <3>4. k - Base \in Int
      BY <3>1, <3>3
    <3>5. (k - Base) * Cap \in Int
      BY <3>1, <3>4
    <3> QED BY <3>1, <3>5
  <2>5. (k' - Base') * Cap + current_log'.size + TodoUnits' <= TxnUnits' + 0
    BY <1>1, <1>3, <2>1, <2>2, <2>3, <2>4
  <2>6. Half' = Half
    BY DEF Half
  <2> QED BY <1>1, <1>3, <2>3, <2>5, <2>6 DEF LogRoom
<1> QED BY <1>2, <1>3, <1>5, <1>6 DEF RecoveryInv

-----------------------------------------------------------------------------

\* A call that starts with no change to the transaction, adding marks alone.
LEMMA MarkCallStarts ==
  ASSUME TypeInv, TypeInv', TxnInv, RecoveryInv, Running, pc = "ready",
         pc' \in {"ready", "add", "failed"}, CallOK', MarksLeft',
         UNCHANGED <<disk, view, mode, current_log, lastcommit, lastsync, zmap, vol_hdr, txn>>,
         LogRoom'
  PROVE  RecoveryInv'
<1>1. /\ SameDisk' /\ FreshStart' /\ LogWhole' /\ CommitsLast' /\ LoaderOK'
      /\ BatchApplied' /\ StampsOK' /\ FilesLogged' /\ BlocksLogged' /\ FsidsLogged'
      /\ NoLeakNoSharing' /\ OpenRecs' = OpenRecs
  BY ClientKeeps
<1>2. TxnInLog'
  <2>1. TxnRecs' = TxnRecs
    BY SameTxn
  <2>2. TxnRecs = Data(OpenRecs)
    <3>1. ~Applying /\ todo = NoTodo
      BY ReadyFacts
    <3> QED BY <3>1, TxnAllOpen
  <2>3. Data(TodoRecs)' = {}
    BY MarksNoDataNext
  <2>4. Data(OpenRecs)' = Data(OpenRecs)
    BY <1>1 DEF Data
  <2> QED BY <2>1, <2>2, <2>3, <2>4 DEF TxnInLog
<1> QED BY <1>1, <1>2 DEF RecoveryInv

\* Between calls the entries in the log are those of the open transaction, and no more.
LEMMA ReadyRoom ==
  ASSUME TypeInv, TxnInv, RecoveryInv, Running, pc = "ready"
  PROVE  /\ lastsync = 0 /\ (k - Base) * Cap + current_log.size <= TxnUnits
         /\ H = lastcommit \/ lastcommit <= Half
         /\ (k - Base) * Cap + current_log.size \in Int /\ TxnUnits \in Nat /\ TodoUnits = 0
<1>1. ~Applying /\ todo = NoTodo /\ call = "none"
  BY ReadyFacts
<1>2. TodoUnits = 0
  BY <1>1, TodoUnitsAre DEF MarkUnits
<1>3. /\ lastsync = 0 /\ (k - Base) * Cap + current_log.size + TodoUnits <= TxnUnits + 0
      /\ H = lastcommit \/ lastcommit <= Half
  BY <1>1 DEF RecoveryInv, LogRoom
<1>4. (k - Base) * Cap + current_log.size \in Int
  <2>1. k \in Nat /\ lastcommit \in Nat /\ current_log.size \in 0..(Cap - 1) /\ Cap \in Nat
    BY RunTypes
  <2>2. Beyond(SyncLen) \in Nat
    BY UnitLens
  <2>3. k - Base \in Int
    BY <2>1, <2>2 DEF Base
  <2>4. (k - Base) * Cap \in Int
    BY <2>1, <2>3
  <2> QED BY <2>1, <2>4
<1>5. TxnUnits \in Nat
  BY UnitTypes
<1> QED BY <1>2, <1>3, <1>4, <1>5

\* An allocation that fails keeps the invariant.
LEMMA RecoveryAllocFails ==
  ASSUME TypeInv, TypeInv', TxnInv, RecoveryInv, Running, NEW B \in SUBSET Blocks, AllocFails(B)
  PROVE  RecoveryInv'
<1>1. /\ pc = "ready" /\ pc' = "ready"
      /\ UNCHANGED <<disk, view, mode, call, current_log, lastcommit, lastsync, zmap, vol_hdr, txn, todo>>
  BY DEF AllocFails, logvars, callvars
<1>2. CallOK'
  BY CallStep DEF RecoveryInv, Next, Client
<1>3. MarksLeft'
  <2>1. todo = NoTodo /\ NoTodo' = NoTodo
    BY <1>1, ReadyFacts DEF NoTodo
  <2> QED BY <1>1, <2>1 DEF MarksLeft
<1>4. LogRoom'
  <2>1. Running' /\ ~Applying' /\ H' = H /\ k' = k /\ Base' = Base
    BY <1>1, <1>2, ClientKeeps
  <2>2. TxnUnits' = TxnUnits
    BY <1>1, SameTxn
  <2>3. call = "none" /\ todo = NoTodo
    BY <1>1, ReadyFacts
  <2>4. TodoUnits' = 0
    <3>1. todo' = NoTodo'
      BY <1>1, <2>3 DEF NoTodo
    <3> QED BY <3>1, TodoUnitsNext DEF MarkUnits
  <2>5. (k' - Base') * Cap + current_log'.size + TodoUnits' <= TxnUnits' + 0
    BY <1>1, <2>1, <2>2, <2>4, ReadyRoom
  <2>6. Half' = Half
    BY DEF Half
  <2> QED BY <1>1, <2>1, <2>3, <2>5, <2>6, ReadyRoom DEF LogRoom
<1> QED BY <1>1, <1>2, <1>3, <1>4, MarkCallStarts

\* Starting a commit (mfs_log_commit) keeps the invariant.
LEMMA RecoveryLogCommit ==
  ASSUME TypeInv, TypeInv', TxnInv, RecoveryInv, Running, LogCommit
  PROVE  RecoveryInv'
<1>1. /\ pc = "ready" /\ pc' = "add" /\ call' = "commit"
      /\ todo' = [free |-> {}, alloc |-> {}, tail |-> <<Mark("commit")>>]
      /\ UNCHANGED <<disk, view, mode, current_log, lastcommit, lastsync, zmap, vol_hdr, txn>>
  BY TodoIs DEF LogCommit, logvars, memvars
<1>2. CallOK'
  BY CallStep DEF RecoveryInv, Next, Client
<1>3. MarksLeft'
  BY <1>1 DEF MarksLeft, Mark
<1>4. LogRoom'
  <2>1. Running' /\ ~Applying' /\ H' = H /\ k' = k /\ Base' = Base
    BY <1>1, <1>2, ClientKeeps
  <2>2. TxnUnits' = TxnUnits
    BY <1>1, SameTxn
  <2>3. TodoUnits' = MarkLen /\ MarkLen \in Nat
    BY <1>1, TodoUnitsNext, UnitLens DEF MarkUnits
  <2>4. (k' - Base') * Cap + current_log'.size + TodoUnits' <= TxnUnits' + MarkLen
    BY <1>1, <2>1, <2>2, <2>3, ReadyRoom
  <2>5. Half' = Half
    BY DEF Half
  <2> QED BY <1>1, <2>1, <2>4, <2>5, ReadyRoom DEF LogRoom
<1> QED BY <1>1, <1>2, <1>3, <1>4, MarkCallStarts

\* Starting a sync (mfs_log_fssync) keeps the invariant.
LEMMA RecoveryLogFssync ==
  ASSUME NEW n \in Nat, Fits(n), TypeInv, TypeInv', TxnInv, RecoveryInv, Running, LogFssync
  PROVE  RecoveryInv'
<1>1. /\ pc = "ready"
      /\ UNCHANGED <<disk, view, mode, current_log, lastcommit, lastsync, zmap, vol_hdr, txn>>
      /\ \/ /\ FssyncVerdict = "sync" /\ pc' = "add" /\ call' = "fssync"
            /\ todo' = [free |-> {}, alloc |-> {}, tail |-> <<Mark("fssync")>>]
         \/ /\ pc' \in {"ready", "failed"} /\ call' = call /\ todo' = todo
  <2>1. FssyncVerdict # "replay"
    BY DEF FssyncVerdict, Running
  <2> QED BY <2>1, TodoIs DEF LogFssync, logvars, memvars
<1>2. CallOK'
  BY CallStep DEF RecoveryInv, Next, Client
<1>3. call = "none" /\ todo = NoTodo /\ NoTodo' = NoTodo
  BY <1>1, ReadyFacts DEF NoTodo
<1>4. MarksLeft'
  BY <1>1, <1>3 DEF MarksLeft, Mark
<1>5. Running' /\ ~Applying' /\ H' = H /\ k' = k /\ Base' = Base
  BY <1>1, <1>2, ClientKeeps
<1>6. lastsync = 0 /\ (H = lastcommit \/ lastcommit <= Half)
  BY <1>1, ReadyRoom
<1>7. LogRoom'
  <2>1. CASE call' = "fssync"
    <3>1. /\ FssyncVerdict = "sync" /\ pc' = "add"
          /\ todo' = [free |-> {}, alloc |-> {}, tail |-> <<Mark("fssync")>>]
      BY <1>1, <1>3, <2>1
    <3>2. k = lastcommit + 1 /\ current_log.size = 0
      BY <3>1 DEF FssyncVerdict, k
    <3>3. TodoUnits' = MarkLen /\ MarkLen \in Nat
      BY <2>1, <3>1, TodoUnitsNext, UnitLens DEF MarkUnits
    <3>4. SyncLen' = SyncLen /\ SyncLen \in Nat /\ MarkLen <= SyncLen
      BY <1>1, UnitLens DEF SyncLen
    <3>5. k \in Nat /\ H \in Nat /\ lastcommit \in Nat /\ Cap \in Nat /\ NSectors \in Nat /\ H <= lastcommit
      BY RunTypes, RunFacts DEF RecoveryInv
    <3>6. (k' - (lastcommit' + 1)) * Cap + current_log'.size + TodoUnits' <= SyncLen'
      <4>1. k' - (lastcommit' + 1) = 0 /\ current_log'.size = 0
        BY <1>1, <1>5, <3>2, <3>5
      <4>2. 0 * Cap + 0 + MarkLen <= SyncLen
        BY <3>3, <3>4, <3>5
      <4> QED BY <3>3, <3>4, <4>1, <4>2
    <3>7. lastcommit + 1 + Beyond(SyncLen) <= H + NSectors
      <4>1. /\ Beyond(n) \in Nat /\ Beyond(MarkLen) \in Nat /\ Beyond(2 * MarkLen) \in Nat
            /\ Half \in Nat
        BY <3>3, UnitLens
      <4>2. /\ Half + 1 + Beyond(n) + 1 + Beyond(MarkLen) <= NSectors
            /\ 2 + Beyond(2 * MarkLen) + Beyond(n) + 1 + Beyond(MarkLen) <= NSectors
        BY DEF Fits
      <4>3. SyncLen = MarkLen \/ (SyncLen = 2 * MarkLen /\ lastcommit = 0)
        BY DEF SyncLen
      <4>4. CASE H = lastcommit
        BY <3>5, <4>1, <4>2, <4>3, <4>4
      <4>5. CASE H # lastcommit
        <5>1. lastcommit <= Half /\ SyncLen = MarkLen
          BY <1>6, <3>5, <4>3, <4>5
        <5> QED BY <3>5, <4>1, <4>2, <5>1
      <4> QED BY <4>4, <4>5
    <3> QED BY <1>1, <1>5, <1>6, <2>1, <3>1, <3>4, <3>6, <3>7 DEF LogRoom
  <2>2. CASE call' # "fssync"
    <3>1. call' = "none" /\ todo' = NoTodo'
      BY <1>1, <1>3, <2>2
    <3>2. TxnUnits' = TxnUnits
      BY <1>1, SameTxn
    <3>3. TodoUnits' = 0
      BY <3>1, TodoUnitsNext DEF MarkUnits
    <3>4. (k' - Base') * Cap + current_log'.size + TodoUnits' <= TxnUnits' + 0
      BY <1>1, <1>5, <3>2, <3>3, ReadyRoom
    <3>5. Half' = Half
      BY DEF Half
    <3> QED BY <1>1, <1>5, <1>6, <3>1, <3>4, <3>5 DEF LogRoom
  <2> QED BY <2>1, <2>2
<1> QED BY <1>1, <1>2, <1>4, <1>7, MarkCallStarts

-----------------------------------------------------------------------------
(* The volume restore left, and its first replay.                          *)

\* A replay of the volume that restore lays out finds it empty,
LEMMA FreshReplay ==
  /\ Committed(FreshVolume) = {}
  /\ WholeLog(FreshVolume, 0) /\ CommitsEnd(FreshVolume, 0, 0)
  /\ FreshVolume \in Volume /\ SplitOK(FreshVolume)
  /\ FreshVolume.hdr.stamp = 0 /\ FreshVolume.hdr.next_fsid = 1
  /\ \A f \in Fsids : FreshVolume.inode[f] = {}
  /\ \A z \in Zones : FreshVolume.zone[z].alloc = {} /\ FreshVolume.zone[z].stamp = 0
<1>1. FreshVolume \in Volume /\ SplitOK(FreshVolume)
  <2>1. BlankSector \in Sector /\ ~BlankSector.split
    BY DEF BlankSector, Sector
  <2> QED BY <2>1 DEF FreshVolume, Volume, SplitOK
<1>2. /\ FreshVolume.hdr.stamp = 0 /\ FreshVolume.hdr.next_fsid = 1
      /\ \A f \in Fsids : FreshVolume.inode[f] = {}
      /\ \A z \in Zones : FreshVolume.zone[z].alloc = {} /\ FreshVolume.zone[z].stamp = 0
      /\ \A i \in Slots : FreshVolume.log[i].stamp = 0
  BY DEF FreshVolume, BlankSector
<1>3. (0 + 1)..0 = {} /\ (0 + 1)..(0 - 1) = {} /\ NSectors \in Nat
  BY ConstantsOK
<1>4. WholeLog(FreshVolume, 0)
  BY <1>2, <1>3 DEF WholeLog
<1>5. CommitsEnd(FreshVolume, 0, 0)
  BY <1>2, <1>3 DEF CommitsEnd
<1>6. Committed(FreshVolume) = PlacesUpto(FreshVolume, 0)
  BY <1>1, <1>4, <1>5, CommittedPlaces
<1>7. PlacesUpto(FreshVolume, 0) = {}
  BY <1>2, <1>3 DEF PlacesUpto
<1> QED BY <1>1, <1>2, <1>4, <1>5, <1>6, <1>7

\* so that its zone maps and inodes agree.
LEMMA FreshAgrees == disk = FreshVolume => NoLeakNoSharing
<1> SUFFICES ASSUME disk = FreshVolume PROVE NoLeakNoSharing
  OBVIOUS
<1>1. /\ \A f \in Fsids : RecoveredFiles(disk)[f] = {}
      /\ \A b \in Blocks : b \notin RecoveredAlloc(disk)
  <2>1. /\ \A f \in Fsids : RecoveredFiles(FreshVolume)[f] = FreshVolume.inode[f]
        /\ \A b \in Blocks : b \in RecoveredAlloc(FreshVolume)
                               <=> b \in FreshVolume.zone[ZoneOf[b]].alloc
    BY FreshReplay, CleanReplay
  <2>2. \A b \in Blocks : ZoneOf[b] \in Zones
    BY ConstantsOK DEF Zones
  <2> QED BY <2>1, <2>2, FreshReplay
<1>2. RecoveredAlloc(disk) = {}
  BY <1>1 DEF RecoveredAlloc
<1>3. UNION {RecoveredFiles(disk)[f] : f \in Fsids} = {}
  BY <1>1
<1> QED BY <1>1, <1>2, <1>3 DEF NoLeakNoSharing

\* The invariant holds when the volume is first mounted.
LEMMA RecoveryInit == Init => RecoveryInv
<1> SUFFICES ASSUME Init PROVE RecoveryInv
  OBVIOUS
<1>1. ~Running
  BY DEF Init, Running
<1>2. CallOK
  BY CallInit
<1>3. SameDisk /\ FreshStart /\ NoLeakNoSharing
  BY FreshAgrees DEF Init, SameDisk, FreshStart
<1> QED BY <1>1, <1>2, <1>3
       DEF RecoveryInv, LogWhole, CommitsLast, TxnInLog, LoaderOK, BatchApplied, StampsOK,
           FilesLogged, BlocksLogged, FsidsLogged, LogRoom

\* A step that writes nothing to the drives.
LEMMA NotWriting ==
  ASSUME ~Running', CallOK', SameDisk', FreshStart', disk' = disk, RecoveryInv
  PROVE  RecoveryInv'
BY DEF RecoveryInv, NoLeakNoSharing, LogWhole, CommitsLast, TxnInLog, LoaderOK, BatchApplied, StampsOK,
       FilesLogged, BlocksLogged, FsidsLogged, LogRoom

\* The first replay finds an empty log, and opens it.
LEMMA RecoveryReplayApplied ==
  ASSUME NEW n \in Nat, Fits(n), TypeInv, TypeInv', TxnInv, RecoveryInv, mode = "rw",
         pc = "apply", current_log = NoLog, ReplayApplied
  PROVE  RecoveryInv'
<1>1. /\ view = FreshVolume /\ zmap = LoadedZones(FreshVolume) /\ vol_hdr = FreshVolume.hdr
      /\ txn = NoTxn /\ lastcommit = 0 /\ lastsync = 0 /\ disk = view
  BY DEF RecoveryInv, FreshStart, SameDisk, TxnInv, FreshLog
<1>2. /\ lastcommit' = 0 /\ lastsync' = 0 /\ current_log' = EmptyLog(1, FALSE, 0)
      /\ todo' = [free |-> {}, alloc |-> {}, tail |-> <<Mark("replay"), Mark("fssync")>>]
      /\ pc' = "add" /\ call' = "fssync"
      /\ UNCHANGED <<disk, view, mode, zmap, vol_hdr, txn>>
  BY <1>1, FreshReplay, TodoIs DEF ReplayApplied, memvars
<1>3. /\ k' = 1 /\ H' = 0 /\ current_log'.recs = <<>> /\ current_log'.size = 0
      /\ current_log'.first = FALSE /\ current_log' # NoLog
  BY <1>1, <1>2, FreshReplay DEF k, H, EmptyLog, NoLog
<1>4. Running' /\ ~Applying' /\ ~CommitLanded'
  BY <1>2, <1>3 DEF Running, Applying, CommitLanded
<1>5. Frontier' = 0 /\ Batch' = {} /\ ToApply' = {}
  BY <1>2, <1>4, NoBatchNext
<1>6. (0 + 1)..0 = {} /\ k' - 1 = 0
  BY <1>3
<1>7. CallOK' /\ SameDisk' /\ FreshStart'
  <2>1. CallOK'
    BY CallStep DEF RecoveryInv, Next, Step
  <2> QED BY <1>1, <1>2, <1>4, <2>1 DEF SameDisk, FreshStart, Running
<1>8. LogWhole' /\ CommitsLast'
  <2>1. WholeLog(view', k' - 1) /\ CommitsEnd(view', k' - 1, Frontier')
    BY <1>1, <1>2, <1>5, <1>6, FreshReplay
  <2>2. LogWhole'
    <3>1. lastcommit' <= Frontier' /\ H' <= lastcommit' /\ ~(k' - 1 > H')
      BY <1>2, <1>3, <1>5, <1>6
    <3>2. ~current_log'.first /\ current_log'.recs = <<>>
      BY <1>3
    <3> QED BY <2>1, <3>1, <3>2 DEF LogWhole
  <2>3. DOMAIN current_log'.recs = {} /\ (Frontier' + 1)..(k' - 1) = {}
    BY <1>3, <1>5, <1>6
  <2>4. CommitsLast'
    BY <1>2, <2>1, <2>3 DEF CommitsLast
  <2> QED BY <2>2, <2>4
<1>9. TxnInLog' /\ LoaderOK' /\ BatchApplied'
  <2>1. TxnRecs' = {}
    BY <1>1, <1>2, NoTxnNext
  <2>2. Data(TodoRecs)' = {}
    <3>1. MarksLeft'
      BY <1>2 DEF MarksLeft, Mark
    <3> QED BY <3>1, MarksNoDataNext
  <2>3. Data(OpenRecs)' = {}
    <3>1. (lastcommit' + 1)..(k' - 1) = {} /\ DOMAIN current_log'.recs = {}
      <4>1. (lastcommit' + 1)..(k' - 1) = (0 + 1)..0
        BY <1>2, <1>6
      <4> QED BY <1>3, <1>6, <4>1
    <3>2. OpenRecs' = {}
      BY <3>1 DEF OpenRecs, RecsIn, RecSet
    <3> QED BY <3>2 DEF Data
  <2> QED BY <1>4, <2>1, <2>2, <2>3 DEF TxnInLog, LoaderOK, BatchApplied
<1>10. \A z \in Zones : zmap'[z].alloc = {} /\ zmap'[z].stamp = 0
  BY <1>1, <1>2, FreshReplay DEF LoadedZones
<1>11. StampsOK'
  <2>1. \A z \in Zones : view'.zone[z].alloc = {} /\ view'.zone[z].stamp = 0
    BY <1>1, <1>2, FreshReplay
  <2>2. vol_hdr'.stamp = 0
    BY <1>1, <1>2, FreshReplay
  <2>3. \A z \in Zones : zmap'[z].alloc = view'.zone[z].alloc
    BY <1>10, <2>1
  <2>4. \A z \in Zones : view'.zone[z].stamp <= lastcommit' /\ zmap'[z].stamp <= lastcommit'
    BY <1>2, <1>10, <2>1
  <2>5. vol_hdr'.stamp = lastcommit' /\ pc' # "zsync"
    BY <1>2, <2>2
  <2> QED BY <2>3, <2>4, <2>5 DEF StampsOK
<1>12. FilesLogged' /\ BlocksLogged' /\ FsidsLogged' /\ NoLeakNoSharing'
  <2>1. /\ \A f \in Fsids : RecoveredFiles(view')[f] = view'.inode[f]
        /\ \A b \in Blocks : b \in RecoveredAlloc(view') <=> b \in view'.zone[ZoneOf[b]].alloc
        /\ RecoveredNextFsid(view') = view'.hdr.next_fsid
    BY <1>1, <1>2, FreshReplay, CleanReplay
  <2>2. FilesLogged'
    BY <1>5, <2>1 DEF FilesLogged
  <2>3. BlocksLogged'
    <3>1. \A b \in Blocks : ZoneOf[b] \in Zones
      BY ConstantsOK DEF Zones
    <3>2. \A b \in Blocks : b \notin view'.zone[ZoneOf[b]].alloc /\ b \notin zmap'[ZoneOf[b]].alloc
      BY <1>1, <1>2, <1>10, <3>1, FreshReplay
    <3>3. \A b \in Blocks : b \in RecoveredAlloc(view') <=> b \in zmap'[ZoneOf[b]].alloc
      BY <2>1, <3>2
    <3> QED BY <1>5, <3>3 DEF BlocksLogged
  <2>4. FsidsLogged'
    <3>1. vol_hdr'.next_fsid = RecoveredNextFsid(view') /\ RecoveredNextFsid(view') = 1
      BY <1>1, <1>2, <2>1, FreshReplay
    <3> QED BY <1>5, <3>1 DEF FsidsLogged
  <2>5. NoLeakNoSharing'
    BY <1>2 DEF RecoveryInv, NoLeakNoSharing
  <2> QED BY <2>2, <2>3, <2>4, <2>5
<1>13. LogRoom'
  <2>1. /\ MarkLen \in Nat /\ Cap \in Nat /\ NSectors \in Nat /\ Beyond(n) \in Nat
        /\ Beyond(MarkLen) \in Nat /\ Beyond(2 * MarkLen) \in Nat
    BY UnitLens
  <2>2. SyncLen' = 2 * MarkLen
    BY <1>2 DEF SyncLen
  <2>3. TodoUnits' = 2 * MarkLen
    <3>1. TodoUnits' = MarkLen * 2
      BY <1>2, TodoUnitsNext DEF MarkUnits
    <3> QED BY <2>1, <3>1
  <2>4. (k' - (lastcommit' + 1)) * Cap + current_log'.size + TodoUnits' <= SyncLen'
    <3>1. k' - (lastcommit' + 1) = 0 /\ 0 * Cap = 0
      BY <1>2, <1>3, <2>1
    <3> QED BY <1>3, <2>1, <2>2, <2>3, <3>1
  <2>5. lastcommit' + 1 + Beyond(SyncLen') <= H' + NSectors
    BY <1>2, <1>3, <2>1, <2>2 DEF Fits
  <2> QED BY <1>2, <1>4, <2>4, <2>5 DEF LogRoom
<1> QED BY <1>7, <1>8, <1>9, <1>11, <1>12, <1>13 DEF RecoveryInv

-----------------------------------------------------------------------------
(* Steps while the log is not being written.                               *)

\* In memwrite mode nothing reaches the drives.
LEMMA ReadOnly ==
  ASSUME mode # "rw", Step \/ Client
  PROVE  disk' = disk /\ mode' = mode
<1>1. \A v : WriteVol(v) => disk' = disk
  BY DEF WriteVol
<1>2. CASE AddEntry
  <2>1. PICK r : AddRec(r)
    BY <1>2 DEF AddEntry
  <2> QED BY <1>1, <1>2, <2>1 DEF AddEntry, AddRec
<1>3. CASE CloseSector
  BY <1>1, <1>3 DEF CloseSector
<1>4. CASE LoadSector \/ LoadDone \/ Scan \/ CommitApplied \/ ReplayApplied
  BY <1>4 DEF LoadSector, LoadDone, Scan, CommitApplied, ReplayApplied
<1>5. CASE ApplyEntry
  BY <1>1, <1>5 DEF ApplyEntry
<1>6. CASE ZoneMapSync \/ WriteVolumeHeader
  BY <1>1, <1>6 DEF ZoneMapSync, WriteVolumeHeader
<1>7. CASE Client
  BY <1>7 DEF Client, LogInodeUpdate, AllocFails, LogCommit, LogFssync
<1> QED BY <1>2, <1>3, <1>4, <1>5, <1>6, <1>7 DEF Step

\* Up to the end of its first replay a fresh volume stays as it is.
LEMMA FreshStep ==
  ASSUME TypeInv, TxnInv, RecoveryInv, mode = "rw", pc # "down", current_log = NoLog,
         Step \/ Client, ~ReplayApplied
  PROVE  UNCHANGED <<disk, view, mode, current_log, zmap, vol_hdr, txn>> /\ pc' # "down"
<1>1. /\ pc \in {"ready", "load", "scan", "apply", "failed"}
      /\ pc \in {"load", "scan", "apply"} => call = "fssync" /\ ld.next = 1
      /\ view.log = FreshVolume.log /\ list = <<>>
  BY DEF TxnInv, FreshLog
<1>2. ~LoadSector
  <2>1. pc = "load" => ~Readable(ld.next)
    <3>1. \A i \in Slots : view.log[i].stamp = 0
      BY <1>1 DEF FreshVolume, BlankSector
    <3>2. Slot(1) \in Slots
      BY ConstantsOK DEF Slot, Slots
    <3> QED BY <1>1, <3>1, <3>2 DEF Readable
  <2> QED BY <2>1 DEF LoadSector, Loading
<1>3. ~AddEntry /\ ~CloseSector /\ ~ZoneMapSync /\ ~WriteVolumeHeader /\ ~ApplyEntry /\ ~CommitApplied
  BY <1>1 DEF AddEntry, CloseSector, ZoneMapSync, WriteVolumeHeader, ApplyEntry, CommitApplied
<1>4. CASE LoadDone \/ Scan
  BY <1>4 DEF LoadDone, Scan, logvars, memvars
<1>5. CASE Client
  BY <1>5 DEF Client, LogInodeUpdate, AllocFails, LogCommit, LogFssync, logvars, memvars
<1> QED BY <1>2, <1>3, <1>4, <1>5 DEF Step

\* While the log is not being written, by a process that is down or has it still to load,
\* or that only reads, no step disturbs the invariant.
LEMMA RecoveryQuiet ==
  ASSUME NEW n \in Nat, Fits(n), "rw" \notin RemountModes, TypeInv, TypeInv', TxnInv, RecoveryInv,
         ~Running, Next
  PROVE  RecoveryInv'
<1>1. CallOK'
  BY CallStep DEF RecoveryInv
<1>2. CASE Crash
  <2>1. ~Running' /\ SameDisk' /\ FreshStart' /\ disk' = disk
    BY <1>2 DEF Crash, Running, SameDisk, FreshStart
  <2> QED BY <1>1, <2>1, NotWriting
<1>3. CASE \E m \in RemountModes : Mount(m)
  <2>1. mode' # "rw" /\ disk' = disk
    BY <1>3 DEF Mount
  <2>2. ~Running' /\ SameDisk' /\ FreshStart'
    BY <2>1 DEF Running, SameDisk, FreshStart
  <2> QED BY <1>1, <2>1, <2>2, NotWriting
<1>4. CASE Step \/ Client
  <2>1. pc # "down"
    BY <1>4 DEF Step, Client, AddEntry, CloseSector, LoadSector, Loading, LoadDone, Scan, ApplyEntry,
                CommitApplied, ReplayApplied, ZoneMapSync, WriteVolumeHeader,
                LogInodeUpdate, AllocFails, LogCommit, LogFssync
  <2>2. CASE mode # "rw"
    <3>1. disk' = disk /\ mode' # "rw"
      BY <1>4, <2>2, ReadOnly
    <3>2. ~Running' /\ SameDisk' /\ FreshStart'
      BY <3>1 DEF Running, SameDisk, FreshStart
    <3> QED BY <1>1, <3>1, <3>2, NotWriting
  <2>3. CASE mode = "rw" /\ ReplayApplied
    <3>1. current_log = NoLog /\ pc = "apply"
      BY <2>1, <2>3 DEF Running, ReplayApplied
    <3> QED BY <2>3, <3>1, RecoveryReplayApplied
  <2>4. CASE mode = "rw" /\ ~ReplayApplied
    <3>1. current_log = NoLog
      BY <2>1, <2>4 DEF Running
    <3>2. UNCHANGED <<disk, view, mode, current_log, zmap, vol_hdr, txn>> /\ pc' # "down"
      BY <1>4, <2>1, <2>4, <3>1, FreshStep
    <3>3. FreshVolume' = FreshVolume /\ NoTxn' = NoTxn /\ NoLog' = NoLog
      BY DEF FreshVolume, NoTxn, NoLog
    <3>4. ~Running' /\ SameDisk' /\ FreshStart'
      BY <2>1, <2>4, <3>1, <3>2, <3>3 DEF RecoveryInv, Running, SameDisk, FreshStart, NoLog, LoadedZones
    <3> QED BY <1>1, <3>2, <3>4, NotWriting
  <2> QED BY <2>2, <2>3, <2>4
<1> QED BY <1>2, <1>3, <1>4 DEF Next

-----------------------------------------------------------------------------
(* Every step.                                                             *)

\* A step of a transaction that fits in the log keeps the invariant.
LEMMA RecoveryNext ==
  ASSUME NEW n \in Nat, Fits(n), "rw" \notin RemountModes, ShortTxn(n),
         TypeInv, TypeInv', TxnInv, RecoveryInv, [Next]_vars
  PROVE  RecoveryInv'
<1>1. CASE UNCHANGED vars
  <2> USE <1>1 DEF vars, logvars, memvars, callvars
  <2>1. CallOK'
    BY CallStep DEF RecoveryInv
  <2>2. SameDisk' /\ FreshStart' /\ NoLeakNoSharing' /\ H' = H /\ k' = k /\ (Running' <=> Running)
        /\ (Applying' <=> Applying) /\ (CommitLanded' <=> CommitLanded)
    BY DEF RecoveryInv, SameDisk, FreshStart, NoLeakNoSharing, H, k, Running, Applying, CommitLanded
  <2>3. /\ Frontier' = Frontier /\ OpenRecs' = OpenRecs /\ TodoRecs' = TodoRecs /\ TxnRecs' = TxnRecs
        /\ Batch' = Batch /\ LoadedRecs' = LoadedRecs /\ ToApply' = ToApply
        /\ TxnUnits' = TxnUnits /\ TodoUnits' = TodoUnits /\ Base' = Base /\ SyncLen' = SyncLen
    BY DEF Frontier, OpenRecs, TodoRecs, TxnRecs, Batch, LoadedRecs, ToApply, TxnUnits, TodoUnits,
           Base, SyncLen, RecsIn, RecsAt, RecSet, Data, Gains, Losses, Gained, Lost, Touched,
           H, k, Applying, CommitLanded
  <2>4. /\ LogWhole' /\ CommitsLast' /\ TxnInLog' /\ LoaderOK' /\ BatchApplied' /\ StampsOK'
        /\ FilesLogged' /\ BlocksLogged' /\ FsidsLogged' /\ LogRoom'
    BY <2>2, <2>3 DEF RecoveryInv, LogWhole, CommitsLast, TxnInLog, LoaderOK, BatchApplied, StampsOK,
       FilesLogged, BlocksLogged, FsidsLogged, LogRoom, RecsAt, Data
  <2> QED BY <2>1, <2>2, <2>4 DEF RecoveryInv
<1>2. CASE Next /\ ~Running
  BY <1>2, RecoveryQuiet
<1>3. CASE Next /\ Running
  <2>1. CASE Crash
    <3>1. ~Running' /\ SameDisk' /\ FreshStart' /\ disk' = disk
      BY <2>1 DEF Crash, Running, SameDisk, FreshStart
    <3>2. CallOK'
      BY CallStep DEF RecoveryInv
    <3> QED BY <3>1, <3>2, NotWriting
  <2>2. CASE \E m \in RemountModes : Mount(m)
    BY <1>3, <2>2 DEF Mount, Running
  <2>3. CASE Scan \/ ReplayApplied
    <3>1. pc \in {"scan", "apply"} /\ call = "fssync"
      BY <2>3 DEF Scan, ReplayApplied, RecoveryInv, CallOK
    <3> QED BY <1>3, <3>1 DEF TxnInv, ReplayFirst, Running
  <2>4. CASE Step
    BY <1>3, <2>3, <2>4, RecoveryAddEntry, RecoveryCloseSector, RecoveryLoadSector, RecoveryLoadDone,
       RecoveryApplyEntry, RecoveryCommitApplied, RecoveryZoneMapSync, RecoveryWriteVolumeHeader DEF Step
  <2>5. CASE Client
    BY <1>3, <2>5, RecoveryLogInodeUpdate, RecoveryAllocFails, RecoveryLogCommit, RecoveryLogFssync
       DEF Client
  <2> QED BY <1>3, <2>1, <2>2, <2>4, <2>5 DEF Next
<1> QED BY <1>1, <1>2, <1>3

-----------------------------------------------------------------------------
(* Crashes lose nothing, and the log has room.                             *)

\* A transaction never has more than MaxTxn inodes.
LEMMA FewTouchedNext == TypeInv /\ TypeInv' /\ FewTouched /\ [Next]_vars => FewTouched'
<1> SUFFICES ASSUME TypeInv, TypeInv', FewTouched, [Next]_vars PROVE FewTouched'
  OBVIOUS
<1>1. Touched \in SUBSET Fsids /\ MaxTxn \in Nat /\ Cardinality(Touched) \in Nat /\ IsFiniteSet(Touched)
  <2>1. Touched \in SUBSET Fsids
    BY DEF Touched
  <2> QED BY <2>1, FiniteBlocks, ConstantsOK
<1>2. CASE txn' = txn
  BY <1>2 DEF FewTouched, Touched
<1>3. CASE txn' = NoTxn
  <2>1. Touched' = {}
    BY <1>3 DEF Touched, NoTxn
  <2>2. Cardinality(Touched') = 0
    BY <2>1, FS_EmptySet
  <2> QED BY <1>1, <2>2 DEF FewTouched
<1>4. CASE \E f \in Fsids, B \in SUBSET Blocks : LogInodeUpdate(f, B)
  <2>1. PICK f \in Fsids, B \in SUBSET Blocks : LogInodeUpdate(f, B)
    BY <1>4
  <2>2. txn[f] = NoChange /\ txn' = [txn EXCEPT ![f] = B] /\ view' = view /\ Cardinality(Touched) < MaxTxn
    BY <2>1 DEF LogInodeUpdate
  <2>3. Touched' = Touched \cup {f} /\ f \notin Touched
    BY <2>2, TxnGrows
  <2>4. Cardinality(Touched') = Cardinality(Touched) + 1
    BY <1>1, <2>3, FS_AddElement
  <2> QED BY <1>1, <2>2, <2>4 DEF FewTouched
<1>5. txn' = txn \/ txn' = NoTxn \/ \E f \in Fsids, B \in SUBSET Blocks : LogInodeUpdate(f, B)
  <2>1. CASE UNCHANGED vars
    BY <2>1 DEF vars
  <2>2. CASE Step
    BY <2>2 DEF Step, AddEntry, CloseSector, LoadSector, LoadDone, Scan, ApplyEntry, CommitApplied,
                ReplayApplied, ZoneMapSync, WriteVolumeHeader
  <2>3. CASE Client
    BY <2>3 DEF Client, AllocFails, LogCommit, LogFssync
  <2>4. CASE Crash \/ \E m \in RemountModes : Mount(m)
    BY <2>4 DEF Crash, Mount
  <2> QED BY <2>1, <2>2, <2>3, <2>4 DEF Next
<1> QED BY <1>2, <1>3, <1>4, <1>5

\* So it takes no more than LongestTxn units of log.
LEMMA LongestFits == TypeInv /\ FewTouched => LongestTxn \in Nat /\ ShortTxn(LongestTxn)
<1> SUFFICES ASSUME TypeInv, FewTouched PROVE LongestTxn \in Nat /\ ShortTxn(LongestTxn)
  OBVIOUS
<1> DEFINE C == Gains \cup Losses
<1>1. C \in SUBSET Blocks /\ Touched \in SUBSET Fsids
  <2>1. /\ txn \in [Fsids -> {NoChange} \cup SUBSET Blocks]
        /\ \A g \in Fsids : view.inode[g] \in SUBSET Blocks
    BY DEF TypeInv, TypeOK, Volume
  <2>2. \A g \in Fsids : Gained(g) \in SUBSET Blocks /\ Lost(g) \in SUBSET Blocks
    BY <2>1 DEF Gained, Lost
  <2>3. Gains \in SUBSET Blocks /\ Losses \in SUBSET Blocks
    BY <2>2 DEF Gains, Losses
  <2> QED BY <2>3 DEF Touched
<1>2. TxnUnits = MapLen * Cardinality(C) + InodeLen * Cardinality(Touched)
  BY DEF TxnUnits
<1> HIDE DEF C
<1>3. /\ IsFiniteSet(Blocks) /\ Cardinality(Blocks) \in Nat /\ Cardinality(C) \in Nat
      /\ Cardinality(Touched) \in Nat /\ MaxTxn \in Nat
  BY <1>1, FiniteBlocks, DrivesFinite, FS_CardinalityType, ConstantsOK
<1>4. Cardinality(C) <= Cardinality(Blocks)
  BY <1>1, <1>3, FS_Subset
<1>5. Cardinality(Touched) <= MaxTxn
  BY DEF FewTouched
<1>6. \A a \in {1, 2}, m \in Nat, l \in Nat : m <= l => a * m <= a * l /\ a * m \in Nat /\ a * l \in Nat
  OBVIOUS
<1>7. /\ MapLen * Cardinality(C) <= MapLen * Cardinality(Blocks)
      /\ InodeLen * Cardinality(Touched) <= InodeLen * MaxTxn
      /\ MapLen * Cardinality(C) \in Nat /\ MapLen * Cardinality(Blocks) \in Nat
      /\ InodeLen * Cardinality(Touched) \in Nat /\ InodeLen * MaxTxn \in Nat
      /\ MarkLen \in Nat
  BY <1>3, <1>4, <1>5, <1>6, UnitLens
<1> QED BY <1>2, <1>7 DEF ShortTxn, LongestTxn

\* No transaction is open at first.
LEMMA FewTouchedInit == Init => FewTouched
<1> SUFFICES ASSUME Init PROVE FewTouched
  OBVIOUS
<1>1. Touched = {}
  BY DEF Init, Touched, NoTxn
<1> QED BY <1>1, FS_EmptySet, ConstantsOK DEF FewTouched

\* What every reachable state of a short enough log has.
RecoveryHolds(n) == TypeInv /\ TxnInv /\ RecoveryInv /\ ShortTxn(n)

\* The room that LogRoom counts keeps the log from coming round to what a replay needs.
LEMMA RoomBetweenCalls ==
  ASSUME NEW n \in Nat, Fits(n), RecoveryHolds(n)
  PROVE  LogNeverFull
<1> SUFFICES ASSUME pc = "ready", mode = "rw", current_log # NoLog
             PROVE  /\ lastcommit - disk.hdr.stamp <= NSectors \div 2
                    /\ current_log.stamp - disk.hdr.stamp <= NSectors
  BY DEF LogNeverFull
<1>1. TypeInv /\ TxnInv /\ RecoveryInv /\ ShortTxn(n) /\ Running
  BY DEF RecoveryHolds, Running
<1>2. view = disk /\ ~Applying
  BY <1>1, ReadyFacts
<1>3. H = lastcommit \/ lastcommit <= Half
  BY <1>1, ReadyRoom
<1>4. k <= H + NSectors
  BY <1>1, <1>2, RoomLeft
<1>5. /\ k \in Nat /\ H \in Nat /\ lastcommit \in Nat /\ NSectors \in Nat /\ Half \in Nat
  BY <1>1, RunTypes, UnitLens
<1>6. disk.hdr.stamp = H /\ current_log.stamp = k
  BY <1>2 DEF H, k
<1>7. lastcommit - H <= Half /\ k - H <= NSectors
  BY <1>3, <1>4, <1>5
<1> QED BY <1>6, <1>7 DEF Half

\* As long as no transaction is longer than the log has room for, replaying the log of a
\* volume gives block map, inodes and next fsid that agree, wherever the process stopped.
THEOREM ReplayAgrees ==
  ASSUME NEW n \in Nat, Fits(n), "rw" \notin RemountModes
  PROVE  Spec /\ []ShortTxn(n) => [](NoLeakNoSharing /\ LogNeverFull)
<1>1. Init => TypeInv /\ TxnInv /\ RecoveryInv
  BY TypeInit, TxnInit, RecoveryInit
<1>2. /\ TypeInv /\ TxnInv /\ RecoveryInv /\ ShortTxn(n) /\ [Next]_vars
      => (TypeInv /\ TxnInv /\ RecoveryInv)'
  BY TypeNext, TxnNext, RecoveryNext
<1>3. TypeInv /\ TxnInv /\ RecoveryInv /\ ShortTxn(n) => NoLeakNoSharing /\ LogNeverFull
  <2>1. RecoveryInv => NoLeakNoSharing
    BY DEF RecoveryInv
  <2>2. RecoveryHolds(n) => LogNeverFull
    BY RoomBetweenCalls
  <2> QED BY <2>1, <2>2 DEF RecoveryHolds
<1> QED BY <1>1, <1>2, <1>3, PTL DEF Spec

\* The invariant holds at first, with no transaction open,
LEMMA ShortInit == Init => TypeInv /\ TxnInv /\ RecoveryInv /\ FewTouched
  BY TypeInit, TxnInit, RecoveryInit, FewTouchedInit

\* and after every step when the longest transaction fits.
LEMMA ShortNext ==
  ASSUME "rw" \notin RemountModes, Fits(LongestTxn),
         TypeInv, TxnInv, RecoveryInv, FewTouched, [Next]_vars
  PROVE  (TypeInv /\ TxnInv /\ RecoveryInv /\ FewTouched)'
<1>1. TypeInv'
  BY TypeNext
<1>2. LongestTxn \in Nat /\ ShortTxn(LongestTxn)
  BY LongestFits
<1>3. TxnInv' /\ FewTouched'
  BY <1>1, TxnNext, FewTouchedNext
<1>4. RecoveryInv'
  BY <1>1, <1>2, RecoveryNext
<1> QED BY <1>1, <1>3, <1>4

\* Wherever the process stops, a replay of the log (mfs_log_fssync of the next mount)
\* finds zone maps and inodes that agree: no block of two files, none lost, none in use
\* that its map has free. For every number of zones, blocks and files and every length of
\* the log that the longest transaction fits in, on a volume that is not reopened for
\* writing.
THEOREM CrashLosesNothing ==
  ASSUME "rw" \notin RemountModes, Fits(LongestTxn)
  PROVE  Spec => []NoLeakNoSharing
<1>1. TypeInv /\ TxnInv /\ RecoveryInv /\ FewTouched /\ [Next]_vars
      => (TypeInv /\ TxnInv /\ RecoveryInv /\ FewTouched)'
  BY ShortNext
<1>2. RecoveryInv => NoLeakNoSharing
  BY DEF RecoveryInv
<1> QED BY ShortInit, <1>1, <1>2, PTL DEF Spec

\* The log of a volume being written is never so full that the next sector overwrites one
\* that a replay needs (mfs_log_write_current_log checks no such thing), under the same
\* assumptions.
THEOREM LogHasRoom ==
  ASSUME "rw" \notin RemountModes, Fits(LongestTxn)
  PROVE  Spec => []LogNeverFull
<1>1. TypeInv /\ TxnInv /\ RecoveryInv /\ FewTouched /\ [Next]_vars
      => (TypeInv /\ TxnInv /\ RecoveryInv /\ FewTouched)'
  BY ShortNext
<1>2. TypeInv /\ TxnInv /\ RecoveryInv /\ FewTouched => LogNeverFull
  <2> SUFFICES ASSUME TypeInv, TxnInv, RecoveryInv, FewTouched PROVE LogNeverFull
    OBVIOUS
  <2>1. LongestTxn \in Nat /\ ShortTxn(LongestTxn)
    BY LongestFits
  <2> QED BY <2>1, RoomBetweenCalls DEF RecoveryHolds
<1> QED BY ShortInit, <1>1, <1>2, PTL DEF Spec

-----------------------------------------------------------------------------
(* The log implements the atomic file system.                              *)

Files  == RecoveredFiles(disk)
Staged == IF CommitLanded THEN NoTxn ELSE txn

\* What a transaction makes of a file.
LEMMA AfterIs ==
  \A fs, st : Fs!After(fs, st) = [f \in Fsids |-> IF st[f] = NoChange THEN fs[f] ELSE st[f]]
BY DEF Fs!After

\* The files as a replay finds them, one for each fsid.
LEMMA FilesType == Files = [f \in Fsids |-> Files[f]]
BY DEF Files, RecoveredFiles

\* A file is as the last commit in the log has it, and as the inode on the drives where
\* that commit says nothing.
LEMMA FilesNow ==
  ASSUME RecoveryInv, Running
  PROVE  /\ \A f \in Fsids, B \in SUBSET Blocks : InodeRec(f, B) \in Batch => Files[f] = B
         /\ \A f \in Fsids : Files[f] = view.inode[f] \/ InodeRec(f, Files[f]) \in Batch
<1>1. view = disk
  BY DEF RecoveryInv, SameDisk, Running
<1> QED BY <1>1 DEF RecoveryInv, FilesLogged, Files

\* The same, after a step.
LEMMA FilesNext ==
  ASSUME RecoveryInv', Running'
  PROVE  /\ \A f \in Fsids, B \in SUBSET Blocks : InodeRec(f, B) \in Batch' => Files'[f] = B
         /\ \A f \in Fsids : Files'[f] = view'.inode[f] \/ InodeRec(f, Files'[f]) \in Batch'
<1>1. view' = disk'
  BY DEF RecoveryInv, SameDisk, Running
<1> QED BY <1>1 DEF RecoveryInv, FilesLogged, Files

\* An entry of a commit is one.
LEMMA BatchTyped ==
  ASSUME TypeInv, NEW r \in Batch
  PROVE  r \in Rec
<1>1. PICK s \in (lastcommit + 1)..Frontier : \E i \in DOMAIN SectorAt(view, s).recs :
              r = SectorAt(view, s).recs[i]
  BY BatchIs
<1>2. PICK i \in DOMAIN SectorAt(view, s).recs : r = SectorAt(view, s).recs[i]
  BY <1>1
<1>3. view \in Volume /\ lastcommit \in Nat /\ s \in Int /\ s >= lastcommit + 1
  BY RunTypes
<1>4. SectorAt(view, s) \in Sector
  BY <1>3, SectorType
<1>5. SectorAt(view, s).recs \in Seq(Rec)
  BY <1>4 DEF Sector
<1> QED BY <1>2, <1>5

\* A step that applies a commit, or touches neither inodes nor commits, is seen by nobody.
LEMMA SameFiles ==
  ASSUME TypeInv, TypeInv', RecoveryInv, RecoveryInv', Running, Running', Batch' = Batch,
         \A f \in Fsids : view'.inode[f] = view.inode[f] \/ InodeRec(f, view'.inode[f]) \in Batch
  PROVE  Files' = Files
<1>1. \A f \in Fsids : view'.inode[f] \in SUBSET Blocks
  BY DEF TypeInv, TypeOK, Volume
<1>2. ASSUME NEW f \in Fsids PROVE Files'[f] = Files[f]
  <2>1. CASE \E B \in SUBSET Blocks : InodeRec(f, B) \in Batch
    BY <2>1, FilesNow, FilesNext
  <2>2. CASE ~\E B \in SUBSET Blocks : InodeRec(f, B) \in Batch
    <3>1. view'.inode[f] = view.inode[f]
      BY <1>1, <2>2
    <3>2. Files'[f] = view'.inode[f] \/ InodeRec(f, Files'[f]) \in Batch
      BY FilesNext
    <3>3. Files[f] = view.inode[f] \/ InodeRec(f, Files[f]) \in Batch
      BY FilesNow
    <3>4. \A B : InodeRec(f, B) \in Batch => B \in SUBSET Blocks
      <4>1. ASSUME NEW B, InodeRec(f, B) \in Batch PROVE B \in SUBSET Blocks
        BY <4>1, BatchTyped, RecFields, RecShape
      <4> QED BY <4>1
    <3> QED BY <2>2, <3>1, <3>2, <3>3, <3>4
  <2> QED BY <2>1, <2>2
<1> QED BY <1>2, FilesType DEF Files, RecoveredFiles

\* A step that brings the open transaction into the log as a commit, commits it.
LEMMA FilesCommitted ==
  ASSUME TypeInv, RecoveryInv, RecoveryInv', Running, Running', Batch = {}, Batch' = TxnRecs,
         view'.inode = view.inode
  PROVE  Files' = Fs!After(Files, txn)
<1>1. /\ \A f \in Fsids : \A B : InodeRec(f, B) \in TxnRecs <=> f \in Touched /\ B = txn[f]
      /\ \A f \in Touched : f \in Fsids /\ txn[f] \in SUBSET Blocks
  BY TxnChanges
<1>2. ASSUME NEW f \in Fsids
      PROVE  Files'[f] = IF txn[f] = NoChange THEN Files[f] ELSE txn[f]
  <2>1. CASE txn[f] = NoChange
    <3>1. f \notin Touched
      BY <2>1 DEF Touched
    <3>2. Files'[f] = view'.inode[f] \/ InodeRec(f, Files'[f]) \in Batch'
      BY FilesNext
    <3>3. Files[f] = view.inode[f] \/ InodeRec(f, Files[f]) \in Batch
      BY FilesNow
    <3> QED BY <1>1, <2>1, <3>1, <3>2, <3>3
  <2>2. CASE txn[f] # NoChange
    <3>1. f \in Touched
      BY <2>2 DEF Touched
    <3> QED BY <1>1, <2>2, <3>1, FilesNext
  <2> QED BY <2>1, <2>2
<1> QED BY <1>2, FilesType, AfterIs DEF Files, RecoveredFiles

\* Nothing to commit: the commit is seen by nobody.
LEMMA CommitSeen ==
  ASSUME Files' = Fs!After(Files, txn), Staged = txn, Staged' = NoTxn
  PROVE  [Fs!Next]_<<Files, Staged>>
<1>1. NoTxn = Fs!Nothing
  BY DEF NoTxn, Fs!Nothing
<1>2. CASE txn = NoTxn
  <2>1. Files' = [f \in Fsids |-> Files[f]]
    BY <1>2, AfterIs DEF NoTxn
  <2> QED BY <1>2, <2>1, FilesType
<1>3. CASE txn # NoTxn
  BY <1>1, <1>3 DEF Fs!Next, Fs!Commit, Files, Staged
<1> QED BY <1>2, <1>3

\* A commit whose last entry filled up its sector has its whole transaction in the log.
BatchIsTxn == Batch = TxnRecs

\* What the last commit that is on the drives has to apply is the open transaction.
LEMMA LandedBatch == RecoveryInv /\ Running /\ CommitLanded => BatchIsTxn
<1> SUFFICES ASSUME RecoveryInv, Running, CommitLanded PROVE BatchIsTxn
  OBVIOUS
<1>1. ~Applying /\ todo = NoTodo /\ Frontier = k - 1
  BY DEF CommitLanded, Applying, Frontier, RecoveryInv, CallOK
<1>2. current_log.recs = <<>>
  BY DEF CommitLanded, RecoveryInv, LogWhole
<1>3. RecSet(current_log.recs) = {}
  BY <1>2 DEF RecSet
<1>4. Batch = Data(OpenRecs)
  BY <1>1, <1>3 DEF Batch, OpenRecs
<1> QED BY <1>1, <1>4, TxnAllOpen DEF BatchIsTxn

\* The sector that ends a commit leaves the whole transaction in the log.
LEMMA ClosedBatch ==
  ASSUME TypeInv, TypeInv', TxnInv, RecoveryInv, Running, CloseSector, call = "commit",
         k <= H + NSectors
  PROVE  Batch' = TxnRecs
<1>0. /\ Written(Closed) /\ Closed.recs = current_log.recs
      /\ UNCHANGED <<lastcommit, call>> /\ pc = "close" /\ ~Applying /\ Running' /\ pc' = "load"
      /\ ld' = [next |-> lastcommit + 1, last |-> k, part |-> <<>>]
  BY ClosingIs DEF RecoveryInv
<1> HIDE DEF Closed
<1>1. /\ Written(Closed) /\ Closed.recs = current_log.recs
      /\ lastcommit' = lastcommit /\ pc = "close" /\ todo = NoTodo /\ ~Applying /\ Running'
      /\ pc' = "load" /\ call' = call /\ ld'.last = k
  <2>1. todo = NoTodo
    BY <1>0 DEF RecoveryInv, CallOK
  <2> QED BY <1>0, <2>1
<1>2. /\ \A t \in (H + 1)..(k - 1) : SectorAt(view', t) = SectorAt(view, t)
      /\ SectorAt(view', k) = Closed
  BY <1>1, SectorWritten DEF RecoveryInv
<1>3. /\ k \in Nat /\ H \in Nat /\ lastcommit \in Nat /\ H <= lastcommit /\ lastcommit <= k - 1
      /\ Frontier' = k
  BY <1>1, RunTypes, RunFacts DEF RecoveryInv, Frontier, Applying
<1>4. TxnRecs = Data(OpenRecs)
  BY <1>1, TxnAllOpen
<1>5. \A t : t \in (lastcommit + 1)..k <=> t \in (lastcommit + 1)..(k - 1) \/ t = k
  BY <1>3
<1>6. \A t \in (lastcommit + 1)..(k - 1) : SectorAt(view', t) = SectorAt(view, t)
  BY <1>2, <1>3
<1>7. \A r : r \in Batch' <=>
               /\ r.t \in {"map", "inode"}
               /\ \/ \E t \in (lastcommit + 1)..(k - 1) : \E i \in DOMAIN SectorAt(view, t).recs :
                       r = SectorAt(view, t).recs[i]
                  \/ \E i \in DOMAIN current_log.recs : r = current_log.recs[i]
  BY <1>1, <1>2, <1>3, <1>5, <1>6, BatchIs
<1>8. \A r : r \in Data(OpenRecs) <=> r \in Batch'
  BY <1>7, OpenIs DEF Data
<1> QED BY <1>4, <1>8

-----------------------------------------------------------------------------
\* Each step of the log, as the atomic file system sees it.
FsStep == [Fs!Next]_<<Files, Staged>>

\* Adding an entry: the transaction commits, if the sector written ends its commit, or
\* nothing is seen.
LEMMA FsAddEntry ==
  ASSUME TypeInv, TypeInv', TxnInv, RecoveryInv, RecoveryInv', Running, k <= H + NSectors, AddEntry
  PROVE  FsStep
<1>1. PICK r \in Rec : Adding(r) /\ (Fills(r) \/ \E s : WritesOut(r, s))
  BY AddingIs DEF RecoveryInv
<1>2. Running' /\ ~Applying /\ ~Applying' /\ pc = "add" /\ txn' = txn
  BY <1>1 DEF Adding
<1>3. view'.inode = view.inode
  BY <1>1, TxnInLogAdded
<1>4. ~CommitLanded /\ Batch = {}
  BY <1>2, NoBatch DEF CommitLanded
<1>5. CASE CommitLanded'
  <2>0. BatchIsTxn'
    BY <1>2, <1>5, LandedBatch, PTL
  <2>1. Batch' = TxnRecs'
    BY <2>0 DEF BatchIsTxn
  <2>2. TxnRecs' = TxnRecs
    BY <1>2, <1>3, SameTxn
  <2>3. Files' = Fs!After(Files, txn)
    BY <1>2, <1>3, <1>4, <2>1, <2>2, FilesCommitted
  <2>4. Staged = txn /\ Staged' = NoTxn
    BY <1>4, <1>5 DEF Staged, NoTxn
  <2> QED BY <2>3, <2>4, CommitSeen DEF FsStep
<1>6. CASE ~CommitLanded'
  <2>1. Batch' = {}
    BY <1>2, <1>6, NoBatchNext
  <2>2. Files' = Files
    BY <1>2, <1>3, <1>4, <2>1, SameFiles
  <2>3. Staged' = Staged
    BY <1>2, <1>4, <1>6 DEF Staged
  <2> QED BY <2>2, <2>3 DEF FsStep
<1> QED BY <1>5, <1>6

\* Ending a sector: the same.
LEMMA FsCloseSector ==
  ASSUME TypeInv, TypeInv', TxnInv, RecoveryInv, RecoveryInv', Running, k <= H + NSectors, CloseSector
  PROVE  FsStep
<1>1. /\ Written(Closed) /\ call \in {"commit", "fssync"} /\ call' = call /\ pc' # "close"
      /\ call = "commit" => txn' = NoTxn
      /\ call = "fssync" => pc' = "zsync" /\ txn' = txn
      /\ Running' /\ ~Applying
  BY ClosingIs DEF RecoveryInv
<1> HIDE DEF Closed
<1>2. view'.inode = view.inode
  BY <1>1, SectorWritten DEF RecoveryInv
<1>3. ~CommitLanded' /\ Staged' = txn'
  <2>1. ~CommitLanded'
    BY <1>1 DEF CommitLanded
  <2> QED BY <2>1 DEF Staged
<1>4. CASE call = "commit"
  <2>1. Batch' = TxnRecs
    BY <1>4, ClosedBatch
  <2>2. CASE CommitLanded
    <3>1. Batch' = Batch
      BY <1>1, <2>1, <2>2, LandedBatch DEF BatchIsTxn
    <3>2. Files' = Files
      BY <1>1, <1>2, <3>1, SameFiles
    <3>3. Staged' = Staged
      BY <1>1, <1>3, <1>4, <2>2 DEF Staged
    <3> QED BY <3>2, <3>3 DEF FsStep
  <2>3. CASE ~CommitLanded
    <3>1. Batch = {}
      BY <1>1, <2>3, NoBatch
    <3>2. Files' = Fs!After(Files, txn)
      BY <1>1, <1>2, <2>1, <3>1, FilesCommitted
    <3>3. Staged = txn /\ Staged' = NoTxn
      BY <1>1, <1>3, <1>4, <2>3 DEF Staged
    <3> QED BY <3>2, <3>3, CommitSeen DEF FsStep
  <2> QED BY <2>2, <2>3
<1>5. CASE call = "fssync"
  <2>1. ~CommitLanded /\ Staged = txn /\ ~Applying'
    BY <1>1, <1>5 DEF CommitLanded, Staged, Applying
  <2>2. Batch = {} /\ Batch' = {}
    BY <1>1, <1>3, <2>1, NoBatch, NoBatchNext
  <2>3. Files' = Files
    BY <1>1, <1>2, <2>2, SameFiles
  <2>4. Staged' = Staged
    BY <1>1, <1>3, <1>5, <2>1
  <2> QED BY <2>3, <2>4 DEF FsStep
<1> QED BY <1>1, <1>4, <1>5

\* An inode written by a commit is as the log already had it.
LEMMA FsApplyEntry ==
  ASSUME TypeInv, TypeInv', TxnInv, RecoveryInv, RecoveryInv', Running, ApplyEntry
  PROVE  FsStep
<1> DEFINE e == Head(list)
<1>0. e = Head(list)
  OBVIOUS
<1> HIDE DEF e
<1>1. /\ Applying /\ Applying' /\ UNCHANGED <<mode, call, pc, current_log, lastsync, txn, ld>>
      /\ e.rec \in Rec
      /\ e.rec.t \in {"map", "inode"} => e.rec \in Batch
      /\ \/ e.rec.t # "inode" /\ UNCHANGED <<disk, view, lastcommit>>
         \/ /\ e.rec.t = "inode" /\ UNCHANGED lastcommit
            /\ WriteVol([view EXCEPT !.inode[e.rec.fsid] = e.rec.blks])
  BY <1>0, NextEntry
<1>2. Staged' = Staged
  BY <1>1 DEF Staged, CommitLanded
<1>3. CASE e.rec.t # "inode"
  <2>1. Files' = Files
    BY <1>1, <1>3 DEF Files, RecoveredFiles
  <2> QED BY <1>2, <2>1 DEF FsStep
<1>4. CASE e.rec.t = "inode"
  <2>1. PICK f \in Fsids, B \in SUBSET Blocks : e.rec = InodeRec(f, B)
    BY <1>1, <1>4, RecShape
  <2>2. InodeRec(f, B) \in Batch /\ e.rec.fsid = f /\ e.rec.blks = B
    BY <1>1, <1>4, <2>1, RecFields
  <2>3. view \in Volume
    BY RunTypes
  <2>4. /\ view'.log = view.log /\ view'.hdr = view.hdr /\ disk' = view'
        /\ view'.inode = [view.inode EXCEPT ![f] = B]
    BY <1>1, <1>4, <2>2, <2>3 DEF WriteVol, Volume, Running
  <2>5. Batch' = Batch /\ Running'
    BY <1>1, <1>4, <2>4, ApplyKeeps
  <2>6. \A g \in Fsids : view'.inode[g] = view.inode[g] \/ InodeRec(g, view'.inode[g]) \in Batch
    BY <2>2, <2>3, <2>4 DEF Volume
  <2>7. Files' = Files
    BY <2>5, <2>6, SameFiles
  <2> QED BY <1>2, <2>7 DEF FsStep
<1> QED BY <1>3, <1>4

\* A step that leaves the drives alone and the transaction as it is, or has none.
LEMMA FsQuiet ==
  ASSUME disk' = disk, Staged' = Staged
  PROVE  FsStep
BY DEF FsStep, Files, RecoveredFiles

\* A checkpoint writes what the log already had.
LEMMA FsCheckpoint ==
  ASSUME TypeInv, TypeInv', TxnInv, RecoveryInv, RecoveryInv', Running,
         ZoneMapSync \/ WriteVolumeHeader
  PROVE  FsStep
<1>1. pc = "zsync" /\ pc' # "close" /\ pc' \in {"zsync", "ready"} /\ txn' = txn
      /\ UNCHANGED <<mode, current_log>> /\ view \in Volume
  BY RunTypes DEF ZoneMapSync, WriteVolumeHeader, logvars
<1>2. Running' /\ ~CommitLanded /\ ~CommitLanded' /\ ~Applying /\ ~Applying'
  BY <1>1 DEF Running, CommitLanded, Applying
<1>3. view'.inode = view.inode
  <2>1. CASE WriteVolumeHeader
    BY <1>1, <2>1 DEF WriteVolumeHeader, WriteVol, Volume
  <2>2. CASE ZoneMapSync /\ view' = view
    BY <2>2
  <2>3. CASE ZoneMapSync /\ view' # view
    BY <1>1, <2>3 DEF ZoneMapSync, WriteVol, Volume
  <2> QED BY <2>1, <2>2, <2>3
<1>4. Batch = {} /\ Batch' = {}
  BY <1>2, NoBatch, NoBatchNext
<1>5. Files' = Files
  BY <1>2, <1>3, <1>4, SameFiles
<1>6. Staged' = Staged
  BY <1>1, <1>2 DEF Staged
<1> QED BY <1>5, <1>6 DEF FsStep

\* New contents for a file are staged, and their blocks are in nobody's use.
LEMMA FsInodeUpdate ==
  ASSUME TypeInv, TxnInv, RecoveryInv, Running,
         NEW f \in Fsids, NEW B \in SUBSET Blocks, LogInodeUpdate(f, B)
  PROVE  FsStep
<1>1. /\ pc = "ready" /\ pc' = "add" /\ disk' = disk /\ txn[f] = NoChange
      /\ txn' = [txn EXCEPT ![f] = B] /\ B \ view.inode[f] \subseteq FreeBlocks
  BY DEF LogInodeUpdate
<1>2. /\ \A g \in Fsids : Files[g] = view.inode[g]
      /\ \A g \in Fsids : \A b \in view.inode[g] : b \in zmap[ZoneOf[b]].alloc
      /\ ~CommitLanded
  BY <1>1, ReadyFacts DEF Files
<1>3. Staged = txn /\ Staged' = txn'
  BY <1>1, <1>2 DEF Staged, CommitLanded
<1>4. Files' = Files
  BY <1>1 DEF Files, RecoveredFiles
<1>5. ASSUME NEW b \in B \ Files[f], NEW g \in Fsids
      PROVE  b \notin Files[g] /\ b \notin Fs!After(Files, Staged)[g]
  <2>1. b \notin zmap[ZoneOf[b]].alloc /\ b \notin pend
    BY <1>1, <1>2, <1>5 DEF FreeBlocks
  <2>2. b \notin Files[g]
    BY <1>2, <2>1
  <2>3. CASE txn[g] = NoChange
    BY <1>3, <2>2, <2>3, AfterIs
  <2>4. CASE txn[g] # NoChange
    <3>1. Fs!After(Files, Staged)[g] = txn[g]
      BY <1>3, <2>4, AfterIs
    <3>2. txn[g] \ view.inode[g] \subseteq pend
      BY <2>4 DEF TxnInv, GainedPending, Gained
    <3> QED BY <1>2, <2>1, <2>2, <3>1, <3>2
  <2> QED BY <2>2, <2>3, <2>4
<1>6. (B \ Files[f]) \cap Fs!InUse(Files, Staged) = {}
  BY <1>5 DEF Fs!InUse
<1>7. Fs!Stage(f, B)
  BY <1>1, <1>3, <1>4, <1>6 DEF Fs!Stage, Files, Staged
<1> QED BY <1>7 DEF FsStep, Fs!Next

\* A step while the log is not being written stages and commits nothing.
LEMMA FsNotRunning ==
  ASSUME TypeInv, TxnInv, RecoveryInv, ~Running, Step \/ Client
  PROVE  FsStep
<1>1. pc # "down"
  BY DEF Step, Client, AddEntry, CloseSector, LoadSector, Loading, LoadDone, Scan, ApplyEntry,
         CommitApplied, ReplayApplied, ZoneMapSync, WriteVolumeHeader,
         LogInodeUpdate, AllocFails, LogCommit, LogFssync
<1>2. txn = NoTxn
  BY <1>1 DEF TxnInv, TxnOpen, Running
<1>3. \A f \in Fsids, B \in SUBSET Blocks : ~LogInodeUpdate(f, B)
  BY <1>1 DEF LogInodeUpdate, Running
<1>4. txn' = txn \/ txn' = NoTxn
  <2>1. CASE Step
    BY <2>1 DEF Step, AddEntry, CloseSector, LoadSector, LoadDone, Scan, ApplyEntry, CommitApplied,
                ReplayApplied, ZoneMapSync, WriteVolumeHeader
  <2>2. CASE Client
    BY <1>3, <2>2 DEF Client, AllocFails, LogCommit, LogFssync
  <2> QED BY <2>1, <2>2
<1>5. disk' = disk
  <2>1. CASE mode # "rw"
    BY <2>1, ReadOnly
  <2>2. CASE mode = "rw" /\ ReplayApplied
    BY <2>2 DEF ReplayApplied
  <2>3. CASE mode = "rw" /\ ~ReplayApplied
    BY <1>1, <2>3, FreshStep DEF Running
  <2> QED BY <2>1, <2>2, <2>3
<1>6. Staged' = Staged
  BY <1>2, <1>4 DEF Staged, NoTxn
<1> QED BY <1>5, <1>6, FsQuiet

\* A stop abandons the open transaction, unless its commit has reached the log.
LEMMA FsCrash ==
  ASSUME Crash
  PROVE  FsStep
<1>1. disk' = disk /\ txn' = NoTxn /\ pc' = "down"
  BY DEF Crash
<1>2. Files' = Files /\ Staged' = NoTxn /\ NoTxn = Fs!Nothing
  BY <1>1 DEF Files, RecoveredFiles, Staged, CommitLanded, NoTxn, Fs!Nothing
<1>3. CASE Staged = NoTxn
  BY <1>2, <1>3 DEF FsStep
<1>4. CASE Staged # NoTxn
  <2>1. Fs!Abandon
    BY <1>2, <1>4 DEF Fs!Abandon, Files, Staged
  <2> QED BY <2>1 DEF FsStep, Fs!Next
<1> QED BY <1>3, <1>4

\* Every step of the log is a step of the atomic file system, or changes nothing it shows.
LEMMA FsNext ==
  ASSUME NEW n \in Nat, Fits(n), ShortTxn(n),
         TypeInv, TypeInv', TxnInv, RecoveryInv, RecoveryInv', [Next]_vars
  PROVE  FsStep
<1>1. CASE UNCHANGED vars
  <2>1. disk' = disk /\ Staged' = Staged
    BY <1>1 DEF vars, logvars, Staged, CommitLanded
  <2> QED BY <2>1, FsQuiet
<1>2. CASE Crash
  BY <1>2, FsCrash
<1>3. CASE \E m \in RemountModes : Mount(m)
  <2>1. disk' = disk /\ txn' = txn /\ pc = "down" /\ pc' = "ready"
    BY <1>3 DEF Mount
  <2>2. Staged' = Staged
    BY <2>1 DEF Staged, CommitLanded
  <2> QED BY <2>1, <2>2, FsQuiet
<1>4. CASE (Step \/ Client) /\ ~Running
  BY <1>4, FsNotRunning
<1>5. CASE Step /\ Running
  <2>1. CASE AddEntry
    <3>1. pc = "add" /\ ~Applying
      BY <2>1 DEF AddEntry, Applying
    <3>2. k <= H + NSectors
      BY <1>5, <3>1, RoomLeft
    <3> QED BY <1>5, <2>1, <3>2, FsAddEntry
  <2>2. CASE CloseSector
    <3>1. pc = "close" /\ ~Applying
      BY <2>2 DEF CloseSector, Applying
    <3>2. k <= H + NSectors
      BY <1>5, <3>1, RoomLeft
    <3> QED BY <1>5, <2>2, <3>2, FsCloseSector
  <2>3. CASE ApplyEntry
    BY <1>5, <2>3, FsApplyEntry
  <2>4. CASE ZoneMapSync \/ WriteVolumeHeader
    BY <1>5, <2>4, FsCheckpoint
  <2>5. CASE LoadSector \/ LoadDone \/ Scan \/ CommitApplied \/ ReplayApplied
    <3>1. disk' = disk /\ txn' = txn /\ pc \in {"load", "scan", "apply"} /\ pc' # "close"
      BY <2>5 DEF LoadSector, Loading, LoadDone, Scan, CommitApplied, ReplayApplied
    <3>2. Staged' = Staged
      BY <3>1 DEF Staged, CommitLanded
    <3> QED BY <3>1, <3>2, FsQuiet
  <2> QED BY <1>5, <2>1, <2>2, <2>3, <2>4, <2>5 DEF Step
<1>6. CASE Client /\ Running
  <2>1. CASE \E f \in Fsids, B \in SUBSET Blocks : LogInodeUpdate(f, B)
    BY <1>6, <2>1, FsInodeUpdate
  <2>2. CASE (\E B \in SUBSET Blocks : AllocFails(B)) \/ LogCommit \/ LogFssync
    <3>1. disk' = disk /\ txn' = txn /\ pc = "ready" /\ pc' # "close"
      BY <2>2 DEF AllocFails, LogCommit, LogFssync
    <3>2. Staged' = Staged
      BY <3>1 DEF Staged, CommitLanded
    <3> QED BY <3>1, <3>2, FsQuiet
  <2> QED BY <1>6, <2>1, <2>2 DEF Client
<1> QED BY <1>1, <1>2, <1>3, <1>4, <1>5, <1>6 DEF Next

\* A fresh volume is an empty file system.
LEMMA FsInit == Init => Fs!Init
<1> SUFFICES ASSUME Init PROVE Fs!Init
  OBVIOUS
<1>1. disk = FreshVolume /\ txn = NoTxn
  BY DEF Init
<1>2. \A f \in Fsids : RecoveredFiles(FreshVolume)[f] = {}
  <2>1. \A f \in Fsids : RecoveredFiles(FreshVolume)[f] = FreshVolume.inode[f]
    BY FreshReplay, CleanReplay
  <2> QED BY <2>1, FreshReplay
<1>3. Files = [f \in Fsids |-> {}]
  <2>1. Files = [f \in Fsids |-> Files[f]]
    BY FilesType
  <2>2. \A f \in Fsids : Files[f] = {}
    BY <1>1, <1>2 DEF Files
  <2> QED BY <2>1, <2>2
<1>4. Staged = Fs!Nothing
  BY <1>1 DEF Staged, NoTxn, Fs!Nothing
<1> QED BY <1>3, <1>4 DEF Fs!Init, Files, Staged

\* The log implements the atomic file system of AtomicFs: a transaction takes effect as a
\* whole when its commit has reached the log, and is lost as a whole when the process
\* stops before that.
THEOREM LogIsAtomic ==
  ASSUME "rw" \notin RemountModes, Fits(LongestTxn)
  PROVE  Spec => Atomic
<1>1. Init => Fs!Init
  BY FsInit
<1>2. TypeInv /\ TxnInv /\ RecoveryInv /\ FewTouched /\ [Next]_vars
      => (TypeInv /\ TxnInv /\ RecoveryInv /\ FewTouched)'
  BY ShortNext
<1>3. TypeInv /\ TypeInv' /\ TxnInv /\ RecoveryInv /\ RecoveryInv' /\ FewTouched /\ [Next]_vars
      => [Fs!Next]_<<RecoveredFiles(disk), IF CommitLanded THEN NoTxn ELSE txn>>
  <2> SUFFICES ASSUME TypeInv, TypeInv', TxnInv, RecoveryInv, RecoveryInv', FewTouched, [Next]_vars
               PROVE  FsStep
    BY DEF FsStep, Files, Staged
  <2>1. LongestTxn \in Nat /\ ShortTxn(LongestTxn)
    BY LongestFits
  <2> QED BY <2>1, FsNext
<1> QED BY ShortInit, <1>1, <1>2, <1>3, PTL DEF Spec, Atomic, Fs!Spec

-----------------------------------------------------------------------------
(* A reader's loader goes through the log.                                 *)

\* Nothing has been loaded.
LEMMA OrderEmpty == \A v : InOrder(<<>>, v, {})
<1> SUFFICES ASSUME NEW v PROVE InOrder(<<>>, v, {})
  OBVIOUS
<1> DEFINE p == [i \in {} |-> i]
<1>1. DOMAIN <<>> = {} /\ p \in [{} -> {}]
  OBVIOUS
<1>2. PlacedAt(<<>>, v, {}, p)
  BY <1>1 DEF PlacedAt
<1> QED BY <1>1, <1>2 DEF InOrder

\* Two sequences one behind the other.
LEMMA ConcatIs ==
  ASSUME NEW T, NEW a \in Seq(T), NEW b \in Seq(T)
  PROVE  /\ DOMAIN (a \o b) = 1..(Len(a) + Len(b))
         /\ \A i \in 1..(Len(a) + Len(b)) :
              (a \o b)[i] = IF i <= Len(a) THEN a[i] ELSE b[i - Len(a)]
OBVIOUS

\* The next sector has been loaded.
LEMMA OrderGrows ==
  ASSUME NEW v \in Volume, NEW q \in Seq(Entry), NEW P, InOrder(q, v, P),
         P \subseteq Nat \X Nat, NEW s \in Nat, \A x \in P : x[1] < s,
         SectorAt(v, s).stamp = s, NEW Q,
         \A x : x \in Q <=> x \in P \/ \E i \in DOMAIN SectorAt(v, s).recs : x = <<s, i>>
  PROVE  InOrder(q \o EntriesOf(SectorAt(v, s)), v, Q)
<1> DEFINE S == SectorAt(v, s)
           es == EntriesOf(S)
           n == Len(q)
           m == Len(S.recs)
           r == q \o es
<1>1. /\ S \in Sector /\ m \in Nat /\ DOMAIN S.recs = 1..m /\ n \in Nat /\ DOMAIN q = 1..n
      /\ S.recs \in Seq(Rec)
  BY SectorType DEF Sector
<1>2. /\ es \in Seq(Entry) /\ Len(es) = m /\ \A i \in 1..m : es[i].stamp = s /\ es[i].rec = S.recs[i]
  BY <1>1 DEF EntriesOf, Entry
<1>3. PICK p \in [1..n -> P] : PlacedAt(q, v, P, p)
  BY <1>1 DEF InOrder
<1> DEFINE o == [i \in 1..(n + m) |-> IF i <= n THEN p[i] ELSE <<s, i - n>>]
<1>4. /\ DOMAIN r = 1..(n + m)
      /\ \A i \in 1..(n + m) : r[i] = IF i <= n THEN q[i] ELSE es[i - n]
  <2> HIDE DEF es, m
  <2> QED BY <1>1, <1>2, ConcatIs
<1>5. \A i \in 1..(n + m) : i > n => i - n \in 1..m
  BY <1>1
<1>6. o \in [1..(n + m) -> Q]
  <2>1. ASSUME NEW i \in 1..(n + m) PROVE (IF i <= n THEN p[i] ELSE <<s, i - n>>) \in Q
    <3>1. CASE i <= n
      <4>1. i \in 1..n
        BY <1>1, <3>1
      <4> QED BY <1>3, <3>1, <4>1
    <3>2. CASE ~(i <= n)
      <4>1. i - n \in 1..m
        BY <1>1, <1>5, <3>2
      <4>2. <<s, i - n>> \in Q
        BY <1>1, <4>1
      <4> QED BY <3>2, <4>2
    <3> QED BY <3>1, <3>2
  <2> QED BY <2>1
<1> HIDE DEF r, es, m, n, o
<1>7. /\ \A i \in 1..(n + m) : i <= n => o[i] = p[i] /\ i \in 1..n
      /\ \A i \in 1..(n + m) : ~(i <= n) => o[i] = <<s, i - n>> /\ i - n \in 1..m
  BY <1>1, <1>5 DEF o
<1>8. \A i \in DOMAIN r : r[i].stamp = o[i][1] /\ r[i].rec = RecAt(v, o[i])
  <2>1. ASSUME NEW i \in 1..(n + m) PROVE r[i].stamp = o[i][1] /\ r[i].rec = RecAt(v, o[i])
    <3>1. CASE i <= n
      BY <1>1, <1>3, <1>4, <1>7, <3>1 DEF PlacedAt
    <3>2. CASE ~(i <= n)
      <4>1. o[i] = <<s, i - n>> /\ i - n \in 1..m
        BY <1>7, <3>2
      <4>2. RecAt(v, o[i]) = S.recs[i - n] /\ o[i][1] = s
        BY <4>1 DEF RecAt
      <4> QED BY <1>2, <1>4, <3>2, <4>1, <4>2
    <3> QED BY <3>1, <3>2
  <2> QED BY <1>4, <2>1
<1>9. \A x \in Q : \E i \in DOMAIN r : o[i] = x
  <2>1. ASSUME NEW x \in P PROVE \E i \in 1..(n + m) : o[i] = x
    <3>1. PICK i \in 1..n : p[i] = x
      BY <1>1, <1>3 DEF PlacedAt
    <3>2. i \in 1..(n + m) /\ i <= n
      BY <1>1
    <3> QED BY <1>7, <3>1, <3>2
  <2>2. ASSUME NEW i \in 1..m PROVE \E j \in 1..(n + m) : o[j] = <<s, i>>
    <3>1. n + i \in 1..(n + m) /\ ~(n + i <= n) /\ (n + i) - n = i
      BY <1>1
    <3> QED BY <1>7, <3>1
  <2>3. \A x \in Q : x \in P \/ \E i \in 1..m : x = <<s, i>>
    BY <1>1 DEF m, S
  <2>4. ASSUME NEW x \in Q PROVE \E i \in 1..(n + m) : o[i] = x
    <3>1. CASE x \in P
      BY <2>1, <3>1
    <3>2. CASE \E i \in 1..m : x = <<s, i>>
      BY <2>2, <3>2
    <3> QED BY <2>3, <3>1, <3>2
  <2> HIDE DEF n
  <2> QED BY <1>4, <2>4
<1>10. \A i, j \in DOMAIN r : i < j => Before(o[i], o[j])
  <2>1. ASSUME NEW i \in 1..(n + m), NEW j \in 1..(n + m), i < j PROVE Before(o[i], o[j])
    <3>1. CASE j <= n
      <4>1. i <= n
        BY <1>1, <2>1, <3>1
      <4> QED BY <1>1, <1>3, <1>7, <2>1, <3>1, <4>1 DEF PlacedAt
    <3>2. CASE i <= n /\ ~(j <= n)
      <4>1. o[i] = p[i] /\ p[i] \in P /\ o[j] = <<s, j - n>>
        BY <1>3, <1>7, <3>2
      <4>2. o[i][1] < o[j][1]
        BY <4>1
      <4> QED BY <4>2 DEF Before
    <3>3. CASE ~(i <= n) /\ ~(j <= n)
      <4>1. i - n < j - n
        BY <1>1, <2>1
      <4>2. o[i] = <<s, i - n>> /\ o[j] = <<s, j - n>>
        BY <1>7, <3>3
      <4> QED BY <4>1, <4>2 DEF Before
    <3> QED BY <1>1, <2>1, <3>1, <3>2, <3>3
  <2> QED BY <1>4, <2>1
<1> QED BY <1>4, <1>6, <1>8, <1>9, <1>10 DEF InOrder, PlacedAt, r, es

\* The first entries of a sequence, and their places.
LEMMA OrderCut ==
  ASSUME NEW v, NEW q \in Seq(Entry), NEW P, NEW p \in [DOMAIN q -> P], PlacedAt(q, v, P, p),
         NEW m \in 0..Len(q), NEW R, R \subseteq P,
         \A i \in DOMAIN q : i <= m <=> p[i] \in R
  PROVE  InOrder(SubSeq(q, 1, m), v, R)
<1> DEFINE r == SubSeq(q, 1, m)
           o == [i \in 1..m |-> p[i]]
<1>1. /\ Len(q) \in Nat /\ DOMAIN q = 1..Len(q) /\ m \in Nat /\ m <= Len(q)
      /\ DOMAIN r = 1..m /\ \A i \in 1..m : r[i] = q[i] /\ i \in 1..Len(q)
  OBVIOUS
<1> HIDE DEF r
<1>2. o \in [1..m -> R]
  BY <1>1
<1>3. \A i \in 1..m : o[i] = p[i]
  OBVIOUS
<1> HIDE DEF o
<1>4. \A x \in R : \E i \in 1..m : o[i] = x
  <2>1. ASSUME NEW x \in R PROVE \E i \in 1..m : o[i] = x
    <3>1. PICK i \in 1..Len(q) : p[i] = x
      BY <1>1 DEF PlacedAt
    <3>2. i \in 1..m
      BY <1>1, <3>1
    <3> QED BY <1>3, <3>1, <3>2
  <2> QED BY <2>1
<1>5. PlacedAt(r, v, R, o)
  BY <1>1, <1>3, <1>4 DEF PlacedAt
<1> QED BY <1>1, <1>2, <1>5 DEF InOrder, r

-----------------------------------------------------------------------------
(* The drives hold a whole log wherever the process stops.                 *)

\* What is proved of every state so far.
WriterInv == TypeInv /\ TxnInv /\ RecoveryInv

\* A volume is open for writing.
Writing == mode = "rw" /\ pc # "down"

\* A volume that is being written, and one that restore has just laid out.
LEMMA WholeWhenWritten == WriterInv /\ Writing => DiskWhole
<1> SUFFICES ASSUME WriterInv, mode = "rw", pc # "down" PROVE DiskWhole
  BY DEF Writing
<1>1. view = disk
  BY DEF WriterInv, RecoveryInv, SameDisk
<1>2. CASE Running
  <2>1. k - 1 \in Nat /\ Frontier \in Nat
    BY <1>2, RunFacts DEF WriterInv, RecoveryInv
  <2>2. WholeLog(disk, k - 1) /\ CommitsEnd(disk, k - 1, Frontier)
    BY <1>1, <1>2 DEF WriterInv, RecoveryInv, LogWhole, CommitsLast
  <2> QED BY <2>1, <2>2 DEF DiskWhole
<1>3. CASE ~Running
  <2>1. disk = FreshVolume
    BY <1>1, <1>3 DEF Running, WriterInv, RecoveryInv, FreshStart
  <2> QED BY <2>1, FreshReplay DEF DiskWhole
<1> QED BY <1>2, <1>3

\* Neither a call nor its steps end the process.
LEMMA StaysUp ==
  ASSUME Step \/ Client
  PROVE  mode' = mode /\ pc # "down" /\ pc' # "down"
<1>1. mode' = mode
  BY DEF Step, Client, AddEntry, CloseSector, LoadSector, LoadDone, Scan, ApplyEntry,
         CommitApplied, ReplayApplied, ZoneMapSync, WriteVolumeHeader,
         LogInodeUpdate, AllocFails, LogCommit, LogFssync
<1>2. pc # "down"
  BY DEF Step, Client, AddEntry, CloseSector, LoadSector, Loading, LoadDone, Scan, ApplyEntry,
         CommitApplied, ReplayApplied, ZoneMapSync, WriteVolumeHeader,
         LogInodeUpdate, AllocFails, LogCommit, LogFssync
<1>3. pc' # "down"
  BY <1>2 DEF Step, Client, AddEntry, AfterAdd, CloseSector, LoadSector, LoadDone, Scan, ApplyEntry,
         CommitApplied, ReplayApplied, ZoneMapSync, WriteVolumeHeader,
         LogInodeUpdate, AllocFails, LogCommit, LogFssync
<1> QED BY <1>1, <1>2, <1>3

\* A step that does not leave a volume open for writing writes nothing to the drives.
LEMMA DriveKept ==
  ASSUME [Next]_vars, mode' # "rw" \/ pc' = "down"
  PROVE  disk' = disk
<1>1. CASE UNCHANGED vars
  BY <1>1 DEF vars
<1>2. CASE Crash \/ \E m \in RemountModes : Mount(m)
  BY <1>2 DEF Crash, Mount
<1>3. CASE Step \/ Client
  <2>1. mode # "rw"
    BY <1>3, StaysUp
  <2> QED BY <1>3, <2>1, ReadOnly
<1> QED BY <1>1, <1>2, <1>3 DEF Next

\* No step leaves the drives without a whole log, not even one that stops half-way.
LEMMA WholeNext ==
  ASSUME WriterInv, WriterInv', DiskWhole, [Next]_vars
  PROVE  DiskWhole'
<1>1. CASE Writing'
  BY <1>1, WholeWhenWritten, PTL
<1>2. CASE ~Writing'
  <2>1. disk' = disk
    BY <1>2, DriveKept DEF Writing
  <2> QED BY <2>1 DEF DiskWhole
<1> QED BY <1>1, <1>2

-----------------------------------------------------------------------------
(* A reader loads the log.                                                 *)

\* Two sequences, the second of them cut in two.
LEMMA Rejoined ==
  ASSUME NEW T, NEW a \in Seq(T), NEW b \in Seq(T), NEW m \in 0..Len(b)
  PROVE  /\ SubSeq(b, 1, m) \in Seq(T) /\ SubSeq(b, m + 1, Len(b)) \in Seq(T)
         /\ (a \o SubSeq(b, 1, m)) \o SubSeq(b, m + 1, Len(b)) = a \o b
<1> DEFINE x == SubSeq(b, 1, m)
           y == SubSeq(b, m + 1, Len(b))
<1>1. x \in Seq(T) /\ y \in Seq(T) /\ Len(x) = m /\ Len(y) = Len(b) - m
  OBVIOUS
<1>2. \A i \in 1..m : x[i] = b[i]
  OBVIOUS
<1>3. \A i \in 1..(Len(b) - m) : y[i] = b[m + i]
  OBVIOUS
<1> HIDE DEF x, y
<1>4. a \o x \in Seq(T) /\ Len(a \o x) = Len(a) + m /\ Len(a) \in Nat /\ Len(b) \in Nat
  BY <1>1
<1>5. (a \o x) \o y \in Seq(T) /\ a \o b \in Seq(T)
  BY <1>1, <1>4
<1>6. DOMAIN ((a \o x) \o y) = 1..(Len(a) + Len(b)) /\ DOMAIN (a \o b) = 1..(Len(a) + Len(b))
  <2>1. DOMAIN (a \o b) = 1..(Len(a) + Len(b))
    BY ConcatIs
  <2>2. DOMAIN ((a \o x) \o y) = 1..(Len(a \o x) + Len(y))
    BY <1>1, <1>4, ConcatIs
  <2>3. Len(a \o x) + Len(y) = Len(a) + Len(b)
    BY <1>1, <1>4
  <2> QED BY <2>1, <2>2, <2>3
<1>7. ASSUME NEW i \in 1..(Len(a) + Len(b)) PROVE ((a \o x) \o y)[i] = (a \o b)[i]
  <2>1. (a \o b)[i] = IF i <= Len(a) THEN a[i] ELSE b[i - Len(a)]
    BY ConcatIs
  <2>2. ((a \o x) \o y)[i] = IF i <= Len(a) + m THEN (a \o x)[i] ELSE y[i - (Len(a) + m)]
    BY <1>1, <1>4, ConcatIs
  <2>3. CASE i <= Len(a) + m
    <3>1. i \in 1..(Len(a) + Len(x))
      BY <1>1, <1>4, <2>3
    <3>2. (a \o x)[i] = IF i <= Len(a) THEN a[i] ELSE x[i - Len(a)]
      BY <1>1, <3>1, ConcatIs
    <3>3. i > Len(a) => i - Len(a) \in 1..m
      BY <1>4, <2>3
    <3> QED BY <1>2, <1>4, <2>1, <2>2, <2>3, <3>2, <3>3
  <2>4. CASE ~(i <= Len(a) + m)
    <3>1. i - (Len(a) + m) \in 1..(Len(b) - m) /\ ~(i <= Len(a)) /\ m + (i - (Len(a) + m)) = i - Len(a)
      BY <1>4, <2>4
    <3> QED BY <1>3, <2>1, <2>2, <2>4, <3>1
  <2> QED BY <2>3, <2>4
<1>8. (a \o x) \o y = a \o b
  BY <1>4, <1>5, <1>6, <1>7, SMTT(40)
<1> QED BY <1>1, <1>8 DEF x, y

\* What is known of a reader, and of the call it makes.
ReaderOK == WriterInv /\ ReaderInv /\ mode # "rw"

\* A reader that replays has not opened its log yet, and until it applies entries has
\* what the drives have.
LEMMA ReaderCall ==
  ASSUME ReaderOK, pc \in {"load", "scan", "apply"}
  PROVE  /\ call = "fssync" /\ current_log = NoLog
         /\ pc # "apply" => view = disk /\ zmap = LoadedZones(disk) /\ vol_hdr = disk.hdr
         /\ disk \in Volume /\ SplitOK(disk) /\ disk.hdr.stamp \in Nat
         /\ list \in Seq(Entry) /\ ld.part \in Seq(Entry) /\ ld.next \in Nat
<1>1. call = "fssync"
  BY DEF ReaderOK, WriterInv, RecoveryInv, CallOK, ReaderInv, ReaderCalls
<1>2. current_log = NoLog
  BY <1>1 DEF ReaderOK, WriterInv, TxnInv, ReplayFirst
<1>3. pc # "apply" => view = disk /\ zmap = LoadedZones(disk) /\ vol_hdr = disk.hdr
  BY <1>2 DEF ReaderOK, ReaderInv, ReaderMounts
<1>4. /\ disk \in Volume /\ SplitOK(disk) /\ list \in Seq(Entry)
      /\ ld \in [next : Nat, last : Nat, part : Seq(Entry)]
  BY DEF ReaderOK, WriterInv, TypeInv, TypeOK
<1>5. disk.hdr.stamp \in Nat
  BY <1>4 DEF Volume
<1> QED BY <1>1, <1>2, <1>3, <1>4, <1>5

\* One more sector of places.
LEMMA PlacesGrow ==
  ASSUME NEW v \in Volume, NEW s \in Nat, v.hdr.stamp < s
  PROVE  /\ PlacesUpto(v, s - 1) \subseteq Nat \X Nat
         /\ \A x \in PlacesUpto(v, s - 1) : x[1] < s
         /\ \A x : x \in PlacesUpto(v, s) <=>
              x \in PlacesUpto(v, s - 1) \/ \E i \in DOMAIN SectorAt(v, s).recs : x = <<s, i>>
<1> DEFINE h == v.hdr.stamp
<1>1. h \in Nat
  BY DEF Volume
<1> HIDE DEF h
<1>2. \A t \in (h + 1)..s : t \in (h + 1)..(s - 1) \/ t = s
  BY <1>1
<1>3. \A t \in (h + 1)..(s - 1) : t \in (h + 1)..s /\ t < s /\ t \in Nat
  BY <1>1
<1>4. s \in (h + 1)..s
  BY <1>1 DEF h
<1>5. ASSUME NEW x \in PlacesUpto(v, s - 1) PROVE x \in Nat \X Nat /\ x[1] < s
  <2>1. PICK t \in (h + 1)..(s - 1) : \E i \in DOMAIN SectorAt(v, t).recs : x = <<t, i>>
    BY PlaceUptoIs DEF h
  <2>2. PICK i \in DOMAIN SectorAt(v, t).recs : x = <<t, i>>
    BY <2>1
  <2>3. t \in Nat /\ t < s
    BY <1>3
  <2>4. i \in Nat
    BY <2>3, SectorType
  <2> QED BY <2>2, <2>3, <2>4
<1>6. \A x : x \in PlacesUpto(v, s) <=>
        x \in PlacesUpto(v, s - 1) \/ \E i \in DOMAIN SectorAt(v, s).recs : x = <<s, i>>
  BY <1>2, <1>3, <1>4, PlaceUptoIs DEF h
<1> QED BY <1>5, <1>6

\* The loader never finds a continued entry without its rest, nor a rest without its start.
LEMMA NeverBroken ==
  ASSUME ReaderOK, Loading
  PROVE  ~Broken(SectorAt(disk, ld.next))
<1> DEFINE h == disk.hdr.stamp
           n == ld.next
           S == SectorAt(disk, n)
<1>1. pc = "load"
  BY DEF Loading
<1>2. view = disk /\ disk \in Volume /\ h \in Nat /\ n \in Nat
  BY <1>1, ReaderCall
<1>3. S.stamp = n
  BY <1>2 DEF Loading, Readable, SectorAt
<1>4. /\ h < n
      /\ n = h + 1 => list = <<>> /\ ld.part = <<>>
      /\ n > h + 1 => (ld.part # <<>> <=> SectorAt(disk, n - 1).split)
  BY <1>1 DEF ReaderOK, ReaderInv, ReaderLoads
<1>5. PICK e \in Nat : WholeLog(disk, e)
  BY DEF ReaderOK, ReaderInv, DiskWhole
<1>6. n <= e
  <2>1. Slot(n) \in Slots
    BY <1>2, SlotInLog
  <2> QED BY <1>3, <1>5, <2>1 DEF WholeLog, SectorAt
<1>7. n > h + 1 => S.first = SectorAt(disk, n - 1).split
  <2> SUFFICES ASSUME n > h + 1 PROVE S.first = SectorAt(disk, n - 1).split
    OBVIOUS
  <2>1. n - 1 \in (h + 1)..(e - 1) /\ (n - 1) + 1 = n
    BY <1>2, <1>6
  <2>2. SectorAt(disk, (n - 1) + 1).first = SectorAt(disk, n - 1).split
    BY <1>5, <2>1 DEF WholeLog
  <2> QED BY <2>1, <2>2
<1>8. n = h + 1 \/ n > h + 1
  BY <1>2, <1>4
<1> HIDE DEF S, n, h
<1> QED BY <1>4, <1>7, <1>8 DEF Broken, S, n

\* The entries of a sector, and those that the loader cuts off to wait for their rest.
LEMMA SectorEntries ==
  ASSUME NEW v \in Volume, SplitOK(v), NEW s \in Nat
  PROVE  LET S  == SectorAt(v, s)
             es == EntriesOf(S)
             m  == WholeIn(S)
         IN  /\ es \in Seq(Entry) /\ m \in 0..Len(es)
             /\ SubSeq(es, m + 1, Len(es)) # <<>> <=> S.split
             /\ SubSeq(es, m + 1, Len(es)) # <<>> => Len(SubSeq(es, m + 1, Len(es))) = 1
<1> DEFINE S  == SectorAt(v, s)
           es == EntriesOf(S)
           m  == WholeIn(S)
<1>1. /\ S \in Sector /\ Len(S.recs) \in Nat /\ m \in 0..Len(S.recs) /\ DOMAIN S.recs = 1..Len(S.recs)
  BY SectorType
<1>2. es \in Seq(Entry) /\ Len(es) = Len(S.recs)
  BY <1>1 DEF EntriesOf, Entry, Sector
<1>3. m = IF S.split THEN Len(es) - 1 ELSE Len(es)
  BY <1>2 DEF WholeIn
<1> HIDE DEF es, m, S
<1>4. Len(SubSeq(es, m + 1, Len(es))) = Len(es) - m /\ Len(es) \in Nat
  BY <1>1, <1>2
<1>5. SubSeq(es, m + 1, Len(es)) \in Seq(Entry)
  BY <1>1, <1>2
<1>6. CASE S.split
  <2>1. Len(SubSeq(es, m + 1, Len(es))) = 1
    BY <1>3, <1>4, <1>6
  <2>2. SubSeq(es, m + 1, Len(es)) # <<>>
    <3> DEFINE u == SubSeq(es, m + 1, Len(es))
    <3>1. u \in Seq(Entry) /\ Len(u) = 1
      BY <1>5, <2>1
    <3> HIDE DEF u
    <3>2. u # <<>>
      BY <3>1
    <3> QED BY <3>2 DEF u
  <2> QED BY <1>1, <1>2, <1>6, <2>1, <2>2 DEF es, m, S
<1>7. CASE ~S.split
  <2>1. Len(SubSeq(es, m + 1, Len(es))) = 0
    BY <1>3, <1>4, <1>7
  <2>2. SubSeq(es, m + 1, Len(es)) = <<>>
    BY <1>5, <2>1
  <2> QED BY <1>1, <1>2, <1>7, <2>2 DEF es, m, S
<1> QED BY <1>6, <1>7

\* Loading one more sector (mfs_log_load_list) keeps the list in the order of the log.
LEMMA ReaderLoadSector ==
  ASSUME ReaderOK, LoadSector
  PROVE  /\ err' = err /\ pc' = "load" /\ pc = "load" /\ call = "fssync"
         /\ UNCHANGED <<disk, view, mode, call, current_log, zmap, vol_hdr>>
         /\ ReaderLoads'
<1> DEFINE h == disk.hdr.stamp
           n == ld.next
           S == SectorAt(disk, n)
           es == EntriesOf(S)
           m == WholeIn(S)
           q == list \o ld.part
           t == SubSeq(es, m + 1, Len(es))
<1>1. pc = "load" /\ Loading
  BY DEF LoadSector, Loading
<1>2. /\ view = disk /\ disk \in Volume /\ SplitOK(disk) /\ h \in Nat /\ n \in Nat /\ call = "fssync"
      /\ list \in Seq(Entry) /\ ld.part \in Seq(Entry)
  BY <1>1, ReaderCall
<1>3. ~Broken(S) /\ S.stamp = n
  BY <1>1, <1>2, NeverBroken DEF Loading, Readable, SectorAt
<1>4. /\ list' = q \o SubSeq(es, 1, m)
      /\ ld' = [ld EXCEPT !.next = @ + 1, !.part = t]
      /\ UNCHANGED <<pc, err>>
  BY <1>2, <1>3 DEF LoadSector, SectorAt
<1>5. UNCHANGED <<disk, view, mode, call, current_log, zmap, vol_hdr>>
  BY DEF LoadSector, logvars, memvars
<1>6. ld'.next = n + 1 /\ ld'.part = t /\ ld'.last = ld.last
  <2>1. ld \in [next : Nat, last : Nat, part : Seq(Entry)]
    BY DEF ReaderOK, WriterInv, TypeInv, TypeOK
  <2> HIDE DEF t
  <2> QED BY <1>4, <2>1
<1>7. /\ es \in Seq(Entry) /\ m \in 0..Len(es)
      /\ t # <<>> <=> S.split
      /\ t # <<>> => Len(t) = 1
  BY <1>2, SectorEntries
<1>8. q \in Seq(Entry)
  BY <1>2
<1>9. (q \o SubSeq(es, 1, m)) \o t = q \o es
  <2> HIDE DEF es, m, q
  <2>1. \A a \in Seq(Entry), b \in Seq(Entry) : \A j \in 0..Len(b) :
          (a \o SubSeq(b, 1, j)) \o SubSeq(b, j + 1, Len(b)) = a \o b
    <3> SUFFICES ASSUME NEW a \in Seq(Entry), NEW b \in Seq(Entry), NEW j \in 0..Len(b)
                 PROVE  (a \o SubSeq(b, 1, j)) \o SubSeq(b, j + 1, Len(b)) = a \o b
      OBVIOUS
    <3> QED BY Rejoined, ZenonT(60)
  <2>2. q \in Seq(Entry) /\ es \in Seq(Entry) /\ m \in 0..Len(es)
    BY <1>7, <1>8
  <2> QED BY <2>1, <2>2
<1>10. h < n /\ ld.last = NoEnd /\ InOrder(q, disk, PlacesUpto(disk, n - 1))
  BY <1>1 DEF ReaderOK, ReaderInv, ReaderLoads
<1> HIDE DEF q, es, m
<1>11. InOrder(q \o es, disk, PlacesUpto(disk, n))
  <2>1. /\ PlacesUpto(disk, n - 1) \subseteq Nat \X Nat
        /\ \A x \in PlacesUpto(disk, n - 1) : x[1] < n
        /\ \A x : x \in PlacesUpto(disk, n) <=>
             x \in PlacesUpto(disk, n - 1) \/ \E i \in DOMAIN SectorAt(disk, n).recs : x = <<n, i>>
    BY <1>2, <1>10, PlacesGrow
  <2> QED BY <1>2, <1>3, <1>8, <1>10, <2>1, OrderGrows DEF es
<1>12. ReaderLoads'
  <2>1. disk' = disk /\ ld'.next - 1 = n /\ list' \o ld'.part = q \o es
    <3>1. list' \o ld'.part = q \o es
      <4> HIDE DEF t
      <4>1. list' = q \o SubSeq(es, 1, m) /\ ld'.part = t
        BY <1>4, <1>6
      <4> QED BY <1>9, <4>1
    <3>2. disk' = disk /\ ld'.next - 1 = n
      BY <1>2, <1>5, <1>6
    <3> QED BY <3>1, <3>2
  <2>2. h < n + 1 /\ n + 1 # h + 1
    BY <1>2, <1>10
  <2> HIDE DEF S, n, h, t
  <2> QED BY <1>3, <1>6, <1>7, <1>10, <1>11, <2>1, <2>2 DEF ReaderLoads, S, h
<1> QED BY <1>1, <1>2, <1>4, <1>5, <1>12

-----------------------------------------------------------------------------
(* What a reader has loaded is what a replay reads.                        *)

\* Places in order of the log.
LEMMA BeforeIs ==
  ASSUME NEW x \in Nat \X Nat, NEW y \in Nat \X Nat
  PROVE  /\ Before(x, y) => ~Upto(y, x)
         /\ Before(x, y) => Upto(x, y) /\ x[1] <= y[1]
         /\ ~Before(x, x)
         /\ x[1] \in Nat /\ x[2] \in Nat
BY DEF Before, Upto

\* The place of a commit is behind those it commits.
LEMMA ScanCuts ==
  ASSUME NEW v, NEW q \in Seq(Entry), NEW P \in SUBSET (Nat \X Nat), P = LivePlaces(v), InOrder(q, v, P),
         NEW m \in 0..Len(q), m > 0 => q[m].rec.t = "commit",
         \A j \in 1..Len(q) : j > m => q[j].rec.t # "commit"
  PROVE  InOrder(SubSeq(q, 1, m), v, Committed(v))
<1> DEFINE C == Committed(v)
<1>1. /\ Len(q) \in Nat /\ DOMAIN q = 1..Len(q) /\ m \in Nat /\ m <= Len(q)
  OBVIOUS
<1>2. PICK p \in [1..Len(q) -> P] : PlacedAt(q, v, P, p)
  BY <1>1 DEF InOrder
<1>3. C \subseteq P
  BY DEF Committed
<1>4. \A i \in 1..Len(q) : p[i] \in P /\ p[i] \in Nat \X Nat
  BY <1>2
<1>5. \A i \in 1..Len(q) : q[i].rec.t = "commit" <=> p[i] \in Commits(v)
  BY <1>1, <1>2, <1>4 DEF PlacedAt, Commits
<1>6. ASSUME NEW i \in 1..Len(q), i <= m PROVE p[i] \in C
  <2>1. m \in 1..Len(q) /\ m > 0
    BY <1>1, <1>6
  <2>2. p[m] \in Commits(v)
    BY <1>5, <2>1
  <2>3. Upto(p[i], p[m])
    <3>1. CASE i = m
      BY <1>4, <2>1, <3>1 DEF Upto
    <3>2. CASE i < m
      BY <1>1, <1>2, <1>4, <2>1, <3>2, BeforeIs DEF PlacedAt
    <3> QED BY <1>1, <1>6, <3>1, <3>2
  <2> QED BY <1>4, <2>2, <2>3 DEF Committed
<1>7. ASSUME NEW i \in 1..Len(q), p[i] \in C PROVE i <= m
  <2>1. PICK c \in Commits(v) : Upto(p[i], c)
    BY <1>7 DEF Committed
  <2>2. c \in P
    BY DEF Commits
  <2>3. PICK j \in 1..Len(q) : p[j] = c
    BY <1>1, <1>2, <2>2 DEF PlacedAt
  <2>4. j <= m
    BY <1>1, <1>5, <2>3
  <2>5. ~(j < i)
    BY <1>1, <1>2, <1>4, <2>1, <2>3, BeforeIs DEF PlacedAt
  <2> QED BY <1>1, <2>4, <2>5
<1> QED BY <1>1, <1>2, <1>3, <1>6, <1>7, OrderCut

\* The loader stops behind the last sector written.
LEMMA LoadEnds ==
  ASSUME NEW v \in Volume, NEW e \in Nat, WholeLog(v, e), NEW n \in Nat,
         v.hdr.stamp < n, SectorAt(v, n).stamp # n,
         n > v.hdr.stamp + 1 => SectorAt(v, n - 1).stamp = n - 1
  PROVE  n - 1 = e
<1> DEFINE h == v.hdr.stamp
<1>1. h \in Nat /\ h <= e
  BY DEF Volume, WholeLog
<1>2. ~(n <= e)
  <2>1. n \in (h + 1)..e => SectorAt(v, n).stamp = n
    BY DEF WholeLog
  <2> HIDE DEF h
  <2> QED BY <1>1, <2>1 DEF h
<1>3. CASE n > h + 1
  <2>1. n - 1 \in Nat
    BY <1>1, <1>3
  <2>2. SectorAt(v, n - 1).stamp <= e
    BY <2>1, SlotInLog DEF WholeLog, SectorAt
  <2> QED BY <1>1, <1>2, <1>3, <2>1, <2>2
<1>4. CASE ~(n > h + 1)
  BY <1>1, <1>2, <1>4
<1> QED BY <1>3, <1>4

\* An entry whose end is missing is the last one loaded, and is dropped.
LEMMA LoadCuts ==
  ASSUME NEW v \in Volume, SplitOK(v), NEW e \in Nat, WholeLog(v, e),
         NEW a \in Seq(Entry), NEW b \in Seq(Entry), InOrder(a \o b, v, PlacesUpto(v, e)),
         e > v.hdr.stamp => (b # <<>> <=> SectorAt(v, e).split),
         e = v.hdr.stamp => b = <<>>,
         b # <<>> => Len(b) = 1
  PROVE  InOrder(a, v, LivePlaces(v))
<1> DEFINE h == v.hdr.stamp
           q == a \o b
           P == PlacesUpto(v, e)
           R == LivePlaces(v)
           m == Len(a)
<1>1. h \in Nat /\ h <= e /\ e <= h + NSectors
  BY DEF Volume, WholeLog
<1>2. /\ q \in Seq(Entry) /\ Len(q) = m + Len(b) /\ m \in Nat /\ Len(b) \in Nat /\ m \in 0..Len(q)
      /\ DOMAIN q = 1..(m + Len(b))
  <2>1. DOMAIN q = 1..(m + Len(b))
    BY ConcatIs
  <2>2. q \in Seq(Entry) /\ Len(q) = m + Len(b) /\ m \in Nat /\ Len(b) \in Nat
    OBVIOUS
  <2> QED BY <2>1, <2>2
<1>3. SubSeq(q, 1, m) = a
  <2>1. a \in [1..m -> Entry]
    OBVIOUS
  <2>2. \A i \in 1..m : q[i] = a[i]
    BY <1>2, ConcatIs
  <2>3. SubSeq(q, 1, m) \in Seq(Entry) /\ Len(SubSeq(q, 1, m)) = m /\ DOMAIN SubSeq(q, 1, m) = 1..m
    <3> HIDE DEF q, m
    <3> QED BY <1>2
  <2>4. \A i \in 1..m : SubSeq(q, 1, m)[i] = q[i]
    <3> HIDE DEF q, m
    <3> QED BY <1>2
  <2> HIDE DEF q
  <2>5. Len(a) = m /\ DOMAIN a = 1..m
    OBVIOUS
  <2> HIDE DEF m
  <2> QED BY <2>2, <2>3, <2>4, <2>5
<1>4. PICK p \in [DOMAIN q -> P] : PlacedAt(q, v, P, p)
  BY DEF InOrder
<1>5. \A x \in P : x \in Nat \X Nat
  <2>1. v.hdr.stamp < e + 1 /\ e + 1 \in Nat /\ (e + 1) - 1 = e
    BY <1>1, SMTT(40)
  <2>2. PlacesUpto(v, (e + 1) - 1) \subseteq Nat \X Nat
    BY <2>1, PlacesGrow
  <2> QED BY <2>1, <2>2
<1>6. \A s \in (h + 1)..e : s \in Nat /\ DOMAIN SectorAt(v, s).recs = 1..Len(SectorAt(v, s).recs)
                            /\ Len(SectorAt(v, s).recs) \in Nat
  BY <1>1, SectorType
<1>7. R \subseteq P
  <2>1. ASSUME NEW x \in R PROVE x \in P
    <3>1. PICK s \in (h + 1)..e : \E i \in 1..Ended(v, s) : x = <<s, i>>
      BY LivePlaceIs
    <3>2. PICK i \in 1..Ended(v, s) : x = <<s, i>>
      BY <3>1
    <3>3. i \in 1..Len(SectorAt(v, s).recs)
      BY <1>6, EndedIs
    <3> QED BY <1>6, <3>2, <3>3, PlaceUptoIs
  <2> QED BY <2>1
<1>8. CASE b = <<>>
  <2>1. Len(b) = 0
    BY <1>8
  <2>2. ASSUME NEW x \in P PROVE x \in R
    <3>1. PICK s \in (h + 1)..e : \E i \in DOMAIN SectorAt(v, s).recs : x = <<s, i>>
      BY PlaceUptoIs
    <3>2. PICK i \in DOMAIN SectorAt(v, s).recs : x = <<s, i>>
      BY <3>1
    <3>3. e > h
      BY <1>1, <3>1
    <3>4. ~SectorAt(v, e).split
      BY <1>8, <3>3
    <3>5. s < e \/ s = e
      BY <1>1, <3>1
    <3>6. Ended(v, s) = Len(SectorAt(v, s).recs)
      BY <3>4, <3>5, EndedIs
    <3> QED BY <1>6, <3>2, <3>6, LivePlaceIs
  <2>3. \A i \in DOMAIN q : i <= m <=> p[i] \in R
    <3> HIDE DEF q, m, P, R
    <3> QED BY <1>2, <1>4, <2>1, <2>2
  <2> HIDE DEF q, P, R, m
  <2> QED BY <1>2, <1>3, <1>4, <1>7, <2>3, OrderCut DEF R
<1>9. CASE b # <<>>
  <2> DEFINE L == Len(SectorAt(v, e).recs)
             x == <<e, L>>
  <2>1. Len(b) = 1 /\ SectorAt(v, e).split /\ e > h
    BY <1>1, <1>9
  <2>2. e \in (h + 1)..e /\ L \in Nat
    BY <1>1, <1>6, <2>1
  <2>3. Ended(v, e) = L - 1 /\ L >= 1
    <3>1. Ended(v, e) = WholeIn(SectorAt(v, e)) /\ Ended(v, e) \in 0..L
      BY <2>2, EndedIs
    <3> QED BY <2>1, <2>2, <3>1 DEF WholeIn
  <2>4. x \in P
    BY <1>6, <2>2, <2>3, PlaceUptoIs
  <2>5. x \notin R
    <3> SUFFICES ASSUME x \in R PROVE FALSE
      OBVIOUS
    <3>1. PICK s \in (h + 1)..e : \E i \in 1..Ended(v, s) : x = <<s, i>>
      BY LivePlaceIs
    <3> QED BY <2>2, <2>3, <3>1
  <2>6. ASSUME NEW y \in P PROVE Upto(y, x) /\ (y # x => y \in R)
    <3>1. PICK s \in (h + 1)..e : \E i \in DOMAIN SectorAt(v, s).recs : y = <<s, i>>
      BY PlaceUptoIs
    <3>2. PICK i \in DOMAIN SectorAt(v, s).recs : y = <<s, i>>
      BY <3>1
    <3>3. CASE s < e
      <4>1. Ended(v, s) = Len(SectorAt(v, s).recs)
        BY <3>3, EndedIs
      <4> QED BY <1>6, <3>2, <3>3, <4>1, LivePlaceIs DEF Upto
    <3>4. CASE s = e
      <4>1. i \in 1..L
        BY <1>6, <3>4
      <4>2. i # L => i \in 1..Ended(v, s)
        BY <2>2, <2>3, <3>4, <4>1
      <4> QED BY <2>2, <3>2, <3>4, <4>1, <4>2, LivePlaceIs DEF Upto
    <3> QED BY <1>1, <3>1, <3>3, <3>4
  <2>7. m + 1 \in DOMAIN q /\ \A i \in DOMAIN q : i \in Nat /\ (i <= m \/ i = m + 1)
    <3> HIDE DEF q, m
    <3> QED BY <1>2, <2>1
  <2> HIDE DEF q, P, R, m, x, L
  <2>8. PICK j \in DOMAIN q : p[j] = x
    BY <1>4, <2>4 DEF PlacedAt
  <2>9. \A i \in DOMAIN q : p[i] \in P /\ p[i] \in Nat \X Nat
    BY <1>4, <1>5
  <2>10. j = m + 1
    <3>1. ~(j < m + 1)
      <4> SUFFICES ASSUME j < m + 1 PROVE FALSE
        OBVIOUS
      <4>1. Before(p[j], p[m + 1])
        BY <1>4, <2>7 DEF PlacedAt
      <4>2. Upto(p[m + 1], x)
        BY <2>6, <2>7, <2>9
      <4> QED BY <2>7, <2>8, <2>9, <4>1, <4>2, BeforeIs
    <3> QED BY <1>2, <2>7, <3>1
  <2>11. ASSUME NEW i \in DOMAIN q PROVE i <= m <=> p[i] \in R
    <3>1. CASE i <= m
      <4>1. i < m + 1
        BY <1>2, <2>7, <3>1
      <4>2. Before(p[i], p[m + 1])
        BY <1>4, <2>7, <4>1 DEF PlacedAt
      <4>3. p[i] # x
        BY <2>7, <2>8, <2>9, <2>10, <4>2, BeforeIs
      <4> QED BY <2>6, <2>9, <3>1, <4>3
    <3>2. CASE ~(i <= m)
      BY <2>5, <2>7, <2>8, <2>10, <3>2
    <3> QED BY <3>1, <3>2
  <2> QED BY <1>2, <1>3, <1>4, <1>7, <2>11, OrderCut DEF R
<1> QED BY <1>8, <1>9

-----------------------------------------------------------------------------
(* From the end of the loading to the start of the replay.                 *)

\* At the end of the log an entry without its end is dropped: what is left are the
\* entries a replay reads.
LEMMA ReaderLoadDone ==
  ASSUME ReaderOK, LoadDone
  PROVE  /\ err' = err /\ pc' = "scan" /\ call = "fssync"
         /\ UNCHANGED <<disk, view, mode, call, current_log, zmap, vol_hdr>>
         /\ ReaderScans'
<1> DEFINE h == disk.hdr.stamp
           n == ld.next
<1>1. pc = "load"
  BY DEF LoadDone
<1>2. /\ view = disk /\ disk \in Volume /\ SplitOK(disk) /\ h \in Nat /\ n \in Nat /\ call = "fssync"
      /\ list \in Seq(Entry) /\ ld.part \in Seq(Entry)
  BY <1>1, ReaderCall
<1>3. /\ pc' = "scan" /\ UNCHANGED <<disk, view, mode, call, err, current_log, zmap, vol_hdr, list>>
  BY <1>2 DEF LoadDone, logvars, memvars
<1>4. /\ ld.last = NoEnd /\ h < n
      /\ n = h + 1 => list = <<>> /\ ld.part = <<>>
      /\ n > h + 1 => /\ SectorAt(disk, n - 1).stamp = n - 1
                      /\ ld.part # <<>> <=> SectorAt(disk, n - 1).split
      /\ ld.part # <<>> => Len(ld.part) = 1
      /\ InOrder(list \o ld.part, disk, PlacesUpto(disk, n - 1))
  BY <1>1 DEF ReaderOK, ReaderInv, ReaderLoads
<1>5. SectorAt(disk, n).stamp # n
  BY <1>1, <1>2, <1>4 DEF LoadDone, Loading, Readable, SectorAt
<1>6. PICK e \in Nat : WholeLog(disk, e)
  BY DEF ReaderOK, ReaderInv, DiskWhole
<1>7. n - 1 = e
  BY <1>2, <1>4, <1>5, <1>6, LoadEnds
<1>8. (e > h => n > h + 1) /\ (e = h => n = h + 1)
  BY <1>2, <1>7
<1>9. InOrder(list, disk, LivePlaces(disk))
  <2> HIDE DEF n
  <2> QED BY <1>2, <1>4, <1>6, <1>7, <1>8, LoadCuts
<1> QED BY <1>2, <1>3, <1>9 DEF ReaderScans

\* Behind the last entry of type t there is no other.
LEMMA LastOfIs ==
  ASSUME list \in Seq(Entry), NEW t
  PROVE  /\ LastOf(t) \in 0..Len(list)
         /\ LastOf(t) > 0 => list[LastOf(t)].rec.t = t
         /\ \A j \in 1..Len(list) : j > LastOf(t) => list[j].rec.t # t
<1> DEFINE I == {i \in 1..Len(list) : list[i].rec.t = t}
           Last(i) == /\ list[i].rec.t = t
                      /\ \A j \in (i + 1)..Len(list) : list[j].rec.t # t
<1>1. Len(list) \in Nat
  OBVIOUS
<1>2. CASE I = {}
  BY <1>1, <1>2 DEF LastOf
<1>3. CASE I # {}
  <2>1. PICK i \in I : \A j \in I : j <= i
    <3> HIDE DEF I
    <3>1. I \subseteq 1..Len(list)
      BY DEF I
    <3> QED BY <1>1, <1>3, <3>1, LastPosition
  <2>2. i \in 1..Len(list) /\ list[i].rec.t = t
    OBVIOUS
  <2>3. \A j \in (i + 1)..Len(list) : j \in 1..Len(list) /\ ~(j <= i)
    BY <1>1, <2>2
  <2>4. Last(i)
    BY <2>1, <2>2, <2>3
  <2>5. LastOf(t) = CHOOSE j \in 1..Len(list) : Last(j)
    BY <1>3 DEF LastOf
  <2>6. LastOf(t) \in 1..Len(list) /\ Last(LastOf(t))
    <3> HIDE DEF Last
    <3> QED BY <2>2, <2>4, <2>5
  <2>7. \A j \in 1..Len(list) : j > LastOf(t) => j \in (LastOf(t) + 1)..Len(list)
    BY <1>1, <2>6
  <2> QED BY <1>1, <2>6, <2>7
<1> QED BY <1>2, <1>3

\* A reader is about to apply what a replay applies.
ReplayStarts ==
  /\ TypeInv /\ DiskWhole
  /\ view = disk /\ zmap = LoadedZones(disk) /\ vol_hdr = disk.hdr
  /\ InOrder(list, disk, Committed(disk))

\* The entries behind the last commit are cut off (the backward search of
\* mfs_log_fssync): what is left are the committed ones.
LEMMA ReaderScan ==
  ASSUME ReaderOK, TypeInv', Scan
  PROVE  /\ err' = err /\ pc' = "apply" /\ call = "fssync"
         /\ UNCHANGED <<disk, view, mode, call, current_log, zmap, vol_hdr>>
         /\ ReplayStarts'
<1> DEFINE m == LastOf("commit")
<1>1. pc = "scan"
  BY DEF Scan
<1>2. /\ view = disk /\ zmap = LoadedZones(disk) /\ vol_hdr = disk.hdr /\ call = "fssync"
      /\ disk \in Volume /\ SplitOK(disk) /\ list \in Seq(Entry)
  BY <1>1, ReaderCall
<1>3. pc' = "apply" /\ UNCHANGED <<disk, view, mode, call, err, current_log, zmap, vol_hdr>>
      /\ list' = SubSeq(list, 1, m)
  BY DEF Scan, memvars, Replayed
<1>4. DiskWhole'
  BY <1>3 DEF ReaderOK, ReaderInv, DiskWhole
<1>5. InOrder(list, disk, LivePlaces(disk))
  BY <1>1 DEF ReaderOK, ReaderInv, ReaderScans
<1>6. LivePlaces(disk) \in SUBSET (Nat \X Nat)
  <2>1. PICK e \in Nat : WholeLog(disk, e)
    BY DEF ReaderOK, ReaderInv, DiskWhole
  <2>2. ASSUME NEW x \in LivePlaces(disk) PROVE x \in Nat \X Nat
    <3>1. PICK s \in (disk.hdr.stamp + 1)..e : \E i \in 1..Ended(disk, s) : x = <<s, i>>
      BY <1>2, <2>1, LivePlaceIs
    <3>2. Ended(disk, s) \in Nat /\ s \in Nat
      <4>1. disk.hdr.stamp \in Nat
        BY <1>2 DEF Volume
      <4>2. s \in Nat
        BY <4>1
      <4>3. Len(SectorAt(disk, s).recs) \in Nat /\ Ended(disk, s) \in 0..Len(SectorAt(disk, s).recs)
        BY <1>2, <2>1, <4>2, EndedIs, SectorType
      <4> QED BY <4>2, <4>3
    <3> QED BY <3>1, <3>2
  <2> QED BY <2>2
<1>7. /\ m \in 0..Len(list) /\ (m > 0 => list[m].rec.t = "commit")
      /\ \A j \in 1..Len(list) : j > m => list[j].rec.t # "commit"
  BY <1>2, LastOfIs
<1> HIDE DEF m
<1>8. InOrder(SubSeq(list, 1, m), disk, Committed(disk))
  BY <1>2, <1>5, <1>6, <1>7, ScanCuts
<1> QED BY <1>2, <1>3, <1>4, <1>8 DEF ReplayStarts

-----------------------------------------------------------------------------
(* The entries to apply give each file and block its last committed state. *)

\* The entries of the list are those of the committed places, in their order.
Listed(o) == o \in [DOMAIN list -> Committed(disk)] /\ PlacedAt(list, disk, Committed(disk), o)

\* The list that a replay starts with, and the places of its entries.
LEMMA ListPlaces ==
  ASSUME ReplayStarts
  PROVE  /\ disk \in Volume /\ SplitOK(disk) /\ list \in Seq(Entry)
         /\ DOMAIN list = 1..Len(list) /\ Len(list) \in Nat
         /\ \A p \in Committed(disk) : IsPlace(disk, p) /\ p \in Nat \X Nat
         /\ \E o : Listed(o)
<1>1. disk \in Volume /\ SplitOK(disk) /\ list \in Seq(Entry)
  BY DEF ReplayStarts, TypeInv, TypeOK
<1>2. PICK e \in Nat, c \in Nat : WholeLog(disk, e) /\ CommitsEnd(disk, e, c)
  BY DEF ReplayStarts, DiskWhole
<1>3. Committed(disk) = PlacesUpto(disk, c)
  BY <1>1, <1>2, CommittedPlaces
<1>4. c <= disk.hdr.stamp + NSectors
  <2>1. disk.hdr.stamp \in Nat /\ NSectors \in Nat
    BY <1>1, ConstantsOK DEF Volume
  <2>2. c <= e /\ e <= disk.hdr.stamp + NSectors
    BY <1>2 DEF WholeLog, CommitsEnd
  <2> QED BY <2>1, <2>2
<1>5. \A p \in Committed(disk) : IsPlace(disk, p)
  BY <1>1, <1>3, <1>4, UptoIsPlaces
<1>6. \E o : Listed(o)
  BY DEF ReplayStarts, InOrder, Listed
<1> QED BY <1>1, <1>5, <1>6 DEF IsPlace

\* An entry that is at the last of some places stands behind the others.
LEMMA LastStandsBehind ==
  ASSUME ReplayStarts, NEW o, Listed(o), NEW i \in DOMAIN list, NEW j \in DOMAIN list,
         Upto(o[i], o[j])
  PROVE  i = j \/ i < j
<1>1. /\ o[i] \in Nat \X Nat /\ o[j] \in Nat \X Nat /\ i \in Nat /\ j \in Nat
  BY ListPlaces DEF Listed
<1>2. j < i => Before(o[j], o[i])
  BY DEF Listed, PlacedAt
<1> QED BY <1>1, <1>2, BeforeIs

\* The last entry about a file in the list has its last committed state,
LEMMA FilesToCome == ReplayStarts => FilesRemain
<1> SUFFICES ASSUME ReplayStarts, NEW f \in Fsids
             PROVE  /\ \A i \in DOMAIN list : IsInode(list[i], f) =>
                         \/ list[i].rec.blks = RecoveredFiles(disk)[f]
                         \/ \E j \in DOMAIN list : i < j /\ IsInode(list[j], f)
                    /\ \/ view.inode[f] = RecoveredFiles(disk)[f]
                       \/ \E i \in DOMAIN list : IsInode(list[i], f)
  BY DEF FilesRemain
<1> DEFINE C == Committed(disk)
           P == InodePlaces(disk, C, f)
<1>1. /\ disk \in Volume /\ \A p \in C : IsPlace(disk, p)
  BY ListPlaces
<1>2. PICK o : Listed(o)
  BY ListPlaces
<1>3. /\ P = {} => RecoveredFiles(disk)[f] = disk.inode[f]
      /\ P # {} => \E p \in P : /\ \A q \in P : Upto(q, p)
                                /\ RecoveredFiles(disk)[f] = RecAt(disk, p).blks
  BY <1>1, FilesAre
<1>4. \A i \in DOMAIN list : o[i] \in C /\ (IsInode(list[i], f) <=> o[i] \in P)
  BY <1>2 DEF Listed, PlacedAt, IsInode, InodePlaces
<1>5. CASE P = {}
  BY <1>3, <1>4, <1>5 DEF ReplayStarts
<1>6. CASE P # {}
  <2>1. PICK p \in P : (\A q \in P : Upto(q, p)) /\ RecoveredFiles(disk)[f] = RecAt(disk, p).blks
    BY <1>3, <1>6
  <2>2. p \in C
    BY DEF InodePlaces
  <2>3. PICK j \in DOMAIN list : o[j] = p
    BY <1>2, <2>2 DEF Listed, PlacedAt
  <2>4. IsInode(list[j], f) /\ list[j].rec.blks = RecoveredFiles(disk)[f]
    BY <1>2, <1>4, <2>1, <2>3 DEF Listed, PlacedAt
  <2>5. ASSUME NEW i \in DOMAIN list, IsInode(list[i], f) PROVE i = j \/ i < j
    BY <1>2, <1>4, <2>1, <2>3, <2>5, LastStandsBehind
  <2> HIDE DEF P, C
  <2> QED BY <2>4, <2>5
<1> QED BY <1>5, <1>6

\* the last one about a block that its zone map does not have yet decides its state,
LEMMA BlocksToCome == ReplayStarts => BlocksRemain
<1> SUFFICES ASSUME ReplayStarts, NEW b \in Blocks
             PROVE  /\ \A i \in DOMAIN list : IsNewMap(list[i], b) =>
                         \/ b \in RecoveredAlloc(disk) <=> ~list[i].rec.free
                         \/ \E j \in DOMAIN list : i < j /\ IsNewMap(list[j], b)
                    /\ \/ b \in RecoveredAlloc(disk) <=> b \in zmap[ZoneOf[b]].alloc
                       \/ \E i \in DOMAIN list : IsNewMap(list[i], b)
  BY DEF BlocksRemain
<1> DEFINE C == Committed(disk)
           old == disk.zone[ZoneOf[b]]
           P == {p \in MapPlaces(disk, C, b) : p[1] > old.stamp}
<1>1. /\ disk \in Volume /\ \A p \in C : IsPlace(disk, p)
  BY ListPlaces
<1>2. PICK o : Listed(o)
  BY ListPlaces
<1>3. /\ P = {} => (b \in RecoveredAlloc(disk) <=> b \in old.alloc)
      /\ P # {} => \E p \in P : /\ \A q \in P : Upto(q, p)
                                /\ (b \in RecoveredAlloc(disk) <=> ~RecAt(disk, p).free)
  <2>1. old = disk.zone[ZoneOf[b]] /\ P = {p \in MapPlaces(disk, C, b) : p[1] > old.stamp}
        /\ C = Committed(disk)
    OBVIOUS
  <2> HIDE DEF old, P, C
  <2> QED BY <1>1, <2>1, AllocIs
<1>4. zmap[ZoneOf[b]].stamp = old.stamp /\ zmap[ZoneOf[b]].alloc = old.alloc
  <2>1. ZoneOf[b] \in Zones
    BY ConstantsOK DEF Zones
  <2> QED BY <2>1 DEF ReplayStarts, LoadedZones
<1>5. \A i \in DOMAIN list : o[i] \in C /\ (IsNewMap(list[i], b) <=> o[i] \in P)
  <2> HIDE DEF old
  <2>1. \A i \in DOMAIN list : o[i] \in C /\ list[i].stamp = o[i][1] /\ list[i].rec = RecAt(disk, o[i])
    BY <1>2 DEF Listed, PlacedAt
  <2> QED BY <1>4, <2>1 DEF IsNewMap, MapPlaces
<1>6. CASE P = {}
  <2>1. \A i \in DOMAIN list : ~IsNewMap(list[i], b)
    BY <1>5, <1>6
  <2>2. b \in RecoveredAlloc(disk) <=> b \in zmap[ZoneOf[b]].alloc
    BY <1>3, <1>4, <1>6
  <2> QED BY <2>1, <2>2
<1>7. CASE P # {}
  <2>1. PICK p \in P : (\A q \in P : Upto(q, p)) /\ (b \in RecoveredAlloc(disk) <=> ~RecAt(disk, p).free)
    BY <1>3, <1>7
  <2>2. p \in C
    BY DEF MapPlaces
  <2>3. PICK j \in DOMAIN list : o[j] = p
    BY <1>2, <2>2 DEF Listed, PlacedAt
  <2>4. IsNewMap(list[j], b)
    BY <1>5, <2>3
  <2>5. b \in RecoveredAlloc(disk) <=> ~list[j].rec.free
    BY <1>2, <2>1, <2>3 DEF Listed, PlacedAt
  <2>6. ASSUME NEW i \in DOMAIN list, IsNewMap(list[i], b) PROVE i = j \/ i < j
    BY <1>2, <1>5, <2>1, <2>3, <2>6, LastStandsBehind
  <2> HIDE DEF P, C, old
  <2> QED BY <2>4, <2>5, <2>6
<1> QED BY <1>6, <1>7

\* the largest fsid in the list gives the next one,
LEMMA FsidsToCome == ReplayStarts => FsidsRemain
<1> SUFFICES ASSUME ReplayStarts PROVE FsidsRemain
  OBVIOUS
<1> DEFINE C == Committed(disk)
           n == RecoveredNextFsid(disk)
           P(f) == InodePlaces(disk, C, f)
<1>1. /\ disk \in Volume /\ Fsids \subseteq Nat
  BY ListPlaces, ConstantsOK
<1>2. PICK o : Listed(o)
  BY ListPlaces
<1>3. /\ n \in Nat
      /\ disk.hdr.next_fsid <= n
      /\ \A f \in Fsids : P(f) # {} => f + 1 <= n
      /\ n = disk.hdr.next_fsid \/ \E f \in Fsids : P(f) # {} /\ n = f + 1
  BY <1>1, NextFsidIs
<1>4. \A f \in Fsids : \A i \in DOMAIN list : o[i] \in C /\ (IsInode(list[i], f) <=> o[i] \in P(f))
  BY <1>2 DEF Listed, PlacedAt, IsInode, InodePlaces
<1>5. \A f \in Fsids : P(f) # {} => \E i \in DOMAIN list : IsInode(list[i], f)
  <2> SUFFICES ASSUME NEW f \in Fsids, NEW p \in P(f) PROVE \E i \in DOMAIN list : IsInode(list[i], f)
    OBVIOUS
  <2>1. p \in C
    BY DEF InodePlaces
  <2>2. PICK j \in DOMAIN list : o[j] = p
    BY <1>2, <2>1 DEF Listed, PlacedAt
  <2> QED BY <1>4, <2>2
<1> HIDE DEF P, C
<1>6. \A i \in DOMAIN list : \A f \in Fsids : IsInode(list[i], f) => f < n
  <2> HIDE DEF n
  <2> QED BY <1>1, <1>3, <1>4
<1>7. vol_hdr.next_fsid = disk.hdr.next_fsid
  BY DEF ReplayStarts
<1> HIDE DEF n
<1>8. n = vol_hdr.next_fsid \/ \E i \in DOMAIN list : \E f \in Fsids : IsInode(list[i], f) /\ n = f + 1
  BY <1>3, <1>5, <1>7
<1> QED BY <1>3, <1>6, <1>7, <1>8 DEF FsidsRemain, n

\* and the stamps rise behind every commit.
LEMMA StampsToCome == ReplayStarts => StampsRise
<1> SUFFICES ASSUME ReplayStarts PROVE StampsRise
  OBVIOUS
<1> DEFINE C == Committed(disk)
           recs(s) == SectorAt(disk, s).recs
<1>1. /\ disk \in Volume /\ SplitOK(disk) /\ DOMAIN list = 1..Len(list)
      /\ \A p \in C : IsPlace(disk, p) /\ p \in Nat \X Nat
  BY ListPlaces
<1>2. PICK o : Listed(o)
  BY ListPlaces
<1>3. PICK e \in Nat, c \in Nat : WholeLog(disk, e) /\ CommitsEnd(disk, e, c)
  BY DEF ReplayStarts, DiskWhole
<1>4. C = PlacesUpto(disk, c) /\ c <= e
  <2>1. c <= e
    BY <1>3 DEF CommitsEnd
  <2> QED BY <1>1, <1>3, <2>1, CommittedPlaces
<1>5. ASSUME NEW i \in DOMAIN list, NEW j \in DOMAIN list, i < j
      PROVE  /\ list[i].stamp <= list[j].stamp
             /\ list[i].rec.t = "commit" => list[i].stamp < list[j].stamp
  <2>1. Before(o[i], o[j]) /\ o[i] \in C /\ o[j] \in C /\ o[i] \in Nat \X Nat /\ o[j] \in Nat \X Nat
    BY <1>1, <1>2, <1>5 DEF Listed, PlacedAt
  <2>2. /\ list[i].stamp = o[i][1] /\ list[i].rec = RecAt(disk, o[i])
        /\ list[j].stamp = o[j][1]
    BY <1>2 DEF Listed, PlacedAt
  <2>3. list[i].stamp <= list[j].stamp
    BY <2>1, <2>2, BeforeIs
  <2>4. ASSUME list[i].rec.t = "commit" PROVE o[i][1] < o[j][1]
    <3> SUFFICES ASSUME ~(o[i][1] < o[j][1]) PROVE FALSE
      OBVIOUS
    <3>1. PICK s \in (disk.hdr.stamp + 1)..c : \E a \in DOMAIN recs(s) : o[i] = <<s, a>>
      BY <1>1, <1>4, <2>1, PlaceUptoIs
    <3>2. PICK a \in DOMAIN recs(s) : o[i] = <<s, a>>
      BY <3>1
    <3>3. PICK t \in (disk.hdr.stamp + 1)..c : \E b \in DOMAIN recs(t) : o[j] = <<t, b>>
      BY <1>1, <1>4, <2>1, PlaceUptoIs
    <3>4. PICK b \in DOMAIN recs(t) : o[j] = <<t, b>>
      BY <3>3
    <3>5. s = t /\ a < b
      BY <2>1, <3>2, <3>4 DEF Before
    <3>6. s \in (disk.hdr.stamp + 1)..e /\ s \in Nat
      <4>1. disk.hdr.stamp \in Nat
        BY <1>1 DEF Volume
      <4> QED BY <1>4, <4>1
    <3>7. recs(s)[a].t = "commit"
      BY <2>2, <2>4, <3>2 DEF RecAt
    <3>8. a = Len(recs(s))
      BY <1>3, <3>6, <3>7 DEF CommitsEnd
    <3>9. b \in 1..Len(recs(s)) /\ Len(recs(s)) \in Nat
      BY <1>1, <3>5, <3>6, SectorType
    <3> HIDE DEF recs
    <3> QED BY <3>5, <3>8, <3>9
  <2> QED BY <2>2, <2>3, <2>4
<1>6. \A z \in Zones : ~zmap[z].dirty
  BY DEF ReplayStarts, LoadedZones
<1> QED BY <1>5, <1>6 DEF StampsRise

-----------------------------------------------------------------------------
(* A reader's replay.                                                      *)

\* A sequence is its first entry and the rest.
LEMMA TailIs ==
  ASSUME NEW q \in Seq(Entry), q # <<>>
  PROVE  /\ 1 \in DOMAIN q /\ Head(q) = q[1] /\ q[1] \in Entry
         /\ \A i \in DOMAIN Tail(q) : /\ i + 1 \in DOMAIN q /\ 1 < i + 1 /\ i \in Nat
                                      /\ Tail(q)[i] = q[i + 1]
         /\ \A j \in DOMAIN q : j = 1 \/ \E i \in DOMAIN Tail(q) : j = i + 1
<1>1. Len(q) \in Nat /\ DOMAIN q = 1..Len(q) /\ Len(q) # 0
  OBVIOUS
<1>2. /\ DOMAIN Tail(q) = 1..(Len(q) - 1)
      /\ \A i \in 1..(Len(q) - 1) : Tail(q)[i] = q[i + 1]
  BY <1>1
<1>3. 1 \in DOMAIN q /\ Head(q) = q[1] /\ q[1] \in Entry
  BY <1>1
<1>4. \A i \in 1..(Len(q) - 1) : i + 1 \in 1..Len(q) /\ 1 < i + 1 /\ i \in Nat
  BY <1>1
<1>5. \A j \in 1..Len(q) : j = 1 \/ (j - 1 \in 1..(Len(q) - 1) /\ j = (j - 1) + 1)
  BY <1>1
<1> QED BY <1>1, <1>2, <1>3, <1>4, <1>5

\* A reader applies the first entry of its list.
Applies == ReaderOK /\ TypeInv' /\ Remains /\ ApplyEntry

\* The first entry of the list is taken off it.
LEMMA AppliesOne ==
  ASSUME Applies
  PROVE  /\ pc = "apply" /\ call = "fssync" /\ list # <<>> /\ list \in Seq(Entry)
         /\ list' = Tail(list)
         /\ UNCHANGED <<disk, mode, pc, call, err, current_log>>
<1>1. pc = "apply" /\ list # <<>> /\ list' = Tail(list) /\ UNCHANGED <<mode, pc, call, err, current_log>>
  BY DEF Applies, ApplyEntry
<1>2. call = "fssync" /\ list \in Seq(Entry)
  BY <1>1, ReaderCall DEF Applies
<1>3. disk' = disk
  BY ReadOnly DEF Applies, ReaderOK, Step
<1> QED BY <1>1, <1>2, <1>3

\* What the first entry does.
LEMMA AppliedInode ==
  ASSUME Applies
  PROVE  /\ list[1].rec.t = "inode" =>
              /\ view'.inode = [view.inode EXCEPT ![list[1].rec.fsid] = list[1].rec.blks]
              /\ vol_hdr'.next_fsid = NextFsidAfter(list[1].rec.fsid)
              /\ list[1].rec.fsid \in Fsids
         /\ list[1].rec.t # "inode" => view' = view /\ vol_hdr'.next_fsid = vol_hdr.next_fsid
<1>1. list # <<>> /\ list \in Seq(Entry)
  BY AppliesOne
<1>2. Head(list) = list[1] /\ list[1] \in Entry
  BY <1>1, TailIs
<1>3. view \in Volume /\ vol_hdr \in [stamp : Nat, next_fsid : Nat] /\ list[1].rec \in Rec
  BY <1>2 DEF Applies, ReaderOK, WriterInv, TypeInv, TypeOK, Entry
<1>4. CASE list[1].rec.t = "inode"
  <2>1. /\ view' = [view EXCEPT !.inode[list[1].rec.fsid] = list[1].rec.blks]
        /\ vol_hdr' = [vol_hdr EXCEPT !.next_fsid = NextFsidAfter(list[1].rec.fsid)]
    BY <1>2, <1>4 DEF Applies, ApplyEntry, WriteVol
  <2>2. view'.inode = [view.inode EXCEPT ![list[1].rec.fsid] = list[1].rec.blks]
    BY <1>3, <2>1 DEF Volume
  <2>3. vol_hdr'.next_fsid = NextFsidAfter(list[1].rec.fsid)
    BY <1>3, <2>1
  <2>4. list[1].rec.fsid \in Fsids
    BY <1>3, <1>4 DEF Rec
  <2> QED BY <1>4, <2>2, <2>3, <2>4
<1>5. CASE list[1].rec.t # "inode"
  <2>1. view' = view
    BY <1>2, <1>5 DEF Applies, ApplyEntry
  <2>2. vol_hdr'.next_fsid = vol_hdr.next_fsid
    <3>1. vol_hdr' = vol_hdr \/ CommitPoint(list[1].stamp)
      BY <1>2, <1>5 DEF Applies, ApplyEntry, memvars
    <3>2. CommitPoint(list[1].stamp) => vol_hdr'.next_fsid = vol_hdr.next_fsid
      BY <1>3 DEF CommitPoint
    <3> QED BY <3>1, <3>2
  <2> QED BY <1>5, <2>1, <2>2
<1> QED BY <1>4, <1>5

\* Applying an entry leaves the files as they have to be, or an entry to come for each
\* that is not.
LEMMA FilesApplied == Applies => FilesRemain'
<1> SUFFICES ASSUME Applies, NEW f \in Fsids
             PROVE  /\ \A i \in DOMAIN list' : IsInode(list'[i], f) =>
                         \/ list'[i].rec.blks = RecoveredFiles(disk)[f]
                         \/ \E j \in DOMAIN list' : i < j /\ IsInode(list'[j], f)
                    /\ \/ view'.inode[f] = RecoveredFiles(disk)[f]
                       \/ \E i \in DOMAIN list' : IsInode(list'[i], f)
  <2>1. Applies => disk' = disk
    BY AppliesOne
  <2> QED BY <2>1 DEF FilesRemain, IsInode
<1> DEFINE R == RecoveredFiles(disk)[f]
<1>1. /\ list # <<>> /\ list \in Seq(Entry) /\ list' = Tail(list)
  BY AppliesOne
<1>2. /\ 1 \in DOMAIN list
      /\ \A i \in DOMAIN list' : i + 1 \in DOMAIN list /\ 1 < i + 1 /\ i \in Nat /\ list'[i] = list[i + 1]
      /\ \A j \in DOMAIN list : j = 1 \/ \E i \in DOMAIN list' : j = i + 1
  BY <1>1, TailIs
<1>3. /\ \A i \in DOMAIN list : IsInode(list[i], f) =>
           \/ list[i].rec.blks = R
           \/ \E j \in DOMAIN list : i < j /\ IsInode(list[j], f)
      /\ \/ view.inode[f] = R
         \/ \E i \in DOMAIN list : IsInode(list[i], f)
  BY DEF Applies, Remains, FilesRemain
<1>4. IF IsInode(list[1], f) THEN view'.inode[f] = list[1].rec.blks ELSE view'.inode[f] = view.inode[f]
  <2>1. view.inode \in [Fsids -> SUBSET Blocks]
    BY DEF Applies, ReaderOK, WriterInv, TypeInv, TypeOK, Volume
  <2>2. CASE list[1].rec.t = "inode"
    <3>1. /\ view'.inode = [view.inode EXCEPT ![list[1].rec.fsid] = list[1].rec.blks]
          /\ list[1].rec.fsid \in Fsids
      BY <2>2, AppliedInode
    <3> QED BY <2>1, <2>2, <3>1 DEF IsInode
  <2>3. CASE list[1].rec.t # "inode"
    BY <2>3, AppliedInode DEF IsInode
  <2> QED BY <2>2, <2>3
<1> HIDE DEF R
<1>5. ASSUME NEW i \in DOMAIN list', IsInode(list'[i], f)
      PROVE  list'[i].rec.blks = R \/ \E j \in DOMAIN list' : i < j /\ IsInode(list'[j], f)
  <2>1. i + 1 \in DOMAIN list /\ list'[i] = list[i + 1] /\ i \in Nat
    BY <1>2
  <2>2. list[i + 1].rec.blks = R \/ \E j \in DOMAIN list : i + 1 < j /\ IsInode(list[j], f)
    BY <1>3, <1>5, <2>1
  <2>3. ASSUME NEW j \in DOMAIN list, i + 1 < j, IsInode(list[j], f)
        PROVE  \E h \in DOMAIN list' : i < h /\ IsInode(list'[h], f)
    <3>1. j # 1
      BY <2>1, <2>3
    <3>2. PICK h \in DOMAIN list' : j = h + 1
      BY <1>2, <3>1
    <3> QED BY <1>2, <2>1, <2>3, <3>2
  <2> QED BY <2>1, <2>2, <2>3
<1>6. ASSUME NEW i \in DOMAIN list, 1 < i, IsInode(list[i], f)
      PROVE  \E h \in DOMAIN list' : IsInode(list'[h], f)
  <2>1. PICK h \in DOMAIN list' : i = h + 1
    BY <1>2, <1>6
  <2> QED BY <1>2, <1>6, <2>1
<1>7. view'.inode[f] = R \/ \E i \in DOMAIN list' : IsInode(list'[i], f)
  <2>1. CASE IsInode(list[1], f)
    BY <1>2, <1>3, <1>4, <1>6, <2>1
  <2>2. CASE ~IsInode(list[1], f)
    <3>1. ASSUME NEW i \in DOMAIN list, IsInode(list[i], f) PROVE 1 < i
      BY <1>2, <2>2, <3>1
    <3> QED BY <1>3, <1>4, <1>6, <2>2, <3>1
  <2> QED BY <2>1, <2>2
<1> QED BY <1>5, <1>7 DEF R

\* The same for the next fsid.
LEMMA FsidsApplied == Applies => FsidsRemain'
<1> SUFFICES ASSUME Applies PROVE FsidsRemain'
  OBVIOUS
<1> DEFINE n == RecoveredNextFsid(disk)
<1>1. /\ list # <<>> /\ list \in Seq(Entry) /\ list' = Tail(list) /\ disk' = disk
  BY AppliesOne
<1>2. /\ 1 \in DOMAIN list
      /\ \A i \in DOMAIN list' : i + 1 \in DOMAIN list /\ list'[i] = list[i + 1]
      /\ \A j \in DOMAIN list : j = 1 \/ \E i \in DOMAIN list' : j = i + 1
  BY <1>1, TailIs
<1>3. /\ vol_hdr.next_fsid <= n
      /\ \A i \in DOMAIN list : \A f \in Fsids : IsInode(list[i], f) => f < n
      /\ \/ vol_hdr.next_fsid = n
         \/ \E i \in DOMAIN list : \E f \in Fsids : IsInode(list[i], f) /\ n = f + 1
  BY DEF Applies, Remains, FsidsRemain
<1>4. n \in Nat /\ vol_hdr.next_fsid \in Nat /\ Fsids \subseteq Nat
  <2>1. disk \in Volume /\ vol_hdr.next_fsid \in Nat
    BY DEF Applies, ReaderOK, WriterInv, TypeInv, TypeOK
  <2> QED BY <2>1, NextFsidIs, ConstantsOK
<1>5. /\ \A f \in Fsids : IsInode(list[1], f) => vol_hdr'.next_fsid = HigherOf(vol_hdr.next_fsid, f + 1)
      /\ (\A f \in Fsids : ~IsInode(list[1], f)) => vol_hdr'.next_fsid = vol_hdr.next_fsid
  BY AppliedInode DEF IsInode, NextFsidAfter
<1>6. n' = n
  BY <1>1
<1> HIDE DEF n
<1>7. \A i \in DOMAIN list' : \A f \in Fsids : IsInode(list'[i], f) => f < n
  BY <1>2, <1>3
<1>8. CASE \E f \in Fsids : IsInode(list[1], f)
  <2>1. PICK f \in Fsids : IsInode(list[1], f)
    BY <1>8
  <2>2. vol_hdr'.next_fsid = HigherOf(vol_hdr.next_fsid, f + 1) /\ f < n /\ f \in Nat
    BY <1>2, <1>3, <1>4, <1>5, <2>1
  <2>3. vol_hdr'.next_fsid <= n
    BY <1>3, <1>4, <2>2 DEF HigherOf
  <2>4. vol_hdr'.next_fsid = n \/ \E i \in DOMAIN list' : \E g \in Fsids : IsInode(list'[i], g) /\ n = g + 1
    <3>1. CASE vol_hdr.next_fsid = n
      BY <1>4, <2>2, <3>1 DEF HigherOf
    <3>2. ASSUME NEW i \in DOMAIN list, NEW g \in Fsids, IsInode(list[i], g), n = g + 1
          PROVE  vol_hdr'.next_fsid = n \/ \E j \in DOMAIN list' : \E h \in Fsids : IsInode(list'[j], h) /\ n = h + 1
      <4>1. CASE i = 1
        <5>1. f = g
          BY <2>1, <3>2, <4>1 DEF IsInode
        <5> QED BY <1>3, <1>4, <2>2, <3>2, <5>1 DEF HigherOf
      <4>2. CASE i # 1
        BY <1>2, <3>2, <4>2
      <4> QED BY <4>1, <4>2
    <3> QED BY <1>3, <3>1, <3>2
  <2> QED BY <1>6, <1>7, <2>3, <2>4 DEF FsidsRemain, n, IsInode
<1>9. CASE ~\E f \in Fsids : IsInode(list[1], f)
  <2>1. vol_hdr'.next_fsid = vol_hdr.next_fsid
    BY <1>5, <1>9
  <2>2. vol_hdr'.next_fsid = n \/ \E i \in DOMAIN list' : \E g \in Fsids : IsInode(list'[i], g) /\ n = g + 1
    BY <1>2, <1>3, <1>9, <2>1
  <2> QED BY <1>3, <1>6, <1>7, <2>1, <2>2 DEF FsidsRemain, n, IsInode
<1> QED BY <1>8, <1>9

\* What the first entry does to the zone maps.
LEMMA AppliedZones ==
  ASSUME Applies
  PROVE  LET e == list[1]
         IN  /\ e.rec.t # "commit" => \A z \in Zones :
                  /\ zmap'[z].stamp = zmap[z].stamp
                  /\ zmap'[z].dirty => zmap[z].dirty \/ e.stamp > zmap[z].stamp
             /\ e.rec.t = "commit" => \A z \in Zones :
                  /\ zmap'[z].stamp = IF zmap[z].dirty THEN e.stamp ELSE zmap[z].stamp
                  /\ zmap'[z].dirty = zmap[z].dirty
             /\ \A b \in Blocks :
                  IF IsNewMap(e, b) THEN b \in zmap'[ZoneOf[b]].alloc <=> ~e.rec.free
                                    ELSE b \in zmap'[ZoneOf[b]].alloc <=> b \in zmap[ZoneOf[b]].alloc
<1> DEFINE e == list[1]
<1>1. list # <<>> /\ list \in Seq(Entry) /\ call = "fssync"
  BY AppliesOne
<1>2. Head(list) = e /\ e \in Entry
  BY <1>1, TailIs
<1>3. /\ zmap \in [Zones -> [alloc : SUBSET Blocks, stamp : Nat, dirty : BOOLEAN]]
      /\ e.rec \in Rec /\ e.stamp \in Nat
      /\ \A b \in Blocks : ZoneOf[b] \in Zones
  BY <1>2, ConstantsOK DEF Applies, ReaderOK, WriterInv, TypeInv, TypeOK, Entry, Zones
<1>4. CASE e.rec.t = "map"
  <2> DEFINE c == e.rec.blk
             y == ZoneOf[c]
  <2>1. c \in Blocks /\ y \in Zones /\ e.rec.free \in BOOLEAN
    BY <1>3, <1>4 DEF Rec
  <2>2. ZoneMapUpdate(e)
    BY <1>2, <1>4 DEF Applies, ApplyEntry
  <2> PICK x \in BOOLEAN : e.rec.free = x
    BY <2>1
  <2> HIDE DEF e
  <2> DEFINE taken == ~(e.stamp <= zmap[y].stamp) /\ ((c \in zmap[y].alloc) = x)
  <2>3. CASE taken
    <3>1. zmap' = [zmap EXCEPT ![y].alloc = IF x THEN @ \ {c} ELSE @ \cup {c}, ![y].dirty = TRUE]
      BY <2>2, <2>3 DEF ZoneMapUpdate
    <3>2. \A z \in Zones : z # y => zmap'[z] = zmap[z]
      BY <1>3, <2>1, <3>1
    <3>3. /\ zmap'[y].stamp = zmap[y].stamp
          /\ zmap'[y].alloc = IF e.rec.free THEN zmap[y].alloc \ {c} ELSE zmap[y].alloc \cup {c}
      BY <1>3, <2>1, <3>1
    <3>4. \A b \in Blocks : IF IsNewMap(e, b) THEN b \in zmap'[ZoneOf[b]].alloc <=> ~e.rec.free
                            ELSE b \in zmap'[ZoneOf[b]].alloc <=> b \in zmap[ZoneOf[b]].alloc
      <4> SUFFICES ASSUME NEW b \in Blocks
                   PROVE  IF IsNewMap(e, b) THEN b \in zmap'[ZoneOf[b]].alloc <=> ~e.rec.free
                            ELSE b \in zmap'[ZoneOf[b]].alloc <=> b \in zmap[ZoneOf[b]].alloc
        OBVIOUS
      <4>1. CASE b = c
        <5>1. IsNewMap(e, b)
          BY <1>3, <1>4, <2>1, <2>3, <4>1 DEF IsNewMap
        <5>2. c \in zmap'[y].alloc <=> ~e.rec.free
          BY <2>1, <3>3
        <5> QED BY <4>1, <5>1, <5>2
      <4>2. CASE b # c
        <5>1. ~IsNewMap(e, b)
          BY <4>2 DEF IsNewMap
        <5>2. b \in zmap'[ZoneOf[b]].alloc <=> b \in zmap[ZoneOf[b]].alloc
          BY <1>3, <3>2, <3>3, <4>2
        <5> QED BY <5>1, <5>2
      <4> QED BY <4>1, <4>2
    <3>5. e.stamp > zmap[y].stamp
      BY <1>3, <2>1, <2>3
    <3>6. \A z \in Zones : zmap'[z].stamp = zmap[z].stamp /\ (zmap'[z].dirty => zmap[z].dirty \/ e.stamp > zmap[z].stamp)
      BY <3>2, <3>3, <3>5
    <3> QED BY <1>4, <3>4, <3>6 DEF e
  <2>4. CASE ~taken
    <3>1. zmap' = zmap
      BY <2>2, <2>4 DEF ZoneMapUpdate
    <3>2. \A b \in Blocks : IsNewMap(e, b) => (b \in zmap[ZoneOf[b]].alloc <=> ~e.rec.free)
      BY <1>3, <2>1, <2>4 DEF IsNewMap
    <3> QED BY <1>4, <3>1, <3>2 DEF e
  <2> QED BY <2>3, <2>4
<1>5. CASE e.rec.t = "commit"
  <2>1. zmap' = [z \in Zones |-> IF zmap[z].dirty THEN [zmap[z] EXCEPT !.stamp = e.stamp] ELSE zmap[z]]
    BY <1>1, <1>2, <1>5 DEF Applies, ApplyEntry, CommitPoint
  <2>2. \A z \in Zones : /\ zmap'[z].stamp = IF zmap[z].dirty THEN e.stamp ELSE zmap[z].stamp
                         /\ zmap'[z].dirty = zmap[z].dirty /\ zmap'[z].alloc = zmap[z].alloc
    BY <1>3, <2>1
  <2>3. \A b \in Blocks : ~IsNewMap(e, b)
    BY <1>5 DEF IsNewMap
  <2> QED BY <1>3, <1>5, <2>2, <2>3
<1>6. CASE e.rec.t # "map" /\ e.rec.t # "commit"
  <2>1. zmap' = zmap
    BY <1>2, <1>6 DEF Applies, ApplyEntry, memvars
  <2>2. \A b \in Blocks : ~IsNewMap(e, b)
    BY <1>6 DEF IsNewMap
  <2> QED BY <1>6, <2>1, <2>2
<1> QED BY <1>4, <1>5, <1>6

\* The stamp a zone map takes from a commit hides no entry behind it.
LEMMA NoneHidden ==
  ASSUME Applies, NEW b \in Blocks, NEW i \in DOMAIN list, 1 < i
  PROVE  list[i].rec.t = "map" /\ list[i].rec.blk = b
           => (list[i].stamp > zmap'[ZoneOf[b]].stamp <=> list[i].stamp > zmap[ZoneOf[b]].stamp)
<1> DEFINE z == ZoneOf[b]
<1>1. list # <<>> /\ list \in Seq(Entry)
  BY AppliesOne
<1>2. 1 \in DOMAIN list /\ list[1] \in Entry /\ list[i] \in Entry
  BY <1>1, TailIs
<1>3. z \in Zones /\ zmap[z].stamp \in Nat /\ list[1].stamp \in Nat /\ list[i].stamp \in Nat
  BY <1>2, ConstantsOK DEF Applies, ReaderOK, WriterInv, TypeInv, TypeOK, Entry, Zones
<1>4. /\ list[1].rec.t = "commit" => list[1].stamp < list[i].stamp
      /\ zmap[z].dirty => zmap[z].stamp <= list[1].stamp
  BY <1>2, <1>3 DEF Applies, Remains, StampsRise
<1>5. CASE list[1].rec.t # "commit"
  <2>1. zmap'[z].stamp = zmap[z].stamp
    BY <1>3, <1>5, AppliedZones
  <2> QED BY <2>1
<1>6. CASE list[1].rec.t = "commit"
  <2>1. zmap'[z].stamp = IF zmap[z].dirty THEN list[1].stamp ELSE zmap[z].stamp
    BY <1>3, <1>6, AppliedZones
  <2> QED BY <1>3, <1>4, <1>6, <2>1
<1> QED BY <1>5, <1>6

\* An entry is still to be taken after this step.
IsNextMap(e, b) == e.rec.t = "map" /\ e.rec.blk = b /\ e.stamp > zmap'[ZoneOf[b]].stamp

\* The same for the blocks: no zone map's stamp hides an entry that is still to come.
LEMMA BlocksApplied == Applies => BlocksRemain'
<1> SUFFICES ASSUME Applies, NEW b \in Blocks
             PROVE  /\ \A i \in DOMAIN list' : IsNextMap(list'[i], b) =>
                         \/ b \in RecoveredAlloc(disk) <=> ~list'[i].rec.free
                         \/ \E j \in DOMAIN list' : i < j /\ IsNextMap(list'[j], b)
                    /\ \/ b \in RecoveredAlloc(disk) <=> b \in zmap'[ZoneOf[b]].alloc
                       \/ \E i \in DOMAIN list' : IsNextMap(list'[i], b)
  <2>1. Applies => disk' = disk
    BY AppliesOne
  <2> QED BY <2>1 DEF BlocksRemain, IsNewMap, IsNextMap
<1> DEFINE R == b \in RecoveredAlloc(disk)
<1>1. /\ list # <<>> /\ list \in Seq(Entry) /\ list' = Tail(list)
  BY AppliesOne
<1>2. /\ 1 \in DOMAIN list
      /\ \A i \in DOMAIN list' : i + 1 \in DOMAIN list /\ 1 < i + 1 /\ i \in Nat /\ list'[i] = list[i + 1]
      /\ \A j \in DOMAIN list : j = 1 \/ \E i \in DOMAIN list' : j = i + 1
  BY <1>1, TailIs
<1>3. /\ \A i \in DOMAIN list : IsNewMap(list[i], b) =>
           \/ R <=> ~list[i].rec.free
           \/ \E j \in DOMAIN list : i < j /\ IsNewMap(list[j], b)
      /\ \/ R <=> b \in zmap[ZoneOf[b]].alloc
         \/ \E i \in DOMAIN list : IsNewMap(list[i], b)
  BY DEF Applies, Remains, BlocksRemain
<1>4. IF IsNewMap(list[1], b) THEN b \in zmap'[ZoneOf[b]].alloc <=> ~list[1].rec.free
                              ELSE b \in zmap'[ZoneOf[b]].alloc <=> b \in zmap[ZoneOf[b]].alloc
  BY AppliedZones
<1>5. \A i \in DOMAIN list' : /\ i + 1 \in DOMAIN list /\ 1 < i + 1 /\ i \in Nat /\ list'[i] = list[i + 1]
                              /\ IsNextMap(list'[i], b) <=> IsNewMap(list[i + 1], b)
  <2> SUFFICES ASSUME NEW i \in DOMAIN list' PROVE IsNextMap(list'[i], b) <=> IsNewMap(list[i + 1], b)
    BY <1>2
  <2>1. i + 1 \in DOMAIN list /\ 1 < i + 1 /\ list'[i] = list[i + 1]
    BY <1>2
  <2> QED BY <2>1, NoneHidden DEF IsNextMap, IsNewMap
<1> HIDE DEF R
<1>6. ASSUME NEW i \in DOMAIN list', IsNextMap(list'[i], b)
      PROVE  (R <=> ~list'[i].rec.free) \/ \E j \in DOMAIN list' : i < j /\ IsNextMap(list'[j], b)
  <2>1. i + 1 \in DOMAIN list /\ list'[i] = list[i + 1] /\ i \in Nat /\ IsNewMap(list[i + 1], b)
    BY <1>5, <1>6
  <2>2. (R <=> ~list[i + 1].rec.free) \/ \E j \in DOMAIN list : i + 1 < j /\ IsNewMap(list[j], b)
    BY <1>3, <2>1
  <2>3. ASSUME NEW j \in DOMAIN list, i + 1 < j, IsNewMap(list[j], b)
        PROVE  \E h \in DOMAIN list' : i < h /\ IsNextMap(list'[h], b)
    <3>1. j # 1
      BY <2>1, <2>3
    <3>2. PICK h \in DOMAIN list' : j = h + 1
      BY <1>2, <3>1
    <3> QED BY <1>5, <2>1, <2>3, <3>2
  <2> QED BY <2>1, <2>2, <2>3
<1>7. ASSUME NEW i \in DOMAIN list, 1 < i, IsNewMap(list[i], b)
      PROVE  \E h \in DOMAIN list' : IsNextMap(list'[h], b)
  <2>1. PICK h \in DOMAIN list' : i = h + 1
    BY <1>2, <1>7
  <2> QED BY <1>5, <1>7, <2>1
<1>8. (R <=> b \in zmap'[ZoneOf[b]].alloc) \/ \E i \in DOMAIN list' : IsNextMap(list'[i], b)
  <2>1. CASE IsNewMap(list[1], b)
    BY <1>2, <1>3, <1>4, <1>7, <2>1
  <2>2. CASE ~IsNewMap(list[1], b)
    <3>1. ASSUME NEW i \in DOMAIN list, IsNewMap(list[i], b) PROVE 1 < i
      BY <1>2, <2>2, <3>1
    <3> QED BY <1>3, <1>4, <1>7, <2>2, <3>1
  <2> QED BY <2>1, <2>2
<1> QED BY <1>6, <1>8 DEF R

\* The entries to come are in the order of the log, and no zone map is ahead of them.
LEMMA StampsApplied == Applies => StampsRise'
<1> SUFFICES ASSUME Applies PROVE StampsRise'
  OBVIOUS
<1>1. /\ list # <<>> /\ list \in Seq(Entry) /\ list' = Tail(list)
  BY AppliesOne
<1>2. /\ 1 \in DOMAIN list
      /\ \A i \in DOMAIN list' : i + 1 \in DOMAIN list /\ 1 < i + 1 /\ i \in Nat /\ list'[i] = list[i + 1]
  BY <1>1, TailIs
<1>3. /\ \A i, j \in DOMAIN list : i < j =>
           /\ list[i].stamp <= list[j].stamp
           /\ list[i].rec.t = "commit" => list[i].stamp < list[j].stamp
      /\ \A z \in Zones : zmap[z].dirty => \A i \in DOMAIN list : zmap[z].stamp <= list[i].stamp
  BY DEF Applies, Remains, StampsRise
<1>4. ASSUME NEW i \in DOMAIN list', NEW j \in DOMAIN list', i < j
      PROVE  /\ list'[i].stamp <= list'[j].stamp
             /\ list'[i].rec.t = "commit" => list'[i].stamp < list'[j].stamp
  <2>1. /\ i + 1 \in DOMAIN list /\ j + 1 \in DOMAIN list /\ i + 1 < j + 1
        /\ list'[i] = list[i + 1] /\ list'[j] = list[j + 1]
    BY <1>2, <1>4
  <2> QED BY <1>3, <2>1
<1>5. ASSUME NEW z \in Zones, zmap'[z].dirty, NEW i \in DOMAIN list'
      PROVE  zmap'[z].stamp <= list'[i].stamp
  <2>1. i + 1 \in DOMAIN list /\ 1 < i + 1 /\ list'[i] = list[i + 1]
    BY <1>2
  <2>2. list[1].stamp <= list[i + 1].stamp
    BY <1>2, <1>3, <2>1
  <2>3. list[1] \in Entry /\ list[i + 1] \in Entry
    BY <1>1, <1>2, <2>1
  <2>4. zmap[z].stamp \in Nat /\ list[1].stamp \in Nat /\ list[i + 1].stamp \in Nat
    BY <2>3 DEF Applies, ReaderOK, WriterInv, TypeInv, TypeOK, Entry
  <2>5. CASE list[1].rec.t # "commit"
    <3>1. zmap'[z].stamp = zmap[z].stamp /\ (zmap[z].dirty \/ list[1].stamp > zmap[z].stamp)
      BY <1>5, <2>5, AppliedZones
    <3> QED BY <1>3, <2>1, <2>2, <2>4, <3>1
  <2>6. CASE list[1].rec.t = "commit"
    <3>1. zmap'[z].stamp = list[1].stamp
      BY <1>5, <2>6, AppliedZones
    <3> QED BY <2>1, <2>2, <3>1
  <2> QED BY <2>5, <2>6
<1> QED BY <1>4, <1>5 DEF StampsRise

-----------------------------------------------------------------------------
(* Every step of a reader.                                                 *)

\* Once its entries are applied a reader has what the log says.
LEMMA NothingRemains ==
  ASSUME Remains, list = <<>>
  PROVE  /\ \A f \in Fsids : view.inode[f] = RecoveredFiles(disk)[f]
         /\ \A b \in Blocks : b \in RecoveredAlloc(disk) <=> b \in zmap[ZoneOf[b]].alloc
         /\ vol_hdr.next_fsid = RecoveredNextFsid(disk)
<1>1. DOMAIN list = {}
  OBVIOUS
<1>2. \A f \in Fsids : view.inode[f] = RecoveredFiles(disk)[f]
  BY <1>1 DEF Remains, FilesRemain
<1>3. \A b \in Blocks : b \in RecoveredAlloc(disk) <=> b \in zmap[ZoneOf[b]].alloc
  BY <1>1 DEF Remains, BlocksRemain
<1>4. vol_hdr.next_fsid = RecoveredNextFsid(disk)
  BY <1>1 DEF Remains, FsidsRemain
<1> QED BY <1>2, <1>3, <1>4

\* What is kept besides the whole log on the drives.
ReaderState == /\ ReaderCalls /\ ReaderMounts /\ ReaderLoads /\ ReaderScans /\ ReaderApplies
               /\ ReaderHas

\* A replay that goes on.
LEMMA ReaderReplays ==
  ASSUME ReaderOK, TypeInv', LoadSector \/ LoadDone \/ Scan \/ ApplyEntry
  PROVE  ReaderState' /\ err' = err
<1>1. pc \in {"load", "scan", "apply"}
  BY DEF LoadSector, Loading, LoadDone, Scan, ApplyEntry
<1>2. /\ mode # "rw" /\ call = "fssync" /\ current_log = NoLog
      /\ pc # "apply" => view = disk /\ zmap = LoadedZones(disk) /\ vol_hdr = disk.hdr
  BY <1>1, ReaderCall DEF ReaderOK
<1>3. CASE LoadSector
  <2>1. /\ err' = err /\ pc' = "load" /\ pc = "load" /\ ReaderLoads'
        /\ UNCHANGED <<disk, view, mode, call, current_log, zmap, vol_hdr>>
    BY <1>3, ReaderLoadSector
  <2> QED BY <1>2, <2>1 DEF ReaderState, ReaderCalls, ReaderMounts, ReaderScans, ReaderApplies, ReaderHas
<1>4. CASE LoadDone
  <2>1. /\ err' = err /\ pc' = "scan" /\ pc = "load" /\ ReaderScans'
        /\ UNCHANGED <<disk, view, mode, call, current_log, zmap, vol_hdr>>
    BY <1>4, ReaderLoadDone DEF LoadDone
  <2> QED BY <1>2, <2>1 DEF ReaderState, ReaderCalls, ReaderMounts, ReaderLoads, ReaderApplies, ReaderHas
<1>5. CASE Scan
  <2>1. /\ err' = err /\ pc' = "apply" /\ ReplayStarts'
        /\ UNCHANGED <<disk, view, mode, call, current_log, zmap, vol_hdr>>
    BY <1>5, ReaderScan
  <2>2. Remains'
    BY <2>1, FilesToCome, BlocksToCome, FsidsToCome, StampsToCome, PTL DEF Remains
  <2> QED BY <1>2, <2>1, <2>2 DEF ReaderState, ReaderCalls, ReaderMounts, ReaderLoads, ReaderScans,
                                  ReaderApplies, ReaderHas
<1>6. CASE ApplyEntry
  <2>1. Applies
    BY <1>1, <1>2, <1>6 DEF Applies, ReaderOK, ReaderInv, ReaderApplies, ApplyEntry
  <2>2. Remains'
    BY <2>1, FilesApplied, BlocksApplied, FsidsApplied, StampsApplied DEF Remains
  <2>3. pc = "apply" /\ UNCHANGED <<disk, mode, pc, call, err, current_log>>
    BY <2>1, AppliesOne
  <2> QED BY <1>2, <2>2, <2>3 DEF ReaderState, ReaderCalls, ReaderMounts, ReaderLoads, ReaderScans,
                                  ReaderApplies, ReaderHas
<1> QED BY <1>3, <1>4, <1>5, <1>6

\* The steps behind the replay leave the state it rebuilt.
HasKept ==
  /\ disk' = disk /\ view'.inode = view.inode /\ vol_hdr' = vol_hdr
  /\ \A z \in Zones : zmap'[z].alloc = zmap[z].alloc

\* What a reader has stays as it is while the drives and its memory do.
LEMMA HasStays ==
  ASSUME ReaderOK, current_log # NoLog, HasKept
  PROVE  ReaderHas'
<1>1. /\ \A f \in Fsids : view.inode[f] = RecoveredFiles(disk)[f]
      /\ \A b \in Blocks : b \in RecoveredAlloc(disk) <=> b \in zmap[ZoneOf[b]].alloc
      /\ vol_hdr.next_fsid = RecoveredNextFsid(disk)
  BY DEF ReaderOK, ReaderInv, ReaderHas
<1>2. \A b \in Blocks : ZoneOf[b] \in Zones
  BY ConstantsOK DEF Zones
<1> QED BY <1>1, <1>2 DEF HasKept, ReaderHas

\* A log that has been opened is not the unknown one.
LEMMA NewLogKnown == \A s \in Nat : \A first, size : EmptyLog(s + 1, first, size) # NoLog
BY DEF EmptyLog, NoLog

\* The sync behind the replay.
LEMMA ReaderSyncs ==
  ASSUME ReaderOK, TypeInv', AddEntry \/ CloseSector \/ ZoneMapSync \/ WriteVolumeHeader
  PROVE  ReaderState' /\ err' = err
<1>1. pc \in {"add", "close", "zsync"}
  BY DEF AddEntry, CloseSector, ZoneMapSync, WriteVolumeHeader
<1>2. /\ mode # "rw" /\ current_log # NoLog /\ call \in {"none", "fssync"}
      /\ pc = "close" => call = "fssync"
      /\ current_log.stamp \in Nat /\ current_log.recs \in Seq(Rec)
      /\ view \in Volume
      /\ zmap \in [Zones -> [alloc : SUBSET Blocks, stamp : Nat, dirty : BOOLEAN]]
  BY <1>1 DEF ReaderOK, WriterInv, RecoveryInv, CallOK, ReaderInv, ReaderCalls, TypeInv, TypeOK
<1>3. disk' = disk /\ mode' = mode
  BY <1>2, ReadOnly DEF Step
<1>4. CASE AddEntry
  <2>1. PICK r \in Rec : AddRec(r)
    BY <1>4, AddsOne DEF ReaderOK, WriterInv
  <2>2. /\ UNCHANGED <<err, zmap, vol_hdr>> /\ pc' \in {"add", "close", "ready"} /\ call' \in {"none", "fssync"}
    BY <1>2, <1>4 DEF AddEntry, AfterAdd, memvars
  <2>3. current_log' # NoLog /\ view'.inode = view.inode
    BY <2>1, LogMoves DEF ReaderOK, WriterInv
  <2>4. ReaderHas'
    BY <1>2, <1>3, <2>2, <2>3, HasStays DEF HasKept
  <2> QED BY <1>2, <1>3, <2>2, <2>3, <2>4
          DEF ReaderState, ReaderCalls, ReaderMounts, ReaderLoads, ReaderScans, ReaderApplies
<1>5. CASE CloseSector
  <2>1. /\ UNCHANGED <<err, zmap, vol_hdr, call>> /\ pc' = "zsync"
        /\ current_log' = EmptyLog(current_log.stamp + 1, FALSE, 0)
    BY <1>2, <1>5 DEF CloseSector, memvars
  <2>2. view'.inode = view.inode
    <3>1. PICK s : view' = [view EXCEPT !.log[Slot(current_log.stamp)] = s]
      BY <1>5 DEF CloseSector, WriteVol
    <3> QED BY <1>2, <3>1 DEF Volume
  <2>3. ReaderHas' /\ current_log' # NoLog
    BY <1>2, <1>3, <2>1, <2>2, HasStays, NewLogKnown DEF HasKept
  <2> QED BY <1>2, <1>3, <2>1, <2>3
          DEF ReaderState, ReaderCalls, ReaderMounts, ReaderLoads, ReaderScans, ReaderApplies
<1>6. CASE ZoneMapSync
  <2>1. UNCHANGED <<err, vol_hdr, call, pc, current_log>> /\ pc = "zsync"
    BY <1>6 DEF ZoneMapSync, logvars
  <2>2. view'.inode = view.inode /\ \A z \in Zones : zmap'[z].alloc = zmap[z].alloc
    <3>1. CASE zmap[zi].dirty
      <4>1. zmap' = [zmap EXCEPT ![zi].stamp = lastcommit] /\ \E x : view' = [view EXCEPT !.zone[zi] = x]
        BY <1>6, <3>1 DEF ZoneMapSync, WriteVol
      <4> QED BY <1>2, <4>1 DEF Volume
    <3>2. CASE ~zmap[zi].dirty
      BY <1>6, <3>2 DEF ZoneMapSync
    <3> QED BY <3>1, <3>2
  <2>3. ReaderHas'
    BY <1>2, <1>3, <2>1, <2>2, HasStays DEF HasKept
  <2> QED BY <1>2, <1>3, <2>1, <2>3
          DEF ReaderState, ReaderCalls, ReaderMounts, ReaderLoads, ReaderScans, ReaderApplies
<1>7. CASE WriteVolumeHeader
  <2>1. UNCHANGED <<err, vol_hdr, zmap, current_log>> /\ pc' = "ready" /\ call' = "none"
        /\ view' = [view EXCEPT !.hdr = vol_hdr]
    BY <1>7 DEF WriteVolumeHeader, logvars, memvars, WriteVol
  <2>2. view'.inode = view.inode
    BY <1>2, <2>1 DEF Volume
  <2>3. ReaderHas'
    BY <1>2, <1>3, <2>1, <2>2, HasStays DEF HasKept
  <2> QED BY <1>2, <1>3, <2>1, <2>3
          DEF ReaderState, ReaderCalls, ReaderMounts, ReaderLoads, ReaderScans, ReaderApplies
<1> QED BY <1>4, <1>5, <1>6, <1>7

\* With its entries applied a reader opens its log and has what the log says.
LEMMA ReaderReplayApplied ==
  ASSUME ReaderOK, ReplayApplied
  PROVE  ReaderState' /\ err' = err
<1>1. pc = "apply" /\ list = <<>> /\ call = "fssync" /\ mode # "rw"
  BY DEF ReplayApplied, ReaderOK
<1>2. /\ UNCHANGED <<disk, view, mode, call, err, zmap, vol_hdr>> /\ pc' = "add"
      /\ current_log' = EmptyLog(lastsync' + 1, FALSE, 0)
      /\ lastsync' \in Nat
  <2>1. lastsync \in Nat /\ view.hdr.stamp \in Nat
    BY DEF ReaderOK, WriterInv, TypeInv, TypeOK, Volume
  <2> QED BY <2>1 DEF ReplayApplied, memvars
<1>3. Remains
  BY <1>1 DEF ReaderOK, ReaderInv, ReaderApplies
<1>4. current_log' # NoLog
  BY <1>2, NewLogKnown
<1>5. ReaderHas'
  BY <1>1, <1>2, <1>3, NothingRemains DEF ReaderHas
<1> QED BY <1>1, <1>2, <1>4, <1>5
        DEF ReaderState, ReaderCalls, ReaderMounts, ReaderLoads, ReaderScans, ReaderApplies

\* A reader's calls: all it can do is to ask for a sync.
LEMMA ReaderAsks ==
  ASSUME ReaderOK, Client
  PROVE  ReaderState' /\ (err' = err \/ err' \in {"outstanding", "uncommitted"})
<1>1. LogFssync /\ pc = "ready"
  BY DEF Client, LogInodeUpdate, AllocFails, LogCommit, LogFssync, ReaderOK
<1>2. UNCHANGED <<disk, view, mode, current_log, zmap, vol_hdr>> /\ mode # "rw" /\ list' = <<>>
  BY <1>1 DEF LogFssync, logvars, memvars, ReaderOK
<1>3. /\ call \in {"none", "fssync"}
      /\ current_log = NoLog => view = disk /\ zmap = LoadedZones(disk) /\ vol_hdr = disk.hdr
      /\ current_log # NoLog => ReaderHas'
  <2>1. current_log # NoLog => ReaderHas'
    BY <1>2, HasStays DEF HasKept
  <2> QED BY <1>1, <1>2, <2>1 DEF ReaderOK, ReaderInv, ReaderCalls, ReaderMounts
<1>4. CASE FssyncVerdict = "replay"
  <2>1. /\ pc' = "load" /\ call' = "fssync" /\ err' = err
        /\ ld' = [next |-> vol_hdr.stamp + 1, last |-> NoEnd, part |-> <<>>]
    BY <1>1, <1>4 DEF LogFssync
  <2>2. current_log = NoLog
    BY <1>4 DEF FssyncVerdict
  <2>3. vol_hdr.stamp = disk.hdr.stamp /\ disk.hdr.stamp \in Nat /\ disk \in Volume
    BY <1>3, <2>2 DEF ReaderOK, WriterInv, TypeInv, TypeOK, Volume
  <2>4. /\ ld'.next = disk.hdr.stamp + 1 /\ ld'.last = NoEnd /\ ld'.part = <<>>
        /\ disk.hdr.stamp < ld'.next /\ ld'.next - 1 = disk.hdr.stamp
        /\ ~(ld'.next > disk.hdr.stamp + 1)
    BY <2>1, <2>3
  <2>5. InOrder(list' \o ld'.part, disk', PlacesUpto(disk', ld'.next - 1))
    <3>1. (disk.hdr.stamp + 1)..disk.hdr.stamp = {}
      BY <2>3
    <3>2. PlacesUpto(disk, disk.hdr.stamp) = {}
      BY <3>1 DEF PlacesUpto
    <3>3. list' \o ld'.part = <<>>
      BY <1>2, <2>4
    <3>4. InOrder(<<>>, disk, {})
      BY OrderEmpty
    <3> QED BY <1>2, <2>4, <3>2, <3>3, <3>4
  <2>6. ReaderLoads'
    BY <1>2, <2>4, <2>5 DEF ReaderLoads
  <2> QED BY <1>2, <1>3, <2>1, <2>2, <2>6
          DEF ReaderState, ReaderCalls, ReaderMounts, ReaderScans, ReaderApplies, ReaderHas
<1>5. CASE FssyncVerdict = "sync"
  <2>1. pc' = "add" /\ call' = "fssync" /\ err' = err
    BY <1>1, <1>5 DEF LogFssync
  <2>2. current_log # NoLog
    BY <1>5 DEF FssyncVerdict
  <2> QED BY <1>2, <1>3, <2>1, <2>2
          DEF ReaderState, ReaderCalls, ReaderMounts, ReaderLoads, ReaderScans, ReaderApplies
<1>6. CASE FssyncVerdict \notin {"replay", "sync"}
  <2>1. /\ pc' \in {"ready", "failed"} /\ call' = call
        /\ err' = err \/ err' \in {"outstanding", "uncommitted"}
    BY <1>1, <1>6 DEF LogFssync, FssyncVerdict
  <2>2. current_log # NoLog
    BY <1>6 DEF FssyncVerdict
  <2> QED BY <1>2, <1>3, <2>1, <2>2
          DEF ReaderState, ReaderCalls, ReaderMounts, ReaderLoads, ReaderScans, ReaderApplies
<1> QED BY <1>4, <1>5, <1>6

\* Nothing is asked of a process that writes, but that it forgets the log when it stops.
LEMMA WriterState ==
  ASSUME mode' = "rw", pc' = "down" => current_log' = NoLog
  PROVE  ReaderState'
BY DEF ReaderState, ReaderCalls, ReaderMounts, ReaderLoads, ReaderScans, ReaderApplies, ReaderHas

\* Only the loader finds the log broken, and only a reader's loads one that it has not
\* just written.
LEMMA WriterLoads ==
  ASSUME WriterInv, WriterInv', mode = "rw", Step \/ Client
  PROVE  /\ mode' = "rw" /\ pc' # "down"
         /\ err' = err \/ err' \in {"outstanding", "uncommitted"}
<1>1. mode' = "rw" /\ pc # "down" /\ pc' # "down"
  BY StaysUp
<1>3. LoadSector => err' = err
  <2> SUFFICES ASSUME LoadSector PROVE err' = err
    OBVIOUS
  <2>1. CASE Running
    BY <2>1, RecoveryLoadSector DEF WriterInv
  <2>2. CASE ~Running
    <3>1. current_log = NoLog
      BY <1>1, <2>2 DEF Running
    <3>2. pc = "load" /\ Readable(ld.next)
      BY DEF LoadSector, Loading
    <3>3. call = "fssync" /\ ld.next = 1 /\ view.log = FreshVolume.log
      BY <1>1, <3>1, <3>2 DEF WriterInv, TxnInv, FreshLog
    <3>4. \A i \in Slots : FreshVolume.log[i].stamp = 0
      BY DEF FreshVolume, BlankSector
    <3>5. Slot(1) \in Slots
      BY SlotInLog
    <3> QED BY <3>2, <3>3, <3>4, <3>5 DEF Readable
  <2> QED BY <2>1, <2>2
<1>4. Client => err' = err \/ err' \in {"outstanding", "uncommitted"}
  BY DEF Client, LogInodeUpdate, AllocFails, LogCommit, LogFssync, FssyncVerdict
<1>5. Step /\ ~LoadSector => err' = err
  BY DEF Step, AddEntry, CloseSector, LoadDone, Scan, ApplyEntry,
         CommitApplied, ReplayApplied, ZoneMapSync, WriteVolumeHeader
<1> QED BY <1>1, <1>3, <1>4, <1>5

\* Every step keeps what is known of readers,
LEMMA ReaderNext ==
  ASSUME "rw" \notin RemountModes, WriterInv, WriterInv', ReaderInv, [Next]_vars
  PROVE  ReaderInv'
<1>1. DiskWhole'
  BY WholeNext DEF ReaderInv
<1>2. ReaderInv => ReaderState /\ err # "badlog"
  BY DEF ReaderInv, ReaderState
<1>3. ReaderState' /\ (err' = err \/ err' \in {"none", "outstanding", "uncommitted"})
  <2>1. CASE UNCHANGED vars
    <3> USE <2>1 DEF vars, logvars, memvars, callvars
    <3>1. ReaderCalls' /\ ReaderMounts' /\ ReaderLoads' /\ ReaderScans' /\ ReaderHas'
      BY DEF ReaderInv, ReaderCalls, ReaderMounts, ReaderLoads, ReaderScans, ReaderHas
    <3>2. ReaderApplies'
      <4>1. \A e, b : IsNewMap(e, b)' <=> IsNewMap(e, b)
        BY DEF IsNewMap
      <4> QED BY DEF ReaderInv, ReaderApplies, Remains, FilesRemain, BlocksRemain, FsidsRemain,
                 StampsRise, IsInode, IsNewMap
    <3> QED BY <3>1, <3>2 DEF ReaderState
  <2>2. CASE Crash
    BY <2>2 DEF Crash, ReaderState, ReaderCalls, ReaderMounts, ReaderLoads, ReaderScans,
                ReaderApplies, ReaderHas
  <2>3. CASE \E m \in RemountModes : Mount(m)
    <3>1. pc = "down" /\ call = "none" /\ current_log = NoLog
      BY <2>3 DEF Mount, WriterInv, RecoveryInv, CallOK, ReaderInv, ReaderCalls
    <3> QED BY <2>3, <3>1 DEF Mount, logvars, ReaderState, ReaderCalls, ReaderMounts, ReaderLoads,
                              ReaderScans, ReaderApplies, ReaderHas
  <2>4. CASE (Step \/ Client) /\ mode = "rw"
    BY <2>4, WriterLoads, WriterState
  <2>5. CASE (Step \/ Client) /\ mode # "rw"
    <3>1. ReaderOK /\ TypeInv'
      BY <2>5 DEF ReaderOK, WriterInv
    <3>2. ~CommitApplied
      BY <2>5 DEF CommitApplied, ReaderInv, ReaderCalls
    <3> QED BY <2>5, <3>1, <3>2, ReaderReplays, ReaderSyncs, ReaderReplayApplied, ReaderAsks DEF Step
  <2> QED BY <2>1, <2>2, <2>3, <2>4, <2>5 DEF Next
<1> QED BY <1>1, <1>2, <1>3 DEF ReaderInv, ReaderState

\* and the first mount has it.
LEMMA ReaderInit == Init => ReaderInv
<1> SUFFICES ASSUME Init PROVE ReaderInv
  OBVIOUS
<1>1. DiskWhole
  BY FreshReplay DEF Init, DiskWhole
<1>2. mode = "rw" /\ pc = "ready" /\ err = "none"
  BY DEF Init
<1> QED BY <1>1, <1>2 DEF ReaderInv, ReaderCalls, ReaderMounts, ReaderLoads, ReaderScans,
                          ReaderApplies, ReaderHas

\* Whatever is proved of every state.
AllInv == WriterInv /\ FewTouched /\ ReaderInv

\* All of it holds at first,
LEMMA AllInit == Init => AllInv
  BY ShortInit, ReaderInit DEF AllInv, WriterInv

\* and after every step.
LEMMA AllNext ==
  ASSUME "rw" \notin RemountModes, Fits(LongestTxn), AllInv, [Next]_vars
  PROVE  AllInv'
<1>1. WriterInv' /\ FewTouched'
  BY ShortNext DEF AllInv, WriterInv
<1> QED BY <1>1, ReaderNext DEF AllInv

\* It says that memory is what a replay of the drives rebuilds.
LEMMA MemoryAgrees == AllInv => MemoryIsReplay
<1> SUFFICES ASSUME AllInv, pc = "ready", current_log # NoLog PROVE
      /\ view.inode = RecoveredFiles(disk)
      /\ {b \in Blocks : b \in zmap[ZoneOf[b]].alloc} = RecoveredAlloc(disk)
      /\ vol_hdr.next_fsid = RecoveredNextFsid(disk)
  BY DEF MemoryIsReplay, Synced
<1>1. /\ \A f \in Fsids : view.inode[f] = RecoveredFiles(disk)[f]
      /\ \A b \in Blocks : b \in RecoveredAlloc(disk) <=> b \in zmap[ZoneOf[b]].alloc
      /\ vol_hdr.next_fsid = RecoveredNextFsid(disk)
  <2>1. CASE mode # "rw"
    BY <2>1 DEF AllInv, ReaderInv, ReaderHas
  <2>2. CASE mode = "rw"
    <3>1. Running
      BY <2>2 DEF Running
    <3> QED BY <3>1, ReadyFacts DEF AllInv, WriterInv
  <2> QED BY <2>1, <2>2
<1>2. view.inode = RecoveredFiles(disk)
  <2>1. view.inode \in [Fsids -> SUBSET Blocks]
    BY DEF AllInv, WriterInv, TypeInv, TypeOK, Volume
  <2>2. RecoveredFiles(disk) = [f \in Fsids |-> RecoveredFiles(disk)[f]]
    BY DEF RecoveredFiles
  <2> QED BY <1>1, <2>1, <2>2
<1>3. RecoveredAlloc(disk) \subseteq Blocks
  BY DEF RecoveredAlloc
<1> QED BY <1>1, <1>2, <1>3

\* Whatever a crash leaves of the log of a volume that is not reopened for writing, the
\* loader takes it (mfs_log_load_list).
THEOREM LoaderTakesLog ==
  ASSUME Fits(LongestTxn)
  PROVE  Spec => []LogLoads
<1>1. CASE "rw" \in RemountModes
  <2>1. LogLoads
    BY <1>1 DEF LogLoads
  <2> QED BY <2>1, PTL
<1>2. CASE "rw" \notin RemountModes
  <2>1. AllInv /\ [Next]_vars => AllInv'
    BY <1>2, AllNext
  <2>2. AllInv => LogLoads
    BY DEF AllInv, ReaderInv, LogLoads
  <2> QED BY AllInit, <2>1, <2>2, PTL DEF Spec
<1> QED BY <1>1, <1>2

\* Between calls the memory of a process that has read the log, be it the writer or a
\* reader that replayed it into its overlay, is what a replay of the drives rebuilds.
THEOREM MemoryMatchesDrives ==
  ASSUME "rw" \notin RemountModes, Fits(LongestTxn)
  PROVE  Spec => []MemoryIsReplay
<1>1. AllInv /\ [Next]_vars => AllInv'
  BY AllNext
<1> QED BY AllInit, <1>1, MemoryAgrees, PTL DEF Spec

-----------------------------------------------------------------------------
(* The atomic file system never shares a block.                            *)

\* Any atomic file system: the one the log implements is Fs.
VARIABLES theFiles, theStaged
Afs == INSTANCE AtomicFs WITH files <- theFiles, staged <- theStaged

AtomicInv ==
  /\ theFiles \in [Fsids -> SUBSET Blocks]
  /\ theStaged \in [Fsids -> {NoChange} \cup SUBSET Blocks]
  /\ Afs!NoSharing

\* What one file of the open transaction will own.
LEMMA AfterOf ==
  ASSUME NEW f \in Fsids
  PROVE  Afs!After(theFiles, theStaged)[f] = IF theStaged[f] = NoChange THEN theFiles[f] ELSE theStaged[f]
  BY DEF Afs!After

\* New contents disjoint from everything in use keep the files apart.
LEMMA StageKeeps ==
  ASSUME Afs!NoChangeApart, AtomicInv,
         NEW f \in Fsids, NEW B \in SUBSET Blocks, Afs!Stage(f, B)
  PROVE  AtomicInv'
<1>1. /\ theStaged[f] = NoChange /\ theFiles' = theFiles
      /\ theStaged' = [theStaged EXCEPT ![f] = B]
      /\ (B \ theFiles[f]) \cap Afs!InUse(theFiles, theStaged) = {}
  BY DEF Afs!Stage
<1>2. /\ theFiles' \in [Fsids -> SUBSET Blocks]
      /\ theStaged' \in [Fsids -> {NoChange} \cup SUBSET Blocks]
  BY <1>1 DEF AtomicInv
<1>3. \A g \in Fsids : Afs!Owned(g) \subseteq Afs!InUse(theFiles, theStaged)
  <2>1. \A g \in Fsids : Afs!Owned(g) \subseteq Blocks
    BY AfterOf DEF Afs!Owned, AtomicInv
  <2> QED BY <2>1 DEF Afs!Owned, Afs!InUse
<1>4. \A g \in Fsids \ {f} : Afs!Owned(g)' = Afs!Owned(g)
  BY <1>1 DEF Afs!Owned, Afs!After, AtomicInv
<1>5. Afs!Owned(f)' = theFiles[f] \cup B
  <2>1. B # NoChange /\ theStaged'[f] = B
    BY <1>1, Afs!NoChangeApart DEF AtomicInv, Afs!NoChangeApart
  <2> QED BY <1>1, <2>1 DEF Afs!Owned, Afs!After
<1>6. \A g \in Fsids \ {f} : (theFiles[f] \cup B) \cap Afs!Owned(g) = {}
  <2>1. \A g \in Fsids \ {f} : theFiles[f] \cap Afs!Owned(g) = {}
    BY DEF AtomicInv, Afs!NoSharing, Afs!Owned
  <2> QED BY <1>1, <1>3, <2>1
<1>7. Afs!NoSharing'
  BY <1>4, <1>5, <1>6 DEF AtomicInv, Afs!NoSharing
<1> QED BY <1>2, <1>7 DEF AtomicInv

\* A commit, or the loss of the transaction, leaves each file with part of
\* what it owned.
LEMMA ShrinkKeeps ==
  ASSUME AtomicInv, theFiles' \in [Fsids -> SUBSET Blocks], theStaged' = Afs!Nothing,
         \A f \in Fsids : theFiles'[f] \subseteq Afs!Owned(f)
  PROVE  AtomicInv'
<1>1. \A f \in Fsids : Afs!Owned(f)' = theFiles'[f]
  BY DEF Afs!Owned, Afs!After, Afs!Nothing
<1> QED BY <1>1 DEF AtomicInv, Afs!NoSharing, Afs!Nothing

LEMMA AtomicNext ==
  ASSUME Afs!NoChangeApart, AtomicInv, [Afs!Next]_<<theFiles, theStaged>>
  PROVE  AtomicInv'
<1>1. CASE \E f \in Fsids, B \in SUBSET Blocks : Afs!Stage(f, B)
  BY <1>1, StageKeeps
<1>2. CASE Afs!Commit
  <2>1. theFiles' = Afs!After(theFiles, theStaged) /\ theStaged' = Afs!Nothing
    BY <1>2 DEF Afs!Commit
  <2>2. theFiles' \in [Fsids -> SUBSET Blocks]
    BY <2>1 DEF Afs!After, AtomicInv
  <2>3. \A f \in Fsids : theFiles'[f] \subseteq Afs!Owned(f)
    BY <2>1 DEF Afs!Owned
  <2> QED BY <2>1, <2>2, <2>3, ShrinkKeeps
<1>3. CASE Afs!Abandon
  <2>1. theFiles' = theFiles /\ theStaged' = Afs!Nothing
    BY <1>3 DEF Afs!Abandon
  <2> QED BY <2>1, ShrinkKeeps DEF AtomicInv, Afs!Owned
<1>4. CASE UNCHANGED <<theFiles, theStaged>>
  BY <1>4 DEF AtomicInv, Afs!NoSharing, Afs!Owned, Afs!After
<1> QED BY <1>1, <1>2, <1>3, <1>4 DEF Afs!Next

\* In the abstract file system no two files share a block, whatever is
\* committed or abandoned: what the log promises (include/mfs.h, above
\* zone_changed_run) is enough to keep files apart.
THEOREM AtomicNoSharing ==
  ASSUME Afs!NoChangeApart
  PROVE  Afs!Spec => []Afs!NoSharing
<1>1. Afs!Init => AtomicInv
  BY DEF Afs!Init, AtomicInv, Afs!NoSharing, Afs!Owned, Afs!After, Afs!Nothing
<1>2. AtomicInv => Afs!NoSharing
  BY DEF AtomicInv
<1>3. AtomicInv /\ [Afs!Next]_<<theFiles, theStaged>> => AtomicInv'
  BY AtomicNext, Afs!NoChangeApart
<1> QED BY <1>1, <1>2, <1>3, PTL DEF Afs!Spec
=============================================================================
