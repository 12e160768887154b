--------------------------- MODULE ZoneMap_proofs ---------------------------
(***************************************************************************)
(* Why a zone map of any size never hands a unit out twice, and why its    *)
(* bitmaps, its counters and the files stay in step.                       *)
(***************************************************************************)
EXTENDS ZoneMap, BuddyZone_proofs, SequenceTheorems

N == NUnits
n == NumOrders(NUnits)

\* The units the bitmaps call free, and those a search can still find.
FreeSet == Covered(zone.bits, n)
FindSet == Covered(Found(zone), n)

RunType   == [order : 0..(n - 1), bit : Nat]
EntryType == [order : 0..(n - 1), bit : Nat, free : BOOLEAN]

\* The runs of the files, and what the open transaction says of them.
FilesInv ==
  /\ files \subseteq RunType
  /\ \A r \in files : UnitsIn(r.order, r.bit) \subseteq (0..(N - 1)) \ FreeSet
  /\ \A r, s \in files : r # s => UnitsIn(r.order, r.bit) \cap UnitsIn(s.order, s.bit) = {}
  /\ \A u \in 0..(N - 1) : u \in FreeSet \/ \E r \in files : u \in UnitsIn(r.order, r.bit)

EntryOK(e) == IF e.free THEN RunOf(e) \in files ELSE UnitsIn(e.order, e.bit) \subseteq FreeSet
TxnInv ==
  /\ txn \in Seq(EntryType)
  /\ \A i \in DOMAIN txn : EntryOK(txn[i])
  /\ \A i, j \in DOMAIN txn :
       i # j => UnitsIn(txn[i].order, txn[i].bit) \cap UnitsIn(txn[j].order, txn[j].bit) = {}

\* Between commits the lists are true, and what is logged is found no more.
NotesInv ==
  /\ ~Settling => NotesOK(zone, n)
  /\ pc = "ready" => \A i \in DOMAIN txn :
       ~txn[i].free => UnitsIn(txn[i].order, txn[i].bit) \cap FindSet = {}

ZoneInv ==
  /\ ZoneOK(zone, n, N) /\ zone.stamp = 0
  /\ pc \in {"ready", "commit"}
  /\ FilesInv /\ TxnInv /\ NotesInv

-----------------------------------------------------------------------------
(* What the module calls these sets.                                       *)

LEMMA NumOrdersOK == n \in Nat \ {0} /\ n \in Nat /\ N \in Nat
BY NUnitsOK, NumOrdersIs DEF n, N

\* The units of marked blocks are those the bitmaps cover.
LEMMA UnitsAre ==
  ASSUME NEW F, F \in [0..(n - 1) -> SUBSET Nat]
  PROVE  UNION {UNION {UnitsIn(k, b) : b \in F[k]} : k \in 0..(n - 1)} = Covered(F, n)
<1> DEFINE S == UNION {UNION {UnitsIn(k, b) : b \in F[k]} : k \in 0..(n - 1)}
<1>1. ASSUME NEW u \in S PROVE u \in Covered(F, n)
  <2>1. PICK k \in 0..(n - 1) : u \in UNION {UnitsIn(k, b) : b \in F[k]}
    OBVIOUS
  <2>2. PICK b \in F[k] : u \in UnitsIn(k, b)
    BY <2>1
  <2>3. u \in Nat /\ Up(u, k) = b
    BY <2>2, BlockUnits
  <2> QED BY <2>3 DEF Covered, Covers
<1>2. ASSUME NEW u \in Covered(F, n) PROVE u \in S
  <2>1. u \in Nat /\ Covers(F, n, u)
    BY DEF Covered
  <2>2. PICK k \in 0..(n - 1) : Up(u, k) \in F[k]
    BY <2>1 DEF Covers
  <2>3. u \in UnitsIn(k, Up(u, k))
    <3>1. PICK b \in Nat : b = Up(u, k)
      BY <2>2
    <3>2. u \in UnitsIn(k, b)
      BY <2>1, <3>1, UnitIs
    <3> QED BY <3>1, <3>2
  <2> QED BY <2>2, <2>3
<1> QED BY <1>1, <1>2

\* The model's free units are those the bitmaps cover.
LEMMA FreeUnitsAre ==
  ASSUME ZoneInv
  PROVE  FreeUnits = FreeSet /\ Orders(zone) = 0..(n - 1) /\ FreeSet \subseteq 0..(N - 1)
<1>1. /\ zone.num = n /\ Orders(zone) = 0..(n - 1) /\ FreeSet \subseteq 0..(N - 1)
      /\ zone.bits \in [0..(n - 1) -> SUBSET Nat]
  BY DEF ZoneInv, ZoneOK, ZoneType, Orders, FreeSet
<1>2. FreeUnits = UNION {UNION {UnitsIn(k, b) : b \in zone.bits[k]} : k \in 0..(n - 1)}
  BY <1>1 DEF FreeUnits
<1> QED BY <1>1, <1>2, UnitsAre DEF FreeSet

\* The model's findable units are those the blocks to be found cover.
LEMMA FindableUnitsAre ==
  ASSUME ZoneInv, NotesOK(zone, n)
  PROVE  /\ FindableUnits = FindSet /\ FindSet \subseteq FreeSet
         /\ \A k \in 0..(n - 1) : Findable(k) = Found(zone)[k]
<1>1. /\ zone.num = n /\ Orders(zone) = 0..(n - 1)
      /\ Found(zone) \in [0..(n - 1) -> SUBSET Nat]
  BY DEF ZoneInv, ZoneOK, ZoneType, Orders, NotesOK, Forest
<1>2. \A k \in 0..(n - 1) : Findable(k) = Found(zone)[k]
  <2>1. \A k \in 0..(n - 1) : Found(zone)[k] = FoundIn(zone.bits[k], zone.runs[k])
    BY <1>1 DEF Found
  <2> QED BY <2>1 DEF Findable, FoundIn, NotedIn, LeftIn, Noted, LeftOver
<1>3. FindableUnits = UNION {UNION {UnitsIn(k, b) : b \in Found(zone)[k]} : k \in 0..(n - 1)}
  BY <1>1, <1>2 DEF FindableUnits
<1>4. FindableUnits = FindSet
  BY <1>1, <1>3, UnitsAre DEF FindSet
<1>5. FindSet \subseteq FreeSet
  BY NumOrdersOK, FoundFree DEF FindSet, FreeSet, ZoneInv
<1> QED BY <1>2, <1>4, <1>5

-----------------------------------------------------------------------------
(* The invariant holds initially and is kept by every step.                *)

\* The units of a run: there are some, and they are the zone's.
LEMMA RunUnits ==
  ASSUME NEW k \in 0..(n - 1), NEW b \in Nat
  PROVE  UnitsIn(k, b) # {} /\ UnitsIn(k, b) \subseteq Nat
<1>1. k \in Nat /\ b * 2^k \in Nat /\ Up(b * 2^k, k) = b /\ UnitsIn(k, b) = {u \in Nat : Up(u, k) = b}
  BY BlockUnits
<1> QED BY <1>1

\* The bit of a run of the zone is below the number of its units.
LEMMA BitOfRun ==
  ASSUME NEW k \in 0..(n - 1), NEW b \in Nat, UnitsIn(k, b) \subseteq 0..(N - 1)
  PROVE  b \in 0..(N - 1)
<1>1. PICK c \in Nat \ {0} : c = 2^k
  BY PowerStep
<1>2. b * 2^k \in UnitsIn(k, b)
  <2>1. b * 2^k \in Nat /\ Up(b * 2^k, k) = b /\ UnitsIn(k, b) = {u \in Nat : Up(u, k) = b}
    BY BlockUnits
  <2> QED BY <2>1
<1>3. b * c \in 0..(N - 1)
  BY <1>1, <1>2
<1>4. b <= b * c
  <2>1. PICK d \in Nat : c = 1 + d
    <3>1. c - 1 \in Nat /\ c = 1 + (c - 1)
      OBVIOUS
    <3> QED BY <3>1
  <2>2. b * d \in Nat /\ b * c = b + b * d
    BY <2>1
  <2> QED BY <2>2
<1> QED BY <1>3, <1>4, NumOrdersOK

\* A new zone of one whole free tree satisfies the invariant.
LEMMA InitInv == Init => ZoneInv
<1> SUFFICES ASSUME Init PROVE ZoneInv
  OBVIOUS
<1>1. /\ ZoneOK(zone, n, N) /\ Covered(zone.bits, n) = 0..(N - 1) /\ zone.num = n
      /\ zone.stamp = 0 /\ zone.dirty = FALSE
      /\ \A k \in 0..(n - 1) : zone.runs[k] = <<>> /\ zone.allocated[k] = 0 /\ zone.freed[k] = 0
  BY NumOrdersOK, NewZoneIs DEF Init, n, N
<1>2. FilesInv
  BY <1>1 DEF Init, FilesInv, FreeSet
<1>3. TxnInv
  <2>1. txn = <<>>
    BY DEF Init
  <2>2. txn \in Seq(EntryType) /\ DOMAIN txn = {}
    BY <2>1
  <2> QED BY <2>2 DEF TxnInv
<1>4. NotesOK(zone, n)
  BY <1>1, NumOrdersOK, NewNotesOK
<1>5. NotesInv
  <2>1. DOMAIN txn = {}
    BY DEF Init
  <2> QED BY <1>4, <2>1 DEF NotesInv
<1>6. pc \in {"ready", "commit"}
  BY DEF Init
<1> QED BY <1>1, <1>2, <1>3, <1>5, <1>6 DEF ZoneInv

\* EntryOK of a given entry is a matter of the files and the free units.
OKIn(e, fs, free) == IF e.free THEN RunOf(e) \in fs ELSE UnitsIn(e.order, e.bit) \subseteq free

\* Handing out a run keeps the invariant, and takes its units from those to be found.
LEMMA AllocStep ==
  ASSUME ZoneInv, NEW k \in Orders(zone), Alloc(k)
  PROVE  /\ ZoneInv'
         /\ FreeSet' = FreeSet
         /\ UnitsIn(k, FoundBit(zone, k)) \subseteq FindSet
         /\ FindSet' = FindSet \ UnitsIn(k, FoundBit(zone, k))
         /\ FoundBit(zone, k) \in Nat
<1>1. k \in 0..(n - 1) /\ ZoneOK(zone, n, N) /\ zone.stamp = 0
  BY FreeUnitsAre DEF ZoneInv
<1>2. pc = "ready" /\ pc' = "ready" /\ files' = files /\ zone' = FindRun(zone, k) /\ CanFind(zone, k)
  BY DEF Alloc
<1>3. NotesOK(zone, n)
  BY <1>2 DEF ZoneInv, NotesInv, Settling
<1>4. PICK b \in Nat : b = FoundBit(zone, k)
  BY <1>1, <1>2, <1>3, NumOrdersOK, FindIs
<1>5. /\ ZoneOK(zone', n, N) /\ NotesOK(zone', n)
      /\ zone'.bits = zone.bits /\ zone'.stamp = zone.stamp
  BY <1>1, <1>2, <1>3, NumOrdersOK, FindIs
<1>6. UnitsIn(k, b) \subseteq FindSet /\ FindSet' = FindSet \ UnitsIn(k, b)
  BY <1>1, <1>2, <1>3, <1>4, NumOrdersOK, FindIs DEF FindSet
<1>7. FreeSet' = FreeSet
  BY <1>5 DEF FreeSet
<1>8. FindSet \subseteq FreeSet
  BY <1>3, FindableUnitsAre
<1> DEFINE e == MapEntry(k, b, FALSE)
<1>9. e \in EntryType /\ e.order = k /\ e.bit = b /\ ~e.free
  BY <1>1 DEF MapEntry, EntryType
<1> HIDE DEF e
<1>10. txn' = txn \/ txn' = Append(txn, e)
  BY <1>4 DEF Alloc, e
<1>11. FilesInv'
  BY <1>2, <1>7 DEF ZoneInv, FilesInv
<1>12. /\ txn \in Seq(EntryType)
       /\ \A i \in DOMAIN txn : OKIn(txn[i], files, FreeSet)
       /\ \A i, j \in DOMAIN txn :
            i # j => UnitsIn(txn[i].order, txn[i].bit) \cap UnitsIn(txn[j].order, txn[j].bit) = {}
       /\ \A i \in DOMAIN txn : ~txn[i].free => UnitsIn(txn[i].order, txn[i].bit) \cap FindSet = {}
  BY <1>2 DEF ZoneInv, TxnInv, EntryOK, OKIn, NotesInv
<1>13. \A r \in files : UnitsIn(r.order, r.bit) \cap FreeSet = {}
  BY DEF ZoneInv, FilesInv
<1>14. \A i \in DOMAIN txn : UnitsIn(txn[i].order, txn[i].bit) \cap UnitsIn(k, b) = {}
  <2> SUFFICES ASSUME NEW i \in DOMAIN txn
               PROVE  UnitsIn(txn[i].order, txn[i].bit) \cap UnitsIn(k, b) = {}
    OBVIOUS
  <2>1. CASE txn[i].free
    <3>1. RunOf(txn[i]) \in files
      BY <1>12, <2>1 DEF OKIn
    <3>2. UnitsIn(txn[i].order, txn[i].bit) \cap FreeSet = {}
      BY <1>13, <3>1 DEF RunOf
    <3> QED BY <1>6, <1>8, <3>2
  <2>2. CASE ~txn[i].free
    BY <1>6, <1>12, <2>2
  <2> QED BY <2>1, <2>2
<1>15. /\ txn' \in Seq(EntryType)
       /\ \A i \in DOMAIN txn' : OKIn(txn'[i], files, FreeSet)
       /\ \A i, j \in DOMAIN txn' :
            i # j => UnitsIn(txn'[i].order, txn'[i].bit) \cap UnitsIn(txn'[j].order, txn'[j].bit) = {}
       /\ \A i \in DOMAIN txn' : ~txn'[i].free => UnitsIn(txn'[i].order, txn'[i].bit) \cap FindSet' = {}
  <2>1. CASE txn' = txn
    BY <1>6, <1>12, <2>1
  <2>2. CASE txn' = Append(txn, e)
    <3>1. /\ txn' \in Seq(EntryType) /\ DOMAIN txn' = DOMAIN txn \cup {Len(txn) + 1}
          /\ txn'[Len(txn) + 1] = e /\ \A i \in DOMAIN txn : txn'[i] = txn[i]
      BY <1>9, <1>12, <2>2
    <3>2. OKIn(e, files, FreeSet) /\ UnitsIn(e.order, e.bit) \cap FindSet' = {}
      BY <1>6, <1>8, <1>9 DEF OKIn
    <3>3. \A i \in DOMAIN txn' : OKIn(txn'[i], files, FreeSet)
      BY <1>12, <3>1, <3>2
    <3>4. \A i \in DOMAIN txn' : ~txn'[i].free => UnitsIn(txn'[i].order, txn'[i].bit) \cap FindSet' = {}
      BY <1>6, <1>12, <3>1, <3>2
    <3>5. \A i, j \in DOMAIN txn' :
            i # j => UnitsIn(txn'[i].order, txn'[i].bit) \cap UnitsIn(txn'[j].order, txn'[j].bit) = {}
      BY <1>9, <1>12, <1>14, <3>1
    <3> QED BY <3>1, <3>3, <3>4, <3>5
  <2> QED BY <1>10, <2>1, <2>2
<1>16. TxnInv'
  BY <1>2, <1>7, <1>15 DEF TxnInv, EntryOK, OKIn
<1>17. NotesInv'
  BY <1>2, <1>5, <1>15 DEF NotesInv
<1>18. ZoneInv'
  BY <1>1, <1>2, <1>5, <1>11, <1>16, <1>17 DEF ZoneInv
<1> QED BY <1>4, <1>6, <1>7, <1>18

\* Logging that a run is freed keeps the invariant and changes no bitmap.
LEMMA FreeStep ==
  ASSUME ZoneInv, NEW r \in files, Free(r)
  PROVE  ZoneInv' /\ FreeSet' = FreeSet /\ FindSet' = FindSet
<1>1. /\ pc = "ready" /\ pc' = "ready" /\ files' = files /\ zone' = zone
      /\ FreeSet' = FreeSet /\ FindSet' = FindSet
      /\ \A i \in DOMAIN txn : RunOf(txn[i]) # r
  BY DEF Free, FreeSet, FindSet
<1> DEFINE e == MapEntry(r.order, r.bit, TRUE)
<1>2. r \in RunType /\ r = [order |-> r.order, bit |-> r.bit]
  BY DEF ZoneInv, FilesInv, RunType
<1>3. e \in EntryType /\ e.order = r.order /\ e.bit = r.bit /\ e.free /\ RunOf(e) = r
  BY <1>2 DEF MapEntry, EntryType, RunOf, RunType
<1>4. txn' = Append(txn, e)
  BY DEF Free
<1> HIDE DEF e
<1>5. /\ txn \in Seq(EntryType)
      /\ \A i \in DOMAIN txn : OKIn(txn[i], files, FreeSet)
      /\ \A i, j \in DOMAIN txn :
           i # j => UnitsIn(txn[i].order, txn[i].bit) \cap UnitsIn(txn[j].order, txn[j].bit) = {}
      /\ \A i \in DOMAIN txn : ~txn[i].free => UnitsIn(txn[i].order, txn[i].bit) \cap FindSet = {}
  BY <1>1 DEF ZoneInv, TxnInv, EntryOK, OKIn, NotesInv
<1>6. /\ UnitsIn(r.order, r.bit) \cap FreeSet = {}
      /\ \A s \in files : r # s => UnitsIn(r.order, r.bit) \cap UnitsIn(s.order, s.bit) = {}
  BY DEF ZoneInv, FilesInv
<1>7. \A i \in DOMAIN txn : UnitsIn(txn[i].order, txn[i].bit) \cap UnitsIn(r.order, r.bit) = {}
  <2> SUFFICES ASSUME NEW i \in DOMAIN txn
               PROVE  UnitsIn(txn[i].order, txn[i].bit) \cap UnitsIn(r.order, r.bit) = {}
    OBVIOUS
  <2>1. CASE txn[i].free
    <3>1. RunOf(txn[i]) \in files /\ RunOf(txn[i]) # r
      BY <1>1, <1>5, <2>1 DEF OKIn
    <3>2. UnitsIn(r.order, r.bit) \cap UnitsIn(RunOf(txn[i]).order, RunOf(txn[i]).bit) = {}
      BY <1>6, <3>1
    <3> QED BY <3>2 DEF RunOf
  <2>2. CASE ~txn[i].free
    BY <1>5, <1>6, <2>2 DEF OKIn
  <2> QED BY <2>1, <2>2
<1>8. /\ txn' \in Seq(EntryType) /\ DOMAIN txn' = DOMAIN txn \cup {Len(txn) + 1}
      /\ txn'[Len(txn) + 1] = e /\ \A i \in DOMAIN txn : txn'[i] = txn[i]
  BY <1>3, <1>4, <1>5
<1>9. OKIn(e, files, FreeSet)
  BY <1>3 DEF OKIn
<1>10. \A i \in DOMAIN txn' : OKIn(txn'[i], files, FreeSet)
  BY <1>5, <1>8, <1>9
<1>11. \A i \in DOMAIN txn' : ~txn'[i].free => UnitsIn(txn'[i].order, txn'[i].bit) \cap FindSet = {}
  BY <1>3, <1>5, <1>8
<1>12. \A i, j \in DOMAIN txn' :
         i # j => UnitsIn(txn'[i].order, txn'[i].bit) \cap UnitsIn(txn'[j].order, txn'[j].bit) = {}
  BY <1>3, <1>5, <1>7, <1>8
<1>13. TxnInv'
  BY <1>1, <1>8, <1>10, <1>12 DEF TxnInv, EntryOK, OKIn
<1>14. NotesInv'
  BY <1>1, <1>11 DEF NotesInv, ZoneInv, Settling
<1> QED BY <1>1, <1>13, <1>14 DEF ZoneInv, FilesInv

\* The rest of a transaction whose first entry is applied.
LEMMA RestOf ==
  ASSUME TxnInv, txn # <<>>
  PROVE  /\ Head(txn) = txn[1] /\ Tail(txn) \in Seq(EntryType) /\ Head(txn) \in EntryType
         /\ EntryOK(Head(txn))
         /\ \A i \in DOMAIN Tail(txn) : /\ i + 1 \in DOMAIN txn /\ Tail(txn)[i] = txn[i + 1]
                                        /\ EntryOK(txn[i + 1])
                                        /\ UnitsIn(txn[i + 1].order, txn[i + 1].bit)
                                             \cap UnitsIn(Head(txn).order, Head(txn).bit) = {}
         /\ \A i, j \in DOMAIN Tail(txn) :
              i # j => UnitsIn(Tail(txn)[i].order, Tail(txn)[i].bit)
                         \cap UnitsIn(Tail(txn)[j].order, Tail(txn)[j].bit) = {}
<1>1. txn \in Seq(EntryType)
  BY DEF TxnInv
<1>2. /\ Head(txn) = txn[1] /\ Tail(txn) \in Seq(EntryType) /\ 1 \in DOMAIN txn /\ txn[1] \in EntryType
      /\ \A i \in DOMAIN Tail(txn) : /\ i + 1 \in DOMAIN txn /\ Tail(txn)[i] = txn[i + 1] /\ i + 1 # 1
                                     /\ i \in Nat
  BY <1>1
<1>3. ASSUME NEW i \in DOMAIN Tail(txn)
      PROVE  /\ EntryOK(txn[i + 1])
             /\ UnitsIn(txn[i + 1].order, txn[i + 1].bit) \cap UnitsIn(Head(txn).order, Head(txn).bit) = {}
  BY <1>2 DEF TxnInv
<1>4. ASSUME NEW i \in DOMAIN Tail(txn), NEW j \in DOMAIN Tail(txn), i # j
      PROVE  UnitsIn(Tail(txn)[i].order, Tail(txn)[i].bit)
               \cap UnitsIn(Tail(txn)[j].order, Tail(txn)[j].bit) = {}
  <2>1. i + 1 # j + 1
    BY <1>2, <1>4
  <2> QED BY <1>2, <2>1 DEF TxnInv
<1>5. EntryOK(Head(txn))
  BY <1>2 DEF TxnInv
<1> QED BY <1>2, <1>3, <1>4, <1>5

\* Applying a logged update keeps the invariant and frees or allocates just its run.
LEMMA ApplyStep ==
  ASSUME ZoneInv, Apply
  PROVE  /\ ZoneInv' /\ zone'.dirty = TRUE
         /\ IF Head(txn).free
              THEN /\ UnitsIn(Head(txn).order, Head(txn).bit) \cap FreeSet = {}
                   /\ FreeSet' = FreeSet \cup UnitsIn(Head(txn).order, Head(txn).bit)
              ELSE /\ UnitsIn(Head(txn).order, Head(txn).bit) \subseteq FreeSet
                   /\ FreeSet' = FreeSet \ UnitsIn(Head(txn).order, Head(txn).bit)
<1>1. /\ pc = "commit" /\ txn # <<>> /\ pc' = "commit" /\ txn' = Tail(txn)
      /\ zone' = Update(zone, Head(txn).order, Head(txn).bit, Head(txn).free, Stamp)
      /\ files' = IF Head(txn).free THEN files \ {RunOf(Head(txn))} ELSE files \cup {RunOf(Head(txn))}
  BY DEF Apply
<1>2. PICK e \in EntryType : e = Head(txn) /\ EntryOK(e)
  BY <1>1, RestOf DEF ZoneInv
<1> DEFINE U == UnitsIn(e.order, e.bit)
<1>3. /\ e.order \in 0..(n - 1) /\ e.bit \in Nat /\ e.free \in BOOLEAN
      /\ RunOf(e) = [order |-> e.order, bit |-> e.bit] /\ RunOf(e) \in RunType
  BY DEF EntryType, RunOf, RunType
<1>4. /\ ZoneOK(zone, n, N) /\ zone.stamp = 0 /\ FreeSet \subseteq 0..(N - 1)
      /\ Stamp = 1
  BY DEF ZoneInv, ZoneOK, FreeSet, Stamp
<1>5. e.free => U \subseteq (0..(N - 1)) \ FreeSet
  BY <1>2, <1>3 DEF EntryOK, ZoneInv, FilesInv
<1>6. ~e.free => U \subseteq FreeSet
  BY <1>2 DEF EntryOK
<1>7. U \subseteq 0..(N - 1) /\ Changeable(zone.bits, n, e.order, e.bit, e.free)
  BY <1>3, <1>4, <1>5, <1>6 DEF Changeable, FreeSet
<1>8. /\ ZoneOK(zone', n, N) /\ zone'.dirty = TRUE /\ NotesKept(zone', zone)
      /\ FreeSet' = IF e.free THEN FreeSet \cup U ELSE FreeSet \ U
  <2>1. zone' = Update(zone, e.order, e.bit, e.free, 1)
    BY <1>1, <1>2, <1>4
  <2>2. 1 \in Nat /\ 1 > zone.stamp
    BY <1>4
  <2> HIDE DEF U
  <2>3. UnitsIn(e.order, e.bit) \subseteq 0..(N - 1)
    BY <1>7 DEF U
  <2> DEFINE y == Update(zone, e.order, e.bit, e.free, 1)
  <2>4. Changed(y, zone, n, N, e.order, e.bit, e.free)
    BY <1>3, <1>4, <1>7, <2>2, <2>3, NumOrdersOK, UpdateIs
  <2> HIDE DEF y
  <2>5. zone' = y
    BY <2>1 DEF y
  <2> QED BY <2>4, <2>5 DEF FreeSet, U, Changed
<1>9. U # {}
  BY <1>3, RunUnits
<1>10. /\ files \subseteq RunType
       /\ \A r \in files : UnitsIn(r.order, r.bit) \subseteq (0..(N - 1)) \ FreeSet
       /\ \A r, s \in files : r # s => UnitsIn(r.order, r.bit) \cap UnitsIn(s.order, s.bit) = {}
       /\ \A u \in 0..(N - 1) : u \in FreeSet \/ \E r \in files : u \in UnitsIn(r.order, r.bit)
  BY DEF ZoneInv, FilesInv
<1>11. RunOf(e).order = e.order /\ RunOf(e).bit = e.bit
  BY <1>3
<1> HIDE DEF U
<1>12. FilesInv'
  <2>1. CASE e.free
    <3>1. files' = files \ {RunOf(e)} /\ FreeSet' = FreeSet \cup U /\ RunOf(e) \in files
      BY <1>1, <1>2, <1>8, <2>1 DEF EntryOK
    <3>2. \A r \in files' : UnitsIn(r.order, r.bit) \subseteq (0..(N - 1)) \ FreeSet'
      <4>1. \A r \in files' : r \in files /\ r # RunOf(e)
        BY <3>1
      <4>2. \A r \in files' : UnitsIn(r.order, r.bit) \cap U = {}
        BY <1>10, <1>11, <3>1, <4>1 DEF U
      <4> QED BY <1>10, <3>1, <4>1, <4>2
    <3>3. \A u \in 0..(N - 1) : u \in FreeSet' \/ \E r \in files' : u \in UnitsIn(r.order, r.bit)
      <4> SUFFICES ASSUME NEW u \in 0..(N - 1), u \notin FreeSet'
                   PROVE  \E r \in files' : u \in UnitsIn(r.order, r.bit)
        OBVIOUS
      <4>1. PICK r \in files : u \in UnitsIn(r.order, r.bit)
        BY <1>10, <3>1
      <4>2. r # RunOf(e)
        BY <1>11, <3>1, <4>1 DEF U
      <4> QED BY <3>1, <4>1, <4>2
    <3> QED BY <1>10, <3>1, <3>2, <3>3 DEF FilesInv
  <2>2. CASE ~e.free
    <3>1. files' = files \cup {RunOf(e)} /\ FreeSet' = FreeSet \ U /\ U \subseteq FreeSet
      BY <1>1, <1>2, <1>6, <1>8, <2>2
    <3>2. \A r \in files' : UnitsIn(r.order, r.bit) \subseteq (0..(N - 1)) \ FreeSet'
      <4>1. UnitsIn(RunOf(e).order, RunOf(e).bit) = U
        BY <1>11 DEF U
      <4> QED BY <1>4, <1>10, <3>1, <4>1
    <3>3. \A u \in 0..(N - 1) : u \in FreeSet' \/ \E r \in files' : u \in UnitsIn(r.order, r.bit)
      <4> SUFFICES ASSUME NEW u \in 0..(N - 1), u \notin FreeSet'
                   PROVE  \E r \in files' : u \in UnitsIn(r.order, r.bit)
        OBVIOUS
      <4>1. CASE u \in U
        BY <1>11, <3>1, <4>1 DEF U
      <4>2. CASE u \notin U
        BY <1>10, <3>1, <4>2
      <4> QED BY <4>1, <4>2
    <3>4. \A r, s \in files' : r # s => UnitsIn(r.order, r.bit) \cap UnitsIn(s.order, s.bit) = {}
      <4>1. \A r \in files : UnitsIn(r.order, r.bit) \cap U = {}
        BY <1>10, <3>1
      <4>2. UnitsIn(RunOf(e).order, RunOf(e).bit) = U
        BY <1>11 DEF U
      <4> QED BY <1>10, <3>1, <4>1, <4>2
    <3> QED BY <1>3, <1>10, <3>1, <3>2, <3>3, <3>4 DEF FilesInv
  <2> QED BY <1>3, <2>1, <2>2
<1>13. ASSUME NEW i \in DOMAIN Tail(txn) PROVE OKIn(Tail(txn)[i], files', FreeSet')
  <2> DEFINE d == txn[i + 1]
             V == UnitsIn(d.order, d.bit)
  <2>1. Tail(txn)[i] = d /\ EntryOK(d) /\ V \cap U = {} /\ d \in EntryType
    <3>1. Tail(txn)[i] = d /\ EntryOK(d) /\ V \cap U = {} /\ i + 1 \in DOMAIN txn /\ txn \in Seq(EntryType)
      BY <1>1, <1>2, RestOf DEF ZoneInv, U, TxnInv
    <3> QED BY <3>1
  <2>2. RunOf(d).order = d.order /\ RunOf(d).bit = d.bit
    BY DEF RunOf
  <2> HIDE DEF d
  <2>3. V # {}
    BY <2>1, RunUnits DEF EntryType
  <2>4. CASE d.free
    <3>1. RunOf(d) # RunOf(e)
      <4> SUFFICES ASSUME RunOf(d) = RunOf(e) PROVE FALSE
        OBVIOUS
      <4>1. d.order = e.order /\ d.bit = e.bit
        BY <1>11, <2>2
      <4>2. V = U
        BY <4>1 DEF U
      <4> HIDE DEF V
      <4> QED BY <2>1, <2>3, <4>2
    <3>2. RunOf(d) \in files'
      BY <1>1, <1>2, <2>1, <2>4, <3>1 DEF EntryOK
    <3> QED BY <2>1, <2>4, <3>2 DEF OKIn
  <2>5. CASE ~d.free
    <3>1. V \subseteq FreeSet'
      BY <1>8, <2>1, <2>5 DEF EntryOK
    <3> QED BY <2>1, <2>5, <3>1 DEF OKIn
  <2> QED BY <2>1, <2>4, <2>5 DEF EntryType
<1>14. TxnInv'
  <2>1. /\ Tail(txn) \in Seq(EntryType)
        /\ \A i, j \in DOMAIN Tail(txn) :
             i # j => UnitsIn(Tail(txn)[i].order, Tail(txn)[i].bit)
                        \cap UnitsIn(Tail(txn)[j].order, Tail(txn)[j].bit) = {}
    BY <1>1, RestOf DEF ZoneInv
  <2>2. \A i \in DOMAIN txn' : OKIn(txn'[i], files', FreeSet')
    BY <1>1, <1>13
  <2> QED BY <1>1, <2>1, <2>2 DEF TxnInv, EntryOK, OKIn
<1>15. NotesInv'
  BY <1>1, <1>8 DEF NotesInv, Settling
<1>16. zone'.stamp = 0
  BY <1>4, <1>8 DEF NotesKept
<1>17. ZoneInv'
  BY <1>1, <1>8, <1>12, <1>14, <1>15, <1>16 DEF ZoneInv
<1> QED BY <1>2, <1>5, <1>6, <1>8, <1>17 DEF U

\* The start of a commit keeps the invariant.
LEMMA CommitStep ==
  ASSUME ZoneInv, Commit
  PROVE  ZoneInv' /\ FreeSet' = FreeSet /\ FindSet' = FindSet
<1>1. pc = "ready" /\ pc' = "commit" /\ zone' = zone /\ files' = files /\ txn' = txn
  BY DEF Commit
<1>2. FreeSet' = FreeSet /\ FindSet' = FindSet
  BY <1>1 DEF FreeSet, FindSet
<1>3. NotesOK(zone, n)
  BY <1>1 DEF ZoneInv, NotesInv, Settling
<1>4. NotesInv'
  BY <1>1, <1>3 DEF NotesInv
<1>5. FilesInv' /\ TxnInv'
  BY <1>1, <1>2 DEF ZoneInv, FilesInv, TxnInv, EntryOK
<1> QED BY <1>1, <1>2, <1>4, <1>5 DEF ZoneInv

\* The end of a commit keeps the invariant: what is free is to be found again.
LEMMA CommittedStep ==
  ASSUME ZoneInv, Committed
  PROVE  ZoneInv' /\ FreeSet' = FreeSet
         /\ IF Settling THEN FindSet' = FreeSet ELSE FindSet' = FindSet /\ zone' = zone
<1>1. /\ pc = "commit" /\ pc' = "ready" /\ files' = files /\ txn = <<>> /\ txn' = <<>>
      /\ zone' = [CommitZone(zone, Stamp) EXCEPT !.stamp = 0]
  BY DEF Committed
<1>2. ZoneOK(zone, n, N) /\ zone.stamp = 0 /\ zone.dirty \in BOOLEAN /\ zone \in ZoneType(n, N)
  BY DEF ZoneInv, ZoneOK, ZoneType
<1>3. /\ ZoneOK(zone', n, N) /\ NotesOK(zone', n) /\ zone'.bits = zone.bits /\ zone'.stamp = 0
      /\ IF Settling THEN Found(zone') = zone.bits ELSE zone' = zone
  <2>1. CASE zone.dirty
    <3>1. Cleared(ClearChanges([zone EXCEPT !.stamp = 0]), zone, 0, n, N)
      <4>1. 0 \in Nat /\ TRUE \in BOOLEAN
        OBVIOUS
      <4> QED BY <1>2, <4>1, NumOrdersOK, ClearedIs
    <3>2. zone' = ClearChanges([zone EXCEPT !.stamp = 0])
      <4> DEFINE x == ClearChanges([zone EXCEPT !.stamp = Stamp])
      <4>1. zone' = [x EXCEPT !.stamp = 0]
        BY <1>1, <2>1 DEF CommitZone
      <4>3. zone = [num |-> zone.num, free |-> zone.free, stamp |-> zone.stamp, dirty |-> zone.dirty,
                    bits |-> zone.bits, count |-> zone.count, last |-> zone.last, runs |-> zone.runs,
                    allocated |-> zone.allocated, freed |-> zone.freed]
        BY <1>2 DEF ZoneType
      <4> DEFINE R == [k \in Orders(zone) |-> <<>>]
                 C == [k \in Orders(zone) |-> 0]
                 Z(s) == [num |-> zone.num, free |-> zone.free, stamp |-> s, dirty |-> zone.dirty,
                          bits |-> zone.bits, count |-> zone.count, last |-> zone.last, runs |-> R,
                          allocated |-> C, freed |-> C]
      <4>4. ASSUME NEW s PROVE ClearChanges([zone EXCEPT !.stamp = s]) = Z(s)
        <5>1. PICK z : z = [zone EXCEPT !.stamp = s]
          OBVIOUS
        <5>2. z = [num |-> zone.num, free |-> zone.free, stamp |-> s, dirty |-> zone.dirty,
                   bits |-> zone.bits, count |-> zone.count, last |-> zone.last, runs |-> zone.runs,
                   allocated |-> zone.allocated, freed |-> zone.freed]
          BY <4>3, <5>1
        <5>3. Orders(z) = Orders(zone)
          BY <5>2 DEF Orders
        <5>4. ClearChanges(z) = [z EXCEPT !.runs = R, !.allocated = C, !.freed = C]
          BY <5>3 DEF ClearChanges
        <5> HIDE DEF R, C
        <5>5. ClearChanges(z) = Z(s)
          BY <5>2, <5>4
        <5> QED BY <5>1, <5>5
      <4>5. x = Z(Stamp) /\ ClearChanges([zone EXCEPT !.stamp = 0]) = Z(0)
        BY <4>4
      <4> HIDE DEF x, R, C
      <4> QED BY <4>1, <4>5
    <3>3. Settling
      BY <1>1, <2>1 DEF Settling
    <3> QED BY <3>1, <3>2, <3>3 DEF Cleared
  <2>2. CASE ~zone.dirty
    <3>1. zone' = zone
      BY <1>1, <1>2, <2>2 DEF CommitZone, ZoneType
    <3>2. ~Settling
      BY <1>1, <2>2 DEF Settling
    <3>3. NotesOK(zone, n)
      BY <3>2 DEF ZoneInv, NotesInv
    <3> QED BY <1>2, <3>1, <3>2, <3>3
  <2> QED BY <1>2, <2>1, <2>2
<1>4. FreeSet' = FreeSet
  BY <1>3 DEF FreeSet
<1>5. FilesInv'
  BY <1>1, <1>4 DEF ZoneInv, FilesInv
<1>6. TxnInv' /\ NotesInv'
  <2>1. txn' \in Seq(EntryType) /\ DOMAIN txn' = {}
    BY <1>1
  <2> QED BY <1>3, <2>1 DEF TxnInv, NotesInv
<1>7. ZoneInv'
  BY <1>1, <1>3, <1>5, <1>6 DEF ZoneInv
<1> QED BY <1>3, <1>4, <1>7 DEF FindSet, FreeSet

\* Giving up the changes keeps the invariant: what was handed out is to be found again.
LEMMA RestartStep ==
  ASSUME ZoneInv, Restart
  PROVE  ZoneInv' /\ FreeSet' = FreeSet /\ FindSet' = FreeSet /\ pc = "ready" /\ pc' = "ready"
<1>1. /\ pc = "ready" /\ pc' = "ready" /\ files' = files /\ txn' = <<>>
      /\ zone' = [ClearChanges(zone) EXCEPT !.dirty = FALSE]
  BY DEF Restart
<1>2. ZoneOK(zone, n, N) /\ zone.stamp = 0 /\ zone \in ZoneType(n, N) /\ FALSE \in BOOLEAN /\ 0 \in Nat
  BY DEF ZoneInv, ZoneOK
<1> DEFINE x == [ClearChanges(zone) EXCEPT !.dirty = FALSE]
<1>3. Cleared(x, zone, zone.stamp, n, N)
  BY <1>2, NumOrdersOK, ClearedIs
<1> HIDE DEF x
<1>4. zone' = x
  BY <1>1 DEF x
<1>5. /\ ZoneOK(zone', n, N) /\ NotesOK(zone', n) /\ zone'.bits = zone.bits
      /\ zone'.stamp = 0 /\ Found(zone') = zone.bits
  BY <1>2, <1>3, <1>4 DEF Cleared
<1>7. FreeSet' = FreeSet /\ FindSet' = FreeSet
  BY <1>5 DEF FreeSet, FindSet
<1>8. FilesInv'
  BY <1>1, <1>7 DEF ZoneInv, FilesInv
<1>9. TxnInv' /\ NotesInv'
  <2>1. txn' \in Seq(EntryType) /\ DOMAIN txn' = {}
    BY <1>1
  <2> QED BY <1>5, <2>1 DEF TxnInv, NotesInv
<1> QED BY <1>1, <1>5, <1>7, <1>8, <1>9 DEF ZoneInv

-----------------------------------------------------------------------------
(* What holds in every state.                                              *)

\* Every step of a zone map keeps its invariant.
LEMMA StepInv == ZoneInv /\ [Next]_vars => ZoneInv'
<1> SUFFICES ASSUME ZoneInv, [Next]_vars PROVE ZoneInv'
  OBVIOUS
<1>1. ASSUME NEW k \in Orders(zone), Alloc(k) PROVE ZoneInv'
  BY <1>1, AllocStep
<1>2. ASSUME NEW r \in files, Free(r) PROVE ZoneInv'
  BY <1>2, FreeStep
<1>3. CASE Commit
  BY <1>3, CommitStep
<1>4. CASE Apply
  BY <1>4, ApplyStep
<1>5. CASE Committed
  BY <1>5, CommittedStep
<1>6. CASE Restart
  BY <1>6, RestartStep
<1>7. CASE UNCHANGED vars
  BY <1>7 DEF vars, ZoneInv, FilesInv, TxnInv, NotesInv, EntryOK, Settling, FreeSet, FindSet
<1> QED BY <1>1, <1>2, <1>3, <1>4, <1>5, <1>6, <1>7 DEF Next

\* In a zone of any size the bitmaps are a forest of blocks whose counters are
\* true, the files own what is not free, no two of them the same unit, and the
\* notes of a search never name a unit twice.
THEOREM ZoneSafe == Spec => []ZoneInv
<1>1. Init => ZoneInv
  BY InitInv
<1>2. ZoneInv /\ [Next]_vars => ZoneInv'
  BY StepInv
<1> QED BY <1>1, <1>2, PTL DEF Spec

\* The invariant gives the type invariant.
LEMMA TypeIs == ZoneInv => TypeOK
<1> SUFFICES ASSUME ZoneInv PROVE TypeOK
  OBVIOUS
<1>1. ZoneOK(zone, n, N) /\ zone \in ZoneType(n, N) /\ zone.stamp = 0 /\ pc \in {"ready", "commit"}
  BY DEF ZoneInv, ZoneOK
<1>2. zone.num = n /\ Orders(zone) = 0..(n - 1) /\ FreeSet \subseteq 0..(N - 1) /\ FreeUnits = FreeSet
  BY <1>1, FreeUnitsAre DEF ZoneType
<1>3. zone.free \in Nats
  <2>1. Cardinality(FreeSet) \in Nat /\ Cardinality(FreeSet) <= N
    <3>1. {} \subseteq 0..(N - 1) /\ FreeSet \cap {} = {}
      OBVIOUS
    <3> QED BY <1>2, <3>1, NumOrdersOK, CountBoth
  <2> QED BY <1>1, <2>1 DEF ZoneOK, FreeSet, Nats, N
<1>4. ASSUME NEW k \in 0..(n - 1)
      PROVE  /\ \A b \in zone.bits[k] : b >= 0 /\ UnitsIn(k, b) \subseteq 0..(N - 1)
             /\ zone.runs[k] \in NoteSeq /\ zone.last[k] \in Nats
  <2>1. zone.bits[k] \subseteq Nat /\ k \in Nat
    BY <1>1, NumOrdersOK DEF ZoneType
  <2>2. \A b \in zone.bits[k] : UnitsIn(k, b) = {u \in Nat : Up(u, k) = b}
    BY <2>1, BlockUnits
  <2>3. \A b \in zone.bits[k] : UnitsIn(k, b) \subseteq FreeSet
    BY <2>2 DEF FreeSet, Covered, Covers
  <2>4. zone.runs[k] \in NoteSeq
    BY <1>1 DEF ZoneType, NoteSeq, Notes, Nats, N
  <2>5. zone.last[k] \in Nats
    BY <1>1 DEF ZoneType, Nats, N
  <2>6. \A b \in zone.bits[k] : b >= 0 /\ UnitsIn(k, b) \subseteq 0..(N - 1)
    <3>1. \A b \in zone.bits[k] : b >= 0
      BY <2>1
    <3> QED BY <1>2, <2>3, <3>1
  <2> QED BY <2>4, <2>5, <2>6
<1>5. \A r \in files : UnitsIn(r.order, r.bit) \subseteq 0..(N - 1)
  BY DEF ZoneInv, FilesInv
<1>6. zone.num = NumOrders(NUnits) /\ zone.dirty \in BOOLEAN
  BY <1>1, <1>2 DEF ZoneType, n
<1> QED BY <1>1, <1>2, <1>3, <1>4, <1>5, <1>6 DEF TypeOK, N

\* No unit is marked free twice, no two buddies are both marked, and the
\* counts of a zone map of any size are those of its bitmaps: a block freed
\* piece by piece is whole again.
THEOREM ZoneBitmapsMerged == Spec => []BitmapsMerged
<1>1. ZoneInv => BitmapsMerged
  <2> SUFFICES ASSUME ZoneInv PROVE BitmapsMerged
    OBVIOUS
  <2>1. ZoneOK(zone, n, N) /\ zone.num = n /\ Orders(zone) = 0..(n - 1) /\ FreeUnits = FreeSet
    BY FreeUnitsAre DEF ZoneInv, ZoneOK, ZoneType
  <2>2. zone.free = Cardinality(FreeUnits)
    BY <2>1 DEF ZoneOK, FreeSet
  <2>3. ASSUME NEW k \in 0..(n - 1)
        PROVE  /\ zone.count[k] = Cardinality(zone.bits[k])
               /\ \A b \in zone.bits[k] :
                    /\ k < n - 1 => Buddy(b) \notin zone.bits[k]
                    /\ \A j \in (k + 1)..(n - 1) : Up(b, j - k) \notin zone.bits[j]
    <3>1. zone.count[k] = Cardinality(zone.bits[k])
      BY <2>1 DEF ZoneOK, CountOK
    <3>2. Apart(zone.bits, n) /\ Merged(zone.bits, n)
      BY <2>1 DEF ZoneOK, Forest
    <3>3. ASSUME NEW b \in zone.bits[k], k < n - 1 PROVE Buddy(b) \notin zone.bits[k]
      <4>1. k \in 0..(n - 2)
        BY <3>3, NumOrdersOK
      <4> QED BY <3>2, <4>1 DEF Merged
    <3>4. ASSUME NEW b \in zone.bits[k], NEW j \in (k + 1)..(n - 1)
          PROVE  Up(b, j - k) \notin zone.bits[j]
      <4>1. j \in 0..(n - 1) /\ k < j
        OBVIOUS
      <4> QED BY <3>2, <4>1 DEF Apart
    <3> QED BY <3>1, <3>3, <3>4
  <2> QED BY <2>1, <2>2, <2>3, TypeIs DEF BitmapsMerged
<1> QED BY <1>1, ZoneSafe, PTL

\* Between commits the counters of a zone map of any size are true and a run
\* is refused only when none is there.
THEOREM ZoneCountersTrue == Spec => []CountersTrue
<1>1. ZoneInv => CountersTrue
  <2> SUFFICES ASSUME ZoneInv, pc = "ready", NEW k \in Orders(zone)
               PROVE  /\ NumFree(zone, k) = Cardinality(Findable(k))
                      /\ CanFind(zone, k) <=>
                           \E b \in 0..(NUnits - 1) : UnitsIn(k, b) \subseteq FindableUnits
    BY DEF CountersTrue
  <2>1. /\ ZoneOK(zone, n, N) /\ NotesOK(zone, n) /\ k \in 0..(n - 1) /\ FreeSet \subseteq 0..(N - 1)
    BY FreeUnitsAre DEF ZoneInv, NotesInv, Settling
  <2>2. /\ FindableUnits = FindSet /\ FindSet \subseteq FreeSet
        /\ \A i \in 0..(n - 1) : Findable(i) = Found(zone)[i]
    BY <2>1, FindableUnitsAre
  <2>3. NumFree(zone, k) = Cardinality(Findable(k))
    BY <2>1, <2>2 DEF NotesOK
  <2>4. CanFind(zone, k) <=> \E j \in k..(n - 1) : Found(zone)[j] # {}
    BY <2>1, NumOrdersOK, SourceIs
  <2>5. Forest(Found(zone), n)
    BY <2>1 DEF NotesOK
  <2>6. ASSUME CanFind(zone, k)
        PROVE  \E b \in 0..(NUnits - 1) : UnitsIn(k, b) \subseteq FindableUnits
    <3>1. PICK b \in Nat : b = FoundBit(zone, k) /\ UnitsIn(k, b) \subseteq FindSet
      <4>1. FoundBit(zone, k) \in Nat /\ UnitsIn(k, FoundBit(zone, k)) \subseteq FindSet
        BY <2>1, <2>6, NumOrdersOK, FindIs DEF FindSet
      <4> QED BY <4>1
    <3>2. b \in 0..(N - 1)
      BY <2>1, <2>2, <3>1, BitOfRun
    <3> QED BY <2>2, <3>1, <3>2 DEF N
  <2>7. ASSUME NEW b \in 0..(NUnits - 1), UnitsIn(k, b) \subseteq FindableUnits
        PROVE  CanFind(zone, k)
    <3>1. b \in Nat /\ UnitsIn(k, b) = {u \in Nat : Up(u, k) = b}
      <4>1. b \in Nat /\ k \in Nat
        BY <2>1, NumOrdersOK, NUnitsOK
      <4> QED BY <4>1, BlockUnits
    <3>2. \A u \in Nat : Up(u, k) = b => Covers(Found(zone), n, u)
      BY <2>2, <2>7, <3>1 DEF FindSet, Covered
    <3>3. \E j \in k..(n - 1) : Up(b, j - k) \in Found(zone)[j]
      BY <2>1, <2>5, <3>1, <3>2, NumOrdersOK, MergedWhole
    <3> QED BY <2>4, <3>3
  <2> QED BY <2>3, <2>6, <2>7
<1> QED BY <1>1, ZoneSafe, PTL

\* In a zone of any size the committed files and the free units share the
\* zone between them, unit by unit, after any sequence of commits.
THEOREM ZoneFilesAndFreeTile == Spec => []FilesAndFreeTile
<1>1. ZoneInv => FilesAndFreeTile
  <2> SUFFICES ASSUME ZoneInv PROVE FilesAndFreeTile
    OBVIOUS
  <2>1. FreeUnits = FreeSet /\ FreeSet \subseteq 0..(N - 1) /\ FilesInv
    BY FreeUnitsAre DEF ZoneInv
  <2>2. \A u : u \in UnitsOfFiles <=> \E r \in files : u \in UnitsIn(r.order, r.bit)
    BY DEF UnitsOfFiles
  <2>3. UnitsOfFiles \subseteq (0..(N - 1)) \ FreeSet
    BY <2>1, <2>2 DEF FilesInv
  <2>4. FreeUnits \cap UnitsOfFiles = {} /\ FreeUnits \cup UnitsOfFiles \subseteq 0..(N - 1)
    BY <2>1, <2>3
  <2>5. 0..(N - 1) \subseteq FreeUnits \cup UnitsOfFiles
    BY <2>1, <2>2 DEF FilesInv
  <2> QED BY <2>1, <2>4, <2>5 DEF FilesInv, FilesAndFreeTile, N
<1> QED BY <1>1, ZoneSafe, PTL

-----------------------------------------------------------------------------
(* The buddy bitmaps implement a set of free units.                        *)

\* An entry and a transaction as the set of free units sees them.
Seen(e) == [run |-> UnitsIn(e.order, e.bit), free |-> e.free]
View(t) == [i \in DOMAIN t |-> [run |-> UnitsIn(t[i].order, t[i].bit), free |-> t[i].free]]

\* Steps on a transaction are the same steps on what is seen of it.
LEMMA ViewIs ==
  ASSUME NEW t \in Seq(EntryType)
  PROVE  /\ \A e \in EntryType : View(Append(t, e)) = Append(View(t), Seen(e))
         /\ t # <<>> => /\ View(t) # <<>> /\ Head(View(t)) = Seen(Head(t))
                        /\ View(Tail(t)) = Tail(View(t))
         /\ t = <<>> => View(t) = <<>>
<1> DEFINE S == [run : SUBSET Int, free : BOOLEAN]
<1>1. \A e \in EntryType : Seen(e) \in S
  BY DEF Seen, EntryType, UnitsIn
<1>2. ASSUME NEW s \in Seq(EntryType)
      PROVE  View(s) \in Seq(S) /\ Len(View(s)) = Len(s) /\ \A i \in 1..Len(s) : View(s)[i] = Seen(s[i])
  <2>1. PICK m \in Nat : m = Len(s) /\ DOMAIN s = 1..m
    OBVIOUS
  <2>2. \A i \in 1..m : s[i] \in EntryType
    BY <2>1
  <2>3. View(s) = [i \in 1..m |-> Seen(s[i])]
    BY <2>1 DEF View, Seen
  <2>4. \A i \in 1..m : Seen(s[i]) \in S
    BY <1>1, <2>2
  <2> HIDE DEF S
  <2> QED BY <2>1, <2>3, <2>4
<1> HIDE DEF S
<1>3. PICK m \in Nat : m = Len(t) /\ DOMAIN t = 1..m
  OBVIOUS
<1>4. ASSUME NEW e \in EntryType PROVE View(Append(t, e)) = Append(View(t), Seen(e))
  <2>1. /\ Append(t, e) \in Seq(EntryType) /\ Len(Append(t, e)) = m + 1 /\ Append(t, e)[m + 1] = e
        /\ \A i \in 1..m : Append(t, e)[i] = t[i]
    BY <1>3
  <2>2. PICK v \in Seq(S) : v = View(t) /\ Len(v) = m /\ \A i \in 1..m : v[i] = Seen(t[i])
    BY <1>2, <1>3
  <2>3. /\ Append(v, Seen(e)) \in Seq(S) /\ Len(Append(v, Seen(e))) = m + 1
        /\ Append(v, Seen(e))[m + 1] = Seen(e) /\ \A i \in 1..m : Append(v, Seen(e))[i] = v[i]
    BY <1>1, <1>3, <2>2
  <2>4. /\ View(Append(t, e)) \in Seq(S) /\ Len(View(Append(t, e))) = m + 1
        /\ \A i \in 1..(m + 1) : View(Append(t, e))[i] = Seen(Append(t, e)[i])
    BY <1>2, <2>1
  <2>5. \A i \in 1..(m + 1) : i \in 1..m \/ i = m + 1
    OBVIOUS
  <2>6. \A i \in 1..(m + 1) : View(Append(t, e))[i] = Append(v, Seen(e))[i]
    BY <2>1, <2>2, <2>3, <2>4, <2>5
  <2> QED BY <2>2, <2>3, <2>4, <2>6, SeqEqual
<1>5. ASSUME t # <<>>
      PROVE  View(t) # <<>> /\ Head(View(t)) = Seen(Head(t)) /\ View(Tail(t)) = Tail(View(t))
  <2>1. PICK p \in Nat : m = p + 1
    <3>1. m - 1 \in Nat /\ m = (m - 1) + 1
      BY <1>3, <1>5
    <3> QED BY <3>1
  <2>2. PICK v \in Seq(S) : v = View(t) /\ Len(v) = m /\ \A i \in 1..m : v[i] = Seen(t[i])
    BY <1>2, <1>3
  <2>3. v # <<>> /\ Head(v) = v[1] /\ Head(t) = t[1] /\ 1 \in 1..m
    BY <1>3, <1>5, <2>1, <2>2
  <2>4. /\ Tail(t) \in Seq(EntryType) /\ Len(Tail(t)) = p /\ \A i \in 1..p : Tail(t)[i] = t[i + 1]
    BY <1>3, <1>5, <2>1, HeadTailProperties
  <2>5. /\ Tail(v) \in Seq(S) /\ Len(Tail(v)) = p /\ \A i \in 1..p : Tail(v)[i] = v[i + 1]
    BY <2>1, <2>2, <2>3, HeadTailProperties
  <2>6. /\ View(Tail(t)) \in Seq(S) /\ Len(View(Tail(t))) = p
        /\ \A i \in 1..p : View(Tail(t))[i] = Seen(Tail(t)[i])
    BY <1>2, <2>4
  <2>7. \A i \in 1..p : View(Tail(t))[i] = Tail(v)[i]
    <3>1. \A i \in 1..p : i + 1 \in 1..m
      BY <2>1
    <3> QED BY <2>2, <2>4, <2>5, <2>6, <3>1
  <2>8. View(Tail(t)) = Tail(v)
    BY <2>5, <2>6, <2>7, SeqEqual
  <2> QED BY <2>2, <2>3, <2>8
<1>6. t = <<>> => View(t) = <<>>
  <2>1. View(t) \in Seq(S) /\ Len(View(t)) = Len(t)
    BY <1>2
  <2> QED BY <2>1
<1> QED BY <1>4, <1>5, <1>6

\* What is handed out, as the set of free units sees it.
HandedSet == IF Settling THEN {} ELSE FreeUnits \ FindableUnits

\* A run of the zone is one of those the set of free units deals in.
LEMMA RunSeen ==
  ASSUME NEW k \in 0..(n - 1), NEW b \in Nat, UnitsIn(k, b) \subseteq 0..(N - 1)
  PROVE  UnitsIn(k, b) \in Space!Runs
<1>1. b \in 0..(NUnits - 1)
  BY BitOfRun DEF N
<1>2. UnitsIn(k, b) = Space!Run(k, b)
  BY DEF UnitsIn, Space!Run
<1> QED BY <1>1, <1>2 DEF Space!Runs, N, n

\* What the set of free units sees of the state.
SeenOK == /\ FreeUnits = FreeSet /\ FreeSet \subseteq 0..(N - 1) /\ txn \in Seq(EntryType)
          /\ Settling => HandedSet = {}
          /\ ~Settling => HandedSet = FreeSet \ FindSet /\ FindSet \subseteq FreeSet

\* The invariant makes what the set of free units sees well defined.
LEMMA StateSeen == ZoneInv => SeenOK
<1> SUFFICES ASSUME ZoneInv PROVE SeenOK
  OBVIOUS
<1>1. FreeUnits = FreeSet /\ FreeSet \subseteq 0..(N - 1)
  BY FreeUnitsAre
<1>2. ~Settling => FindableUnits = FindSet /\ FindSet \subseteq FreeSet
  BY FindableUnitsAre DEF ZoneInv, NotesInv
<1> QED BY <1>1, <1>2 DEF SeenOK, HandedSet, ZoneInv, TxnInv

\* Each step of a zone map is a step of the set of free units, or none: a find
\* is a Take, a commit with changes settles when it begins and gives and takes
\* run by run, and a restart abandons what was handed out.
LEMMA StepSeen ==
  ASSUME ZoneInv, ZoneInv', [Next]_vars
  PROVE  [Space!Next]_(Space!vars)
<1>1. SeenOK /\ txn \in Seq(EntryType) /\ FreeSet \subseteq 0..(N - 1)
  BY StateSeen DEF SeenOK
<1>2. SeenOK'
  BY StateSeen, PTL
<1>3. Space!vars = <<FreeUnits, HandedSet, View(txn)>>
  BY DEF Space!vars, HandedSet, View
<1>4. ASSUME NEW k \in Orders(zone), Alloc(k) PROVE Space!Next
  <2>1. PICK b \in Nat : b = FoundBit(zone, k)
    BY <1>4, AllocStep
  <2>2. /\ FreeSet' = FreeSet /\ UnitsIn(k, b) \subseteq FindSet /\ FindSet' = FindSet \ UnitsIn(k, b)
    BY <1>4, <2>1, AllocStep
  <2>3. k \in 0..(n - 1) /\ ~Settling /\ ~Settling'
    BY <1>4, FreeUnitsAre DEF Alloc, Settling
  <2> DEFINE r == UnitsIn(k, b)
             e == MapEntry(k, b, FALSE)
  <2>4. r \subseteq FreeUnits \ HandedSet /\ HandedSet' = HandedSet \cup r /\ FreeUnits' = FreeUnits
    BY <1>1, <1>2, <2>2, <2>3 DEF SeenOK
  <2>5. r \in Space!Runs
    BY <1>1, <2>2, <2>3, RunSeen DEF SeenOK
  <2>6. e \in EntryType /\ Seen(e) = [run |-> r, free |-> FALSE]
    BY <2>3 DEF MapEntry, EntryType, Seen
  <2>7. View(txn') \in {View(txn), Append(View(txn), [run |-> r, free |-> FALSE])}
    <3>1. txn' = txn \/ txn' = Append(txn, e)
      BY <1>4, <2>1 DEF Alloc
    <3>2. View(Append(txn, e)) = Append(View(txn), [run |-> r, free |-> FALSE])
      BY <1>1, <2>6, ViewIs
    <3> QED BY <3>1, <3>2
  <2> HIDE DEF r, e
  <2>8. Space!Take(r)
    BY <2>4, <2>7 DEF Space!Take, HandedSet, View
  <2> QED BY <2>5, <2>8 DEF Space!Next
<1>5. ASSUME NEW s \in files, Free(s) PROVE Space!Next
  <2>1. FreeSet' = FreeSet /\ FindSet' = FindSet
    BY <1>5, FreeStep
  <2>2. /\ s.order \in 0..(n - 1) /\ s.bit \in Nat
        /\ UnitsIn(s.order, s.bit) \subseteq (0..(N - 1)) \ FreeSet
    BY <1>5 DEF ZoneInv, FilesInv, RunType
  <2>3. ~Settling /\ ~Settling'
    BY <1>5 DEF Free, Settling
  <2> DEFINE r == UnitsIn(s.order, s.bit)
             e == MapEntry(s.order, s.bit, TRUE)
  <2>4. r \cap FreeUnits = {} /\ HandedSet' = HandedSet /\ FreeUnits' = FreeUnits
    BY <1>1, <1>2, <2>1, <2>2, <2>3 DEF SeenOK
  <2>5. r \in Space!Runs
    BY <2>2, RunSeen
  <2>6. e \in EntryType /\ Seen(e) = [run |-> r, free |-> TRUE]
    BY <2>2 DEF MapEntry, EntryType, Seen
  <2>7. View(txn') = Append(View(txn), [run |-> r, free |-> TRUE])
    <3>1. txn' = Append(txn, e)
      BY <1>5 DEF Free
    <3>2. View(Append(txn, e)) = Append(View(txn), [run |-> r, free |-> TRUE])
      BY <1>1, <2>6, ViewIs
    <3> QED BY <3>1, <3>2
  <2> HIDE DEF r, e
  <2>8. Space!Give(r)
    BY <2>4, <2>7 DEF Space!Give, HandedSet, View
  <2> QED BY <2>5, <2>8 DEF Space!Next
<1>6. ASSUME Commit PROVE [Space!Next]_(Space!vars)
  <2>1. FreeSet' = FreeSet /\ FindSet' = FindSet /\ txn' = txn /\ ~Settling
    BY <1>6, CommitStep DEF Commit, Settling
  <2>2. FreeUnits' = FreeUnits /\ View(txn') = View(txn)
    BY <1>1, <1>2, <2>1 DEF SeenOK
  <2>3. CASE Settling'
    <3>1. HandedSet' = {}
      BY <1>2, <2>3 DEF SeenOK
    <3>2. Space!Settle
      BY <2>2, <3>1 DEF Space!Settle, HandedSet, View
    <3> QED BY <3>2 DEF Space!Next
  <2>4. CASE ~Settling'
    <3>1. HandedSet' = HandedSet
      BY <1>1, <1>2, <2>1, <2>4 DEF SeenOK
    <3> QED BY <1>3, <2>2, <3>1 DEF View, HandedSet, Space!vars
  <2> QED BY <2>3, <2>4
<1>7. ASSUME Apply PROVE Space!Next
  <2>1. /\ txn # <<>> /\ txn' = Tail(txn) /\ zone'.dirty = TRUE /\ pc = "commit" /\ pc' = "commit"
        /\ IF Head(txn).free
             THEN /\ UnitsIn(Head(txn).order, Head(txn).bit) \cap FreeSet = {}
                  /\ FreeSet' = FreeSet \cup UnitsIn(Head(txn).order, Head(txn).bit)
             ELSE /\ UnitsIn(Head(txn).order, Head(txn).bit) \subseteq FreeSet
                  /\ FreeSet' = FreeSet \ UnitsIn(Head(txn).order, Head(txn).bit)
    BY <1>7, ApplyStep DEF Apply
  <2>2. HandedSet' = {} /\ HandedSet = {} /\ FreeUnits = FreeSet /\ FreeUnits' = FreeSet'
    BY <1>1, <1>2, <2>1 DEF SeenOK, Settling
  <2>3. View(txn) # <<>> /\ Head(View(txn)) = Seen(Head(txn)) /\ View(txn') = Tail(View(txn))
    BY <1>1, <2>1, ViewIs
  <2>4. /\ Head(View(txn)).run = UnitsIn(Head(txn).order, Head(txn).bit)
        /\ Head(View(txn)).free = Head(txn).free
    BY <2>3 DEF Seen
  <2>5. \/ /\ Head(View(txn)).free /\ Head(View(txn)).run \cap FreeUnits = {}
           /\ FreeUnits' = FreeUnits \cup Head(View(txn)).run
        \/ /\ ~Head(View(txn)).free /\ Head(View(txn)).run \subseteq FreeUnits
           /\ FreeUnits' = FreeUnits \ Head(View(txn)).run
    BY <2>1, <2>2, <2>4
  <2>6. Space!Apply
    BY <2>2, <2>3, <2>5 DEF Space!Apply, HandedSet, View
  <2> QED BY <2>6 DEF Space!Next
<1>8. ASSUME Committed PROVE UNCHANGED Space!vars
  <2>1. /\ FreeSet' = FreeSet /\ txn' = txn /\ ~Settling'
        /\ IF Settling THEN FindSet' = FreeSet ELSE FindSet' = FindSet
    BY <1>8, CommittedStep DEF Committed, Settling
  <2>2. HandedSet' = HandedSet
    BY <1>1, <1>2, <2>1 DEF SeenOK
  <2>3. FreeUnits' = FreeUnits /\ View(txn') = View(txn)
    BY <1>1, <1>2, <2>1 DEF SeenOK
  <2> QED BY <2>2, <2>3 DEF Space!vars, HandedSet, View
<1>9. ASSUME Restart PROVE Space!Next
  <2>1. /\ FreeSet' = FreeSet /\ FindSet' = FreeSet /\ txn' = <<>> /\ ~Settling'
    BY <1>9, RestartStep DEF Restart, Settling
  <2>2. HandedSet' = {} /\ FreeUnits' = FreeUnits
    BY <1>1, <1>2, <2>1 DEF SeenOK
  <2>3. View(txn') = <<>>
    <3>1. <<>> \in Seq(EntryType)
      OBVIOUS
    <3> QED BY <2>1, <3>1, ViewIs
  <2>4. Space!Abandon
    BY <2>2, <2>3 DEF Space!Abandon, HandedSet, View
  <2> QED BY <2>4 DEF Space!Next
<1>10. CASE UNCHANGED vars
  BY <1>10 DEF vars, Space!vars, FreeUnits, FindableUnits, Findable, Settling, Orders, Noted, LeftOver
<1> QED BY <1>4, <1>5, <1>6, <1>7, <1>8, <1>9, <1>10 DEF Next

\* The buddy bitmaps of a zone of any size implement a set of free units: no
\* unit is handed out twice between commits, whatever was split and merged,
\* and each commit changes what is free by the runs it took and gave back.
THEOREM ZoneImplementsFreeSpace == Spec => ImplementsFreeSpace
<1>1. Init => Space!Init
  <2> SUFFICES ASSUME Init PROVE Space!Init
    OBVIOUS
  <2>1. ZoneInv /\ SeenOK /\ ~Settling /\ txn = <<>>
    BY InitInv, StateSeen DEF Init, Settling
  <2>2. /\ Covered(zone.bits, n) = 0..(N - 1) /\ zone.num = n
        /\ \A k \in 0..(n - 1) : zone.runs[k] = <<>>
    BY NumOrdersOK, NewZoneIs DEF Init, n, N
  <2>3. FindSet = FreeSet
    <3>1. \A k \in 0..(n - 1) : Found(zone)[k] = zone.bits[k]
      BY <2>2 DEF Found, FoundIn, Orders, NotedIn, LeftIn
    <3>2. Found(zone) = zone.bits
      <4>1. zone.bits \in [0..(n - 1) -> SUBSET Nat]
        BY <2>1 DEF ZoneInv, ZoneOK, Forest
      <4>2. Found(zone) = [k \in 0..(n - 1) |-> Found(zone)[k]]
        BY <2>2 DEF Found, Orders
      <4> QED BY <3>1, <4>1, <4>2
    <3> QED BY <3>2 DEF FindSet, FreeSet
  <2>4. FreeUnits = 0..(NUnits - 1) /\ HandedSet = {}
    BY <2>1, <2>2, <2>3 DEF SeenOK, FreeSet, N
  <2>5. View(txn) = <<>>
    <3>1. <<>> \in Seq(EntryType)
      OBVIOUS
    <3> QED BY <2>1, <3>1, ViewIs
  <2> QED BY <2>4, <2>5 DEF Space!Init, HandedSet, View
<1>2. ZoneInv /\ ZoneInv' /\ [Next]_vars => [Space!Next]_(Space!vars)
  BY StepSeen
<1> QED BY <1>1, <1>2, ZoneSafe, PTL DEF Spec, ImplementsFreeSpace, Space!Spec
=============================================================================
