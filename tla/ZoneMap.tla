------------------------------ MODULE ZoneMap -------------------------------
(***************************************************************************)
(* The life of one zone map: runs are found for new files, freed by        *)
(* deleted ones, and the bitmaps change only when the transaction that     *)
(* says so is committed.                                                   *)
(***************************************************************************)
EXTENDS BuddyZone

CONSTANTS NUnits,     \* units in the zone
          MaxLogged   \* bound: runs allocated or freed by one transaction

ASSUME NUnitsOK == NUnits \in Nat

VARIABLES
  zone,    \* the zone map
  files,   \* the runs committed files own
  txn,     \* the entries of the open transaction, in the order logged
  pc       \* "ready", or "commit" while the entries are applied

vars == <<zone, files, txn, pc>>

\* A log entry for a run of 2^order units, to be freed or allocated.
MapEntry(k, b, state) == [order |-> k, bit |-> b, free |-> state]
RunOf(e) == [order |-> e.order, bit |-> e.bit]

Init == zone = NewZone(NUnits) /\ files = {} /\ txn = <<>> /\ pc = "ready"

\* A run is found and, unless its file needs more than there is, logged.
Alloc(k) ==
  /\ pc = "ready" /\ Len(txn) < MaxLogged
  /\ CanFind(zone, k)
  /\ zone' = FindRun(zone, k)
  /\ \/ txn' = Append(txn, MapEntry(k, FoundBit(zone, k), FALSE))
     \/ UNCHANGED txn
  /\ UNCHANGED <<files, pc>>

\* A committed file gives a run up.
Free(r) ==
  /\ pc = "ready" /\ Len(txn) < MaxLogged
  /\ \A i \in DOMAIN txn : RunOf(txn[i]) # r
  /\ txn' = Append(txn, MapEntry(r.order, r.bit, TRUE))
  /\ UNCHANGED <<zone, files, pc>>

Commit == pc = "ready" /\ pc' = "commit" /\ UNCHANGED <<zone, files, txn>>

\* mfs_log_commit_list, one entry at a time.
Stamp == zone.stamp + 1
Apply ==
  /\ pc = "commit" /\ txn # <<>>
  /\ LET e == Head(txn)
     IN  /\ zone' = Update(zone, e.order, e.bit, e.free, Stamp)
         /\ files' = IF e.free THEN files \ {RunOf(e)} ELSE files \cup {RunOf(e)}
  /\ txn' = Tail(txn)
  /\ UNCHANGED pc

\* mfs_zone_map_commit.  Stamps only order what is applied: they start again
\* from 0, as the volume's would go on from its last one.
Committed ==
  /\ pc = "commit" /\ txn = <<>>
  /\ zone' = [CommitZone(zone, Stamp) EXCEPT !.stamp = 0]
  /\ pc' = "ready"
  /\ UNCHANGED <<files, txn>>

\* The process ends after a sync and another loads the zone map.
Restart ==
  /\ pc = "ready"
  /\ zone' = [ClearChanges(zone) EXCEPT !.dirty = FALSE]
  /\ txn' = <<>>
  /\ UNCHANGED <<files, pc>>

Next == \/ \E k \in Orders(zone) : Alloc(k)
        \/ \E r \in files : Free(r)
        \/ Commit \/ Apply \/ Committed \/ Restart

Spec == Init /\ [][Next]_vars

-----------------------------------------------------------------------------
Nats == 0..NUnits
NoteSeq == Seq([bit : Nats, free : BOOLEAN])

\* Every variable has its type; a bitmap has no bit outside its map.
TypeOK ==
  /\ zone.num = NumOrders(NUnits) /\ zone.free \in Nats /\ zone.stamp = 0
  /\ zone.dirty \in BOOLEAN
  /\ \A k \in Orders(zone) :
       /\ \A b \in zone.bits[k] : b >= 0 /\ UnitsIn(k, b) \subseteq 0..(NUnits - 1)
       /\ zone.runs[k] \in NoteSeq
       /\ zone.last[k] \in Nats
  /\ \A r \in files : UnitsIn(r.order, r.bit) \subseteq 0..(NUnits - 1)
  /\ pc \in {"ready", "commit"}

\* The units the bitmaps call free, and those a search can still find.
FreeUnits == UNION {UNION {UnitsIn(k, b) : b \in zone.bits[k]} : k \in Orders(zone)}
Findable(k) == (zone.bits[k] \ Noted(zone, k)) \cup {zone.runs[k][i].bit : i \in LeftOver(zone, k)}
FindableUnits == UNION {UNION {UnitsIn(k, b) : b \in Findable(k)} : k \in Orders(zone)}
UnitsOfFiles == UNION {UnitsIn(r.order, r.bit) : r \in files}

\* A commit that changes this zone; one that does not leaves its notes alone.
Settling == pc = "commit" /\ (zone.dirty \/ txn # <<>>)

\* The buddy bitmaps implement a set of free units: nothing is handed out
\* twice before a commit, whatever was split, merged or given back since.
Space == INSTANCE FreeSpace WITH
           MaxOrder <- NumOrders(NUnits) - 1,
           free     <- FreeUnits,
           handed   <- IF Settling THEN {} ELSE FreeUnits \ FindableUnits,
           txn      <- [i \in DOMAIN txn |-> [run  |-> UnitsIn(txn[i].order, txn[i].bit),
                                             free |-> txn[i].free]]
ImplementsFreeSpace == Space!Spec

\* Every variable has its type.  A unit is marked free at one order at most, the free count is the number of
\* free units, and no two halves of a block are both marked: a block freed
\* piece by piece can be handed out whole again.
BitmapsMerged ==
  /\ TypeOK
  /\ zone.free = Cardinality(FreeUnits)
  /\ \A k \in Orders(zone) :
       /\ zone.count[k] = Cardinality(zone.bits[k])
       /\ \A b \in zone.bits[k] :
            /\ k < zone.num - 1 => Buddy(b) \notin zone.bits[k]
            /\ \A j \in (k + 1)..(zone.num - 1) : Up(b, j - k) \notin zone.bits[j]

\* The counters mfs_zone_find_run trusts agree with the lists it then walks,
\* at every order: it never reports that something is wrong, and it turns a
\* request down only when no free run that large is left.
CountersTrue ==
  pc = "ready" =>
    \A k \in Orders(zone) :
      /\ NumFree(zone, k) = Cardinality(Findable(k))
      /\ CanFind(zone, k) <=> \E b \in 0..(NUnits - 1) : UnitsIn(k, b) \subseteq FindableUnits

\* Every unit is owned by one committed file or free, and never both, so the
\* bitmaps and the files agree after any sequence of commits.
FilesAndFreeTile ==
  /\ FreeUnits \cup UnitsOfFiles = 0..(NUnits - 1)
  /\ FreeUnits \cap UnitsOfFiles = {}
  /\ \A r, s \in files : r # s => UnitsIn(r.order, r.bit) \cap UnitsIn(s.order, s.bit) = {}
=============================================================================
