----------------------------- MODULE ZoneAlloc ------------------------------
(***************************************************************************)
(* mfs_alloc_greedy (lib/zonemap.c): the runs of a new file are taken from *)
(* the zones of its type, the largest that fits first, until its size is   *)
(* covered.  The orders being tried and the blocks free at them are read   *)
(* once, and kept up to date beside the zone maps from then on.            *)
(***************************************************************************)
EXTENDS BuddyZone

CONSTANTS
  ZoneUnits,   \* units of each zone, in list order
  MinAlloc,    \* sectors of a unit of each zone
  Sizes,       \* file sizes to allocate, in sectors
  MaxRuns,     \* runs that fit in an inode
  MaxFiles     \* bound: files that exist at the same time

ASSUME ZonesOK == /\ ZoneUnits \in Seq(Nat \ {0}) /\ MinAlloc \in Seq(Nat \ {0})
                  /\ Len(ZoneUnits) = Len(MinAlloc)
                  /\ Sizes \subseteq Nat \ {0} /\ MaxRuns \in Nat \ {0}

VARIABLES
  zones,     \* the zone maps
  files,     \* the run lists of committed files
  size,      \* sectors still to be covered
  curorders, \* the order being tried in each zone
  freeblocks,\* blocks of that order each zone can still give
  lastrun,   \* sectors of the run taken last
  runs,      \* the runs taken
  want,      \* the size asked for
  pc         \* "idle", "pick" between two runs, "done" or "failed"

allocvars == <<size, curorders, freeblocks, lastrun, runs, want>>
vars == <<zones, files, allocvars, pc>>

ZoneNos == DOMAIN ZoneUnits
RunSize(i, k) == MinAlloc[i] * 2^k
SizeOf(r) == RunSize(r.zone, r.order)

Init ==
  /\ zones = [i \in ZoneNos |-> NewZone(ZoneUnits[i])]
  /\ files = {} /\ pc = "idle"
  /\ size = 0 /\ lastrun = 0 /\ runs = <<>> /\ want = 0
  /\ curorders = [i \in ZoneNos |-> 0] /\ freeblocks = [i \in ZoneNos |-> 0]

\* 0xffffffff, larger than any run.
Huge == 1000000

Start(s) ==
  /\ pc = "idle" /\ Cardinality(files) < MaxFiles
  /\ pc' = "pick" /\ size' = s /\ want' = s /\ lastrun' = Huge /\ runs' = <<>>
  /\ curorders'  = [i \in ZoneNos |-> zones[i].num - 1]
  /\ freeblocks' = [i \in ZoneNos |-> NumFree(zones[i], zones[i].num - 1)]
  /\ UNCHANGED <<zones, files>>

-----------------------------------------------------------------------------
(* The choice of the zone for the next run.                                *)

UnitsLeftRoundedDown(i) == size \div MinAlloc[i]
UnitsLeft(i) == (size + MinAlloc[i] - 1) \div MinAlloc[i]

\* freeblocks of zone i once its order has come down to k.
FreeBlocksAt(i, k) ==
  freeblocks[i] * 2^(curorders[i] - k)
    + MapThenSumSet(LAMBDA j : NumFree(zones[i], j) * 2^(j - k), k..(curorders[i] - 1))

\* The order comes down past what is larger than the last run, larger than
\* what is left to cover, or not there; never below the first.
OrderNow(i) == Max({k \in 0..curorders[i] :
                      \/ k = 0
                      \/ /\ RunSize(i, k) <= lastrun
                         /\ UnitsLeft(i) \div 2^k > 0
                         /\ FreeBlocksAt(i, k) > 0})
FreeNow(i)  == FreeBlocksAt(i, OrderNow(i))

RunsToAlloc(i) == Min({UnitsLeft(i) \div 2^OrderNow(i), FreeNow(i)})

\* How far up blocks would have to be split to give that many runs.
Borrowed(i) ==
  LET k == OrderNow(i)
      Gives(j) == NumFree(zones[i], j) * 2^(j - k)
      Below(j) == MapThenSumSet(Gives, k..(j - 1))
      From(j)  == Max({0, Min({Gives(j), RunsToAlloc(i) - Below(j)})})
  IN  MapThenSumSet(LAMBDA j : From(j) * (j - k), k..(zones[i].num - 1))

NoFit == [fit |-> 0, zone |-> 0, borrow |-> 0, free |-> 0]

\* Zone i against the best of the zones before it.
Better(i, best) ==
  LET run == RunSize(i, OrderNow(i))
  IN  /\ ~(best.fit > run /\ best.fit < size)
      /\ ~(OrderNow(i) = 0 /\ best.fit # 0 /\ size < MinAlloc[i] /\ MinAlloc[i] > best.fit)
      /\ RunsToAlloc(i) # 0
      /\ best.fit = run => Borrowed(i) <= best.borrow /\ FreeNow(i) >= best.free

Choice == FoldLeft(LAMBDA best, i : IF Better(i, best)
                                      THEN [fit |-> RunSize(i, OrderNow(i)), zone |-> i,
                                            borrow |-> Borrowed(i), free |-> FreeNow(i)]
                                      ELSE best,
                   NoFit, [i \in ZoneNos |-> i])

\* freeblocks follows what mfs_zone_find_run takes.
FreeAfterForgotten(i, taken) == FreeNow(i)
FreeAfter(i, taken) == IF i = taken THEN FreeNow(i) - 1 ELSE FreeNow(i)

\* What is left to cover once a run of zone i has been taken.
SizeAfterUnit(i, run) == IF size > MinAlloc[i] THEN size - MinAlloc[i] ELSE 0
SizeAfter(i, run) == IF size > run THEN size - run ELSE 0

Pick ==
  /\ pc = "pick" /\ Len(runs) < MaxRuns
  /\ LET c == Choice
         k == OrderNow(c.zone)
     IN  IF c.fit = 0 \/ ~CanFind(zones[c.zone], k)
           THEN pc' = "failed" /\ UNCHANGED <<zones, allocvars>>
           ELSE /\ zones' = [zones EXCEPT ![c.zone] = FindRun(@, k)]
                /\ runs' = Append(runs, [zone |-> c.zone, order |-> k,
                                         bit |-> FoundBit(zones[c.zone], k)])
                /\ curorders'  = [i \in ZoneNos |-> OrderNow(i)]
                /\ freeblocks' = [i \in ZoneNos |-> FreeAfter(i, c.zone)]
                /\ size' = SizeAfter(c.zone, c.fit)
                /\ lastrun' = c.fit
                /\ pc' = IF size' = 0 THEN "done" ELSE "pick"
                /\ UNCHANGED want
  /\ UNCHANGED files

NoRunsLeft == /\ pc = "pick" /\ Len(runs) >= MaxRuns
              /\ pc' = "failed" /\ UNCHANGED <<zones, files, allocvars>>

-----------------------------------------------------------------------------
(* What the clients and commits do in between.                             *)

Updated(zs, rs, state) ==
  [i \in ZoneNos |->
     LET Fold(z, r) == IF r.zone = i THEN Update(z, r.order, r.bit, state, 1) ELSE z
     IN  [CommitZone(FoldLeft(Fold, zs[i], rs), 1) EXCEPT !.stamp = 0]]

\* The file is logged and committed.
Commit ==
  /\ pc = "done" /\ pc' = "idle"
  /\ zones' = Updated(zones, runs, FALSE)
  /\ files' = files \cup {runs}
  /\ UNCHANGED allocvars

\* The client gives up: its runs stay noted until a commit clears the notes.
GiveUp == /\ pc \in {"done", "failed"} /\ pc' = "idle"
          /\ UNCHANGED <<zones, files, allocvars>>

Delete(f) ==
  /\ pc = "idle"
  /\ zones' = Updated(zones, f, TRUE)
  /\ files' = files \ {f}
  /\ UNCHANGED <<allocvars, pc>>

Next == \/ \E s \in Sizes : Start(s)
        \/ Pick \/ NoRunsLeft \/ Commit \/ GiveUp
        \/ \E f \in files : Delete(f)

Spec == Init /\ [][Next]_vars

-----------------------------------------------------------------------------
TotalOf(rs) == FoldLeft(LAMBDA n, r : n + SizeOf(r), 0, rs)
Taken(r) == {<<r.zone, u>> : u \in UnitsIn(r.order, r.bit)}

\* Every variable has its type, and every run lies in its zone.
TypeOK ==
  /\ pc \in {"idle", "pick", "done", "failed"} /\ size \in Nat /\ want \in Sizes \cup {0}
  /\ \A i \in ZoneNos : curorders[i] \in Orders(zones[i]) /\ freeblocks[i] \in Nat
  /\ \A n \in DOMAIN runs :
       \A u \in UnitsIn(runs[n].order, runs[n].bit) : u < ZoneUnits[runs[n].zone]
  /\ Len(runs) <= MaxRuns

\* Every run lies in its zone, and the counts kept beside the zone maps, read
\* once and only decremented, are
\* what the maps would give if they were asked again: runs that split larger
\* blocks change several counters of the map and one of these.
FreeBlocksTrue ==
  /\ TypeOK
  /\ pc = "pick" =>
    \A i \in ZoneNos : freeblocks[i] =
      MapThenSumSet(LAMBDA j : NumFree(zones[i], j) * 2^(j - curorders[i]),
                    curorders[i]..(zones[i].num - 1))

\* A file that was allocated is covered by its runs, without a run too many,
\* and wastes less than one unit of the zone its last run is in.
SizeCovered ==
  pc = "done" =>
    /\ TotalOf(runs) >= want /\ TotalOf(Front(runs)) < want
    /\ TotalOf(runs) - want < MinAlloc[Last(runs).zone]

\* The allocation gives up only when its inode is full or nothing is free in
\* any of the zones.
FailsOnlyWhenFull ==
  (pc = "failed" /\ Len(runs) < MaxRuns) =>
    \A i \in ZoneNos : \A k \in Orders(zones[i]) : NumFree(zones[i], k) = 0

\* No unit is in two files, or in a file and in the runs of a new one.
RunsApart ==
  LET Owned(f) == UNION {Taken(f[n]) : n \in DOMAIN f}
  IN  /\ \A f, g \in files : f # g => Owned(f) \cap Owned(g) = {}
      /\ pc \in {"pick", "done"} =>
           /\ \A f \in files : Owned(f) \cap Owned(runs) = {}
           /\ \A m, n \in DOMAIN runs : m # n => Taken(runs[m]) \cap Taken(runs[n]) = {}
=============================================================================
