------------------------ MODULE InodeTable_proofs ------------------------
(***************************************************************************)
(* Every file is found, in one inode, wherever a crash stopped the log     *)
(* that writes the inode table: theorems of InodeTable, for every table,   *)
(* every hash and every set of fsids.                                      *)
(*                                                                         *)
(* TableInv is the inductive invariant: the chains are whole and end at    *)
(* the inodes not in use, the entries of the log say what the files are    *)
(* and still apply, and the inode an entry is about to be written to is    *)
(* the one its search should come to.  The first lemmas are about places   *)
(* on a search; there is then one for each action.                         *)
(***************************************************************************)
EXTENDS InodeTable, WellFoundedInduction, SequenceTheorems, TLAPS

-----------------------------------------------------------------------------
(* What keeps every file where a search finds it.                          *)

\* A search that comes to an inode not in use ends there.
FreeEnds == \A i \in Inodes : ~InUse(i) => ~table[i].chained

\* The search for f gets as far as the inode i.
Reaches(f, i) == \A n \in Inodes : (\A m \in 0..n : Place(f, m) # i) => table[Place(f, n)].chained
Absent(f) == \A i \in Inodes : table[i].fsid # f

\* Two of the entries, and the files, agree: the last entry about a file says what is in it,
\* and what no entry is going to write is in the table already.
EntriesTrue ==
  /\ \A n \in DOMAIN log : log[n].fsid # None =>
       /\ log[n].data \in Data /\ files[log[n].fsid] # Unborn
       /\ n > done => files[log[n].fsid] \in Data
  /\ \A n \in DOMAIN log : \A f \in Fsids :
       (log[n].fsid = f /\ files[f] \in Data /\ \A l \in DOMAIN log : l > n => log[l].fsid # f)
         => log[n].data = files[f]
  /\ \A f \in Fsids :
       (files[f] \in Data /\ \A n \in DOMAIN log : n > done => log[n].fsid # f)
         => \E i \in Inodes : table[i].fsid = f /\ table[i].data = files[f]

\* An inode is a file's that has been made and is not gone, unless its deletion comes next.
InodesTrue == \A i \in Inodes : InUse(i) =>
  /\ files[table[i].fsid] # Unborn
  /\ files[table[i].fsid] = Gone =>
       done < Len(log) /\ log[Len(log)].inode = i /\ log[Len(log)].fsid = None

\* An entry that names an inode goes where its file is: in any order that crashes bring
\* about, as no file goes away; and at once, where files do.
NumbersTrue ==
  /\ mode = "crashes" =>
       /\ \A f \in Fsids : files[f] # Gone
       /\ \A n \in DOMAIN log :
            /\ log[n].fsid # None
            /\ log[n].inode # Unknown => table[log[n].inode].fsid = log[n].fsid
  /\ mode = "deleted" /\ done < Len(log) =>
       /\ done + 1 = Len(log)
       /\ Entry.fsid = None => Entry.inode # Unknown
       /\ Entry.inode # Unknown =>
            IF Entry.fsid # None THEN table[Entry.inode].fsid = Entry.fsid
            ELSE /\ ~table[Entry.inode].chained /\ InUse(Entry.inode)
                 /\ files[table[Entry.inode].fsid] = Gone

\* The inode that an entry is going to be written to is its file's, or the one it deletes,
\* or an empty one that the search for its new file gets to.
SearchTrue ==
  /\ pc \in {"mark", "write"} => done < Len(log)
  /\ pc = "mark" =>
       /\ Entry.fsid # None /\ Entry.inode = Unknown /\ Absent(Entry.fsid)
       /\ \E n \in Inodes :
            /\ src = Place(Entry.fsid, n) /\ inode \in {src, NextInode(src)}
            /\ \A m \in 0..n : InUse(Place(Entry.fsid, m))
            /\ \A m \in 0..(n - 1) : table[Place(Entry.fsid, m)].chained
  /\ pc = "write" =>
       /\ src = inode
       /\ Entry.inode # Unknown => inode = Entry.inode
       /\ Entry.fsid # None =>
            \/ table[inode].fsid = Entry.fsid
            \/ ~InUse(inode) /\ Absent(Entry.fsid) /\ Reaches(Entry.fsid, inode)
  /\ pc = "failed" => \A i \in Inodes : InUse(i)

TableInv == /\ TypeOK /\ ChainsWhole /\ OneInode /\ FreeEnds
            /\ EntriesTrue /\ InodesTrue /\ NumbersTrue /\ SearchTrue
-----------------------------------------------------------------------------
(* Places on the search for an fsid.                                       *)

\* Going round the table once.
LEMMA RoundOnce ==
  ASSUME NEW n \in Nat \ {0}, NEW a \in 0..(2 * n - 1)
  PROVE  a % n = IF a < n THEN a ELSE a - n
<1>1. CASE a < n
  BY <1>1
<1>2. CASE ~(a < n)
  <2>1. a = 1 * n + (a - n) /\ a - n \in 0..(n - 1)
    BY <1>2
  <2> QED BY <1>2, <2>1
<1> QED BY <1>1, <1>2

\* A place is an inode, and every inode is one place of a search.
LEMMA PlaceIs ==
  ASSUME NEW f \in Fsids
  PROVE  /\ NInodes \in Nat /\ NInodes >= 1 /\ Home[f] \in Inodes
         /\ \A n \in Inodes : Place(f, n) \in Inodes
         /\ \A m, n \in Inodes : Place(f, m) = Place(f, n) => m = n
         /\ \A i \in Inodes : \E n \in Inodes : Place(f, n) = i
         /\ Place(f, 0) = Home[f]
<1>1. NInodes \in Nat \ {0} /\ Home[f] \in 0..(NInodes - 1) /\ Inodes = 0..(NInodes - 1)
  BY TableOK DEF Inodes
<1>2. \A n \in Inodes : Place(f, n) = IF Home[f] + n < NInodes THEN Home[f] + n ELSE Home[f] + n - NInodes
  <2> SUFFICES ASSUME NEW n \in Inodes
               PROVE  Place(f, n) = IF Home[f] + n < NInodes THEN Home[f] + n ELSE Home[f] + n - NInodes
    OBVIOUS
  <2>1. PICK a \in 0..(2 * NInodes - 1) : a = Home[f] + n
    BY <1>1
  <2>2. a % NInodes = IF a < NInodes THEN a ELSE a - NInodes
    BY <1>1, RoundOnce
  <2>3. Place(f, n) = a % NInodes
    BY <2>1 DEF Place
  <2> QED BY <1>1, <2>1, <2>2, <2>3
<1>3. \A i \in Inodes : \E n \in Inodes : Place(f, n) = i
  <2> SUFFICES ASSUME NEW i \in Inodes PROVE \E n \in Inodes : Place(f, n) = i
    OBVIOUS
  <2>1. CASE i >= Home[f]
    <3>1. i - Home[f] \in Inodes
      BY <1>1, <2>1
    <3>2. Place(f, i - Home[f]) = i
      BY <1>1, <1>2, <3>1
    <3> QED BY <3>1, <3>2
  <2>2. CASE ~(i >= Home[f])
    <3>1. i - Home[f] + NInodes \in Inodes
      BY <1>1, <2>2
    <3>2. Place(f, i - Home[f] + NInodes) = i
      BY <1>1, <1>2, <2>2, <3>1
    <3> QED BY <3>1, <3>2
  <2> QED BY <2>1, <2>2
<1>4. \A n \in Inodes : Place(f, n) \in Inodes
  BY <1>1, <1>2
<1>5. \A m, n \in Inodes : Place(f, m) = Place(f, n) => m = n
  <2> SUFFICES ASSUME NEW m \in Inodes, NEW n \in Inodes, Place(f, m) = Place(f, n) PROVE m = n
    OBVIOUS
  <2>1. /\ Place(f, m) = IF Home[f] + m < NInodes THEN Home[f] + m ELSE Home[f] + m - NInodes
        /\ Place(f, n) = IF Home[f] + n < NInodes THEN Home[f] + n ELSE Home[f] + n - NInodes
    BY <1>2
  <2>2. PICK a, b \in Nat : a = Place(f, m) /\ b = Place(f, n)
    BY <1>1, <2>1
  <2>3. /\ a = IF Home[f] + m < NInodes THEN Home[f] + m ELSE Home[f] + m - NInodes
        /\ a = IF Home[f] + n < NInodes THEN Home[f] + n ELSE Home[f] + n - NInodes
    BY <2>1, <2>2
  <2> QED BY <1>1, <2>3
<1>6. Place(f, 0) = Home[f]
  BY <1>1, <1>2
<1>7. NInodes \in Nat /\ NInodes >= 1 /\ Home[f] \in Inodes
  BY <1>1
<1> QED BY <1>3, <1>4, <1>5, <1>6, <1>7

\* The next inode is at the next place, and behind the last one the search is back home.
LEMMA NextPlace ==
  ASSUME NEW f \in Fsids
  PROVE  /\ \A n \in Inodes : n < NInodes - 1 => n + 1 \in Inodes /\ NextInode(Place(f, n)) = Place(f, n + 1)
         /\ NInodes - 1 \in Inodes /\ NextInode(Place(f, NInodes - 1)) = Place(f, 0)
         /\ \A i \in Inodes : NextInode(i) \in Inodes
<1>1. NInodes \in Nat \ {0} /\ Home[f] \in 0..(NInodes - 1) /\ Inodes = 0..(NInodes - 1)
  BY TableOK DEF Inodes
<1>2. \A n \in 0..NInodes : Place(f, n) = IF Home[f] + n < NInodes THEN Home[f] + n ELSE Home[f] + n - NInodes
  <2> SUFFICES ASSUME NEW n \in 0..NInodes
               PROVE  Place(f, n) = IF Home[f] + n < NInodes THEN Home[f] + n ELSE Home[f] + n - NInodes
    OBVIOUS
  <2>1. PICK a \in 0..(2 * NInodes - 1) : a = Home[f] + n
    BY <1>1
  <2>2. a % NInodes = IF a < NInodes THEN a ELSE a - NInodes
    BY <1>1, RoundOnce
  <2>3. Place(f, n) = a % NInodes
    BY <2>1 DEF Place
  <2> QED BY <1>1, <2>1, <2>2, <2>3
<1>3. \A i \in Inodes : NextInode(i) = IF i = NInodes - 1 THEN 0 ELSE i + 1
  <2> SUFFICES ASSUME NEW i \in Inodes PROVE NextInode(i) = IF i = NInodes - 1 THEN 0 ELSE i + 1
    OBVIOUS
  <2>1. PICK a \in 0..(2 * NInodes - 1) : a = i + 1
    BY <1>1
  <2>2. a % NInodes = IF a < NInodes THEN a ELSE a - NInodes
    BY <1>1, RoundOnce
  <2>3. NextInode(i) = a % NInodes
    BY <2>1 DEF NextInode
  <2> QED BY <1>1, <2>1, <2>2, <2>3
<1>4. \A n \in Inodes : n < NInodes - 1 => n + 1 \in Inodes /\ NextInode(Place(f, n)) = Place(f, n + 1)
  <2> SUFFICES ASSUME NEW n \in Inodes, n < NInodes - 1
               PROVE  n + 1 \in Inodes /\ NextInode(Place(f, n)) = Place(f, n + 1)
    OBVIOUS
  <2>1. Place(f, n) \in Inodes
    BY PlaceIs
  <2>2. n + 1 \in 0..NInodes /\ n \in 0..NInodes /\ n + 1 \in Inodes
    BY <1>1
  <2>3. NextInode(Place(f, n)) = IF Place(f, n) = NInodes - 1 THEN 0 ELSE Place(f, n) + 1
    BY <1>3, <2>1
  <2>4. Place(f, n) = IF Home[f] + n < NInodes THEN Home[f] + n ELSE Home[f] + n - NInodes
    BY <1>2, <2>2
  <2>5. Place(f, n + 1) = IF Home[f] + (n + 1) < NInodes THEN Home[f] + (n + 1)
                          ELSE Home[f] + (n + 1) - NInodes
    BY <1>2, <2>2
  <2> QED BY <1>1, <2>2, <2>3, <2>4, <2>5
<1>5. NInodes - 1 \in Inodes /\ NextInode(Place(f, NInodes - 1)) = Place(f, 0)
  <2>1. NInodes - 1 \in Inodes /\ NInodes - 1 \in 0..NInodes /\ 0 \in 0..NInodes
    BY <1>1
  <2>2. Place(f, NInodes - 1) \in Inodes
    BY <2>1, PlaceIs
  <2>3. NextInode(Place(f, NInodes - 1))
          = IF Place(f, NInodes - 1) = NInodes - 1 THEN 0 ELSE Place(f, NInodes - 1) + 1
    BY <1>3, <2>2
  <2>4. Place(f, NInodes - 1) = IF Home[f] + (NInodes - 1) < NInodes THEN Home[f] + (NInodes - 1)
                                ELSE Home[f] + (NInodes - 1) - NInodes
    BY <1>2, <2>1
  <2>5. Place(f, 0) = IF Home[f] + 0 < NInodes THEN Home[f] + 0 ELSE Home[f] + 0 - NInodes
    BY <1>2, <2>1
  <2> QED BY <1>1, <2>1, <2>3, <2>4, <2>5
<1>6. \A i \in Inodes : NextInode(i) \in Inodes
  BY <1>1, <1>3
<1> QED BY <1>4, <1>5, <1>6

\* The library's Min of a set of numbers is its smallest member.
LEMMA MinIs ==
  ASSUME NEW S, S \subseteq Nat, S # {}
  PROVE  Min(S) \in S /\ \A n \in S : Min(S) <= n
<1>1. PICK m \in S : \A n \in S : ~(<<n, m>> \in OpToRel(<, Nat))
  BY NatLessThanWellFounded, WFMin
<1>2. \A n \in S : ~(n < m)
  BY <1>1 DEF OpToRel
<1>3. \A n \in S : m <= n
  BY <1>2
<1> QED BY <1>3 DEF Min

-----------------------------------------------------------------------------
(* What a search comes to.                                                 *)

\* It stops at the fsid, at the end of a chain, or after one round.
LEMMA StopIs ==
  ASSUME NEW f \in Fsids
  PROVE  /\ StopAt(f) \in Inodes /\ Stop(f) = Place(f, StopAt(f)) /\ Stop(f) \in Inodes
         /\ \A n \in Inodes : n < StopAt(f) =>
              table[Place(f, n)].fsid # f /\ table[Place(f, n)].chained
         /\ \/ table[Stop(f)].fsid = f
            \/ ~table[Stop(f)].chained
            \/ StopAt(f) = NInodes - 1
<1> DEFINE S == {n \in Inodes : \/ table[Place(f, n)].fsid = f
                                \/ ~table[Place(f, n)].chained
                                \/ n = NInodes - 1}
<1>1. S \subseteq Nat /\ NInodes - 1 \in S
  BY NextPlace DEF Inodes
<1>2. StopAt(f) = Min(S)
  BY DEF StopAt
<1>3. Min(S) \in S /\ \A n \in S : Min(S) <= n
  BY <1>1, MinIs
<1>4. Stop(f) = Place(f, StopAt(f))
  BY DEF Stop
<1>5. StopAt(f) \in Inodes /\ Stop(f) \in Inodes
  BY <1>2, <1>3, <1>4, PlaceIs
<1>6. ASSUME NEW n \in Inodes, n < StopAt(f)
      PROVE  table[Place(f, n)].fsid # f /\ table[Place(f, n)].chained
  <2>1. n \notin S
    BY <1>2, <1>3, <1>5, <1>6 DEF Inodes
  <2> QED BY <2>1
<1> QED BY <1>2, <1>3, <1>4, <1>5, <1>6
\* An fsid is never the mark of an inode not in use, and an inode number never the mark of
\* one left open.
LEMMA MarksApartToo == None \notin Fsids /\ Unknown \notin Inodes /\ None # Unknown
  BY TableOK DEF None, Unknown, Inodes

\* A search gets to its n-th place when all the places before are chained.
LEMMA ReachesIs ==
  ASSUME NEW f \in Fsids, NEW n \in Inodes
  PROVE  Reaches(f, Place(f, n)) <=> \A m \in 0..(n - 1) : table[Place(f, m)].chained
<1>1. n \in Nat /\ n < NInodes /\ Inodes = 0..(NInodes - 1) /\ NInodes \in Nat
  BY PlaceIs DEF Inodes
<1>2. ASSUME Reaches(f, Place(f, n)), NEW m \in 0..(n - 1) PROVE table[Place(f, m)].chained
  <2>1. m \in Inodes
    BY <1>1
  <2>2. \A l \in 0..m : l \in Inodes /\ l # n
    BY <1>1
  <2>3. \A l \in 0..m : Place(f, l) # Place(f, n)
    BY <2>2, PlaceIs
  <2> QED BY <1>2, <2>1, <2>3 DEF Reaches
<1>3. ASSUME \A m \in 0..(n - 1) : table[Place(f, m)].chained PROVE Reaches(f, Place(f, n))
  <2> SUFFICES ASSUME NEW m \in Inodes, \A l \in 0..m : Place(f, l) # Place(f, n)
               PROVE  table[Place(f, m)].chained
    BY DEF Reaches
  <2>1. n \notin 0..m
    OBVIOUS
  <2>2. m \in 0..(n - 1)
    BY <1>1, <2>1
  <2> QED BY <1>3, <2>2
<1> QED BY <1>2, <1>3

\* Where a file is its search ends, and finds it.
LEMMA FoundThere ==
  ASSUME ChainsWhole, OneInode, NEW f \in Fsids, NEW i \in Inodes, table[i].fsid = f
  PROVE  Stop(f) = i /\ LookUp(f) = {i}
<1>1. PICK n \in Inodes : Place(f, n) = i
  BY PlaceIs
<1>2. InUse(i)
  BY MarksApartToo DEF InUse
<1>3. Reaches(f, i)
  BY <1>2 DEF ChainsWhole, Reaches, Inodes
<1>4. \A m \in 0..(n - 1) : table[Place(f, m)].chained
  BY <1>1, <1>3, ReachesIs
<1>5. /\ n \in Nat /\ n < NInodes /\ StopAt(f) \in Nat /\ StopAt(f) < NInodes /\ NInodes \in Nat
  BY StopIs, PlaceIs DEF Inodes
<1>6. ~(n < StopAt(f))
  BY <1>1, StopIs
<1>7. ~(StopAt(f) < n)
  <2> SUFFICES ASSUME StopAt(f) < n PROVE FALSE
    OBVIOUS
  <2>1. StopAt(f) \in 0..(n - 1) /\ StopAt(f) # NInodes - 1
    BY <1>5
  <2>2. table[Stop(f)].chained
    BY <1>4, <2>1, StopIs
  <2>3. table[Stop(f)].fsid = f
    BY <2>1, <2>2, StopIs
  <2>4. Stop(f) = i
    BY <1>2, <2>3, StopIs DEF OneInode, InUse
  <2>5. StopAt(f) = n
    BY <1>1, <2>4, StopIs, PlaceIs
  <2> QED BY <1>5, <2>5
<1>8. StopAt(f) = n
  BY <1>5, <1>6, <1>7
<1>9. Stop(f) = i
  BY <1>1, <1>8, StopIs
<1> QED BY <1>9 DEF LookUp

\* Where it is not found, it is nowhere.
LEMMA FoundNot ==
  ASSUME ChainsWhole, OneInode, NEW f \in Fsids
  PROVE  LookUp(f) = {} <=> Absent(f)
<1>1. ASSUME LookUp(f) = {}, NEW i \in Inodes, table[i].fsid = f PROVE FALSE
  BY <1>1, FoundThere
<1>2. ASSUME Absent(f) PROVE LookUp(f) = {}
  BY <1>2, StopIs DEF Absent, LookUp
<1> QED BY <1>1, <1>2 DEF Absent

\* The only empty inode that a search passes is the one it ends at.
LEMMA PassedIs ==
  ASSUME TypeOK, FreeEnds, NEW f \in Fsids, Passed(f) # {}
  PROVE  /\ Place(f, Min(Passed(f))) = Stop(f) /\ EndedAt(f) = Stop(f)
         /\ ~InUse(Stop(f))
<1>1. PICK n \in 0..StopAt(f) : table[Place(f, n)].fsid = None
  BY DEF Passed
<1>2. StopAt(f) \in Nat /\ StopAt(f) < NInodes /\ Inodes = 0..(NInodes - 1) /\ NInodes \in Nat
  BY StopIs, PlaceIs DEF Inodes
<1>3. \A m \in 0..StopAt(f) : table[Place(f, m)].fsid = None => m = StopAt(f)
  <2> SUFFICES ASSUME NEW m \in 0..StopAt(f), table[Place(f, m)].fsid = None, m # StopAt(f)
               PROVE  FALSE
    OBVIOUS
  <2>1. m \in Inodes /\ m < StopAt(f)
    BY <1>2
  <2>2. table[Place(f, m)].chained
    BY <2>1, StopIs
  <2>3. ~InUse(Place(f, m)) /\ Place(f, m) \in Inodes
    BY <2>1, PlaceIs DEF InUse
  <2> QED BY <2>2, <2>3 DEF FreeEnds
<1>4. Passed(f) = {StopAt(f)}
  BY <1>1, <1>3 DEF Passed
<1>5. Min(Passed(f)) \in Passed(f)
  <2>1. Passed(f) \subseteq Nat
    BY <1>2, <1>4
  <2> QED BY <2>1, MinIs
<1>6. table[Stop(f)].fsid = None
  BY <1>1, <1>3, StopIs
<1>7. ~InUse(Stop(f)) /\ ~table[Stop(f)].chained
  BY <1>6, StopIs DEF InUse, FreeEnds
<1>8. EndedAt(f) = Stop(f)
  BY <1>7 DEF EndedAt
<1> QED BY <1>4, <1>5, <1>7, <1>8, StopIs
-----------------------------------------------------------------------------
(* The search for the inode of an entry, and the flags it sets.            *)

\* A step that sets flags of inodes in use, and writes nothing else of any inode.
Flags == /\ table' \in [Inodes -> [fsid : Fsids \cup {None}, data : Data \cup {Gone}, chained : BOOLEAN]]
         /\ \A i \in Inodes : /\ table'[i].fsid = table[i].fsid /\ table'[i].data = table[i].data
                              /\ table[i].chained => table'[i].chained
                              /\ table'[i].chained => table[i].chained \/ InUse(i)
         /\ UNCHANGED <<log, files, mode>>

\* It leaves every file where it is, and where it is found.
LEMMA FlagsKeep ==
  ASSUME TypeOK, TypeOK', ChainsWhole, OneInode, FreeEnds, Flags
  PROVE  ChainsWhole' /\ OneInode' /\ FreeEnds'
<1>1. \A i \in Inodes : InUse(i)' <=> InUse(i)
  BY DEF Flags, InUse
<1>2. \A f, n : Place(f, n)' = Place(f, n)
  BY DEF Place
<1>3. OneInode'
  BY <1>1 DEF Flags, OneInode
<1>4. FreeEnds'
  BY <1>1 DEF Flags, FreeEnds
<1>5. ASSUME NEW i \in Inodes, InUse(i)', NEW n \in 0..(NInodes - 1),
             \A m \in 0..n : Place(table'[i].fsid, m) # i
      PROVE  table'[Place(table'[i].fsid, n)].chained
  <2>1. table'[i].fsid = table[i].fsid /\ InUse(i)
    BY <1>1, <1>5 DEF Flags
  <2>2. table[Place(table[i].fsid, n)].chained
    BY <1>5, <2>1 DEF ChainsWhole
  <2>3. table[i].fsid \in Fsids /\ n \in Inodes
    BY <2>1 DEF TypeOK, InUse, Inodes
  <2>4. Place(table[i].fsid, n) \in Inodes
    BY <2>3, PlaceIs
  <2> QED BY <2>1, <2>2, <2>4 DEF Flags
<1>6. ChainsWhole'
  BY <1>2, <1>5 DEF ChainsWhole
<1> QED BY <1>3, <1>4, <1>6

\* And entries and inodes agree as before.
LEMMA FlagsAgree ==
  ASSUME EntriesTrue, InodesTrue, Flags, done' = done
  PROVE  EntriesTrue' /\ InodesTrue'
<1>1. \A i \in Inodes : InUse(i)' <=> InUse(i)
  BY DEF Flags, InUse
<1>2. InodesTrue'
  BY <1>1 DEF Flags, InodesTrue
<1>3. EntriesTrue'
  BY DEF Flags, EntriesTrue
<1> QED BY <1>2, <1>3

\* The entries of the log.
LEMMA EntriesAre ==
  ASSUME TypeOK
  PROVE  /\ Len(log) \in Nat /\ DOMAIN log = 1..Len(log)
         /\ \A n \in DOMAIN log : /\ log[n].inode \in Inodes \cup {Unknown}
                                  /\ log[n].fsid \in Fsids \cup {None}
                                  /\ log[n].data \in Data \cup {Gone}
<1> DEFINE E == [inode : Inodes \cup {Unknown}, fsid : Fsids \cup {None}, data : Data \cup {Gone}]
<1>1. log \in Seq(E)
  BY DEF TypeOK
<1> HIDE DEF E
<1>2. Len(log) \in Nat /\ DOMAIN log = 1..Len(log) /\ \A n \in DOMAIN log : log[n] \in E
  BY <1>1
<1> QED BY <1>2 DEF E

\* The next entry is one of the log.
LEMMA EntryIs ==
  ASSUME TypeOK, done < Len(log)
  PROVE  /\ Len(log) \in Nat /\ done \in Nat /\ done + 1 \in DOMAIN log /\ DOMAIN log = 1..Len(log)
         /\ Entry = log[done + 1]
         /\ Entry.fsid \in Fsids \cup {None} /\ Entry.data \in Data \cup {Gone}
         /\ Entry.inode \in Inodes \cup {Unknown}
<1>1. done \in Nat /\ done + 1 \in DOMAIN log
  BY EntriesAre DEF TypeOK
<1> QED BY <1>1, EntriesAre DEF Entry

\* Finding the place of the next entry (mfs_find_inode_for_fsid).
LEMMA TableFindInode == TableInv /\ FindInode /\ mode' = mode => TableInv'
<1> SUFFICES ASSUME TableInv, FindInode, mode' = mode PROVE TableInv'
  OBVIOUS
<1>1. /\ pc = "idle" /\ done < Len(log) /\ UNCHANGED <<table, log, done, files, mode>>
  BY DEF FindInode
<1>2. /\ Len(log) \in Nat /\ done \in Nat /\ done + 1 \in DOMAIN log /\ DOMAIN log = 1..Len(log)
      /\ Entry.fsid \in Fsids \cup {None} /\ Entry.inode \in Inodes \cup {Unknown}
      /\ TypeOK /\ ChainsWhole /\ OneInode /\ FreeEnds /\ NumbersTrue
  BY <1>1, EntryIs DEF TableInv
<1>3. Entry' = Entry
  BY <1>1 DEF Entry
<1>4. CASE Entry.inode # Unknown
  <2>1. src' = Entry.inode /\ inode' = Entry.inode /\ pc' = "write"
    BY <1>4 DEF FindInode
  <2>2. TypeOK'
    BY <1>1, <1>2, <1>4, <2>1 DEF TypeOK
  <2>3. Entry.fsid # None => table[Entry.inode].fsid = Entry.fsid
    <3>1. mode \in {"crashes", "deleted"}
      BY <1>2, TableOK DEF TypeOK
    <3>2. CASE mode = "crashes"
      BY <1>2, <1>4, <3>2 DEF NumbersTrue, Entry
    <3>3. CASE mode = "deleted"
      BY <1>1, <1>2, <1>4, <3>3 DEF NumbersTrue
    <3> QED BY <3>1, <3>2, <3>3
  <2>4. SearchTrue'
    BY <1>1, <1>3, <2>1, <2>3 DEF SearchTrue
  <2> QED BY <1>1, <1>3, <2>2, <2>4 DEF TableInv, ChainsWhole, OneInode, FreeEnds, EntriesTrue,
             InodesTrue, NumbersTrue, InUse
<1>5. CASE Entry.inode = Unknown
  <2> DEFINE f == Entry.fsid
  <2>1. f \in Fsids /\ f # None
    <3>1. mode \in {"crashes", "deleted"}
      BY <1>2, TableOK DEF TypeOK
    <3>2. CASE mode = "crashes"
      BY <1>2, <3>2 DEF NumbersTrue, Entry
    <3>3. CASE mode = "deleted"
      BY <1>1, <1>2, <1>5, <3>3 DEF NumbersTrue
    <3> QED BY <1>2, <3>1, <3>2, <3>3
  <2>2. src' = Found(f).src /\ inode' = Found(f).inode /\ pc' = Found(f).pc
    BY <1>5 DEF FindInode
  <2> HIDE DEF f
  <2>3. Stop(f) \in Inodes /\ EndedAt(f) \in Inodes
    BY <2>1, StopIs, PlaceIs DEF EndedAt
  <2>4. CASE LookUp(f) # {}
    <3>1. src' = Stop(f) /\ inode' = Stop(f) /\ pc' = "write" /\ table[Stop(f)].fsid = f
      BY <2>2, <2>4 DEF Found, LookUp
    <3>2. TypeOK'
      BY <1>1, <1>2, <2>3, <3>1 DEF TypeOK
    <3>3. SearchTrue'
      BY <1>1, <1>3, <1>5, <3>1 DEF SearchTrue, f
    <3> QED BY <1>1, <1>3, <3>2, <3>3 DEF TableInv, ChainsWhole, OneInode, FreeEnds, EntriesTrue,
               InodesTrue, NumbersTrue, InUse
  <2>5. CASE LookUp(f) = {} /\ Passed(f) # {}
    <3>1. src' = Place(f, Min(Passed(f))) /\ inode' = EndedAt(f) /\ pc' = "write"
      BY <2>2, <2>5 DEF Found
    <3>2. src' = Stop(f) /\ inode' = Stop(f) /\ ~InUse(Stop(f))
      BY <1>2, <2>1, <2>5, <3>1, PassedIs
    <3>3. TypeOK'
      BY <1>1, <1>2, <2>3, <3>1, <3>2 DEF TypeOK
    <3>4. Absent(f)
      BY <1>2, <2>1, <2>5, FoundNot
    <3>5. Reaches(f, Stop(f))
      <4>1. StopAt(f) \in Inodes /\ Inodes \subseteq Nat /\ \A m \in 0..(StopAt(f) - 1) : m \in Inodes /\ m < StopAt(f)
        BY <2>1, StopIs, PlaceIs DEF Inodes
      <4>2. \A m \in 0..(StopAt(f) - 1) : table[Place(f, m)].chained
        BY <2>1, <4>1, StopIs
      <4> QED BY <2>1, <4>1, <4>2, StopIs, ReachesIs
    <3>6. SearchTrue'
      BY <1>1, <1>3, <1>5, <3>1, <3>2, <3>4, <3>5 DEF SearchTrue, f, InUse, Absent, Reaches
    <3> QED BY <1>1, <1>3, <3>3, <3>6 DEF TableInv, ChainsWhole, OneInode, FreeEnds, EntriesTrue,
               InodesTrue, NumbersTrue, InUse
  <2>6. CASE LookUp(f) = {} /\ Passed(f) = {}
    <3>1. src' = Stop(f) /\ inode' = EndedAt(f) /\ pc' = "mark"
      BY <2>2, <2>6 DEF Found
    <3>2. TypeOK'
      BY <1>1, <1>2, <2>3, <3>1 DEF TypeOK
    <3>3. Absent(f)
      BY <1>2, <2>1, <2>6, FoundNot
    <3>4. StopAt(f) \in Inodes /\ Inodes \subseteq Nat /\ src' = Place(f, StopAt(f))
      BY <2>1, <3>1, StopIs DEF Inodes
    <3>5. \A m \in 0..StopAt(f) : InUse(Place(f, m))
      BY <2>6 DEF Passed, InUse
    <3>6. \A m \in 0..(StopAt(f) - 1) : table[Place(f, m)].chained
      <4>1. \A m \in 0..(StopAt(f) - 1) : m \in Inodes /\ m < StopAt(f)
        BY <2>1, StopIs, PlaceIs DEF Inodes
      <4> QED BY <2>1, <4>1, StopIs
    <3>7. inode' \in {src', NextInode(src')}
      <4>1. CASE table[Stop(f)].fsid # f /\ table[Stop(f)].chained
        <5>1. StopAt(f) = NInodes - 1 /\ EndedAt(f) = Home[f]
          BY <2>1, <4>1, StopIs DEF EndedAt
        <5>2. NextInode(Stop(f)) = Home[f]
          BY <2>1, <5>1, StopIs, NextPlace, PlaceIs
        <5> QED BY <3>1, <5>1, <5>2
      <4>2. CASE ~(table[Stop(f)].fsid # f /\ table[Stop(f)].chained)
        BY <3>1, <4>2 DEF EndedAt
      <4> QED BY <4>1, <4>2
    <3>8. SearchTrue'
      <4>1. \E n \in Inodes :
              /\ src' = Place(f, n) /\ inode' \in {src', NextInode(src')}
              /\ \A m \in 0..n : InUse(Place(f, m))
              /\ \A m \in 0..(n - 1) : table[Place(f, m)].chained
        BY <3>4, <3>5, <3>6, <3>7
      <4> QED BY <1>1, <1>3, <1>5, <2>1, <3>1, <3>3, <4>1 DEF SearchTrue, f, InUse, Absent
    <3> QED BY <1>1, <1>3, <3>2, <3>8 DEF TableInv, ChainsWhole, OneInode, FreeEnds, EntriesTrue,
               InodesTrue, NumbersTrue, InUse
  <2> QED BY <2>4, <2>5, <2>6
<1> QED BY <1>4, <1>5
\* Flagging the end of a chain, and going on to the next inode.
LEMMA TableMarkChained == TableInv /\ MarkChained /\ mode' = mode => TableInv'
<1> SUFFICES ASSUME TableInv, MarkChained, mode' = mode PROVE TableInv'
  OBVIOUS
<1>1. /\ pc = "mark" /\ done < Len(log) /\ UNCHANGED <<log, done, files, mode>>
      /\ table' = [table EXCEPT ![src].chained = TRUE] /\ src' = inode
  BY DEF MarkChained, Chained, TableInv, SearchTrue
<1>2. /\ TypeOK /\ ChainsWhole /\ OneInode /\ FreeEnds /\ EntriesTrue /\ InodesTrue /\ NumbersTrue
      /\ Entry.fsid # None /\ Entry.inode = Unknown /\ Absent(Entry.fsid)
      /\ \E n \in Inodes :
            /\ src = Place(Entry.fsid, n) /\ inode \in {src, NextInode(src)}
            /\ \A m \in 0..n : InUse(Place(Entry.fsid, m))
            /\ \A m \in 0..(n - 1) : table[Place(Entry.fsid, m)].chained
  BY <1>1 DEF TableInv, SearchTrue
<1>0. PICK f \in Fsids : f = Entry.fsid
  BY <1>1, <1>2, EntryIs
<1>3. Entry' = Entry /\ src \in Inodes /\ inode \in Inodes /\ Entry'.fsid = f
  BY <1>0, <1>1, <1>2 DEF Entry, TypeOK
<1>4. PICK n \in Inodes :
            /\ src = Place(f, n) /\ inode \in {src, NextInode(src)}
            /\ \A m \in 0..n : InUse(Place(f, m))
            /\ \A m \in 0..(n - 1) : table[Place(f, m)].chained
  BY <1>0, <1>2
<1>5. n \in Nat /\ n < NInodes /\ Inodes = 0..(NInodes - 1) /\ NInodes \in Nat /\ InUse(src)
  BY <1>3, <1>4, PlaceIs DEF Inodes
<1>6. Flags
  <2>1. table' \in [Inodes -> [fsid : Fsids \cup {None}, data : Data \cup {Gone}, chained : BOOLEAN]]
    BY <1>1, <1>2 DEF TypeOK
  <2>2. \A i \in Inodes : table'[i].fsid = table[i].fsid /\ table'[i].data = table[i].data
    BY <1>1, <1>2 DEF TypeOK
  <2>3. \A i \in Inodes : i # src => table'[i].chained = table[i].chained
    BY <1>1, <1>2 DEF TypeOK
  <2>4. table'[src].chained
    BY <1>1, <1>2, <1>3 DEF TypeOK
  <2> QED BY <1>1, <1>3, <1>5, <2>1, <2>2, <2>3, <2>4 DEF Flags
<1>7. table'[src].chained
  BY <1>1, <1>2, <1>3 DEF TypeOK
<1>8. /\ NextInode(inode) \in Inodes
      /\ pc' \in {"mark", "write", "failed"} /\ inode' \in {inode, NextInode(inode)}
  BY <1>3, NextPlace DEF MarkChained
<1>9. TypeOK'
  BY <1>1, <1>2, <1>3, <1>6, <1>8 DEF TypeOK, Flags
<1>10. ChainsWhole' /\ OneInode' /\ FreeEnds' /\ EntriesTrue' /\ InodesTrue'
  BY <1>1, <1>2, <1>6, <1>9, FlagsKeep, FlagsAgree
<1>11. NumbersTrue'
  <2>1. mode = "crashes" => \A l \in DOMAIN log : log[l].inode # Unknown => log[l].inode \in Inodes
    BY <1>2, EntriesAre
  <2>2. mode = "crashes" =>
         /\ \A g \in Fsids : files'[g] # Gone
         /\ \A l \in DOMAIN log : log[l].fsid # None
         /\ \A l \in DOMAIN log : log[l].inode # Unknown => table'[log[l].inode].fsid = log[l].fsid
    BY <1>1, <1>2, <1>6, <2>1 DEF NumbersTrue, Flags
  <2>3. Entry.fsid # None /\ Entry.inode = Unknown
    BY <1>2
  <2> QED BY <1>1, <1>2, <1>3, <2>2, <2>3 DEF NumbersTrue
<1>12. \A i \in Inodes : InUse(i)' <=> InUse(i)
  BY <1>6 DEF Flags, InUse
<1>13. Absent(f)'
  BY <1>0, <1>2, <1>6 DEF Flags, Absent
\* The place of the inode it goes on to, and that all places before are chained.
<1>14. PICK m \in Inodes :
         /\ inode = Place(f, m)
         /\ \A l \in 0..(m - 1) : table'[Place(f, l)].chained
         /\ \A l \in 0..(m - 1) : InUse(Place(f, l))
         /\ ~InUse(inode) => m # n
  <2>1. \A l \in 0..(n - 1) : l \in Inodes /\ l \in 0..n
    BY <1>5
  <2>2. \A l \in 0..(n - 1) : Place(f, l) \in Inodes
    BY <1>3, <2>1, PlaceIs
  <2>3. \A l \in 0..(n - 1) : table'[Place(f, l)].chained
    BY <1>4, <1>6, <2>2 DEF Flags
  <2>4. CASE inode = src
    BY <1>4, <1>5, <2>1, <2>3, <2>4
  <2>5. CASE inode = NextInode(src) /\ n < NInodes - 1
    <3>1. n + 1 \in Inodes /\ inode = Place(f, n + 1)
      BY <1>3, <1>4, <2>5, NextPlace
    <3>2. \A l \in 0..((n + 1) - 1) : l \in 0..(n - 1) \/ l = n
      BY <1>5
    <3>3. \A l \in 0..((n + 1) - 1) : table'[Place(f, l)].chained
      BY <1>4, <1>7, <2>3, <3>2
    <3>4. \A l \in 0..((n + 1) - 1) : InUse(Place(f, l))
      BY <1>4, <1>5
    <3>5. n + 1 # n
      BY <1>5
    <3> QED BY <3>1, <3>3, <3>4, <3>5
  <2>6. CASE inode = NextInode(src) /\ ~(n < NInodes - 1)
    <3>1. n = NInodes - 1
      BY <1>5, <2>6
    <3>2. inode = Place(f, 0) /\ 0 \in Inodes
      BY <1>3, <1>4, <1>5, <2>6, <3>1, NextPlace
    <3>3. InUse(inode)
      BY <1>4, <1>5, <3>2
    <3>4. \A l \in 0..(0 - 1) : FALSE
      OBVIOUS
    <3> QED BY <3>2, <3>3, <3>4
  <2> QED BY <1>4, <2>4, <2>5, <2>6
<1>15. m \in Nat /\ m < NInodes /\ \A l \in 0..m : l \in 0..(m - 1) \/ l = m
  BY <1>5
<1>16. CASE table[inode].fsid = None
  <2>1. pc' = "write" /\ inode' = inode /\ ~InUse(inode)
    BY <1>16 DEF MarkChained, InUse
  <2>2. Reaches(f, inode)'
    <3> SUFFICES ASSUME NEW x \in Inodes, \A l \in 0..x : Place(f, l) # inode
                 PROVE  table'[Place(f, x)].chained
      BY <2>1 DEF Reaches
    <3>2. m \notin 0..x
      BY <1>14
    <3>3. x \in 0..(m - 1)
      BY <1>5, <1>15, <3>2
    <3> QED BY <1>14, <3>3
  <2>3. SearchTrue'
    BY <1>0, <1>1, <1>2, <1>3, <1>12, <1>13, <2>1, <2>2 DEF SearchTrue
  <2> QED BY <1>9, <1>10, <1>11, <2>3 DEF TableInv
<1>17. CASE table[inode].fsid # None /\ GivesUp(inode)
  <2>1. pc' = "failed" /\ inode' = inode
    BY <1>17 DEF MarkChained
  <2>2. NextInode(inode) = Place(f, 0)
    BY <1>0, <1>17, PlaceIs DEF GivesUp
  <2>3. m = NInodes - 1
    <3> SUFFICES ASSUME m < NInodes - 1 PROVE FALSE
      BY <1>15, <1>5
    <3>1. m + 1 \in Inodes /\ NextInode(inode) = Place(f, m + 1) /\ 0 \in Inodes
      BY <1>3, <1>5, <1>14, NextPlace
    <3>2. m + 1 = 0
      BY <1>3, <2>2, <3>1, PlaceIs
    <3> QED BY <1>15, <3>2
  <2>4. \A l \in Inodes : InUse(Place(f, l))
    BY <1>5, <1>14, <1>15, <1>17, <2>3 DEF InUse
  <2>5. \A i \in Inodes : InUse(i)
    BY <1>3, <2>4, PlaceIs
  <2>6. SearchTrue'
    BY <1>12, <2>1, <2>5 DEF SearchTrue
  <2> QED BY <1>9, <1>10, <1>11, <2>6 DEF TableInv
<1>18. CASE table[inode].fsid # None /\ ~GivesUp(inode)
  <2>1. pc' = "mark" /\ inode' = NextInode(inode) /\ InUse(inode)
    BY <1>1, <1>18 DEF MarkChained, InUse
  <2>2. \A l \in 0..m : InUse(Place(f, l))'
    <3>1. \A l \in 0..m : InUse(Place(f, l)) /\ l \in Inodes
      BY <1>5, <1>14, <1>15, <2>1
    <3>2. \A l \in 0..m : Place(f, l) \in Inodes
      BY <1>3, <3>1, PlaceIs
    <3> QED BY <1>6, <3>1, <3>2 DEF Flags, InUse
  <2>3. SearchTrue'
    <3>1. \E l \in Inodes :
            /\ src' = Place(f, l) /\ inode' \in {src', NextInode(src')}
            /\ \A x \in 0..l : table'[Place(f, x)].fsid # None
            /\ \A x \in 0..(l - 1) : table'[Place(f, x)].chained
      <4>1. \A x \in 0..m : table'[Place(f, x)].fsid # None
        BY <2>2 DEF InUse
      <4> QED BY <1>1, <1>14, <2>1, <4>1
    <3> QED BY <1>0, <1>1, <1>2, <1>3, <1>13, <2>1, <3>1 DEF SearchTrue, InUse, Absent
  <2> QED BY <1>9, <1>10, <1>11, <2>3 DEF TableInv
<1> QED BY <1>16, <1>17, <1>18
\* Writing the entry over its inode (the end of mfs_log_sync_inode).
LEMMA TableWriteInode == TableInv /\ WriteInode /\ mode' = mode => TableInv'
<1> SUFFICES ASSUME TableInv, WriteInode, mode' = mode PROVE TableInv'
  OBVIOUS
<1>1. /\ pc = "write" /\ done < Len(log) /\ UNCHANGED <<log, src, inode, files, mode>>
      /\ done' = done + 1 /\ pc' = "idle" /\ src = inode
      /\ table' = [table EXCEPT ![inode] = [fsid |-> Entry.fsid, data |-> Entry.data,
                                            chained |-> table[inode].chained]]
  BY DEF WriteInode, TableInv, SearchTrue
<1>2. /\ TypeOK /\ ChainsWhole /\ OneInode /\ FreeEnds /\ EntriesTrue /\ InodesTrue /\ NumbersTrue
      /\ Entry.inode # Unknown => inode = Entry.inode
      /\ Entry.fsid # None =>
            \/ table[inode].fsid = Entry.fsid
            \/ ~InUse(inode) /\ Absent(Entry.fsid) /\ Reaches(Entry.fsid, inode)
  BY <1>1 DEF TableInv, SearchTrue
<1>3. PICK e \in [inode : Inodes \cup {Unknown}, fsid : Fsids \cup {None}, data : Data \cup {Gone}] :
        e = Entry /\ e = log[done + 1]
  <2> DEFINE E == [inode : Inodes \cup {Unknown}, fsid : Fsids \cup {None}, data : Data \cup {Gone}]
  <2>1. log \in Seq(E)
    BY <1>2 DEF TypeOK
  <2>2. done + 1 \in DOMAIN log /\ Entry = log[done + 1]
    BY <1>1, <1>2, EntryIs
  <2> HIDE DEF E
  <2>3. log[done + 1] \in E
    BY <2>1, <2>2
  <2> QED BY <2>2, <2>3 DEF E
<1>4. /\ Len(log) \in Nat /\ done \in Nat /\ done + 1 \in DOMAIN log /\ DOMAIN log = 1..Len(log)
      /\ inode \in Inodes
  BY <1>1, <1>2, EntryIs DEF TypeOK
<1>5. /\ \A i \in Inodes : table'[i].chained = table[i].chained
      /\ \A i \in Inodes : i # inode => table'[i].fsid = table[i].fsid /\ table'[i].data = table[i].data
      /\ table'[inode].fsid = e.fsid /\ table'[inode].data = e.data
  BY <1>1, <1>2, <1>3, <1>4 DEF TypeOK
<1>6. e.fsid # None => /\ e.fsid \in Fsids /\ e.data \in Data
                       /\ files[e.fsid] # Unborn /\ files[e.fsid] \in Data
  BY <1>2, <1>3, <1>4 DEF EntriesTrue
\* Who has the inode before: the file the entry is about, nobody, or the file that goes.
<1>7. \/ e.fsid # None /\ table[inode].fsid = e.fsid
      \/ e.fsid # None /\ ~InUse(inode) /\ Absent(e.fsid) /\ Reaches(e.fsid, inode)
      \/ /\ e.fsid = None /\ mode = "deleted" /\ ~table[inode].chained
         /\ InUse(inode) /\ files[table[inode].fsid] = Gone
  <2>1. CASE e.fsid # None
    BY <1>2, <1>3, <2>1
  <2>2. CASE e.fsid = None
    <3>1. mode = "deleted"
      BY <1>2, <1>3, <1>4, <2>2, TableOK DEF TypeOK, NumbersTrue
    <3>2. e.inode # Unknown
      BY <1>1, <1>2, <1>3, <2>2, <3>1 DEF NumbersTrue
    <3>3. /\ ~table[e.inode].chained /\ InUse(e.inode) /\ files[table[e.inode].fsid] = Gone
      BY <1>1, <1>2, <1>3, <2>2, <3>1, <3>2 DEF NumbersTrue
    <3> QED BY <1>2, <1>3, <2>2, <3>1, <3>2, <3>3
  <2> QED BY <2>1, <2>2
<1>8. TypeOK'
  <2>1. table' \in [Inodes -> [fsid : Fsids \cup {None}, data : Data \cup {Gone}, chained : BOOLEAN]]
    BY <1>1, <1>2, <1>3, <1>4 DEF TypeOK
  <2> QED BY <1>1, <1>2, <1>4, <2>1 DEF TypeOK
<1>9. FreeEnds'
  BY <1>2, <1>5, <1>7 DEF FreeEnds, InUse
<1>10. OneInode'
  <2>1. e.fsid # None => \A i \in Inodes : i # inode => table[i].fsid # e.fsid
    BY <1>2, <1>4, <1>7 DEF OneInode, InUse, Absent
  <2> QED BY <1>2, <1>4, <1>5, <2>1 DEF OneInode, InUse
<1>11. ChainsWhole'
  <2> SUFFICES ASSUME NEW i \in Inodes, InUse(i)', NEW n \in 0..(NInodes - 1),
                      \A m \in 0..n : Place(table'[i].fsid, m) # i
               PROVE  table'[Place(table'[i].fsid, n)].chained
    <3>1. \A f, n : Place(f, n)' = Place(f, n)
      BY DEF Place
    <3> QED BY <1>8, <3>1 DEF ChainsWhole
  <2>1. PICK f \in Fsids : f = table'[i].fsid
    BY <1>8 DEF TypeOK, InUse
  <2>2. n \in Inodes /\ Place(f, n) \in Inodes
    BY <2>1, PlaceIs DEF Inodes
  <2>3. CASE table[i].fsid = f
    <3>1. InUse(i)
      BY <2>3, MarksApartToo DEF InUse
    <3>2. table[Place(f, n)].chained
      BY <1>2, <2>1, <2>3, <3>1 DEF ChainsWhole
    <3> QED BY <1>5, <2>1, <2>2, <3>2
  <2>4. CASE table[i].fsid # f
    <3>1. i = inode /\ f = e.fsid
      BY <1>5, <2>1, <2>4
    <3>2. Reaches(f, i)
      BY <1>7, <2>1, <2>4, <3>1, MarksApartToo
    <3>3. table[Place(f, n)].chained
      BY <2>1, <2>2, <3>2 DEF Reaches
    <3> QED BY <1>5, <2>1, <2>2, <3>3
  <2> QED BY <2>3, <2>4
<1>12. EntriesTrue'
  <2>1. \A n \in DOMAIN log : log[n].fsid # None =>
          log[n].data \in Data /\ files[log[n].fsid] # Unborn /\ (n > done + 1 => files[log[n].fsid] \in Data)
    <3>1. \A n \in DOMAIN log : n > done + 1 => n > done
      BY <1>4
    <3> QED BY <1>2, <3>1 DEF EntriesTrue
  <2>2. ASSUME NEW f \in Fsids, files[f] \in Data,
               \A n \in DOMAIN log : n > done + 1 => log[n].fsid # f
        PROVE  \E i \in Inodes : table'[i].fsid = f /\ table'[i].data = files[f]
    <3>1. CASE e.fsid = f
      <4>1. log[done + 1].data = files[f]
        BY <1>2, <1>3, <1>4, <2>2, <3>1 DEF EntriesTrue
      <4> QED BY <1>3, <1>4, <1>5, <3>1, <4>1
    <3>2. CASE e.fsid # f
      <4>1. \A n \in DOMAIN log : n > done => log[n].fsid # f
        <5>1. \A n \in DOMAIN log : n > done => n > done + 1 \/ n = done + 1
          BY <1>4
        <5> QED BY <1>3, <2>2, <3>2, <5>1
      <4>2. PICK i \in Inodes : table[i].fsid = f /\ table[i].data = files[f]
        BY <1>2, <2>2, <4>1 DEF EntriesTrue
      <4>3. i # inode
        BY <1>7, <2>2, <3>2, <4>2, MarksApart, MarksApartToo DEF InUse
      <4> QED BY <1>5, <4>2, <4>3
    <3> QED BY <3>1, <3>2
  <2>3. \A n \in DOMAIN log : \A f \in Fsids :
         (log[n].fsid = f /\ files[f] \in Data /\ \A l \in DOMAIN log : l > n => log[l].fsid # f)
           => log[n].data = files[f]
    BY <1>2 DEF EntriesTrue
  <2> QED BY <1>1, <2>1, <2>2, <2>3 DEF EntriesTrue
<1>13. InodesTrue'
  <2> SUFFICES ASSUME NEW i \in Inodes, table'[i].fsid # None
               PROVE  /\ files[table'[i].fsid] # Unborn
                      /\ files[table'[i].fsid] # Gone
    BY <1>1 DEF InodesTrue, InUse
  <2>1. CASE i = inode
    BY <1>5, <1>6, <2>1, MarksApart
  <2>2. CASE i # inode
    <3>1. InUse(i) /\ table'[i].fsid = table[i].fsid
      BY <1>5, <2>2 DEF InUse
    <3>2. files[table[i].fsid] # Unborn
      BY <1>2, <3>1 DEF InodesTrue
    <3>3. ASSUME files[table[i].fsid] = Gone PROVE FALSE
      <4>1. log[Len(log)].inode = i
        BY <1>2, <3>1, <3>3 DEF InodesTrue
      <4>2. table[i].fsid \in Fsids
        BY <1>2, <3>1 DEF TypeOK, InUse
      <4>3. mode # "crashes"
        BY <1>2, <3>3, <4>2 DEF NumbersTrue
      <4>4. done + 1 = Len(log)
        BY <1>1, <1>2, <4>3, TableOK DEF NumbersTrue, TypeOK
      <4> QED BY <1>2, <1>3, <2>2, <4>1, <4>4, MarksApartToo
    <3> QED BY <3>1, <3>2, <3>3
  <2> QED BY <2>1, <2>2
<1>14. NumbersTrue'
  <2>1. ASSUME mode = "crashes", NEW n \in DOMAIN log
        PROVE  /\ log[n].fsid # None
               /\ log[n].inode # Unknown => table'[log[n].inode].fsid = log[n].fsid
    <3>1. log[n].fsid # None /\ (log[n].inode # Unknown => table[log[n].inode].fsid = log[n].fsid)
      BY <1>2, <2>1 DEF NumbersTrue
    <3>2. log[n].inode # Unknown => log[n].inode \in Inodes
      BY <1>2, EntriesAre
    <3> QED BY <1>5, <1>7, <2>1, <3>1, <3>2 DEF InUse
  <2>2. mode = "crashes" => \A f \in Fsids : files[f] # Gone
    BY <1>2 DEF NumbersTrue
  <2>3. ~(mode = "deleted" /\ done + 1 < Len(log))
    BY <1>1, <1>2, <1>4 DEF NumbersTrue
  <2> QED BY <1>1, <2>1, <2>2, <2>3 DEF NumbersTrue
<1>15. SearchTrue'
  BY <1>1 DEF SearchTrue
<1> QED BY <1>8, <1>9, <1>10, <1>11, <1>12, <1>13, <1>14, <1>15 DEF TableInv
-----------------------------------------------------------------------------
(* What clients log, syncs and crashes.                                    *)

\* The log with one entry more.
LEMMA LogLonger ==
  ASSUME TypeOK, NEW i \in Inodes \cup {Unknown}, NEW f \in Fsids \cup {None}, NEW d \in Data \cup {Gone},
         Commit(i, f, d)
  PROVE  /\ done = Len(log) /\ done \in Nat /\ pc = "idle" /\ UNCHANGED <<table, done, pc, src, inode>>
         /\ log' \in Seq([inode : Inodes \cup {Unknown}, fsid : Fsids \cup {None}, data : Data \cup {Gone}])
         /\ Len(log') = done + 1 /\ DOMAIN log' = 1..(done + 1) /\ DOMAIN log = 1..done
         /\ \A n \in DOMAIN log : log'[n] = log[n]
         /\ log'[done + 1] = [inode |-> i, fsid |-> f, data |-> d]
<1> DEFINE E == [inode : Inodes \cup {Unknown}, fsid : Fsids \cup {None}, data : Data \cup {Gone}]
           e == [inode |-> i, fsid |-> f, data |-> d]
<1>1. log \in Seq(E) /\ e \in E /\ log' = Append(log, e)
  BY DEF TypeOK, Commit
<1> HIDE DEF E, e
<1>2. log' \in Seq(E) /\ Len(log') = Len(log) + 1 /\ Len(log) \in Nat
      /\ log'[Len(log) + 1] = e /\ \A n \in 1..Len(log) : log'[n] = log[n]
  BY <1>1
<1>3. DOMAIN log = 1..Len(log) /\ DOMAIN log' = 1..Len(log')
  BY <1>1, <1>2
<1>4. done = Len(log) /\ pc = "idle" /\ UNCHANGED <<table, done, pc, src, inode>>
  BY DEF Commit, Ready
<1> QED BY <1>2, <1>3, <1>4 DEF E, e

\* A file's contents are logged: a new file's, or another version of an old one's.
LEMMA TableCommit ==
  ASSUME TableInv, NEW i \in Inodes \cup {Unknown}, NEW f \in Fsids, NEW d \in Data,
         Commit(i, f, d), files' = [files EXCEPT ![f] = d], files[f] # Gone, mode' = mode,
         i # Unknown => table[i].fsid = f
  PROVE  TableInv'
<1>1. /\ TypeOK /\ ChainsWhole /\ OneInode /\ FreeEnds /\ EntriesTrue /\ InodesTrue /\ NumbersTrue
  BY DEF TableInv
<1>2. /\ done = Len(log) /\ done \in Nat /\ pc = "idle" /\ UNCHANGED <<table, done, pc, src, inode>>
      /\ log' \in Seq([inode : Inodes \cup {Unknown}, fsid : Fsids \cup {None}, data : Data \cup {Gone}])
      /\ Len(log') = done + 1 /\ DOMAIN log' = 1..(done + 1) /\ DOMAIN log = 1..done
      /\ \A n \in DOMAIN log : log'[n] = log[n]
      /\ log'[done + 1] = [inode |-> i, fsid |-> f, data |-> d]
  BY <1>1, LogLonger
<1>3. \A n \in DOMAIN log' : n \in DOMAIN log \/ n = done + 1
  BY <1>2
<1>4. /\ files' \in [Fsids -> Data \cup {Unborn, Gone}]
      /\ files'[f] = d /\ \A g \in Fsids : g # f => files'[g] = files[g]
      /\ d # Unborn /\ d # Gone
  BY <1>1, MarksApart DEF TypeOK
<1>5. TypeOK'
  BY <1>1, <1>2, <1>4 DEF TypeOK
<1>6. EntriesTrue'
  <2>1. ASSUME NEW n \in DOMAIN log', log'[n].fsid # None
        PROVE  log'[n].data \in Data /\ files'[log'[n].fsid] # Unborn
               /\ (n > done => files'[log'[n].fsid] \in Data)
    <3>1. CASE n \in DOMAIN log
      <4>1. log'[n] = log[n] /\ log[n].fsid \in Fsids /\ ~(n > done)
        BY <1>1, <1>2, <2>1, <3>1, EntriesAre
      <4>2. log[n].data \in Data /\ files[log[n].fsid] # Unborn
        BY <1>1, <2>1, <3>1, <4>1 DEF EntriesTrue
      <4> QED BY <1>4, <4>1, <4>2
    <3>2. CASE n = done + 1
      BY <1>2, <1>4, <3>2
    <3> QED BY <1>3, <3>1, <3>2
  <2>2. ASSUME NEW n \in DOMAIN log', NEW g \in Fsids, log'[n].fsid = g, files'[g] \in Data,
               \A l \in DOMAIN log' : l > n => log'[l].fsid # g
        PROVE  log'[n].data = files'[g]
    <3>1. CASE n \in DOMAIN log
      <4>1. done + 1 \in DOMAIN log' /\ done + 1 > n
        BY <1>2, <3>1
      <4>2. g # f
        BY <1>2, <2>2, <4>1
      <4>3. files'[g] = files[g] /\ log'[n] = log[n]
        BY <1>2, <1>4, <3>1, <4>2
      <4>4. \A l \in DOMAIN log : l > n => log[l].fsid # g
        BY <1>2, <2>2
      <4> QED BY <1>1, <2>2, <3>1, <4>3, <4>4 DEF EntriesTrue
    <3>2. CASE n = done + 1
      BY <1>2, <1>4, <2>2, <3>2
    <3> QED BY <1>3, <3>1, <3>2
  <2>3. ASSUME NEW g \in Fsids, files'[g] \in Data, \A n \in DOMAIN log' : n > done => log'[n].fsid # g
        PROVE  \E j \in Inodes : table[j].fsid = g /\ table[j].data = files'[g]
    <3>1. done + 1 \in DOMAIN log' /\ done + 1 > done
      BY <1>2
    <3>2. files'[g] = files[g]
      BY <1>2, <1>4, <2>3, <3>1
    <3>3. \A n \in DOMAIN log : ~(n > done)
      BY <1>2
    <3> QED BY <1>1, <2>3, <3>2, <3>3 DEF EntriesTrue
  <2> QED BY <1>2, <2>1, <2>2, <2>3 DEF EntriesTrue
<1>7. InodesTrue'
  <2> SUFFICES ASSUME NEW j \in Inodes, table[j].fsid # None
               PROVE  files'[table[j].fsid] # Unborn /\ files'[table[j].fsid] # Gone
    BY <1>2 DEF InodesTrue, InUse
  <2>1. table[j].fsid \in Fsids
    BY <1>1 DEF TypeOK
  <2>2. files[table[j].fsid] # Unborn /\ files[table[j].fsid] # Gone
    BY <1>1, <1>2 DEF InodesTrue, InUse
  <2> QED BY <1>4, <2>1, <2>2
<1>8. NumbersTrue'
  <2>1. Entry' = [inode |-> i, fsid |-> f, data |-> d]
    BY <1>2 DEF Entry
  <2>2. ASSUME mode = "crashes" PROVE \A g \in Fsids : files'[g] # Gone
    BY <1>1, <1>4, <2>2 DEF NumbersTrue
  <2>3. ASSUME mode = "crashes", NEW n \in DOMAIN log'
        PROVE  log'[n].fsid # None /\ (log'[n].inode # Unknown => table[log'[n].inode].fsid = log'[n].fsid)
    <3>1. CASE n \in DOMAIN log
      BY <1>1, <1>2, <2>3, <3>1 DEF NumbersTrue
    <3>2. CASE n = done + 1
      BY <1>2, <3>2, MarksApartToo
    <3> QED BY <1>3, <3>1, <3>2
  <2>4. f # None
    BY MarksApartToo
  <2> QED BY <1>2, <2>1, <2>2, <2>3, <2>4 DEF NumbersTrue
<1>9. SearchTrue'
  BY <1>2 DEF SearchTrue
<1>10. ChainsWhole' /\ OneInode' /\ FreeEnds'
  BY <1>1, <1>2, <1>5 DEF ChainsWhole, OneInode, FreeEnds, InUse, Place
<1> QED BY <1>5, <1>6, <1>7, <1>8, <1>9, <1>10 DEF TableInv

\* A new file.
LEMMA TableCreate ==
  ASSUME TableInv, NEW f \in Fsids, NEW d \in Data, Create(f, d), mode' = mode
  PROVE  TableInv'
<1>1. Commit(Unknown, f, d) /\ files' = [files EXCEPT ![f] = d] /\ files[f] # Gone
  BY DEF Create, Unborn, Gone
<1> QED BY <1>1, TableCommit

\* Another version of a file, logged for the inode that was looked up or for its fsid.
LEMMA TableUpdate ==
  ASSUME TableInv, NEW f \in Fsids, NEW d \in Data, Update(f, d), mode' = mode
  PROVE  TableInv'
<1>1. PICK i \in LookUp(f) \cup {Unknown} : Commit(i, f, d)
  BY DEF Update
<1>2. files' = [files EXCEPT ![f] = d] /\ files[f] # Gone
  BY MarksApart DEF Update
<1>3. i # Unknown => i \in Inodes /\ table[i].fsid = f
  BY StopIs DEF LookUp
<1> QED BY <1>1, <1>2, <1>3, TableCommit

\* A file at the end of its chain goes.
LEMMA TableDelete ==
  ASSUME TableInv, NEW f \in Fsids, Delete(f), mode' = mode
  PROVE  TableInv'
<1>1. /\ TypeOK /\ ChainsWhole /\ OneInode /\ FreeEnds /\ EntriesTrue /\ InodesTrue /\ NumbersTrue
  BY DEF TableInv
<1>2. PICK i \in LookUp(f) : ~table[i].chained /\ Commit(i, None, Gone)
  BY DEF Delete
<1>3. i \in Inodes /\ table[i].fsid = f /\ mode = "deleted"
  BY StopIs DEF LookUp, Delete
<1>4. /\ done = Len(log) /\ done \in Nat /\ pc = "idle" /\ UNCHANGED <<table, done, pc, src, inode>>
      /\ log' \in Seq([inode : Inodes \cup {Unknown}, fsid : Fsids \cup {None}, data : Data \cup {Gone}])
      /\ Len(log') = done + 1 /\ DOMAIN log' = 1..(done + 1) /\ DOMAIN log = 1..done
      /\ \A n \in DOMAIN log : log'[n] = log[n]
      /\ log'[done + 1] = [inode |-> i, fsid |-> None, data |-> Gone]
  BY <1>1, <1>2, <1>3, LogLonger
<1>5. \A n \in DOMAIN log' : n \in DOMAIN log \/ n = done + 1
  BY <1>4
<1>6. /\ files' \in [Fsids -> Data \cup {Unborn, Gone}]
      /\ files'[f] = Gone /\ \A g \in Fsids : g # f => files'[g] = files[g]
      /\ Gone # Unborn /\ Gone \notin Data
  BY <1>1, MarksApart DEF TypeOK, Delete, Gone, Unborn
<1>7. TypeOK'
  BY <1>1, <1>4, <1>6 DEF TypeOK
<1>8. EntriesTrue'
  <2>1. ASSUME NEW n \in DOMAIN log', log'[n].fsid # None
        PROVE  log'[n].data \in Data /\ files'[log'[n].fsid] # Unborn
               /\ (n > done => files'[log'[n].fsid] \in Data)
    <3>1. n \in DOMAIN log
      BY <1>4, <1>5, <2>1
    <3>2. log'[n] = log[n] /\ log[n].fsid \in Fsids /\ ~(n > done)
      BY <1>1, <1>4, <2>1, <3>1, EntriesAre
    <3>3. log[n].data \in Data /\ files[log[n].fsid] # Unborn
      BY <1>1, <2>1, <3>1, <3>2 DEF EntriesTrue
    <3> QED BY <1>6, <3>2, <3>3
  <2>2. ASSUME NEW n \in DOMAIN log', NEW g \in Fsids, log'[n].fsid = g, files'[g] \in Data,
               \A l \in DOMAIN log' : l > n => log'[l].fsid # g
        PROVE  log'[n].data = files'[g]
    <3>1. n \in DOMAIN log
      BY <1>4, <1>5, <2>2, MarksApartToo
    <3>2. files'[g] = files[g] /\ log'[n] = log[n]
      BY <1>4, <1>6, <2>2, <3>1
    <3>3. \A l \in DOMAIN log : l \in DOMAIN log' /\ log'[l] = log[l]
      BY <1>4
    <3>4. \A l \in DOMAIN log : l > n => log[l].fsid # g
      BY <2>2, <3>3
    <3> QED BY <1>1, <2>2, <3>1, <3>2, <3>4 DEF EntriesTrue
  <2>3. ASSUME NEW g \in Fsids, files'[g] \in Data
        PROVE  \E j \in Inodes : table[j].fsid = g /\ table[j].data = files'[g]
    <3>1. files'[g] = files[g]
      BY <1>6, <2>3
    <3>2. \A n \in DOMAIN log : ~(n > done)
      BY <1>4
    <3> QED BY <1>1, <2>3, <3>1, <3>2 DEF EntriesTrue
  <2> QED BY <1>4, <2>1, <2>2, <2>3 DEF EntriesTrue
<1>9. InodesTrue'
  <2>1. ASSUME NEW j \in Inodes, table[j].fsid # None
        PROVE  files'[table[j].fsid] # Unborn /\ (files'[table[j].fsid] = Gone => j = i)
    <3>1. table[j].fsid \in Fsids
      BY <1>1, <2>1 DEF TypeOK
    <3>2. files[table[j].fsid] # Unborn /\ files[table[j].fsid] # Gone
      BY <1>1, <1>4, <2>1 DEF InodesTrue, InUse
    <3>3. table[j].fsid = f => j = i
      BY <1>1, <1>3, <2>1 DEF OneInode, InUse
    <3> QED BY <1>6, <3>1, <3>2, <3>3
  <2>2. done < Len(log') /\ log'[Len(log')].inode = i /\ log'[Len(log')].fsid = None
    BY <1>4
  <2> QED BY <1>4, <2>1, <2>2 DEF InodesTrue, InUse
<1>10. NumbersTrue'
  <2>1. Entry' = [inode |-> i, fsid |-> None, data |-> Gone] /\ i # Unknown
    BY <1>3, <1>4, MarksApartToo DEF Entry
  <2>2. table[i].fsid # None /\ files'[table[i].fsid] = Gone
    BY <1>3, <1>6, MarksApartToo
  <2> QED BY <1>2, <1>3, <1>4, <2>1, <2>2 DEF NumbersTrue, InUse
<1>11. SearchTrue'
  BY <1>4 DEF SearchTrue
<1>12. ChainsWhole' /\ OneInode' /\ FreeEnds'
  BY <1>1, <1>4, <1>7 DEF ChainsWhole, OneInode, FreeEnds, InUse, Place
<1> QED BY <1>7, <1>8, <1>9, <1>10, <1>11, <1>12 DEF TableInv

\* A sync, after which the entries before it are not run again.
LEMMA TableSync == TableInv /\ Sync /\ mode' = mode => TableInv'
<1> SUFFICES ASSUME TableInv, Sync, mode' = mode PROVE TableInv'
  OBVIOUS
<1>1. /\ TypeOK /\ ChainsWhole /\ OneInode /\ FreeEnds /\ EntriesTrue /\ InodesTrue /\ NumbersTrue
      /\ pc = "idle" /\ done = Len(log) /\ log' = <<>> /\ done' = 0
      /\ UNCHANGED <<table, pc, src, inode, files, mode>>
  BY DEF TableInv, Sync, Ready
<1>2. Len(log') = 0 /\ DOMAIN log' = {} /\ Len(log) \in Nat /\ DOMAIN log = 1..Len(log)
  BY <1>1, EntriesAre
<1>3. TypeOK'
  <2>1. done' \in 0..Len(log')
    BY <1>1, <1>2
  <2> QED BY <1>1, <2>1 DEF TypeOK
<1>4. EntriesTrue'
  <2>1. \A n \in DOMAIN log : ~(n > done)
    BY <1>1, <1>2
  <2>2. \A f \in Fsids : files[f] \in Data => \E i \in Inodes : table[i].fsid = f /\ table[i].data = files[f]
    BY <1>1, <2>1 DEF EntriesTrue
  <2> QED BY <1>1, <1>2, <2>2 DEF EntriesTrue
<1>5. InodesTrue'
  BY <1>1, <1>2 DEF InodesTrue, InUse
<1>6. NumbersTrue'
  BY <1>1, <1>2 DEF NumbersTrue
<1>7. SearchTrue'
  BY <1>1 DEF SearchTrue
<1>8. ChainsWhole' /\ OneInode' /\ FreeEnds'
  BY <1>1, <1>3 DEF ChainsWhole, OneInode, FreeEnds, InUse, Place
<1> QED BY <1>3, <1>4, <1>5, <1>6, <1>7, <1>8 DEF TableInv

\* A crash, after which all the entries since the last sync are run again.
LEMMA TableCrash == TableInv /\ Crash /\ mode' = mode => TableInv'
<1> SUFFICES ASSUME TableInv, Crash, mode' = mode PROVE TableInv'
  OBVIOUS
<1>1. /\ TypeOK /\ ChainsWhole /\ OneInode /\ FreeEnds /\ EntriesTrue /\ InodesTrue /\ NumbersTrue
      /\ mode = "crashes" /\ done' = 0 /\ pc' = "idle" /\ done \in Nat
      /\ UNCHANGED <<table, log, src, inode, files, mode>>
  BY DEF TableInv, Crash, TypeOK
<1>2. /\ Len(log) \in Nat /\ DOMAIN log = 1..Len(log)
      /\ \A n \in DOMAIN log : log[n].fsid \in Fsids \cup {None}
  BY <1>1, EntriesAre
<1>3. TypeOK'
  <2>1. done' \in 0..Len(log')
    BY <1>1, <1>2
  <2> QED BY <1>1, <2>1 DEF TypeOK
<1>4. \A f \in Fsids : files[f] # Gone
  BY <1>1 DEF NumbersTrue
<1>5. EntriesTrue'
  <2>1. \A n \in DOMAIN log : log[n].fsid # None =>
          log[n].data \in Data /\ files[log[n].fsid] # Unborn /\ files[log[n].fsid] \in Data
    <3> SUFFICES ASSUME NEW n \in DOMAIN log, log[n].fsid # None
                 PROVE  log[n].data \in Data /\ files[log[n].fsid] # Unborn /\ files[log[n].fsid] \in Data
      OBVIOUS
    <3>1. log[n].data \in Data /\ files[log[n].fsid] # Unborn
      BY <1>1 DEF EntriesTrue
    <3>2. files[log[n].fsid] \in Data
      BY <1>1, <1>2, <1>4, <3>1 DEF TypeOK
    <3> QED BY <3>1, <3>2
  <2>2. \A n \in DOMAIN log : n > done => n > 0
    BY <1>1, <1>2
  <2>3. \A f \in Fsids :
          (files[f] \in Data /\ \A n \in DOMAIN log : n > 0 => log[n].fsid # f)
            => \E i \in Inodes : table[i].fsid = f /\ table[i].data = files[f]
    BY <1>1, <2>2 DEF EntriesTrue
  <2>4. \A n \in DOMAIN log : \A f \in Fsids :
         (log[n].fsid = f /\ files[f] \in Data /\ \A l \in DOMAIN log : l > n => log[l].fsid # f)
           => log[n].data = files[f]
    BY <1>1 DEF EntriesTrue
  <2> QED BY <1>1, <2>1, <2>3, <2>4 DEF EntriesTrue
<1>6. InodesTrue'
  <2> SUFFICES ASSUME NEW i \in Inodes, table[i].fsid # None
               PROVE  files[table[i].fsid] # Unborn /\ files[table[i].fsid] # Gone
    BY <1>1 DEF InodesTrue, InUse
  <2>1. table[i].fsid \in Fsids
    BY <1>1 DEF TypeOK
  <2> QED BY <1>1, <1>4, <2>1 DEF InodesTrue, InUse
<1>7. NumbersTrue'
  BY <1>1 DEF NumbersTrue
<1>8. SearchTrue'
  BY <1>1 DEF SearchTrue
<1>9. ChainsWhole' /\ OneInode' /\ FreeEnds'
  BY <1>1, <1>3 DEF ChainsWhole, OneInode, FreeEnds, InUse, Place
<1> QED BY <1>3, <1>5, <1>6, <1>7, <1>8, <1>9 DEF TableInv
-----------------------------------------------------------------------------
(* The results.                                                            *)

\* The empty table.
LEMMA TableInit == Init => TableInv
<1> SUFFICES ASSUME Init PROVE TableInv
  OBVIOUS
<1>1. /\ table = [i \in Inodes |-> Free] /\ log = <<>> /\ done = 0 /\ pc = "idle"
      /\ src = 0 /\ inode = 0 /\ files = [f \in Fsids |-> Unborn] /\ mode \in Modes
  BY DEF Init
<1>2. 0 \in Inodes /\ Len(log) = 0 /\ DOMAIN log = {}
      /\ log \in Seq([inode : Inodes \cup {Unknown}, fsid : Fsids \cup {None}, data : Data \cup {Gone}])
  BY <1>1, TableOK DEF Inodes
<1>3. TypeOK
  <2>1. Free \in [fsid : Fsids \cup {None}, data : Data \cup {Gone}, chained : BOOLEAN]
    BY DEF Free
  <2>2. done \in 0..Len(log)
    BY <1>1, <1>2
  <2> QED BY <1>1, <1>2, <2>1, <2>2 DEF TypeOK
<1>4. \A i \in Inodes : ~InUse(i) /\ ~table[i].chained
  BY <1>1 DEF InUse, Free
<1>5. \A f \in Fsids : files[f] = Unborn /\ files[f] \notin Data /\ files[f] # Gone
  BY <1>1, MarksApart DEF Unborn, Gone
<1>6. ChainsWhole /\ OneInode /\ FreeEnds
  BY <1>3, <1>4 DEF ChainsWhole, OneInode, FreeEnds
<1>7. EntriesTrue /\ InodesTrue
  BY <1>2, <1>4, <1>5 DEF EntriesTrue, InodesTrue
<1>8. NumbersTrue
  BY <1>1, <1>2, <1>5 DEF NumbersTrue
<1>9. SearchTrue
  BY <1>1 DEF SearchTrue
<1> QED BY <1>3, <1>6, <1>7, <1>8, <1>9 DEF TableInv

\* Every step keeps the invariant.
LEMMA TableNext == TableInv /\ [Next]_vars => TableInv'
<1> SUFFICES ASSUME TableInv, [Next]_vars PROVE TableInv'
  OBVIOUS
<1>1. CASE UNCHANGED vars
  <2>1. UNCHANGED <<table, log, done, pc, src, inode, files, mode>>
    BY <1>1 DEF vars
  <2>2. TypeOK' /\ (ChainsWhole /\ OneInode /\ FreeEnds)'
    BY <2>1 DEF TableInv, TypeOK, ChainsWhole, OneInode, FreeEnds, InUse, Place
  <2>3. EntriesTrue' /\ InodesTrue'
    BY <2>1 DEF TableInv, EntriesTrue, InodesTrue, InUse
  <2>4. NumbersTrue'
    BY <2>1 DEF TableInv, NumbersTrue, InUse, Entry
  <2>5. SearchTrue'
    <3>1. SearchTrue
      BY DEF TableInv
    <3> QED BY <2>1, <3>1 DEF SearchTrue, InUse, Place, Entry, Absent, Reaches
  <2> QED BY <2>2, <2>3, <2>4, <2>5 DEF TableInv
<1>2. CASE Next
  <2>1. mode' = mode
    BY <1>2 DEF Next
  <2>2. CASE FindInode
    BY <2>1, <2>2, TableFindInode
  <2>3. CASE MarkChained
    BY <2>1, <2>3, TableMarkChained
  <2>4. CASE WriteInode
    BY <2>1, <2>4, TableWriteInode
  <2>5. ASSUME NEW f \in Fsids, NEW d \in Data, Create(f, d) PROVE TableInv'
    BY <2>1, <2>5, TableCreate
  <2>6. ASSUME NEW f \in Fsids, NEW d \in Data, Update(f, d) PROVE TableInv'
    BY <2>1, <2>6, TableUpdate
  <2>7. ASSUME NEW f \in Fsids, Delete(f) PROVE TableInv'
    BY <2>1, <2>7, TableDelete
  <2>8. CASE Sync
    BY <2>1, <2>8, TableSync
  <2>9. CASE Crash
    BY <2>1, <2>9, TableCrash
  <2> QED BY <1>2, <2>2, <2>3, <2>4, <2>5, <2>6, <2>7, <2>8, <2>9 DEF Next
<1> QED BY <1>1, <1>2

\* Whatever was committed, synced and run again after crashes.
LEMMA TableAlways == Spec => []TableInv
  BY TableInit, TableNext, PTL DEF Spec

\* Every inode between the home of a file and the file's own is flagged as chained in every
\* state: mfs_log_sync_inode flags the end of a chain, in a write of its own, before it
\* writes the inode behind it, and the search for an empty inode stops at the first, so that
\* no chain has a gap, also where the log stopped half way and is run again.
THEOREM ChainsStayWhole == Spec => []ChainsWhole
<1>1. TableInv => ChainsWhole
  BY DEF TableInv
<1> QED BY <1>1, TableAlways, PTL

\* No fsid is in two inodes, not even between the steps of a replay: an entry without an
\* inode number is searched for before an empty inode is taken, and one with a number was
\* given that of its file, which no entry since the sync has moved.
THEOREM FilesHaveOneInode == Spec => []OneInode
<1>1. TableInv => OneInode
  BY DEF TableInv
<1> QED BY <1>1, TableAlways, PTL

\* When all entries have been applied mfs_read_inode_by_fsid finds every file that was
\* committed, with the contents committed last, and nothing for any other fsid; and
\* mfs_find_inode_for_fsid gives up only when every inode is in use.
THEOREM FilesAreFound == Spec => []FilesFound
<1>1. TableInv => FilesFound
  <2> SUFFICES ASSUME TableInv PROVE FilesFound
    OBVIOUS
  <2>1. /\ TypeOK /\ ChainsWhole /\ OneInode /\ EntriesTrue /\ InodesTrue
        /\ pc = "failed" => \A i \in Inodes : InUse(i)
    BY DEF TableInv, SearchTrue
  <2>2. ASSUME Ready, NEW f \in Fsids
        PROVE  {table[i].data : i \in LookUp(f)} = {files[f]} \cap Data
    <3>1. done = Len(log) /\ \A n \in DOMAIN log : ~(n > done)
      BY <2>1, <2>2, EntriesAre DEF Ready
    <3>2. files[f] \in Data => \E i \in Inodes : table[i].fsid = f /\ table[i].data = files[f]
      BY <2>1, <3>1 DEF EntriesTrue
    <3>3. CASE Absent(f)
      <4>1. LookUp(f) = {}
        BY <2>1, <3>3, FoundNot
      <4>2. files[f] \notin Data
        BY <3>2, <3>3 DEF Absent
      <4> QED BY <4>1, <4>2
    <3>4. ASSUME NEW i \in Inodes, table[i].fsid = f PROVE {table[j].data : j \in LookUp(f)} = {files[f]} \cap Data
      <4>1. LookUp(f) = {i}
        BY <2>1, <3>4, FoundThere
      <4>2. InUse(i)
        BY <3>4, MarksApartToo DEF InUse
      <4>3. files[f] # Unborn /\ files[f] # Gone
        BY <2>1, <3>1, <3>4, <4>2, EntriesAre DEF InodesTrue
      <4>4. files[f] \in Data
        BY <2>1, <4>3 DEF TypeOK
      <4>5. table[i].data = files[f]
        BY <2>1, <3>2, <3>4, <4>2, <4>4 DEF OneInode, InUse
      <4> QED BY <4>1, <4>4, <4>5
    <3> QED BY <3>3, <3>4 DEF Absent
  <2> QED BY <2>1, <2>2 DEF FilesFound
<1> QED BY <1>1, TableAlways, PTL
=============================================================================
