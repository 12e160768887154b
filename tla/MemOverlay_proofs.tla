------------------------- MODULE MemOverlay_proofs -------------------------
(***************************************************************************)
(* That the blocks of written sectors and the drive show together, in      *)
(* every state, what was written last (ListShows): first the lists, which  *)
(* a write grows and joins, then the loop that reads across blocks and     *)
(* drive.  The blocks of a volume therefore stay apart, and a read of any  *)
(* sectors of a volume returns the latest.  On top of that the data of     *)
(* files: the turns of the loop over the runs go through the sectors of    *)
(* the part in their order (Covers), so that they read what is there, and  *)
(* after each turn have written so much of the data (WroteTo).             *)
(***************************************************************************)
EXTENDS InodeData, WellFoundedInduction, SequenceTheorems, TLAPS

-----------------------------------------------------------------------------
(* Smallest numbers and functions defined by recursion.                    *)

\* The library's Min of a set of numbers is its smallest member.
LEMMA MinIs ==
  ASSUME NEW S, S \subseteq Nat, S # {}
  PROVE  Min(S) \in S /\ \A n \in S : Min(S) <= n
<1>1. PICK m \in S : \A n \in S : ~(<<n, m>> \in OpToRel(<, Nat))
  BY NatLessThanWellFounded, WFMin
<1>2. \A n \in S : ~(n < m)
  BY <1>1 DEF OpToRel
<1>3. \A n \in S : m <= n
  BY <1>2
<1> QED BY <1>3 DEF Min

\* A function on 0..N that begins with z and goes on with G.
Follows(f, N, z, G) == \A n \in 0..N : f[n] = IF n = 0 THEN z ELSE G[<<n, f[n - 1]>>]

\* There is such a function.
LEMMA Recursion ==
  ASSUME NEW T, NEW z \in T, NEW G \in [Nat \X T -> T], NEW N \in Nat
  PROVE  \E f \in [0..N -> T] : Follows(f, N, z, G)
<1> DEFINE Without == {n \in Nat : ~\E f \in [0..n -> T] : Follows(f, n, z, G)}
<1> SUFFICES ASSUME Without # {} PROVE FALSE
  OBVIOUS
<1>1. PICK n \in Without : \A m \in Without : n <= m
  <2>1. Min(Without) \in Without /\ \A m \in Without : Min(Without) <= m
    BY MinIs
  <2> QED BY <2>1
<1>2. CASE n = 0
  <2> DEFINE f == [m \in 0..0 |-> z]
  <2>1. f \in [0..0 -> T] /\ Follows(f, 0, z, G)
    BY DEF Follows
  <2> QED BY <1>2, <2>1
<1>3. CASE n # 0
  <2>1. n - 1 \in Nat /\ n - 1 \notin Without
    BY <1>1, <1>3
  <2>2. PICK f \in [0..(n - 1) -> T] : Follows(f, n - 1, z, G)
    BY <2>1
  <2> DEFINE g == [m \in 0..n |-> IF m = n THEN G[<<n, f[n - 1]>>] ELSE f[m]]
  <2>3. G[<<n, f[n - 1]>>] \in T
    BY <2>1, <2>2
  <2>4. \A m \in 0..n : m # n => m \in 0..(n - 1)
    BY <2>1
  <2>5. g \in [0..n -> T]
    BY <2>2, <2>3, <2>4
  <2>6. ASSUME NEW m \in 0..n PROVE g[m] = IF m = 0 THEN z ELSE G[<<m, g[m - 1]>>]
    <3>1. CASE m = n
      <4>1. n - 1 \in 0..n /\ n - 1 # n
        BY <2>1
      <4> QED BY <1>3, <3>1, <4>1
    <3>2. CASE m # n
      <4>1. m \in 0..(n - 1)
        BY <2>4, <3>2
      <4>2. m # 0 => m - 1 \in 0..n /\ m - 1 # n
        BY <4>1, <2>1
      <4>3. f[m] = IF m = 0 THEN z ELSE G[<<m, f[m - 1]>>]
        BY <2>2, <4>1 DEF Follows
      <4> QED BY <3>2, <4>2, <4>3
    <3> QED BY <3>1, <3>2
  <2>7. Follows(g, n, z, G)
    BY <2>6 DEF Follows
  <2> QED BY <1>1, <2>5, <2>7
<1> QED BY <1>2, <1>3

-----------------------------------------------------------------------------
(* The volumes of a set.                                                   *)

\* Volumes follow each other without a gap.
LEMMA StartsAre ==
  /\ Len(VolSizes) \in Nat \ {0} /\ Vols = 1..Len(VolSizes)
  /\ \A v \in Vols : VolSizes[v] \in Nat \ {0} /\ Start(v) \in Nat
  /\ Start(1) = 0
  /\ \A v \in Vols : v # 1 => v - 1 \in Vols /\ Start(v) = Start(v - 1) + VolSizes[v - 1]
<1>1. /\ Len(VolSizes) \in Nat \ {0} /\ Vols = 1..Len(VolSizes)
      /\ \A v \in Vols : VolSizes[v] \in Nat \ {0}
  BY VolumesOK DEF Vols
<1> DEFINE G == [p \in Nat \X Nat |-> IF p[1] \in Vols THEN p[2] + VolSizes[p[1]] ELSE 0]
           N == Len(VolSizes) - 1
<1>2. G \in [Nat \X Nat -> Nat] /\ N \in Nat
  BY <1>1
<1>3. PICK f \in [0..N -> Nat] : Follows(f, N, 0, G)
  <2> HIDE DEF G
  <2> QED BY <1>2, Recursion
<1> DEFINE g == [v \in Vols |-> f[v - 1]]
<1>4. \A v \in Vols : v - 1 \in 0..N /\ (v # 1 => v - 1 \in Vols /\ v - 2 \in 0..N)
  BY <1>1
<1>5. \A v \in Vols : g[v] = IF v = 1 THEN 0 ELSE g[v - 1] + VolSizes[v - 1]
  <2> SUFFICES ASSUME NEW v \in Vols PROVE g[v] = IF v = 1 THEN 0 ELSE g[v - 1] + VolSizes[v - 1]
    OBVIOUS
  <2>1. f[v - 1] = IF v - 1 = 0 THEN 0 ELSE G[<<v - 1, f[(v - 1) - 1]>>]
    BY <1>3, <1>4 DEF Follows
  <2>2. CASE v = 1
    BY <2>1, <2>2, <1>4
  <2>3. CASE v # 1
    <3>0. v - 1 \in Vols /\ v - 1 \in Nat /\ v - 1 # 0 /\ (v - 1) - 1 \in 0..N
      <4>1. v \in Nat /\ (v - 1) - 1 = v - 2
        BY <1>1
      <4> QED BY <1>1, <1>4, <2>3, <4>1
    <3>1. v - 1 \in Vols /\ v - 1 \in Nat /\ v - 1 # 0 /\ f[(v - 1) - 1] \in Nat
      BY <1>3, <3>0
    <3>2. G[<<v - 1, f[(v - 1) - 1]>>] = f[(v - 1) - 1] + VolSizes[v - 1]
      BY <3>1
    <3>3. g[v] = f[v - 1] /\ g[v - 1] = f[(v - 1) - 1]
      BY <3>1
    <3> HIDE DEF g, G
    <3> QED BY <2>1, <2>3, <3>1, <3>2, <3>3
  <2> QED BY <2>2, <2>3
<1>6. g = [v \in Vols |-> IF v = 1 THEN 0 ELSE g[v - 1] + VolSizes[v - 1]]
  BY <1>5
<1>7. Starts = [v \in Vols |-> IF v = 1 THEN 0 ELSE Starts[v - 1] + VolSizes[v - 1]]
  <2> HIDE DEF g
  <2> QED BY <1>6 DEF Starts
<1>8. \A v \in Vols : Starts[v] = IF v = 1 THEN 0 ELSE Starts[v - 1] + VolSizes[v - 1]
  BY <1>7
<1> DEFINE Odd == {v \in Nat : v \in Vols /\ Starts[v] \notin Nat}
<1>9. Odd = {}
  <2> SUFFICES ASSUME Odd # {} PROVE FALSE
    OBVIOUS
  <2>1. PICK v \in Odd : \A w \in Odd : v <= w
    <3>1. Min(Odd) \in Odd /\ \A w \in Odd : Min(Odd) <= w
      BY MinIs
    <3> QED BY <3>1
  <2>2. v # 1
    BY <1>8, <2>1
  <2>3. v - 1 \in Vols /\ v - 1 \in Nat /\ v - 1 \notin Odd
    BY <1>4, <2>1, <2>2
  <2>4. Starts[v - 1] \in Nat /\ VolSizes[v - 1] \in Nat
    BY <1>1, <2>3
  <2> QED BY <1>8, <2>1, <2>2, <2>4
<1>10. \A v \in Vols : Start(v) \in Nat
  BY <1>1, <1>9 DEF Start
<1> QED BY <1>1, <1>4, <1>8, <1>10 DEF Start

\* Every sector of the set is in a volume (mfsvol_get_volume).
LEMMA VolumeAtIs ==
  ASSUME NEW s \in 0..(Total - 1)
  PROVE  /\ VolumeAt(s) \in Vols /\ s - Start(VolumeAt(s)) \in SectorsOf(VolumeAt(s))
<1> DEFINE Behind == {v \in Nat : v \in Vols /\ s < Start(v) + VolSizes[v]}
<1>1. Total = Start(Len(VolSizes)) + VolSizes[Len(VolSizes)] /\ Len(VolSizes) \in Vols /\ Vols \subseteq Nat
  BY StartsAre DEF Total
<1>2. \A v \in Vols : Start(v) \in Nat /\ VolSizes[v] \in Nat
  BY StartsAre
<1>3. s \in Nat /\ s < Total
  BY <1>1, <1>2
<1>4. Len(VolSizes) \in Behind
  BY <1>1, <1>3
<1>5. PICK v \in Behind : \A w \in Behind : v <= w
  <2>1. Min(Behind) \in Behind /\ \A w \in Behind : Min(Behind) <= w
    BY <1>4, MinIs
  <2> QED BY <2>1
<1>6. Start(v) <= s
  <2>1. CASE v = 1
    BY <1>3, <2>1, StartsAre
  <2>2. CASE v # 1
    <3>1. v - 1 \in Vols /\ Start(v) = Start(v - 1) + VolSizes[v - 1] /\ v - 1 \notin Behind
      BY <1>5, <2>2, StartsAre
    <3>2. ~(s < Start(v - 1) + VolSizes[v - 1])
      BY <1>1, <3>1
    <3> QED BY <1>2, <1>3, <3>1, <3>2
  <2> QED BY <2>1, <2>2
<1>7. \E w \in Vols : Start(w) <= s /\ s < Start(w) + VolSizes[w]
  BY <1>5, <1>6
<1>8. VolumeAt(s) \in Vols /\ Start(VolumeAt(s)) <= s /\ s < Start(VolumeAt(s)) + VolSizes[VolumeAt(s)]
  BY <1>7 DEF VolumeAt
<1> QED BY <1>2, <1>3, <1>8 DEF SectorsOf

-----------------------------------------------------------------------------
(* The blocks in memory.                                                   *)

Block == {b \in [start : Nat, data : Seq(Vals)] : b.data # <<>>}
Holds(b, x) == b.start <= x /\ x < EndOf(b)
Apart(bs) == \A i, j \in DOMAIN bs : i < j => EndOf(bs[i]) < bs[j].start

\* A block holds a sector at least.
LEMMA BlockIs ==
  ASSUME NEW b \in Block
  PROVE  /\ b.start \in Nat /\ Len(b.data) \in Nat /\ EndOf(b) \in Nat /\ b.start < EndOf(b)
         /\ EndOf(b) = b.start + Len(b.data)
         /\ \A x \in Nat : Holds(b, x) => At(b, x) \in Vals
<1>1. b.start \in Nat /\ b.data \in Seq(Vals) /\ b.data # <<>>
  BY DEF Block
<1>2. Len(b.data) \in Nat /\ Len(b.data) # 0
  BY <1>1
<1>3. \A x \in Nat : Holds(b, x) => x - b.start + 1 \in 1..Len(b.data)
  BY <1>1, <1>2 DEF Holds, EndOf
<1>4. \A n \in 1..Len(b.data) : b.data[n] \in Vals
  BY <1>1
<1> QED BY <1>1, <1>2, <1>3, <1>4 DEF EndOf, At

\* The list of a volume.
LEMMA BlocksAre ==
  ASSUME NEW bs \in Seq(Block)
  PROVE  /\ Len(bs) \in Nat /\ DOMAIN bs = 1..Len(bs)
         /\ \A i \in DOMAIN bs : /\ bs[i] \in Block /\ bs[i].start \in Nat /\ EndOf(bs[i]) \in Nat
                                 /\ bs[i].start < EndOf(bs[i]) /\ i \in Nat
<1>1. Len(bs) \in Nat /\ DOMAIN bs = 1..Len(bs) /\ \A i \in DOMAIN bs : bs[i] \in Block
  OBVIOUS
<1> QED BY <1>1, BlockIs

\* Blocks apart are in the order of their sectors.
LEMMA ApartIs ==
  ASSUME NEW bs \in Seq(Block), Apart(bs), NEW i \in DOMAIN bs, NEW j \in DOMAIN bs
  PROVE  /\ i < j => bs[i].start < bs[j].start /\ EndOf(bs[i]) < bs[j].start /\ EndOf(bs[i]) < EndOf(bs[j])
         /\ i <= j => bs[i].start <= bs[j].start /\ EndOf(bs[i]) <= EndOf(bs[j])
<1>1. /\ i \in Nat /\ bs[i].start \in Nat /\ EndOf(bs[i]) \in Nat /\ bs[i].start < EndOf(bs[i])
      /\ j \in Nat /\ bs[j].start \in Nat /\ EndOf(bs[j]) \in Nat /\ bs[j].start < EndOf(bs[j])
  BY BlocksAre
<1>2. i < j => EndOf(bs[i]) < bs[j].start
  BY DEF Apart
<1>3. i <= j => i < j \/ i = j
  BY <1>1
<1> QED BY <1>1, <1>2, <1>3

\* The first block that reaches the sector s.
LEMMA FirstAtIs ==
  ASSUME NEW bs \in Seq(Block), NEW s \in Nat
  PROVE  /\ FirstAt(bs, s) \in 1..(Len(bs) + 1)
         /\ FirstAt(bs, s) \in DOMAIN bs => EndOf(bs[FirstAt(bs, s)]) >= s
         /\ \A j \in DOMAIN bs : j < FirstAt(bs, s) => EndOf(bs[j]) < s
<1> DEFINE S == {i \in DOMAIN bs : EndOf(bs[i]) >= s} \cup {Len(bs) + 1}
<1>1. Len(bs) \in Nat /\ DOMAIN bs = 1..Len(bs) /\ \A i \in DOMAIN bs : EndOf(bs[i]) \in Nat
  BY BlocksAre
<1>2. S \subseteq Nat /\ S # {}
  BY <1>1
<1>3. FirstAt(bs, s) \in S /\ \A j \in S : FirstAt(bs, s) <= j
  BY <1>2, MinIs DEF FirstAt
<1>4. FirstAt(bs, s) \in 1..(Len(bs) + 1)
  BY <1>1, <1>3
<1>5. FirstAt(bs, s) \in DOMAIN bs => EndOf(bs[FirstAt(bs, s)]) >= s
  <2>1. Len(bs) + 1 \notin DOMAIN bs
    BY <1>1
  <2> QED BY <1>3, <2>1
<1>6. ASSUME NEW j \in DOMAIN bs, j < FirstAt(bs, s) PROVE EndOf(bs[j]) < s
  <2>1. j \notin S
    BY <1>1, <1>3, <1>4, <1>6
  <2> QED BY <1>1, <2>1
<1> QED BY <1>4, <1>5, <1>6

\* Where a write of n sectors from s on, into the blocks bs, comes to.
Writing(bs, s, n) == bs \in Seq(Block) /\ Apart(bs) /\ s \in Nat /\ n \in Nat \ {0}

\* The grown block ends behind the sectors, between the block that ends there or later and
\* the ones behind it.
LEMMA LastSectorIs ==
  ASSUME NEW bs, NEW s, NEW n, Writing(bs, s, n)
  PROVE  /\ LastSector(bs, s, n) \in Nat /\ s + n <= LastSector(bs, s, n)
         /\ \A j \in DOMAIN bs : j >= FirstAt(bs, s) =>
              /\ bs[j].start < LastSector(bs, s, n) => EndOf(bs[j]) <= LastSector(bs, s, n)
              /\ ~(bs[j].start < LastSector(bs, s, n)) => bs[j].start > LastSector(bs, s, n)
         /\ LastSector(bs, s, n) # s + n =>
              \E m \in DOMAIN bs : /\ m >= FirstAt(bs, s) /\ LastSector(bs, s, n) = EndOf(bs[m])
                                   /\ bs[m].start <= s + n /\ bs[m].start < LastSector(bs, s, n)
         /\ FirstAt(bs, s) \in DOMAIN bs /\ bs[FirstAt(bs, s)].start <= s
              /\ EndOf(bs[FirstAt(bs, s)]) >= s + n => LastSector(bs, s, n) = EndOf(bs[FirstAt(bs, s)])
<1>0. bs \in Seq(Block) /\ Apart(bs) /\ s \in Nat /\ n \in Nat /\ n >= 1
  BY DEF Writing
<1> DEFINE i == FirstAt(bs, s)
           over == {j \in DOMAIN bs : j >= i /\ EndOf(bs[j]) >= s + n}
           last == LastSector(bs, s, n)
<1>1. /\ Len(bs) \in Nat /\ DOMAIN bs = 1..Len(bs)
      /\ \A j \in DOMAIN bs : /\ j \in Nat /\ bs[j].start \in Nat /\ EndOf(bs[j]) \in Nat
                              /\ bs[j].start < EndOf(bs[j])
      /\ \A j, l \in DOMAIN bs : j < l => EndOf(bs[j]) < bs[l].start /\ EndOf(bs[j]) < EndOf(bs[l])
      /\ \A j, l \in DOMAIN bs : j <= l => bs[j].start <= bs[l].start /\ EndOf(bs[j]) <= EndOf(bs[l])
      /\ i \in Nat
  <2>1. /\ Len(bs) \in Nat /\ DOMAIN bs = 1..Len(bs)
        /\ \A j \in DOMAIN bs : /\ j \in Nat /\ bs[j].start \in Nat /\ EndOf(bs[j]) \in Nat
                                /\ bs[j].start < EndOf(bs[j])
    BY <1>0, BlocksAre
  <2>2. i \in Nat
    <3>1. i \in 1..(Len(bs) + 1)
      BY <1>0, FirstAtIs
    <3> HIDE DEF i
    <3> QED BY <2>1, <3>1
  <2> HIDE DEF i, over, last
  <2>3. \A j, l \in DOMAIN bs :
          /\ j < l => EndOf(bs[j]) < bs[l].start /\ EndOf(bs[j]) < EndOf(bs[l])
          /\ j <= l => bs[j].start <= bs[l].start /\ EndOf(bs[j]) <= EndOf(bs[l])
    BY <1>0, ApartIs
  <2> QED BY <2>1, <2>2, <2>3
<1>2. over \subseteq Nat
  BY <1>1
<1>3. over # {} => Min(over) \in over /\ \A j \in over : Min(over) <= j
  BY <1>2, MinIs
<1>4. last = IF over # {} /\ bs[Min(over)].start <= s + n THEN EndOf(bs[Min(over)]) ELSE s + n
  BY DEF LastSector
<1> HIDE DEF last
<1>5. CASE over = {}
  <2>1. last = s + n
    BY <1>4, <1>5
  <2>2. \A j \in DOMAIN bs : j >= i => EndOf(bs[j]) < s + n
    BY <1>0, <1>1, <1>5
  <2>3. ~(i \in DOMAIN bs /\ bs[i].start <= s /\ EndOf(bs[i]) >= s + n)
    BY <1>1, <1>5
  <2> HIDE DEF i, over
  <2> QED BY <1>0, <1>1, <2>1, <2>2, <2>3 DEF i, last
<1>6. CASE over # {}
  <2>1. PICK m \in DOMAIN bs : /\ m = Min(over) /\ m >= i /\ EndOf(bs[m]) >= s + n
                               /\ \A j \in DOMAIN bs : j >= i /\ EndOf(bs[j]) >= s + n => m <= j
    BY <1>3, <1>6
  <2>2. \A j \in DOMAIN bs : j >= i /\ ~(m <= j) => EndOf(bs[j]) < s + n
    BY <1>0, <1>1, <2>1
  <2>3. CASE bs[m].start <= s + n
    <3>1. last = EndOf(bs[m])
      BY <1>4, <1>6, <2>1, <2>3
    <3> HIDE DEF over, i
    <3>2. ASSUME NEW j \in DOMAIN bs, j >= i
          PROVE  /\ bs[j].start < last => EndOf(bs[j]) <= last
                 /\ ~(bs[j].start < last) => bs[j].start > last
      <4>1. CASE j <= m
        <5>1. bs[j].start <= bs[m].start /\ EndOf(bs[j]) <= EndOf(bs[m]) /\ bs[m].start < EndOf(bs[m])
          BY <1>1, <4>1
        <5> QED BY <1>1, <3>1, <5>1
      <4>2. CASE ~(j <= m)
        <5>1. EndOf(bs[m]) < bs[j].start
          BY <1>1, <4>2
        <5> QED BY <1>1, <3>1, <5>1
      <4> QED BY <4>1, <4>2
    <3>3. bs[m].start < last /\ last \in Nat /\ s + n <= last
      BY <1>0, <1>1, <2>1, <3>1
    <3>4. ASSUME i \in DOMAIN bs, bs[i].start <= s, EndOf(bs[i]) >= s + n PROVE last = EndOf(bs[i])
      BY <1>1, <2>1, <3>1, <3>4
    <3> QED BY <2>1, <2>3, <3>1, <3>2, <3>3, <3>4 DEF i, last
  <2>4. CASE ~(bs[m].start <= s + n)
    <3>1. last = s + n
      BY <1>4, <2>1, <2>4
    <3> HIDE DEF over, i
    <3>2. ASSUME NEW j \in DOMAIN bs, j >= i
          PROVE  /\ bs[j].start < last => EndOf(bs[j]) <= last
                 /\ ~(bs[j].start < last) => bs[j].start > last
      <4>1. CASE m <= j
        <5>1. bs[m].start <= bs[j].start
          BY <1>1, <4>1
        <5> QED BY <1>0, <1>1, <2>4, <3>1, <5>1
      <4>2. CASE ~(m <= j)
        BY <1>0, <1>1, <2>2, <3>1, <3>2, <4>2
      <4> QED BY <4>1, <4>2
    <3>3. ~(i \in DOMAIN bs /\ bs[i].start <= s /\ EndOf(bs[i]) >= s + n)
      BY <1>0, <1>1, <2>1, <2>4
    <3>4. last \in Nat /\ s + n <= last
      BY <1>0, <3>1
    <3> QED BY <3>1, <3>2, <3>3, <3>4 DEF i, last
  <2> QED BY <2>3, <2>4
<1> QED BY <1>5, <1>6

-----------------------------------------------------------------------------
(* What a write makes of the list of a volume.                             *)

\* Where the grown block starts, and the first block behind it.
FirstOf(bs, s) == IF Reused(bs, s) THEN bs[FirstAt(bs, s)].start ELSE s
Behind(bs, s, n) == {j \in DOMAIN bs : /\ IF Reused(bs, s) THEN j > FirstAt(bs, s) ELSE j >= FirstAt(bs, s)
                                       /\ ~(bs[j].start < LastSector(bs, s, n))}
NextOf(bs, s, n) == IF Behind(bs, s, n) = {} THEN Len(bs) + 1 ELSE Min(Behind(bs, s, n))

\* The blocks before the grown one end before it, those behind it start after it, and those
\* between lie within it.
WriteParts(bs, s, n) ==
  /\ FirstAt(bs, s) \in 1..(Len(bs) + 1)
  /\ NextOf(bs, s, n) \in FirstAt(bs, s)..(Len(bs) + 1)
  /\ FirstOf(bs, s) \in Nat /\ LastSector(bs, s, n) \in Nat
  /\ FirstOf(bs, s) <= s /\ s + n <= LastSector(bs, s, n)
  /\ FirstOf(bs, s) # s => FirstAt(bs, s) \in DOMAIN bs /\ FirstOf(bs, s) = bs[FirstAt(bs, s)].start
  /\ \A j \in DOMAIN bs : j < FirstAt(bs, s) => EndOf(bs[j]) < FirstOf(bs, s)
  /\ \A j \in DOMAIN bs : j >= NextOf(bs, s, n) => bs[j].start > LastSector(bs, s, n)
  /\ \A j \in DOMAIN bs : j >= FirstAt(bs, s) /\ j < NextOf(bs, s, n) =>
        FirstOf(bs, s) <= bs[j].start /\ EndOf(bs[j]) <= LastSector(bs, s, n)

LEMMA WritePartsAre ==
  ASSUME NEW bs, NEW s, NEW n, Writing(bs, s, n)
  PROVE  WriteParts(bs, s, n)
<1> DEFINE i == FirstAt(bs, s)
           last == LastSector(bs, s, n)
           first == FirstOf(bs, s)
           k == NextOf(bs, s, n)
           behind == Behind(bs, s, n)
<1>1. bs \in Seq(Block) /\ Apart(bs) /\ s \in Nat /\ n \in Nat /\ n >= 1
  BY DEF Writing
<1>2. /\ Len(bs) \in Nat /\ DOMAIN bs = 1..Len(bs)
      /\ \A j \in DOMAIN bs : /\ j \in Nat /\ bs[j].start \in Nat /\ EndOf(bs[j]) \in Nat
                              /\ bs[j].start < EndOf(bs[j])
      /\ \A j, l \in DOMAIN bs : j < l => EndOf(bs[j]) < bs[l].start
      /\ \A j, l \in DOMAIN bs : j <= l => bs[j].start <= bs[l].start
  BY <1>1, BlocksAre, ApartIs
<1>3. /\ i \in 1..(Len(bs) + 1) /\ i \in Nat
      /\ i \in DOMAIN bs => EndOf(bs[i]) >= s
      /\ \A j \in DOMAIN bs : j < i => EndOf(bs[j]) < s
  <2>1. i \in 1..(Len(bs) + 1)
    BY <1>1, FirstAtIs
  <2>2. i \in Nat
    BY <1>2, <2>1
  <2> HIDE DEF i
  <2> QED BY <1>1, <2>1, <2>2, FirstAtIs DEF i
<1>4. /\ last \in Nat /\ s + n <= last
      /\ \A j \in DOMAIN bs : j >= i =>
           /\ bs[j].start < last => EndOf(bs[j]) <= last
           /\ ~(bs[j].start < last) => bs[j].start > last
  BY LastSectorIs
<1>5. /\ first = IF Reused(bs, s) THEN bs[i].start ELSE s
      /\ Reused(bs, s) <=> i \in DOMAIN bs /\ bs[i].start <= s
      /\ \A j : j \in behind <=> /\ j \in DOMAIN bs
                                 /\ IF Reused(bs, s) THEN j > i ELSE j >= i
                                 /\ ~(bs[j].start < last)
      /\ k = IF behind = {} THEN Len(bs) + 1 ELSE Min(behind)
  BY DEF FirstOf, Reused, Behind, NextOf
<1>6. behind # {} => Min(behind) \in behind /\ \A j \in behind : Min(behind) <= j
  <2>1. behind \subseteq Nat
    BY <1>2, <1>5
  <2> QED BY <2>1, MinIs
<1> HIDE DEF i, last, first, k, behind
<1>7. first \in Nat /\ first <= s /\ (first # s => i \in DOMAIN bs /\ first = bs[i].start)
  BY <1>1, <1>2, <1>5
<1>8. k \in i..(Len(bs) + 1)
  BY <1>2, <1>3, <1>5, <1>6
<1>9. ASSUME NEW j \in DOMAIN bs, j < i PROVE EndOf(bs[j]) < first
  BY <1>1, <1>2, <1>3, <1>5, <1>9
<1>10. ASSUME NEW j \in DOMAIN bs, j >= k PROVE bs[j].start > last
  <2>1. behind # {} /\ k \in behind
    BY <1>2, <1>5, <1>6, <1>10
  <2>2. k \in DOMAIN bs /\ k >= i /\ ~(bs[k].start < last)
    BY <1>2, <1>3, <1>5, <2>1, SMTT(40)
  <2>3. bs[k].start <= bs[j].start
    BY <1>2, <1>10, <2>2
  <2> QED BY <1>2, <1>4, <2>2, <2>3
<1>11. ASSUME NEW j \in DOMAIN bs, j >= i, j < k PROVE first <= bs[j].start /\ EndOf(bs[j]) <= last
  <2>1. bs[i].start <= bs[j].start /\ i \in DOMAIN bs
    BY <1>2, <1>3, <1>11
  <2>2. first <= bs[j].start
    BY <1>1, <1>2, <1>5, <2>1
  <2>3. CASE Reused(bs, s) /\ j = i
    <3>1. bs[j].start < last
      BY <1>1, <1>2, <1>4, <1>5, <2>3
    <3> QED BY <1>4, <1>11, <2>2, <3>1
  <2>4. CASE ~(Reused(bs, s) /\ j = i)
    <3>1. IF Reused(bs, s) THEN j > i ELSE j >= i
      BY <1>2, <1>3, <1>11, <2>4
    <3>2. j \notin behind
      BY <1>2, <1>3, <1>5, <1>6, <1>8, <1>11
    <3>3. bs[j].start < last
      BY <1>5, <3>1, <3>2
    <3> QED BY <1>4, <1>11, <2>2, <3>3
  <2> QED BY <2>3, <2>4
<1> QED BY <1>3, <1>4, <1>7, <1>8, <1>9, <1>10, <1>11 DEF WriteParts, i, last, first, k

\* The grown block holds the data, and around it what one of the blocks it replaces held.
LEMMA ContentIs ==
  ASSUME NEW bs, NEW s, NEW data \in Seq(Vals), Writing(bs, s, Len(data)), NEW x \in Nat,
         FirstOf(bs, s) <= x, x < LastSector(bs, s, Len(data))
  PROVE  /\ x \in s..(s + Len(data) - 1) => Content(bs, s, data, x) = data[x - s + 1]
         /\ x \notin s..(s + Len(data) - 1) =>
              \E j \in DOMAIN bs : Holds(bs[j], x) /\ Content(bs, s, data, x) = At(bs[j], x)
<1> DEFINE n == Len(data)
           i == FirstAt(bs, s)
           last == LastSector(bs, s, n)
           joined == Joined(bs, s, n)
           tail == {j \in joined : x \in bs[j].start..(EndOf(bs[j]) - 1)}
<1>1. bs \in Seq(Block) /\ s \in Nat /\ n \in Nat /\ n >= 1
  BY DEF Writing
<1>2. /\ Len(bs) \in Nat /\ DOMAIN bs = 1..Len(bs)
      /\ \A j \in DOMAIN bs : /\ j \in Nat /\ bs[j].start \in Nat /\ EndOf(bs[j]) \in Nat
                              /\ bs[j].start < EndOf(bs[j])
  BY <1>1, BlocksAre
<1>3. i \in Nat /\ (i \in DOMAIN bs => EndOf(bs[i]) >= s)
  <2>1. i \in 1..(Len(bs) + 1) /\ (i \in DOMAIN bs => EndOf(bs[i]) >= s)
    BY <1>1, FirstAtIs
  <2> HIDE DEF i
  <2> QED BY <1>2, <2>1
<1>4. /\ last \in Nat /\ s + n <= last
      /\ last # s + n => \E m \in DOMAIN bs : /\ m >= i /\ last = EndOf(bs[m])
                                              /\ bs[m].start <= s + n /\ bs[m].start < last
  BY LastSectorIs
<1>5. Content(bs, s, data, x) =
        IF x \in s..(s + n - 1) THEN data[x - s + 1]
        ELSE IF Reused(bs, s) /\ x < EndOf(bs[i]) THEN At(bs[i], x)
        ELSE IF tail # {} THEN At(bs[Min(tail)], x)
        ELSE Junk
  BY DEF Content
<1>6. /\ FirstOf(bs, s) = IF Reused(bs, s) THEN bs[i].start ELSE s
      /\ Reused(bs, s) <=> i \in DOMAIN bs /\ bs[i].start <= s
      /\ joined = {j \in DOMAIN bs : /\ IF Reused(bs, s) THEN j > i ELSE j >= i
                                     /\ bs[j].start < last}
  BY DEF FirstOf, Reused, Joined
<1>7. tail # {} => Min(tail) \in tail
  <2>1. tail \subseteq Nat
    BY <1>2, <1>6
  <2> QED BY <2>1, MinIs
<1> HIDE DEF i, last, joined
<1>8. ASSUME x \notin s..(s + n - 1), Reused(bs, s), x < EndOf(bs[i])
      PROVE  \E j \in DOMAIN bs : Holds(bs[j], x) /\ Content(bs, s, data, x) = At(bs[j], x)
  <2>1. Holds(bs[i], x) /\ i \in DOMAIN bs
    BY <1>6, <1>8 DEF Holds
  <2> QED BY <1>5, <1>8, <2>1
<1>9. ASSUME x \notin s..(s + n - 1), ~(Reused(bs, s) /\ x < EndOf(bs[i]))
      PROVE  \E j \in DOMAIN bs : Holds(bs[j], x) /\ Content(bs, s, data, x) = At(bs[j], x)
  <2>1. x >= s + n
    <3>1. x >= s
      BY <1>1, <1>2, <1>3, <1>6, <1>9
    <3> QED BY <1>1, <1>9, <3>1
  <2>2. PICK m \in DOMAIN bs : m >= i /\ last = EndOf(bs[m]) /\ bs[m].start <= s + n /\ bs[m].start < last
    BY <1>1, <1>4, <2>1 DEF last, n
  <2>3. m \in joined
    <3>1. Reused(bs, s) => m # i
      BY <1>9, <2>2 DEF last, n
    <3> QED BY <1>2, <1>3, <1>6, <2>2, <3>1
  <2>4. m \in tail
    BY <1>1, <1>2, <2>1, <2>2, <2>3 DEF last, n
  <2>5. Min(tail) \in joined /\ x \in bs[Min(tail)].start..(EndOf(bs[Min(tail)]) - 1)
    BY <1>7, <2>4
  <2>6. Min(tail) \in DOMAIN bs
    BY <1>6, <2>5
  <2>7. Holds(bs[Min(tail)], x)
    BY <1>2, <2>5, <2>6 DEF Holds
  <2>8. Content(bs, s, data, x) = At(bs[Min(tail)], x)
    BY <1>5, <1>9, <2>4
  <2> HIDE DEF tail
  <2> QED BY <2>6, <2>7, <2>8
<1> QED BY <1>5, <1>8, <1>9

\* The grown block.
LEMMA GrownIs ==
  ASSUME NEW bs, NEW s, NEW data \in Seq(Vals), Writing(bs, s, Len(data))
  PROVE  /\ Grown(bs, s, data) \in Block
         /\ Grown(bs, s, data).start = FirstOf(bs, s)
         /\ EndOf(Grown(bs, s, data)) = LastSector(bs, s, Len(data))
         /\ \A x \in Nat : FirstOf(bs, s) <= x /\ x < LastSector(bs, s, Len(data)) =>
              At(Grown(bs, s, data), x) = Content(bs, s, data, x)
<1> DEFINE n == Len(data)
           i == FirstAt(bs, s)
           last == LastSector(bs, s, n)
           first == FirstOf(bs, s)
           g == Grown(bs, s, data)
<1>1. bs \in Seq(Block) /\ s \in Nat /\ n \in Nat /\ n >= 1
  BY DEF Writing
<1>2. /\ first \in Nat /\ last \in Nat /\ first <= s /\ s + n <= last
  BY WritePartsAre DEF WriteParts
<1>3. Reused(bs, s) /\ EndOf(bs[i]) >= s + n => last = EndOf(bs[i])
  <2>1. i \in DOMAIN bs /\ bs[i].start <= s /\ EndOf(bs[i]) >= s + n => last = EndOf(bs[i])
    BY LastSectorIs
  <2> QED BY <2>1 DEF Reused
<1>4. g = [start |-> first, data |-> [m \in 1..(last - first) |-> Content(bs, s, data, first + m - 1)]]
  <2> DEFINE end == IF Reused(bs, s) /\ EndOf(bs[i]) >= s + n THEN EndOf(bs[i]) ELSE last
  <2>1. end = last
    BY <1>3
  <2>2. g = [start |-> first, data |-> [m \in 1..(end - first) |-> Content(bs, s, data, first + m - 1)]]
    BY DEF Grown, FirstOf
  <2> HIDE DEF end
  <2> QED BY <2>1, <2>2
<1> HIDE DEF i, last, first, g
<1>5. \A x \in Nat : first <= x /\ x < last => Content(bs, s, data, x) \in Vals
  <2> SUFFICES ASSUME NEW x \in Nat, first <= x, x < last PROVE Content(bs, s, data, x) \in Vals
    OBVIOUS
  <2>1. CASE x \in s..(s + n - 1)
    <3>1. x - s + 1 \in 1..Len(data)
      BY <1>1, <2>1
    <3>2. data[x - s + 1] \in Vals
      BY <3>1
    <3> QED BY <2>1, <3>2, ContentIs DEF first, last
  <2>2. CASE x \notin s..(s + n - 1)
    <3>1. PICK j \in DOMAIN bs : Holds(bs[j], x) /\ Content(bs, s, data, x) = At(bs[j], x)
      BY <2>2, ContentIs DEF first, last
    <3>2. bs[j] \in Block
      BY <1>1, <3>1, BlocksAre
    <3> QED BY <3>1, <3>2, BlockIs
  <2> QED BY <2>1, <2>2
<1>6. last - first \in Nat \ {0}
  BY <1>1, <1>2
<1>7. \A m \in 1..(last - first) : first + m - 1 \in Nat /\ first <= first + m - 1 /\ first + m - 1 < last
  BY <1>2, <1>6
<1>8. g.data \in [1..(last - first) -> Vals]
  BY <1>4, <1>5, <1>7
<1>9. g.data \in Seq(Vals) /\ Len(g.data) = last - first /\ g.data # <<>>
  BY <1>6, <1>8
<1>10. g \in Block /\ g.start = first
  <2>1. g = [start |-> g.start, data |-> g.data] /\ g.start = first
    BY <1>4
  <2> QED BY <1>2, <1>9, <2>1 DEF Block
<1>11. EndOf(g) = last
  BY <1>2, <1>9, <1>10 DEF EndOf
<1>12. ASSUME NEW x \in Nat, first <= x, x < last PROVE At(g, x) = Content(bs, s, data, x)
  <2>1. x - first + 1 \in 1..(last - first) /\ first + (x - first + 1) - 1 = x
    BY <1>2, <1>12
  <2>2. At(g, x) = g.data[x - first + 1]
    BY <1>10 DEF At
  <2> QED BY <1>4, <2>1, <2>2
<1> QED BY <1>10, <1>11, <1>12 DEF g, first, last

\* The list: the blocks before it, the grown block, the blocks behind it.
LEMMA WrittenIs ==
  ASSUME NEW bs, NEW s, NEW data \in Seq(Vals), Writing(bs, s, Len(data))
  PROVE  LET i == FirstAt(bs, s)
             k == NextOf(bs, s, Len(data))
             new == Written(bs, s, data)
         IN  /\ new \in Seq(Block) /\ Len(new) = i + Len(bs) + 1 - k
             /\ \A j \in DOMAIN new : IF j < i THEN j \in DOMAIN bs /\ new[j] = bs[j]
                                      ELSE IF j = i THEN new[j] = Grown(bs, s, data)
                                      ELSE j - i - 1 + k \in DOMAIN bs /\ new[j] = bs[j - i - 1 + k]
<1> DEFINE n == Len(data)
           i == FirstAt(bs, s)
           last == LastSector(bs, s, n)
           k == NextOf(bs, s, n)
           new == Written(bs, s, data)
           after == IF Reused(bs, s) THEN ({j \in DOMAIN bs : j >= i} \ Joined(bs, s, n)) \ {i}
                    ELSE {j \in DOMAIN bs : j >= i} \ Joined(bs, s, n)
           behind == Behind(bs, s, n)
           g == Grown(bs, s, data)
           tail == IF behind = {} THEN <<>> ELSE SubSeq(bs, Min(behind), Len(bs))
<1>1. bs \in Seq(Block) /\ s \in Nat /\ n \in Nat /\ n >= 1
  BY DEF Writing
<1>2. Len(bs) \in Nat /\ DOMAIN bs = 1..Len(bs)
  BY <1>1
<1>3. i \in 1..(Len(bs) + 1) /\ k \in i..(Len(bs) + 1)
  BY WritePartsAre DEF WriteParts
<1>4. i \in Nat /\ k \in Nat
  <2> HIDE DEF i, k
  <2> QED BY <1>2, <1>3
<1>5. after = behind
  <2>1. \A j : j \in Joined(bs, s, n) <=> /\ j \in DOMAIN bs
                                          /\ IF Reused(bs, s) THEN j > i ELSE j >= i
                                          /\ bs[j].start < last
    BY DEF Joined
  <2>2. \A j : j \in behind <=> /\ j \in DOMAIN bs
                                /\ IF Reused(bs, s) THEN j > i ELSE j >= i
                                /\ ~(bs[j].start < last)
    BY DEF Behind
  <2>3. \A j \in DOMAIN bs : j \in Nat
    BY <1>2
  <2>4. \A j : j \in after <=> /\ j \in DOMAIN bs /\ j >= i /\ j \notin Joined(bs, s, n)
                               /\ Reused(bs, s) => j # i
    OBVIOUS
  <2> HIDE DEF i, last, behind, after
  <2>5. \A j : j \in after <=> j \in behind
    BY <1>4, <2>1, <2>2, <2>3, <2>4
  <2> QED BY <2>5
<1>6. new = SubSeq(bs, 1, i - 1) \o <<g>> \o (IF after = {} THEN <<>> ELSE SubSeq(bs, Min(after), Len(bs)))
  BY DEF Written
<1>7. new = SubSeq(bs, 1, i - 1) \o <<g>> \o tail
  <2> HIDE DEF after, behind, g, new, i
  <2> QED BY <1>5, <1>6
<1>8. k = IF behind = {} THEN Len(bs) + 1 ELSE Min(behind)
  BY DEF NextOf
<1>9. g \in Block
  BY GrownIs
<1> HIDE DEF i, k, new, after, behind, g
<1>10. tail \in Seq(Block) /\ Len(tail) = Len(bs) + 1 - k /\ \A j \in 1..Len(tail) : tail[j] = bs[j + k - 1]
  <2>1. CASE behind = {}
    BY <1>1, <1>2, <1>8, <2>1
  <2>2. CASE behind # {}
    <3>1. tail = SubSeq(bs, k, Len(bs)) /\ k \in 1..(Len(bs) + 1)
      BY <1>2, <1>3, <1>4, <1>8, <2>2, SMTT(40)
    <3> HIDE DEF tail
    <3>2. /\ SubSeq(bs, k, Len(bs)) \in Seq(Block) /\ Len(SubSeq(bs, k, Len(bs))) = Len(bs) + 1 - k
          /\ \A j \in 1..(Len(bs) + 1 - k) : SubSeq(bs, k, Len(bs))[j] = bs[k + j - 1]
      BY <1>1, <1>2, <1>4, <3>1
    <3>3. \A j \in 1..(Len(bs) + 1 - k) : k + j - 1 = j + k - 1
      BY <1>2, <1>4
    <3> QED BY <3>1, <3>2, <3>3
  <2> QED BY <2>1, <2>2
<1> HIDE DEF tail
<1>11. /\ SubSeq(bs, 1, i - 1) \in Seq(Block) /\ Len(SubSeq(bs, 1, i - 1)) = i - 1
       /\ \A j \in 1..(i - 1) : SubSeq(bs, 1, i - 1)[j] = bs[j] /\ j \in DOMAIN bs
  BY <1>1, <1>2, <1>3, <1>4
<1> DEFINE front == SubSeq(bs, 1, i - 1) \o <<g>>
<1>12. /\ front \in Seq(Block) /\ Len(front) = i /\ front[i] = g
       /\ \A j \in 1..(i - 1) : front[j] = bs[j]
  BY <1>3, <1>4, <1>9, <1>11
<1>13. new = front \o tail
  BY <1>7
<1> HIDE DEF front
<1>14. new \in Seq(Block) /\ Len(new) = i + Len(bs) + 1 - k /\ DOMAIN new = 1..Len(new)
  <2>1. new \in Seq(Block) /\ Len(new) = Len(front) + Len(tail) /\ DOMAIN new = 1..Len(new)
    <3>1. front \in Seq(Block) /\ tail \in Seq(Block)
      BY <1>10, <1>12
    <3>2. front \o tail \in Seq(Block) /\ Len(front \o tail) = Len(front) + Len(tail)
      BY <3>1
    <3>3. new \in Seq(Block) /\ Len(new) = Len(front) + Len(tail)
      BY <1>13, <3>2
    <3> QED BY <3>3
  <2>2. i + (Len(bs) + 1 - k) = i + Len(bs) + 1 - k
    BY <1>2, <1>4
  <2> QED BY <1>10, <1>12, <2>1, <2>2
<1>15. ASSUME NEW j \in DOMAIN new
       PROVE  IF j < i THEN j \in DOMAIN bs /\ new[j] = bs[j]
              ELSE IF j = i THEN new[j] = g
              ELSE j - i - 1 + k \in DOMAIN bs /\ new[j] = bs[j - i - 1 + k]
  <2>0. j \in Nat /\ j >= 1 /\ j <= i + Len(bs) + 1 - k
    BY <1>2, <1>4, <1>14
  <2>1. CASE j <= i
    <3>1. new[j] = front[j]
      BY <1>4, <1>10, <1>12, <1>13, <2>0, <2>1
    <3> QED BY <1>4, <1>11, <1>12, <2>0, <2>1, <3>1
  <2>2. CASE j > i
    <3>1. j - i \in 1..Len(tail)
      BY <1>2, <1>4, <1>10, <2>0, <2>2
    <3>2. new[j] = tail[j - i]
      <4>1. front \in Seq(Block) /\ tail \in Seq(Block) /\ j \in 1..(Len(front) + Len(tail)) /\ j > Len(front)
        BY <1>2, <1>4, <1>10, <1>12, <1>14, <2>0, <2>2
      <4>2. (front \o tail)[j] = tail[j - Len(front)]
        BY <4>1
      <4> QED BY <1>12, <1>13, <4>2
    <3>3. (j - i) + k - 1 = j - i - 1 + k /\ j - i - 1 + k \in 1..Len(bs)
      <4>1. PICK m \in Nat : m = Len(bs)
        BY <1>2
      <4>2. k >= 1 /\ j <= i + m + 1 - k
        BY <1>3, <1>4, <2>0, <4>1
      <4>3. (j - i) + k - 1 = j - i - 1 + k
        BY <1>4, <2>0
      <4>4. j - i - 1 + k \in 1..m
        BY <1>4, <2>0, <2>2, <4>2
      <4> QED BY <4>1, <4>3, <4>4
    <3>4. tail[j - i] = bs[j - i - 1 + k]
      BY <1>10, <3>1, <3>3
    <3>5. ~(j < i) /\ j # i
      BY <1>4, <2>0, <2>2
    <3> QED BY <1>2, <3>2, <3>3, <3>4, <3>5
  <2> QED BY <1>4, <2>0, <2>1, <2>2
<1> QED BY <1>14, <1>15 DEF i, k, new, g

\* A write leaves the blocks apart.
LEMMA WrittenApart ==
  ASSUME NEW bs, NEW s, NEW data \in Seq(Vals), Writing(bs, s, Len(data))
  PROVE  Apart(Written(bs, s, data))
<1> DEFINE i == FirstAt(bs, s)
           last == LastSector(bs, s, Len(data))
           first == FirstOf(bs, s)
           k == NextOf(bs, s, Len(data))
           new == Written(bs, s, data)
           g == Grown(bs, s, data)
<1>1. bs \in Seq(Block) /\ Apart(bs) /\ s \in Nat /\ Len(data) \in Nat /\ Len(data) >= 1
  BY DEF Writing
<1>2. /\ Len(bs) \in Nat /\ DOMAIN bs = 1..Len(bs)
      /\ \A j \in DOMAIN bs : bs[j].start \in Nat /\ EndOf(bs[j]) \in Nat /\ j \in Nat
      /\ \A j, l \in DOMAIN bs : j < l => EndOf(bs[j]) < bs[l].start
  BY <1>1, BlocksAre, ApartIs
<1>3. /\ i \in 1..(Len(bs) + 1) /\ k \in i..(Len(bs) + 1)
      /\ first \in Nat /\ last \in Nat /\ first <= s /\ s + Len(data) <= last
      /\ \A j \in DOMAIN bs : j < i => EndOf(bs[j]) < first
      /\ \A j \in DOMAIN bs : j >= k => bs[j].start > last
  BY WritePartsAre DEF WriteParts
<1>4. g.start = first /\ EndOf(g) = last
  BY GrownIs
<1>5. /\ Len(new) = i + Len(bs) + 1 - k /\ DOMAIN new = 1..Len(new)
      /\ \A j \in DOMAIN new : IF j < i THEN j \in DOMAIN bs /\ new[j] = bs[j]
                               ELSE IF j = i THEN new[j] = g
                               ELSE j - i - 1 + k \in DOMAIN bs /\ new[j] = bs[j - i - 1 + k]
  <2>1. new \in Seq(Block)
    BY WrittenIs
  <2>2. DOMAIN new = 1..Len(new)
    <3> HIDE DEF new
    <3> QED BY <2>1
  <2> QED BY <2>2, WrittenIs
<1> HIDE DEF i, last, first, k, new, g
<1>6. i \in Nat /\ k \in Nat /\ Len(new) \in Nat
  <2>1. i \in Nat
    BY <1>2, <1>3
  <2>2. k \in Nat
    BY <1>2, <1>3, <2>1
  <2> QED BY <1>2, <1>3, <1>5, <2>1, <2>2
<1>7. first < last
  BY <1>1, <1>3
<1>8. ASSUME NEW a \in DOMAIN new, NEW b \in DOMAIN new, a < b
      PROVE  EndOf(new[a]) < new[b].start
  <2>0. a \in Nat /\ b \in Nat
    BY <1>5, <1>6
  <2>1. CASE b < i
    <3>1. a < i
      BY <1>6, <1>8, <2>0, <2>1
    <3>2. new[a] = bs[a] /\ new[b] = bs[b] /\ a \in DOMAIN bs /\ b \in DOMAIN bs
      BY <1>5, <2>1, <3>1
    <3> QED BY <1>2, <1>8, <3>2
  <2>2. CASE b = i
    <3>1. a < i
      BY <1>8, <2>2
    <3>2. new[a] = bs[a] /\ a \in DOMAIN bs /\ new[b] = g
      BY <1>5, <2>2, <3>1, <1>6
    <3> QED BY <1>3, <1>4, <3>1, <3>2
  <2>3. CASE b > i
    <3>1. b - i - 1 + k \in DOMAIN bs /\ new[b] = bs[b - i - 1 + k]
      BY <1>5, <1>6, <2>0, <2>3
    <3>2. b - i - 1 + k >= k
      BY <1>6, <2>0, <2>3
    <3>3. new[b].start > last /\ new[b].start \in Nat
      BY <1>2, <1>3, <3>1, <3>2
    <3>4. CASE a < i
      <4>1. new[a] = bs[a] /\ a \in DOMAIN bs /\ EndOf(bs[a]) < first
        BY <1>3, <1>5, <3>4
      <4>2. EndOf(new[a]) \in Nat /\ EndOf(new[a]) < first
        BY <1>2, <4>1
      <4> QED BY <1>3, <1>7, <3>3, <4>2
    <3>5. CASE a = i
      <4>1. new[a] = g
        BY <1>5, <1>6, <3>5
      <4> QED BY <1>3, <1>4, <3>3, <4>1
    <3>6. CASE a > i
      <4>1. a - i - 1 + k \in DOMAIN bs /\ new[a] = bs[a - i - 1 + k]
        BY <1>5, <1>6, <2>0, <3>6
      <4>2. a - i - 1 + k < b - i - 1 + k
        BY <1>6, <1>8, <2>0
      <4> QED BY <1>2, <3>1, <4>1, <4>2
    <3> QED BY <1>6, <2>0, <3>4, <3>5, <3>6
  <2> QED BY <1>6, <2>0, <2>1, <2>2, <2>3
<1> QED BY <1>8 DEF Apart, new

\* What the blocks hold after a write: the data, and the rest as before.
Kept(bs, x, val) == \E l \in DOMAIN bs : Holds(bs[l], x) /\ At(bs[l], x) = val

LEMMA WrittenHolds ==
  ASSUME NEW bs, NEW s, NEW data \in Seq(Vals), Writing(bs, s, Len(data)), NEW x \in Nat
  PROVE  LET new == Written(bs, s, data)
             in == x \in s..(s + Len(data) - 1)
         IN  /\ \A j \in DOMAIN new : Holds(new[j], x) =>
                  IF in THEN At(new[j], x) = data[x - s + 1] ELSE Kept(bs, x, At(new[j], x))
             /\ in \/ (\E l \in DOMAIN bs : Holds(bs[l], x)) => \E j \in DOMAIN new : Holds(new[j], x)
<1> DEFINE n == Len(data)
           i == FirstAt(bs, s)
           last == LastSector(bs, s, n)
           first == FirstOf(bs, s)
           k == NextOf(bs, s, n)
           new == Written(bs, s, data)
           g == Grown(bs, s, data)
           in == x \in s..(s + n - 1)
<1>1. bs \in Seq(Block) /\ Apart(bs) /\ s \in Nat /\ n \in Nat /\ n >= 1
  BY DEF Writing
<1>2. /\ Len(bs) \in Nat /\ DOMAIN bs = 1..Len(bs)
      /\ \A j \in DOMAIN bs : bs[j].start \in Nat /\ EndOf(bs[j]) \in Nat /\ j \in Nat
  BY <1>1, BlocksAre
<1>3. /\ i \in 1..(Len(bs) + 1) /\ k \in i..(Len(bs) + 1)
      /\ first \in Nat /\ last \in Nat /\ first <= s /\ s + n <= last
      /\ \A j \in DOMAIN bs : j < i => EndOf(bs[j]) < first
      /\ \A j \in DOMAIN bs : j >= k => bs[j].start > last
      /\ \A j \in DOMAIN bs : j >= i /\ j < k => first <= bs[j].start /\ EndOf(bs[j]) <= last
  BY WritePartsAre DEF WriteParts
<1>4. g.start = first /\ EndOf(g) = last
  BY GrownIs
<1>5. /\ Len(new) = i + Len(bs) + 1 - k /\ DOMAIN new = 1..Len(new)
      /\ \A j \in DOMAIN new : IF j < i THEN j \in DOMAIN bs /\ new[j] = bs[j]
                               ELSE IF j = i THEN new[j] = g
                               ELSE j - i - 1 + k \in DOMAIN bs /\ new[j] = bs[j - i - 1 + k]
  <2>1. new \in Seq(Block)
    BY WrittenIs
  <2>2. DOMAIN new = 1..Len(new)
    <3> HIDE DEF new
    <3> QED BY <2>1
  <2> QED BY <2>2, WrittenIs
<1>6. first <= x /\ x < last =>
        /\ in => At(g, x) = data[x - s + 1]
        /\ ~in => Kept(bs, x, At(g, x))
  <2> SUFFICES ASSUME first <= x, x < last
               PROVE  /\ in => At(g, x) = data[x - s + 1]
                      /\ ~in => Kept(bs, x, At(g, x))
    OBVIOUS
  <2>1. At(g, x) = Content(bs, s, data, x)
    BY GrownIs
  <2>2. /\ in => Content(bs, s, data, x) = data[x - s + 1]
        /\ ~in => \E j \in DOMAIN bs : Holds(bs[j], x) /\ Content(bs, s, data, x) = At(bs[j], x)
    BY ContentIs
  <2> HIDE DEF g, in
  <2> QED BY <2>1, <2>2 DEF Kept
<1> HIDE DEF i, last, first, k, new, g
<1>7. i \in Nat /\ k \in Nat /\ Len(new) \in Nat
  <2>1. i \in Nat
    BY <1>2, <1>3
  <2>2. k \in Nat
    BY <1>2, <1>3, <2>1
  <2> QED BY <1>2, <1>3, <1>5, <2>1, <2>2
<1>8. ASSUME NEW j \in DOMAIN new, Holds(new[j], x)
      PROVE  IF in THEN At(new[j], x) = data[x - s + 1] ELSE Kept(bs, x, At(new[j], x))
  <2>0. j \in Nat
    BY <1>5, <1>7
  <2>1. CASE j < i
    <3>1. new[j] = bs[j] /\ j \in DOMAIN bs /\ EndOf(bs[j]) < first
      BY <1>3, <1>5, <2>1
    <3>2. x < first
      BY <1>2, <1>3, <1>8, <3>1 DEF Holds
    <3>3. ~in
      BY <1>1, <1>3, <3>2
    <3> QED BY <1>8, <3>1, <3>3 DEF Kept
  <2>2. CASE j = i
    <3>1. new[j] = g
      BY <1>5, <1>7, <2>2
    <3>2. first <= x /\ x < last
      BY <1>4, <1>8, <3>1 DEF Holds
    <3> QED BY <1>6, <3>1, <3>2
  <2>3. CASE j > i
    <3>1. j - i - 1 + k \in DOMAIN bs /\ new[j] = bs[j - i - 1 + k]
      BY <1>5, <1>7, <2>0, <2>3
    <3>2. j - i - 1 + k >= k
      BY <1>7, <2>0, <2>3
    <3>3. new[j].start > last /\ new[j].start \in Nat
      BY <1>2, <1>3, <3>1, <3>2
    <3>4. ~in
      BY <1>1, <1>3, <1>8, <3>3 DEF Holds
    <3> QED BY <1>8, <3>1, <3>4 DEF Kept
  <2> QED BY <1>7, <2>0, <2>1, <2>2, <2>3
<1>9. i \in DOMAIN new
  <2>1. i <= Len(new)
    BY <1>2, <1>3, <1>5, <1>7
  <2> QED BY <1>3, <1>5, <1>7, <2>1
<1>10. first <= x /\ x < last => \E j \in DOMAIN new : Holds(new[j], x)
  <2>1. new[i] = g
    BY <1>5, <1>7, <1>9
  <2> QED BY <1>4, <1>9, <2>1 DEF Holds
<1>11. ASSUME in PROVE \E j \in DOMAIN new : Holds(new[j], x)
  BY <1>1, <1>3, <1>10, <1>11
<1>12. ASSUME NEW l \in DOMAIN bs, Holds(bs[l], x) PROVE \E j \in DOMAIN new : Holds(new[j], x)
  <2>1. CASE l < i
    <3>1. l \in DOMAIN new
      BY <1>2, <1>5, <1>7, <1>9, <2>1
    <3>2. new[l] = bs[l]
      BY <1>5, <2>1, <3>1
    <3> QED BY <1>12, <3>1, <3>2
  <2>2. CASE l >= i /\ l < k
    <3>1. first <= bs[l].start /\ EndOf(bs[l]) <= last
      BY <1>3, <2>2
    <3> QED BY <1>2, <1>3, <1>10, <1>12, <3>1 DEF Holds
  <2>3. CASE l >= k
    <3>1. PICK m \in Nat : m = Len(bs)
      BY <1>2
    <3> DEFINE j == l + i + 1 - k
    <3>2. j \in Nat /\ j > i /\ j <= i + m + 1 - k /\ j >= 1 /\ j - i - 1 + k = l
      BY <1>2, <1>7, <2>3, <3>1, SMTT(40)
    <3>3. j \in DOMAIN new /\ ~(j < i) /\ j # i
      BY <1>5, <1>7, <3>1, <3>2
    <3>4. new[j] = bs[l]
      BY <1>5, <3>2, <3>3
    <3> QED BY <1>12, <3>3, <3>4
  <2> QED BY <1>2, <1>7, <2>1, <2>2, <2>3
<1> QED BY <1>8, <1>11, <1>12 DEF new

\* A block starts where one of the old ones did, or where the write did.
LEMMA WrittenStarts ==
  ASSUME NEW bs, NEW s, NEW data \in Seq(Vals), Writing(bs, s, Len(data)),
         NEW j \in DOMAIN Written(bs, s, data)
  PROVE  \/ Written(bs, s, data)[j].start = s
         \/ \E l \in DOMAIN bs : Written(bs, s, data)[j].start = bs[l].start
<1> DEFINE i == FirstAt(bs, s)
           k == NextOf(bs, s, Len(data))
           new == Written(bs, s, data)
           g == Grown(bs, s, data)
<1>1. IF j < i THEN j \in DOMAIN bs /\ new[j] = bs[j]
      ELSE IF j = i THEN new[j] = g
      ELSE j - i - 1 + k \in DOMAIN bs /\ new[j] = bs[j - i - 1 + k]
  BY WrittenIs
<1>2. g.start = FirstOf(bs, s)
  BY GrownIs
<1>3. FirstOf(bs, s) # s => i \in DOMAIN bs /\ FirstOf(bs, s) = bs[i].start
  BY WritePartsAre DEF WriteParts
<1> QED BY <1>1, <1>2, <1>3

-----------------------------------------------------------------------------
(* The inductive invariant.                                                *)

\* Contents for every sector of every volume.
Image(f) ==
  /\ f = [v \in Vols |-> f[v]]
  /\ \A v \in Vols : /\ f[v] = [x \in SectorsOf(v) |-> f[v][x]]
                     /\ \A x \in SectorsOf(v) : f[v][x] \in Vals \cup {Old(v, x)}

\* The list of a volume, of a drive with contents d, shows the contents w.
ListShows(bs, d, w, v) ==
  /\ bs \in Seq(Block) /\ Apart(bs)
  /\ \A i \in DOMAIN bs : bs[i].start \in SectorsOf(v)
  /\ \A x \in SectorsOf(v) :
       /\ \A i \in DOMAIN bs : Holds(bs[i], x) => At(bs[i], x) = w[x]
       /\ (\A i \in DOMAIN bs : ~Holds(bs[i], x)) => d[x] = w[x]

\* What the blocks of a volume and its drive hold together is what was written last.
MemInv ==
  /\ local \in BOOLEAN
  /\ Image(disk) /\ Image(view)
  /\ blocks = [v \in Vols |-> blocks[v]]
  /\ \A v \in Vols : ListShows(blocks[v], disk[v], view[v], v)
  /\ ~local => \A v \in Vols : blocks[v] = <<>>

LEMMA InitInv == Init => MemInv
<1> SUFFICES ASSUME Init PROVE MemInv
  OBVIOUS
<1>1. disk = Fresh /\ blocks = [v \in Vols |-> <<>>] /\ local = FALSE /\ view = Fresh
  BY DEF Init
<1>2. Image(Fresh)
  BY DEF Image, Fresh
<1>3. \A v \in Vols : blocks[v] = <<>> /\ disk[v] = view[v]
  BY <1>1
<1>4. ASSUME NEW d, NEW v PROVE ListShows(<<>>, d, d, v)
  BY DEF ListShows, Apart
<1> QED BY <1>1, <1>2, <1>3, <1>4 DEF MemInv

\* What a write to a volume leaves in its list, if every write stays in memory.
LEMMA ListAfter ==
  ASSUME NEW bs, NEW d, NEW w, NEW v \in Vols, ListShows(bs, d, w, v),
         w = [x \in SectorsOf(v) |-> w[x]],
         NEW t \in SectorsOf(v), NEW data \in Seq(Vals), data # <<>>
  PROVE  ListShows(Written(bs, t, data), d,
                   [x \in SectorsOf(v) |-> IF x - t + 1 \in DOMAIN data THEN data[x - t + 1] ELSE w[x]], v)
<1> DEFINE n == Len(data)
           new == Written(bs, t, data)
           w2 == [x \in SectorsOf(v) |-> IF x - t + 1 \in DOMAIN data THEN data[x - t + 1] ELSE w[x]]
<1>1. VolSizes[v] \in Nat /\ SectorsOf(v) \subseteq Nat
  BY StartsAre DEF SectorsOf
<1>2. t \in Nat /\ n \in Nat \ {0} /\ DOMAIN data = 1..n
  BY <1>1
<1>3. Writing(bs, t, n)
  BY <1>2 DEF Writing, ListShows
<1>4. new \in Seq(Block) /\ Apart(new)
  BY <1>3, WrittenIs, WrittenApart
<1>5. ASSUME NEW j \in DOMAIN new PROVE new[j].start \in SectorsOf(v)
  BY <1>3, WrittenStarts DEF ListShows
<1>6. ASSUME NEW x \in SectorsOf(v)
      PROVE  /\ \A i \in DOMAIN new : Holds(new[i], x) => At(new[i], x) = w2[x]
             /\ (\A i \in DOMAIN new : ~Holds(new[i], x)) => d[x] = w2[x]
  <2> DEFINE in == x \in t..(t + n - 1)
  <2>1. x \in Nat
    BY <1>1
  <2>2. /\ \A j \in DOMAIN new : Holds(new[j], x) =>
              IF in THEN At(new[j], x) = data[x - t + 1] ELSE Kept(bs, x, At(new[j], x))
        /\ in \/ (\E l \in DOMAIN bs : Holds(bs[l], x)) => \E j \in DOMAIN new : Holds(new[j], x)
    BY <1>3, <2>1, WrittenHolds
  <2>3. in <=> x - t + 1 \in DOMAIN data
    BY <1>2, <2>1
  <2>4. w2[x] = IF in THEN data[x - t + 1] ELSE w[x]
    BY <2>3
  <2>5. /\ \A i \in DOMAIN bs : Holds(bs[i], x) => At(bs[i], x) = w[x]
        /\ (\A i \in DOMAIN bs : ~Holds(bs[i], x)) => d[x] = w[x]
    BY DEF ListShows
  <2> HIDE DEF in, new, w2
  <2>6. \A val : Kept(bs, x, val) => val = w[x]
    BY <2>5 DEF Kept
  <2> QED BY <2>2, <2>4, <2>5, <2>6
<1> HIDE DEF new, w2
<1>7. ListShows(new, d, w2, v)
  BY <1>4, <1>5, <1>6 DEF ListShows
<1> QED BY <1>7 DEF new, w2

\* Writing into one volume of an image.
LEMMA WithIs ==
  ASSUME NEW f, Image(f), NEW v \in Vols, NEW t \in SectorsOf(v), NEW data \in Seq(Vals)
  PROVE  /\ Image(With(f, v, t, data))
         /\ With(f, v, t, data)[v] =
              [x \in SectorsOf(v) |-> IF x - t + 1 \in DOMAIN data THEN data[x - t + 1] ELSE f[v][x]]
         /\ \A u \in Vols : u # v => With(f, v, t, data)[u] = f[u]
<1> DEFINE g == With(f, v, t, data)
           img == [x \in SectorsOf(v) |-> IF x - t + 1 \in DOMAIN data THEN data[x - t + 1] ELSE f[v][x]]
<1>1. f = [u \in Vols |-> f[u]] /\ f[v] = [x \in SectorsOf(v) |-> f[v][x]]
  BY DEF Image
<1>2. DOMAIN f[v] = SectorsOf(v)
  BY <1>1
<1>3. g = [f EXCEPT ![v] = img]
  BY <1>2 DEF With
<1> HIDE DEF g, img
<1>4. g = [u \in Vols |-> g[u]] /\ g[v] = img /\ \A u \in Vols : u # v => g[u] = f[u]
  BY <1>1, <1>3
<1>5. img = [x \in SectorsOf(v) |-> img[x]]
  BY DEF img
<1>6. \A x \in SectorsOf(v) : img[x] \in Vals \cup {Old(v, x)}
  <2> SUFFICES ASSUME NEW x \in SectorsOf(v) PROVE img[x] \in Vals \cup {Old(v, x)}
    OBVIOUS
  <2>1. f[v][x] \in Vals \cup {Old(v, x)}
    BY DEF Image
  <2>2. \A m \in DOMAIN data : data[m] \in Vals
    OBVIOUS
  <2> QED BY <2>1, <2>2 DEF img
<1>7. ASSUME NEW u \in Vols
      PROVE  /\ g[u] = [x \in SectorsOf(u) |-> g[u][x]]
             /\ \A x \in SectorsOf(u) : g[u][x] \in Vals \cup {Old(u, x)}
  <2>1. CASE u = v
    BY <1>4, <1>5, <1>6, <2>1
  <2>2. CASE u # v
    BY <1>4, <2>2 DEF Image
  <2> QED BY <2>1, <2>2
<1> QED BY <1>4, <1>7 DEF Image, g, img

\* Drives with contents d and lists bs show the contents w; l is local.
Shows(d, bs, w, l) ==
  /\ Image(d) /\ Image(w)
  /\ bs = [v \in Vols |-> bs[v]]
  /\ \A v \in Vols : ListShows(bs[v], d[v], w[v], v)
  /\ ~l => \A v \in Vols : bs[v] = <<>>

\* Writing any data within the volumes, or behind them into memory.
LEMMA DataShown ==
  ASSUME NEW d, NEW bs, NEW w, Shows(d, bs, w, local),
         NEW s \in 0..(Total - 1), NEW data \in Seq(Vals), data # <<>>, NEW new \in WriteData(d, bs, s, data)
  PROVE  Shows(new.disk, new.blocks, With(w, VolumeAt(s), s - Start(VolumeAt(s)), data), local)
<1> DEFINE v == VolumeAt(s)
           t == s - Start(v)
           w1 == With(w, v, t, data)
<1>1. v \in Vols /\ t \in SectorsOf(v)
  BY VolumeAtIs
<1>2. Image(w) /\ Image(d) /\ bs = [u \in Vols |-> bs[u]]
  BY DEF Shows
<1>3. /\ Image(w1) /\ \A u \in Vols : u # v => w1[u] = w[u]
      /\ w1[v] = [x \in SectorsOf(v) |-> IF x - t + 1 \in DOMAIN data THEN data[x - t + 1] ELSE w[v][x]]
  BY <1>1, <1>2, WithIs
<1> HIDE DEF w1
<1>4. CASE local
  <2>1. new = [disk |-> d, blocks |-> [bs EXCEPT ![v] = Written(@, t, data)]]
    BY <1>4 DEF WriteData
  <2> DEFINE bs1 == [bs EXCEPT ![v] = Written(@, t, data)]
  <2>2. new.disk = d /\ new.blocks = bs1
    BY <2>1
  <2>3. /\ bs1 = [u \in Vols |-> bs1[u]] /\ bs1[v] = Written(bs[v], t, data)
        /\ \A u \in Vols : u # v => bs1[u] = bs[u]
    BY <1>1, <1>2
  <2> HIDE DEF bs1
  <2>4. ASSUME NEW u \in Vols PROVE ListShows(bs1[u], d[u], w1[u], u)
    <3>1. ListShows(bs[u], d[u], w[u], u)
      BY DEF Shows
    <3>2. CASE u = v
      <4>1. w[v] = [x \in SectorsOf(v) |-> w[v][x]]
        BY <1>1, <1>2 DEF Image
      <4>2. ListShows(Written(bs[v], t, data), d[v], w1[v], v)
        BY <1>1, <1>3, <3>1, <3>2, <4>1, ListAfter, SMTT(40)
      <4> QED BY <2>3, <3>2, <4>2
    <3>3. CASE u # v
      BY <1>3, <2>3, <3>1, <3>3
    <3> QED BY <3>2, <3>3
  <2>5. Shows(d, bs1, w1, local)
    BY <1>2, <1>3, <1>4, <2>3, <2>4 DEF Shows
  <2> QED BY <2>2, <2>5 DEF w1
<1>5. CASE ~local
  <2>1. new = [disk |-> With(d, v, t, data), blocks |-> bs]
    BY <1>5 DEF WriteData
  <2> DEFINE d1 == With(d, v, t, data)
  <2>2. new.disk = d1 /\ new.blocks = bs
    BY <2>1
  <2>3. /\ Image(d1) /\ \A u \in Vols : u # v => d1[u] = d[u]
        /\ d1[v] = [x \in SectorsOf(v) |-> IF x - t + 1 \in DOMAIN data THEN data[x - t + 1] ELSE d[v][x]]
    BY <1>1, <1>2, WithIs
  <2> HIDE DEF d1
  <2>4. \A u \in Vols : bs[u] = <<>> /\ \A x \in SectorsOf(u) : d[u][x] = w[u][x]
    BY <1>5 DEF Shows, ListShows
  <2>5. ASSUME NEW u \in Vols PROVE ListShows(bs[u], d1[u], w1[u], u)
    <3>1. \A x \in SectorsOf(u) : d1[u][x] = w1[u][x]
      <4>1. CASE u = v
        BY <1>3, <2>3, <2>4, <4>1
      <4>2. CASE u # v
        BY <1>3, <2>3, <2>4, <4>2
      <4> QED BY <4>1, <4>2
    <3>2. bs[u] = <<>>
      BY <2>4
    <3> QED BY <3>1, <3>2 DEF ListShows, Apart
  <2>6. Shows(d1, bs, w1, local)
    BY <1>2, <1>3, <2>3, <2>4, <2>5 DEF Shows
  <2> QED BY <2>2, <2>6 DEF w1
<1> QED BY <1>4, <1>5

LEMMA WriteInv ==
  ASSUME MemInv, NEW s \in 0..(Total - 1), NEW n \in 1..MaxCount, NEW val \in Vals,
         Write(s, [i \in 1..n |-> val])
  PROVE  MemInv'
<1> DEFINE data == [i \in 1..n |-> val]
<1>1. data \in Seq(Vals) /\ data # <<>>
  <2>1. n \in Nat /\ n >= 1
    BY VolumesOK
  <2>2. data \in Seq(Vals) /\ Len(data) = n
    BY <2>1
  <2> QED BY <2>1, <2>2
<1>2. PICK new \in WriteData(disk, blocks, s, data) : disk' = new.disk /\ blocks' = new.blocks
  BY DEF Write
<1>3. view' = With(view, VolumeAt(s), s - Start(VolumeAt(s)), data) /\ local' = local
  BY DEF Write
<1> HIDE DEF data
<1>4. Shows(disk, blocks, view, local)
  BY DEF MemInv, Shows
<1>5. Shows(disk', blocks', view', local)
  BY <1>1, <1>2, <1>3, <1>4, DataShown
<1> QED BY <1>3, <1>5 DEF MemInv, Shows

LEMMA NextInv == MemInv /\ [Next]_vars => MemInv'
<1> SUFFICES ASSUME MemInv, [Next]_vars PROVE MemInv'
  OBVIOUS
<1>1. ASSUME NEW s \in 0..(Total - 1), NEW n \in 1..MaxCount, NEW val \in Vals,
             Write(s, [i \in 1..n |-> val])
      PROVE  MemInv'
  BY <1>1, WriteInv
<1>2. CASE EnableMemwrite
  BY <1>2 DEF EnableMemwrite, MemInv
<1>3. CASE UNCHANGED vars
  BY <1>3 DEF vars, MemInv
<1> QED BY <1>1, <1>2, <1>3 DEF Next

\* What the list and the drive hold together is what was written last, in every reachable
\* state.
LEMMA AlwaysInv == Spec => []MemInv
<1> QED BY InitInv, NextInv, PTL DEF Spec

LEMMA InvApart ==
  ASSUME MemInv PROVE BlocksApart
<1>1. ASSUME NEW v \in Vols
      PROVE  /\ \A x \in SectorsOf(v) : {disk[v][x], view[v][x]} \subseteq Vals \cup {Old(v, x)}
             /\ DOMAIN disk[v] = SectorsOf(v) /\ DOMAIN view[v] = SectorsOf(v)
             /\ \A i \in DOMAIN blocks[v] : /\ blocks[v][i].start \in SectorsOf(v)
                                            /\ blocks[v][i].data \in Seq(Vals)
                                            /\ blocks[v][i].data # <<>>
             /\ \A i \in 1..(Len(blocks[v]) - 1) : EndOf(blocks[v][i]) < blocks[v][i + 1].start
  <2>1. ListShows(blocks[v], disk[v], view[v], v)
    BY DEF MemInv
  <2>2. /\ \A x \in SectorsOf(v) : {disk[v][x], view[v][x]} \subseteq Vals \cup {Old(v, x)}
        /\ DOMAIN disk[v] = SectorsOf(v) /\ DOMAIN view[v] = SectorsOf(v)
    <3>1. disk[v] = [x \in SectorsOf(v) |-> disk[v][x]] /\ view[v] = [x \in SectorsOf(v) |-> view[v][x]]
      BY DEF MemInv, Image
    <3> QED BY <3>1 DEF MemInv, Image
  <2>3. \A i \in DOMAIN blocks[v] : /\ blocks[v][i].start \in SectorsOf(v)
                                    /\ blocks[v][i].data \in Seq(Vals) /\ blocks[v][i].data # <<>>
    <3>1. \A i \in DOMAIN blocks[v] : blocks[v][i] \in Block
      BY <2>1, BlocksAre DEF ListShows
    <3> QED BY <2>1, <3>1 DEF ListShows, Block
  <2>4. \A i \in 1..(Len(blocks[v]) - 1) : EndOf(blocks[v][i]) < blocks[v][i + 1].start
    <3>1. Len(blocks[v]) \in Nat /\ DOMAIN blocks[v] = 1..Len(blocks[v])
      BY <2>1, BlocksAre DEF ListShows
    <3>2. \A i \in 1..(Len(blocks[v]) - 1) : i \in DOMAIN blocks[v] /\ i + 1 \in DOMAIN blocks[v] /\ i < i + 1
      BY <3>1
    <3> QED BY <2>1, <3>2 DEF ListShows, Apart
  <2> QED BY <2>2, <2>3, <2>4
<1>2. local \in BOOLEAN
  BY DEF MemInv
<1> QED BY <1>1, <1>2 DEF BlocksApart, TypeOK

\* Whatever was written, and where, the blocks of a volume are in order and neither overlap
\* nor touch, so that the searches of the read and write paths may stop at the first block
\* past a sector.
THEOREM BlocksStayApart == Spec => []BlocksApart
<1> QED BY InvApart, AlwaysInv, PTL

-----------------------------------------------------------------------------
(* The loop of mfsvol_read_data.                                           *)

\* Contents from one sector to another, and the two halves of them.
Stretch(f, a, b) == [n \in 1..(b - a) |-> f[a + n - 1]]

LEMMA JoinIs ==
  ASSUME NEW T, NEW p \in Seq(T), NEW q \in Seq(T)
  PROVE  /\ p \o q \in Seq(T) /\ Len(p \o q) = Len(p) + Len(q)
         /\ \A n \in 1..Len(p) : (p \o q)[n] = p[n]
         /\ \A n \in 1..(Len(p) + Len(q)) : n > Len(p) => (p \o q)[n] = q[n - Len(p)]
<1> QED OBVIOUS

LEMMA StretchJoins ==
  ASSUME NEW f, NEW a \in Nat, NEW b \in Nat, NEW c \in Nat, a <= b, b <= c
  PROVE  Stretch(f, a, b) \o Stretch(f, b, c) = Stretch(f, a, c)
<1> DEFINE T == {f[x] : x \in Nat}
<1>1. /\ Stretch(f, a, b) \in Seq(T) /\ Len(Stretch(f, a, b)) = b - a
      /\ Stretch(f, b, c) \in Seq(T) /\ Len(Stretch(f, b, c)) = c - b
      /\ Stretch(f, a, c) \in Seq(T) /\ Len(Stretch(f, a, c)) = c - a
  <2>1. ASSUME NEW d \in Nat, NEW e \in Nat, d <= e
        PROVE  Stretch(f, d, e) \in Seq(T) /\ Len(Stretch(f, d, e)) = e - d
    <3>1. e - d \in Nat /\ \A n \in 1..(e - d) : d + n - 1 \in Nat
      BY <2>1
    <3>2. Stretch(f, d, e) \in [1..(e - d) -> T]
      BY <3>1 DEF Stretch
    <3> QED BY <3>1, <3>2 DEF Stretch
  <2>2. a <= c
    OBVIOUS
  <2> QED BY <2>1, <2>2
<1> DEFINE p == Stretch(f, a, b)
           q == Stretch(f, b, c)
<1>4. /\ p \o q \in Seq(T) /\ Len(p \o q) = Len(p) + Len(q)
      /\ \A n \in 1..Len(p) : (p \o q)[n] = p[n]
      /\ \A n \in 1..(Len(p) + Len(q)) : n > Len(p) => (p \o q)[n] = q[n - Len(p)]
  <2>1. p \in Seq(T) /\ q \in Seq(T)
    BY <1>1
  <2> HIDE DEF p, q, T
  <2> QED BY <2>1, JoinIs
<1>5. Len(p) = b - a /\ Len(q) = c - b /\ Len(p) + Len(q) = c - a
  BY <1>1
<1> HIDE DEF T
<1>2. ASSUME NEW n \in 1..(c - a)
      PROVE  (p \o q)[n] = Stretch(f, a, c)[n]
  <2>1. Stretch(f, a, c)[n] = f[a + n - 1]
    BY DEF Stretch
  <2>2. CASE n <= b - a
    <3>1. n \in 1..(b - a)
      BY <2>2
    <3>2. (p \o q)[n] = Stretch(f, a, b)[n]
      BY <1>4, <1>5, <3>1
    <3> HIDE DEF p, q
    <3> QED BY <2>1, <3>1, <3>2 DEF Stretch
  <2>3. CASE n > b - a
    <3>1. n - (b - a) \in 1..(c - b) /\ b + (n - (b - a)) - 1 = a + n - 1
      BY <2>3
    <3>2. (p \o q)[n] = Stretch(f, b, c)[n - (b - a)]
      <4>1. n > Len(p) /\ n \in 1..(Len(p) + Len(q))
        BY <1>5, <2>3
      <4> QED BY <1>4, <1>5, <4>1
    <3> HIDE DEF p, q
    <3> QED BY <2>1, <3>1, <3>2 DEF Stretch
  <2> HIDE DEF p, q
  <2>4. n <= b - a \/ n > b - a
    OBVIOUS
  <2> QED BY <2>2, <2>3, <2>4
<1>3. p \o q \in Seq(T) /\ Len(p \o q) = c - a
  BY <1>4, <1>5
<1>6. p \o q = Stretch(f, a, c)
  <2> DEFINE r == p \o q
             e == Stretch(f, a, c)
  <2>1. r \in Seq(T) /\ e \in Seq(T) /\ Len(r) = Len(e) /\ Len(r) = c - a /\ \A n \in 1..(c - a) : r[n] = e[n]
    BY <1>1, <1>2, <1>3
  <2> HIDE DEF r, e
  <2>2. r = e
    BY <2>1, SeqEqual
  <2> QED BY <2>2 DEF r, e
<1> QED BY <1>6

\* The loop stands at sector a, before block b or in it; b is 0 when no block holds any of
\* the sectors that are left.
Place(bs, end, a, b) ==
  a < end => IF b = 0 THEN \A i \in DOMAIN bs : EndOf(bs[i]) <= a \/ bs[i].start >= end
             ELSE /\ b \in DOMAIN bs /\ bs[b].start < end /\ a < EndOf(bs[b])
                  /\ \A i \in DOMAIN bs : i < b => EndOf(bs[i]) <= a

\* What the loop has when it has read up to sector a.
Sofar(v, s, a, b) == [at |-> a, block |-> b, data |-> Stretch(view[v], s, a)]
Loop(v, s, end) == {acc \in {Sofar(v, s, p[1], p[2]) : p \in (s..end) \X (0..Len(blocks[v]))} :
                      Place(blocks[v], end, acc.at, acc.block)}

\* A read of some sectors of one volume.
Asked(v, s, end) == /\ MemInv /\ v \in Vols /\ s \in Nat /\ end \in Nat
                    /\ s < end /\ end <= VolSizes[v]

LEMMA LoopIs ==
  ASSUME NEW v, NEW s, NEW end, Asked(v, s, end)
  PROVE  /\ \A acc \in Loop(v, s, end) :
              /\ acc.at \in s..end /\ acc.block \in 0..Len(blocks[v])
              /\ acc.data = Stretch(view[v], s, acc.at)
              /\ Place(blocks[v], end, acc.at, acc.block)
         /\ \A a \in s..end, b \in 0..Len(blocks[v]) :
              Place(blocks[v], end, a, b) => Sofar(v, s, a, b) \in Loop(v, s, end)
<1> USE DEF Loop, Sofar
<1>1. ASSUME NEW a \in s..end, NEW b \in 0..Len(blocks[v]), Place(blocks[v], end, a, b)
      PROVE  Sofar(v, s, a, b) \in Loop(v, s, end)
  <2>1. <<a, b>> \in (s..end) \X (0..Len(blocks[v]))
    OBVIOUS
  <2>2. Sofar(v, s, a, b) \in {Sofar(v, s, p[1], p[2]) : p \in (s..end) \X (0..Len(blocks[v]))}
    BY <2>1
  <2> QED BY <1>1, <2>2
<1> QED BY <1>1

\* A turn of the loop keeps what it has read right, and reads a sector at least.
LEMMA TurnIs ==
  ASSUME NEW v, NEW s, NEW end, Asked(v, s, end), NEW acc \in Loop(v, s, end)
  PROVE  /\ ReadTurn(v, acc, end) \in Loop(v, s, end)
         /\ acc.at < end => ReadTurn(v, acc, end).at > acc.at
         /\ acc.at = end => ReadTurn(v, acc, end) = acc
<1> DEFINE bs == blocks[v]
           a == acc.at
           b == acc.block
           w == view[v]
<1>1. v \in Vols /\ s \in Nat /\ end \in Nat /\ s < end /\ end <= VolSizes[v] /\ VolSizes[v] \in Nat
  BY StartsAre DEF Asked
<1>2. ListShows(bs, disk[v], w, v)
  BY DEF Asked, MemInv
<1>3. /\ bs \in Seq(Block) /\ Apart(bs) /\ Len(bs) \in Nat /\ DOMAIN bs = 1..Len(bs)
      /\ \A i \in DOMAIN bs : /\ i \in Nat /\ bs[i].start \in Nat /\ EndOf(bs[i]) \in Nat
                              /\ bs[i].start < EndOf(bs[i])
      /\ \A i, j \in DOMAIN bs : i < j => EndOf(bs[i]) < bs[j].start
  BY <1>2, BlocksAre, ApartIs DEF ListShows
<1>4. \A x \in Nat : x < end => x \in SectorsOf(v)
  BY <1>1 DEF SectorsOf
<1>5. /\ \A x \in Nat : x < end => \A i \in DOMAIN bs : Holds(bs[i], x) => At(bs[i], x) = w[x]
      /\ \A x \in Nat : x < end => ((\A i \in DOMAIN bs : ~Holds(bs[i], x)) => disk[v][x] = w[x])
  BY <1>2, <1>4 DEF ListShows
<1>6. a \in s..end /\ b \in 0..Len(bs) /\ acc.data = Stretch(w, s, a) /\ Place(bs, end, a, b)
  BY LoopIs
<1>7. CASE a = end
  <2>1. ReadTurn(v, acc, end) = acc
    BY <1>7 DEF ReadTurn
  <2> QED BY <1>1, <1>7, <2>1
<1>8. CASE a # end
  <2>1. a \in Nat /\ s <= a /\ a < end
    BY <1>1, <1>6, <1>8
  <2> DEFINE Goes(c, nb) == /\ c \in Nat /\ a < c /\ c <= end /\ nb \in 0..Len(bs) /\ Place(bs, end, c, nb)
                            /\ ReadTurn(v, acc, end) =
                                 [at |-> c, block |-> nb, data |-> acc.data \o Stretch(w, a, c)]
  <2>2. ASSUME NEW c, NEW nb, Goes(c, nb)
        PROVE  /\ ReadTurn(v, acc, end) \in Loop(v, s, end)
               /\ ReadTurn(v, acc, end).at > acc.at
    <3>1. acc.data \o Stretch(w, a, c) = Stretch(w, s, c)
      <4>1. a \in Nat /\ c \in Nat /\ s \in Nat /\ s <= a /\ a <= c
        BY <1>1, <2>1, <2>2
      <4>2. acc.data = Stretch(w, s, a)
        BY <1>6
      <4> HIDE DEF a, w
      <4>3. Stretch(w, s, a) \o Stretch(w, a, c) = Stretch(w, s, c)
        BY <4>1, StretchJoins
      <4> QED BY <4>2, <4>3
    <3>2. ReadTurn(v, acc, end) = Sofar(v, s, c, nb)
      BY <2>2, <3>1 DEF Sofar
    <3>3. c \in s..end
      BY <1>1, <2>1, <2>2
    <3>4. Sofar(v, s, c, nb) \in Loop(v, s, end)
      BY <2>2, <3>3, LoopIs
    <3>5. ReadTurn(v, acc, end).at = c
      BY <2>2
    <3> QED BY <2>1, <2>2, <3>2, <3>4, <3>5
  <2> HIDE DEF a, b, bs, w
  <2>3. CASE b = 0
    <3>1. \A x \in Nat : a <= x /\ x < end => disk[v][x] = w[x]
      <4>1. \A i \in DOMAIN bs : EndOf(bs[i]) <= a \/ bs[i].start >= end
        BY <1>6, <2>1, <2>3 DEF Place
      <4>2. \A x \in Nat : a <= x /\ x < end => \A i \in DOMAIN bs : ~Holds(bs[i], x)
        BY <1>1, <1>3, <2>1, <4>1 DEF Holds
      <4> QED BY <1>5, <4>2
    <3>2. [n \in 1..(end - a) |-> disk[v][a + n - 1]] = Stretch(w, a, end)
      <4>1. \A n \in 1..(end - a) : a + n - 1 \in Nat /\ a <= a + n - 1 /\ a + n - 1 < end
        BY <1>1, <2>1
      <4> QED BY <3>1, <4>1 DEF Stretch
    <3>3. ReadTurn(v, acc, end) = [at |-> end, block |-> 0, data |-> acc.data \o Stretch(w, a, end)]
      <4>1. ~FromBlock(v, acc)
        BY <2>3 DEF FromBlock, b
      <4>2. ReadTurn(v, acc, end) = [at |-> end, block |-> b,
              data |-> acc.data \o [n \in 1..(end - a) |-> disk[v][a + n - 1]]]
        BY <1>8, <2>3, <4>1 DEF ReadTurn, a, b
      <4> QED BY <2>3, <3>2, <4>2
    <3>4. Goes(end, 0)
      BY <1>1, <1>3, <2>1, <3>3 DEF Place
    <3> HIDE DEF Goes
    <3> QED BY <1>8, <2>2, <3>4 DEF a
  <2>4. CASE b # 0
    <3>1. /\ b \in DOMAIN bs /\ b \in Nat /\ bs[b].start < end /\ a < EndOf(bs[b])
          /\ \A i \in DOMAIN bs : i < b => EndOf(bs[i]) <= a
      BY <1>3, <1>6, <2>1, <2>4 DEF Place
    <3>2. FromBlock(v, acc) <=> bs[b].start <= a
      BY <2>4 DEF FromBlock, b, bs, a
    <3>3. CASE bs[b].start <= a
      <4> DEFINE c == Min({EndOf(bs[b]), end})
                 nb == NextFor(bs, b, end)
      <4>1. c \in {EndOf(bs[b]), end} /\ c <= EndOf(bs[b]) /\ c <= end
        <5>1. {EndOf(bs[b]), end} \subseteq Nat /\ {EndOf(bs[b]), end} # {}
          BY <1>1, <1>3, <3>1
        <5> QED BY <5>1, MinIs
      <4> HIDE DEF c
      <4>2. c \in Nat /\ a < c /\ c <= end
        BY <1>1, <1>3, <2>1, <3>1, <4>1
      <4>3. \A x \in Nat : a <= x /\ x < c => At(bs[b], x) = w[x]
        <5>1. \A x \in Nat : a <= x /\ x < c => Holds(bs[b], x) /\ x < end
          BY <1>1, <1>3, <2>1, <3>1, <3>3, <4>1, <4>2 DEF Holds
        <5> QED BY <1>5, <3>1, <5>1
      <4>4. [n \in 1..(c - a) |-> At(bs[b], a + n - 1)] = Stretch(w, a, c)
        <5>1. \A n \in 1..(c - a) : a + n - 1 \in Nat /\ a <= a + n - 1 /\ a + n - 1 < c
          BY <2>1, <4>2
        <5> QED BY <4>3, <5>1 DEF Stretch
      <4>5. ReadTurn(v, acc, end) = [at |-> c, block |-> nb, data |-> acc.data \o Stretch(w, a, c)]
        <5>1. ReadTurn(v, acc, end) = [at |-> c, block |-> nb,
                data |-> acc.data \o [n \in 1..(c - a) |-> At(bs[b], a + n - 1)]]
          BY <1>8, <3>2, <3>3 DEF ReadTurn, a, b, bs, c
        <5> HIDE DEF nb
        <5> QED BY <4>4, <5>1
      <4>6. nb \in 0..Len(bs) /\ Place(bs, end, c, nb)
        <5>1. CASE b < Len(bs) /\ bs[b + 1].start < end
          <6>1. nb = b + 1 /\ b + 1 \in DOMAIN bs
            BY <1>3, <3>1, <5>1 DEF NextFor
          <6> HIDE DEF nb
          <6>2. EndOf(bs[b]) < bs[b + 1].start
            BY <1>3, <3>1, <6>1
          <6>3. c < EndOf(bs[b + 1])
            BY <1>1, <1>3, <3>1, <4>1, <4>2, <6>1, <6>2
          <6>4. ASSUME c < end, NEW i \in DOMAIN bs, i < b + 1 PROVE EndOf(bs[i]) <= c
            <7>1. c = EndOf(bs[b])
              BY <1>1, <4>1, <4>2, <6>4
            <7>2. i < b \/ i = b
              BY <1>3, <3>1, <6>4
            <7> QED BY <1>1, <1>3, <3>1, <4>2, <7>1, <7>2
          <6>5. b + 1 # 0 /\ b + 1 \in 0..Len(bs)
            BY <1>3, <3>1, <6>1
          <6> QED BY <5>1, <6>1, <6>3, <6>4, <6>5 DEF Place
        <5>2. CASE ~(b < Len(bs) /\ bs[b + 1].start < end)
          <6>1. nb = 0
            BY <5>2 DEF NextFor
          <6> HIDE DEF nb
          <6>2. ASSUME c < end, NEW i \in DOMAIN bs PROVE EndOf(bs[i]) <= c \/ bs[i].start >= end
            <7>1. c = EndOf(bs[b])
              BY <1>1, <4>1, <4>2, <6>2
            <7>2. CASE i < b
              BY <1>1, <1>3, <2>1, <3>1, <4>2, <7>1, <7>2
            <7>3. CASE i = b
              BY <1>1, <1>3, <3>1, <4>2, <7>1, <7>3
            <7>4. CASE i > b
              <8>1. b + 1 \in DOMAIN bs /\ bs[b + 1].start >= end
                BY <1>1, <1>3, <3>1, <5>2, <7>4
              <8>2. i = b + 1 \/ EndOf(bs[b + 1]) < bs[i].start
                BY <1>3, <3>1, <7>4, <8>1
              <8> QED BY <1>1, <1>3, <8>1, <8>2
            <7> QED BY <1>3, <3>1, <7>2, <7>3, <7>4
          <6> QED BY <1>3, <6>1, <6>2 DEF Place
        <5> QED BY <5>1, <5>2
      <4>7. Goes(c, nb)
        BY <4>2, <4>5, <4>6
      <4> HIDE DEF Goes, nb
      <4> QED BY <1>8, <2>2, <4>7 DEF a
    <3>4. CASE ~(bs[b].start <= a)
      <4> DEFINE c == bs[b].start
      <4>1. c \in Nat /\ a < c /\ c <= end
        BY <1>1, <1>3, <2>1, <3>1, <3>4
      <4>2. \A x \in Nat : a <= x /\ x < c => disk[v][x] = w[x]
        <5>1. ASSUME NEW x \in Nat, a <= x, x < c, NEW i \in DOMAIN bs PROVE ~Holds(bs[i], x)
          <6>1. CASE i < b
            BY <1>3, <2>1, <3>1, <5>1, <6>1 DEF Holds
          <6>2. CASE i = b
            BY <1>3, <3>1, <5>1, <6>2 DEF Holds
          <6>3. CASE i > b
            BY <1>3, <3>1, <5>1, <6>3 DEF Holds
          <6> QED BY <1>3, <3>1, <6>1, <6>2, <6>3
        <5>2. \A x \in Nat : x < c => x < end
          BY <1>1, <4>1
        <5> HIDE DEF c
        <5> QED BY <1>5, <5>1, <5>2
      <4> HIDE DEF c
      <4>3. [n \in 1..(c - a) |-> disk[v][a + n - 1]] = Stretch(w, a, c)
        <5>1. \A n \in 1..(c - a) : a + n - 1 \in Nat /\ a <= a + n - 1 /\ a + n - 1 < c
          BY <2>1, <4>1
        <5> QED BY <4>2, <5>1 DEF Stretch
      <4>4. ReadTurn(v, acc, end) = [at |-> c, block |-> b, data |-> acc.data \o Stretch(w, a, c)]
        <5>1. ReadTurn(v, acc, end) = [at |-> c, block |-> b,
                data |-> acc.data \o [n \in 1..(c - a) |-> disk[v][a + n - 1]]]
          BY <1>8, <2>4, <3>2, <3>4 DEF ReadTurn, a, b, bs, c
        <5> QED BY <4>3, <5>1
      <4>5. Place(bs, end, c, b)
        <5>1. c < EndOf(bs[b]) /\ bs[b].start < end
          BY <1>3, <3>1 DEF c
        <5>2. \A i \in DOMAIN bs : i < b => EndOf(bs[i]) <= c
          BY <1>3, <2>1, <3>1, <4>1
        <5> QED BY <2>4, <3>1, <5>1, <5>2 DEF Place
      <4>6. Goes(c, b)
        BY <1>6, <4>1, <4>4, <4>5
      <4> HIDE DEF Goes
      <4> QED BY <1>8, <2>2, <4>6 DEF a
    <3> QED BY <3>3, <3>4
  <2> QED BY <2>3, <2>4
<1> QED BY <1>7, <1>8

\* The loop ends with the sectors that were asked for.
LEMMA ReadIs ==
  ASSUME NEW v, NEW s, NEW count \in Nat, Asked(v, s, s + count)
  PROVE  ReadData(v, s, count) = Stretch(view[v], s, s + count)
<1> DEFINE end == s + count
           bs == blocks[v]
           z == [at |-> s, block |-> FirstFor(blocks[v], s, count), data |-> <<>>]
           T == Loop(v, s, end)
           G == [p \in Nat \X T |-> ReadTurn(v, p[2], end)]
           Rounds[n \in 0..count] == IF n = 0 THEN z ELSE ReadTurn(v, Rounds[n - 1], end)
<1>1. v \in Vols /\ s \in Nat /\ end \in Nat /\ s < end /\ end = s + count
  BY DEF Asked
<1>2. ReadData(v, s, count) = Rounds[count].data
  BY DEF ReadData
<1>3. z \in T
  <2>1. /\ bs \in Seq(Block) /\ Apart(bs)
    BY <1>1 DEF Asked, MemInv, ListShows
  <2>2. /\ Len(bs) \in Nat /\ DOMAIN bs = 1..Len(bs)
        /\ \A i \in DOMAIN bs : /\ i \in Nat /\ bs[i].start \in Nat /\ EndOf(bs[i]) \in Nat
                                /\ bs[i].start < EndOf(bs[i])
        /\ \A i, j \in DOMAIN bs : i < j => EndOf(bs[i]) < bs[j].start
    BY <2>1, BlocksAre, ApartIs
  <2> DEFINE S == {j \in DOMAIN bs : EndOf(bs[j]) > s} \cup {Len(bs) + 1}
             m == Min(S)
             b == FirstFor(bs, s, count)
  <2>3. m \in S /\ \A j \in S : m <= j
    <3>1. S \subseteq Nat /\ S # {}
      BY <2>2
    <3> HIDE DEF S
    <3> QED BY <3>1, MinIs
  <2>4. b = IF m \in DOMAIN bs /\ bs[m].start < s + count THEN m ELSE 0
    BY DEF FirstFor
  <2>5. m \in Nat /\ \A i \in DOMAIN bs : i < m => EndOf(bs[i]) <= s
    <3>1. m \in Nat
      BY <2>2, <2>3
    <3>2. ASSUME NEW i \in DOMAIN bs, i < m PROVE EndOf(bs[i]) <= s
      <4>1. i \notin S
        <5> HIDE DEF S, m
        <5> QED BY <2>2, <2>3, <3>1, <3>2
      <4> QED BY <1>1, <2>2, <4>1
    <3> QED BY <3>1, <3>2
  <2>6. m \in DOMAIN bs => EndOf(bs[m]) > s
    <3>1. m # Len(bs) + 1 => m \in DOMAIN bs /\ EndOf(bs[m]) > s
      BY <2>3
    <3>2. Len(bs) + 1 \notin DOMAIN bs
      BY <2>2
    <3> HIDE DEF m, S
    <3> QED BY <3>1, <3>2
  <2>7. m \notin DOMAIN bs => m = Len(bs) + 1
    BY <2>3
  <2> HIDE DEF m, b, S, bs
  <2>8. b \in 0..Len(bs) /\ Place(bs, end, s, b)
    <3>1. CASE m \in DOMAIN bs /\ bs[m].start < s + count
      <4>1. b = m /\ b # 0 /\ b \in 0..Len(bs)
        BY <2>2, <2>4, <3>1
      <4>2. bs[b].start < end /\ s < EndOf(bs[b])
        BY <1>1, <2>2, <2>6, <3>1, <4>1
      <4> QED BY <2>5, <3>1, <4>1, <4>2 DEF Place
    <3>2. CASE ~(m \in DOMAIN bs /\ bs[m].start < s + count)
      <4>1. b = 0
        BY <2>4, <3>2
      <4>2. ASSUME NEW i \in DOMAIN bs PROVE EndOf(bs[i]) <= s \/ bs[i].start >= end
        <5>1. CASE i < m
          BY <2>5, <5>1
        <5>2. CASE i = m
          BY <1>1, <2>2, <3>2, <5>2
        <5>3. CASE i > m
          <6>1. m \in DOMAIN bs
            BY <2>2, <2>5, <2>7, <5>3
          <6>2. EndOf(bs[m]) < bs[i].start /\ bs[m].start < EndOf(bs[m]) /\ ~(bs[m].start < end)
            BY <2>2, <3>2, <5>3, <6>1
          <6> QED BY <1>1, <2>2, <6>1, <6>2
        <5> QED BY <2>2, <2>5, <5>1, <5>2, <5>3
      <4> QED BY <2>2, <4>1, <4>2 DEF Place
    <3> QED BY <3>1, <3>2
  <2>9. Sofar(v, s, s, b) \in Loop(v, s, end)
    <3>1. s \in s..end
      BY <1>1
    <3> HIDE DEF end
    <3> QED BY <1>1, <2>8, <3>1, LoopIs DEF bs, end
  <2>10. Stretch(view[v], s, s) = <<>>
    <3>1. s - s = 0
      BY <1>1
    <3> QED BY <3>1 DEF Stretch
  <2>11. z = Sofar(v, s, s, b)
    BY <2>10 DEF Sofar, b, bs
  <2> QED BY <2>9, <2>11
<1>4. ASSUME NEW acc \in T
      PROVE  /\ ReadTurn(v, acc, end) \in T /\ acc.at \in s..end
             /\ acc.at < end => ReadTurn(v, acc, end).at > acc.at
             /\ acc.at = end => ReadTurn(v, acc, end) = acc
  BY TurnIs, LoopIs
<1> HIDE DEF T, z
<1>5. G \in [Nat \X T -> T]
  BY <1>4
<1>6. PICK f \in [0..count -> T] : Follows(f, count, z, G)
  <2> HIDE DEF G
  <2> QED BY <1>3, <1>5, Recursion
<1>7. \A n \in 0..count : f[n] = IF n = 0 THEN z ELSE ReadTurn(v, f[n - 1], end)
  <2> SUFFICES ASSUME NEW n \in 0..count PROVE f[n] = IF n = 0 THEN z ELSE ReadTurn(v, f[n - 1], end)
    OBVIOUS
  <2>1. f[n] = IF n = 0 THEN z ELSE G[<<n, f[n - 1]>>]
    BY <1>6 DEF Follows
  <2>2. n # 0 => n - 1 \in 0..count /\ n \in Nat
    OBVIOUS
  <2>3. n # 0 => G[<<n, f[n - 1]>>] = ReadTurn(v, f[n - 1], end)
    BY <1>6, <2>2
  <2> HIDE DEF G
  <2> QED BY <2>1, <2>3
<1>8. f = [n \in 0..count |-> IF n = 0 THEN z ELSE ReadTurn(v, f[n - 1], end)]
  BY <1>6, <1>7
<1>9. Rounds = [n \in 0..count |-> IF n = 0 THEN z ELSE ReadTurn(v, Rounds[n - 1], end)]
  BY <1>8
<1> HIDE DEF Rounds, G
<1>10. \A n \in 0..count : Rounds[n] = IF n = 0 THEN z ELSE ReadTurn(v, Rounds[n - 1], end)
  BY <1>9
<1> DEFINE Bad == {n \in Nat : n <= count /\ ~(Rounds[n] \in T /\ (Rounds[n].at = end \/ Rounds[n].at >= s + n))}
<1>11. Bad = {}
  <2> SUFFICES ASSUME Bad # {} PROVE FALSE
    OBVIOUS
  <2>1. PICK n \in Bad : \A m \in Bad : n <= m
    <3>1. Min(Bad) \in Bad /\ \A m \in Bad : Min(Bad) <= m
      BY MinIs
    <3> QED BY <3>1
  <2>2. n \in 0..count
    BY <2>1
  <2>3. n # 0
    <3>1. z.at = s
      BY DEF z
    <3> QED BY <1>1, <1>3, <1>10, <2>1, <2>2, <3>1
  <2>4. n - 1 \in Nat /\ n - 1 <= count /\ n - 1 \notin Bad
    BY <2>1, <2>3
  <2>5. Rounds[n - 1] \in T /\ (Rounds[n - 1].at = end \/ Rounds[n - 1].at >= s + (n - 1))
    BY <2>4
  <2>6. Rounds[n] = ReadTurn(v, Rounds[n - 1], end)
    BY <1>10, <2>2, <2>3
  <2>7. PICK acc \in T : acc = Rounds[n - 1]
    BY <2>5
  <2> HIDE DEF Bad
  <2>8. /\ Rounds[n] \in T /\ acc.at \in s..end /\ Rounds[n].at \in s..end
        /\ acc.at < end => Rounds[n].at > acc.at
        /\ acc.at = end => Rounds[n].at = end
    BY <1>4, <2>6, <2>7
  <2>9. Rounds[n].at = end \/ Rounds[n].at >= s + n
    BY <1>1, <2>2, <2>4, <2>5, <2>7, <2>8
  <2> QED BY <2>1, <2>8, <2>9 DEF Bad
<1>12. Rounds[count] \in T /\ Rounds[count].at = end
  <2>1. count \notin Bad
    BY <1>11
  <2>2. Rounds[count] \in T /\ (Rounds[count].at = end \/ Rounds[count].at >= end)
    BY <1>1, <2>1
  <2>3. Rounds[count].at \in s..end
    BY <1>4, <2>2
  <2> QED BY <1>1, <2>2, <2>3
<1>13. Rounds[count].data = Stretch(view[v], s, end)
  BY <1>12, LoopIs DEF T
<1> QED BY <1>2, <1>13

LEMMA InvReads ==
  ASSUME MemInv PROVE ReadsLatest
<1> SUFFICES ASSUME NEW v \in Vols, NEW s \in SectorsOf(v), NEW n \in 1..(VolSizes[v] - s)
             PROVE  ReadData(v, s, n) = [i \in 1..n |-> view[v][s + i - 1]]
  BY DEF ReadsLatest
<1>1. VolSizes[v] \in Nat /\ s \in Nat /\ n \in Nat /\ n >= 1 /\ s + n <= VolSizes[v]
  BY StartsAre DEF SectorsOf
<1>2. Asked(v, s, s + n)
  BY <1>1 DEF Asked
<1>3. ReadData(v, s, n) = Stretch(view[v], s, s + n)
  BY <1>1, <1>2, ReadIs
<1>4. (s + n) - s = n
  BY <1>1
<1> QED BY <1>3, <1>4 DEF Stretch

\* However a read straddles blocks in memory and sectors on the drive, it returns what was
\* written last.
THEOREM ReadsReturnTheLatest == Spec => []ReadsLatest
<1> QED BY InvReads, AlwaysInv, PTL

-----------------------------------------------------------------------------
(* The folds over the runs of a file.                                      *)

\* The library's Max of some places of a list is the last of them.
LEMMA LastIs ==
  ASSUME NEW L \in Nat, NEW s \in SUBSET (1..L), s # {}
  PROVE  Max(s) \in s /\ \A n \in s : n <= Max(s)
<1> DEFINE S == {L - n : n \in s}
<1>1. S \subseteq Nat /\ S # {}
  <2>1. \A n \in s : L - n \in Nat
    OBVIOUS
  <2>2. PICK k \in s : TRUE
    OBVIOUS
  <2>3. L - k \in S
    BY <2>2
  <2> QED BY <2>1, <2>3
<1>2. PICK m \in S : \A n \in S : m <= n
  <2>1. Min(S) \in S /\ \A n \in S : Min(S) <= n
    BY <1>1, MinIs
  <2> QED BY <2>1
<1>3. PICK x \in s : m = L - x
  OBVIOUS
<1>4. \A n \in s : n <= x
  <2> SUFFICES ASSUME NEW n \in s PROVE n <= x
    OBVIOUS
  <2>1. m <= L - n
    BY <1>2
  <2> QED BY <1>3, <2>1
<1>5. \A n \in s : x >= n
  BY <1>4
<1> QED BY <1>5 DEF Max

\* What the three loops over the runs of a file, or over their turns, do with an element.
Step(kind, acc, x) == IF kind = "turn" THEN Turn(acc, x)
                      ELSE IF kind = "read" THEN acc \o ReadVolume(x.sector, x.count)
                      ELSE WriteTurn(acc, x)

\* FoldLeft takes a list from its last element down.
FoldsTo(h, kind, z, q, m) ==
  h = [s \in SUBSET (1..m) |-> IF s = {} THEN z ELSE Step(kind, h[s \ {Max(s)}], q[Max(s)])]

LEMMA FoldThere ==
  ASSUME NEW kind, NEW z, NEW q, NEW L \in Nat
  PROVE  \E h : FoldsTo(h, kind, z, q, L)
<1> DEFINE Lacking == {m \in Nat : ~\E h : FoldsTo(h, kind, z, q, m)}
<1> SUFFICES ASSUME Lacking # {} PROVE FALSE
  OBVIOUS
<1>1. PICK m \in Lacking : \A k \in Lacking : m <= k
  <2>1. Min(Lacking) \in Lacking /\ \A k \in Lacking : Min(Lacking) <= k
    BY MinIs
  <2> QED BY <2>1
<1>2. CASE m = 0
  <2> DEFINE h == [s \in SUBSET (1..0) |-> z]
  <2>1. \A s \in SUBSET (1..0) : s = {}
    OBVIOUS
  <2>2. h = [s \in SUBSET (1..0) |-> IF s = {} THEN z ELSE Step(kind, h[s \ {Max(s)}], q[Max(s)])]
    BY <2>1
  <2>3. FoldsTo(h, kind, z, q, 0)
    BY <2>2 DEF FoldsTo
  <2> HIDE DEF h
  <2> QED BY <1>1, <1>2, <2>3
<1>3. CASE m # 0
  <2>1. m - 1 \in Nat /\ m - 1 \notin Lacking /\ m \in Nat
    BY <1>1, <1>3
  <2>2. PICK f : FoldsTo(f, kind, z, q, m - 1)
    BY <2>1
  <2> DEFINE Val(s) == IF s = {} THEN z ELSE Step(kind, f[s \ {Max(s)}], q[Max(s)])
             h == [s \in SUBSET (1..m) |-> Val(s)]
  <2>3. \A s \in SUBSET (1..(m - 1)) : f[s] = Val(s)
    BY <2>2 DEF FoldsTo
  <2>4. \A s \in SUBSET (1..m) : h[s] = Val(s)
    OBVIOUS
  <2>5. ASSUME NEW s \in SUBSET (1..m), s # {}
        PROVE  h[s \ {Max(s)}] = f[s \ {Max(s)}]
    <3>1. Max(s) \in s /\ \A n \in s : n <= Max(s)
      BY <2>1, <2>5, LastIs
    <3> HIDE DEF h, Val
    <3>2. s \ {Max(s)} \in SUBSET (1..(m - 1))
      <4> SUFFICES ASSUME NEW n \in s, n # Max(s) PROVE n \in 1..(m - 1)
        OBVIOUS
      <4>0. Max(s) \in 1..m
        BY <3>1
      <4>1. PICK k \in Nat : k = Max(s) /\ k <= m
        BY <2>1, <4>0
      <4>2. n \in Nat /\ n >= 1 /\ n <= k /\ n # k
        BY <2>1, <3>1, <4>1
      <4> QED BY <2>1, <4>1, <4>2
    <3>3. s \ {Max(s)} \in SUBSET (1..m)
      OBVIOUS
    <3> QED BY <2>3, <2>4, <3>2, <3>3
  <2>6. h = [s \in SUBSET (1..m) |-> IF s = {} THEN z ELSE Step(kind, h[s \ {Max(s)}], q[Max(s)])]
    <3>1. \A s \in SUBSET (1..m) :
            Val(s) = IF s = {} THEN z ELSE Step(kind, h[s \ {Max(s)}], q[Max(s)])
      <4> HIDE DEF h
      <4> QED BY <2>5 DEF Val
    <3> HIDE DEF Val
    <3> QED BY <3>1
  <2>7. FoldsTo(h, kind, z, q, m)
    <3> HIDE DEF h
    <3> QED BY <2>6 DEF FoldsTo
  <2> HIDE DEF h
  <2> QED BY <1>1, <2>7
<1> QED BY <1>2, <1>3

\* What it has after each element.
Chain(f, kind, z, q, L) == f[0] = z /\ \A n \in 1..L : f[n] = Step(kind, f[n - 1], q[n])

LEMMA FoldIs ==
  ASSUME NEW kind, NEW z, NEW q, NEW L \in Nat, NEW h, FoldsTo(h, kind, z, q, L)
  PROVE  \E f : Chain(f, kind, z, q, L) /\ f[L] = h[1..L]
<1> DEFINE f == [n \in 0..L |-> h[1..n]]
<1>1. \A s \in SUBSET (1..L) : h[s] = IF s = {} THEN z ELSE Step(kind, h[s \ {Max(s)}], q[Max(s)])
  BY DEF FoldsTo
<1>2. h[{}] = z
  BY <1>1
<1>3. 1..0 = {}
  OBVIOUS
<1>4. f[0] = z
  BY <1>2, <1>3
<1>5. ASSUME NEW n \in 1..L PROVE f[n] = Step(kind, f[n - 1], q[n])
  <2>1. n \in Nat /\ n >= 1 /\ n <= L /\ n - 1 \in 0..L /\ n \in 0..L
    OBVIOUS
  <2>2. 1..n \in SUBSET (1..L) /\ n \in 1..n
    BY <2>1
  <2>3. Max(1..n) \in 1..n /\ \A k \in 1..n : k <= Max(1..n)
    BY <2>2, LastIs
  <2>4. Max(1..n) = n
    BY <2>1, <2>2, <2>3
  <2>5. (1..n) \ {n} = 1..(n - 1)
    BY <2>1
  <2>6. h[1..n] = Step(kind, h[1..(n - 1)], q[n])
    BY <1>1, <2>2, <2>4, <2>5
  <2> QED BY <2>1, <2>6
<1>6. f[L] = h[1..L]
  OBVIOUS
<1> HIDE DEF f
<1> QED BY <1>4, <1>5, <1>6 DEF Chain

\* The loop over the runs (mfs_read_inode_data_part, mfs_write_inode_data_part).
LEMMA TurnsFold ==
  ASSUME NEW file, NEW R, file.runs \in Seq(R), NEW start, NEW count
  PROVE  \E f : /\ Chain(f, "turn", [start |-> start, left |-> count, turns |-> <<>>], file.runs, Len(file.runs))
                /\ Turns(file, start, count) = f[Len(file.runs)].turns
<1> DEFINE z == [start |-> start, left |-> count, turns |-> <<>>]
           q == file.runs
           L == Len(q)
           Is(h) == h = [s \in SUBSET DOMAIN q |-> IF s = {} THEN z ELSE Turn(h[s \ {Max(s)}], q[Max(s)])]
<1>1. DOMAIN q = 1..L /\ L \in Nat
  OBVIOUS
<1>2. PICK g : g = CHOOSE h : Is(h)
  OBVIOUS
<1>3. Turns(file, start, count) = g[DOMAIN q].turns
  BY <1>2 DEF Turns, FoldLeft, MapThenFoldSet
<1> HIDE DEF z, q, L
<1>4. \A h : Is(h) <=> FoldsTo(h, "turn", z, q, L)
  BY <1>1 DEF FoldsTo, Step
<1>5. \E h : FoldsTo(h, "turn", z, q, L)
  BY <1>1, FoldThere
<1>6. Is(g)
  <2> HIDE DEF Is
  <2> QED BY <1>2, <1>4, <1>5
<1>7. FoldsTo(g, "turn", z, q, L)
  <2> HIDE DEF Is
  <2> QED BY <1>4, <1>6
<1>8. PICK f : Chain(f, "turn", z, q, L) /\ f[L] = g[1..L]
  BY <1>1, <1>7, FoldIs
<1> QED BY <1>1, <1>3, <1>8 DEF z, q, L

\* The reads of a part.
ReadAll(turns) == FoldLeft(LAMBDA data, turn : data \o ReadVolume(turn.sector, turn.count), <<>>, turns)

LEMMA ReadFold ==
  ASSUME NEW R, NEW q \in Seq(R)
  PROVE  \E f : Chain(f, "read", <<>>, q, Len(q)) /\ ReadAll(q) = f[Len(q)]
<1> DEFINE L == Len(q)
           Is(h) == h = [s \in SUBSET DOMAIN q |->
                           IF s = {} THEN <<>>
                           ELSE h[s \ {Max(s)}] \o ReadVolume(q[Max(s)].sector, q[Max(s)].count)]
<1>1. DOMAIN q = 1..L /\ L \in Nat
  OBVIOUS
<1>2. PICK g : g = CHOOSE h : Is(h)
  OBVIOUS
<1>3. ReadAll(q) = g[DOMAIN q]
  BY <1>2 DEF ReadAll, FoldLeft, MapThenFoldSet
<1> HIDE DEF L
<1>4. \A h : Is(h) <=> FoldsTo(h, "read", <<>>, q, L)
  BY <1>1 DEF FoldsTo, Step
<1>5. \E h : FoldsTo(h, "read", <<>>, q, L)
  BY <1>1, FoldThere
<1>6. Is(g)
  <2> HIDE DEF Is
  <2> QED BY <1>2, <1>4, <1>5
<1>7. FoldsTo(g, "read", <<>>, q, L)
  <2> HIDE DEF Is
  <2> QED BY <1>4, <1>6
<1>8. PICK f : Chain(f, "read", <<>>, q, L) /\ f[L] = g[1..L]
  BY <1>1, <1>7, FoldIs
<1> QED BY <1>1, <1>3, <1>8 DEF L

\* The writes of a part.
LEMMA WriteFold ==
  ASSUME NEW z, NEW R, NEW q \in Seq(R)
  PROVE  \E f : Chain(f, "write", z, q, Len(q)) /\ FoldLeft(WriteTurn, z, q) = f[Len(q)]
<1> DEFINE L == Len(q)
           Is(h) == h = [s \in SUBSET DOMAIN q |->
                           IF s = {} THEN z ELSE WriteTurn(h[s \ {Max(s)}], q[Max(s)])]
<1>1. DOMAIN q = 1..L /\ L \in Nat
  OBVIOUS
<1>2. PICK g : g = CHOOSE h : Is(h)
  OBVIOUS
<1>3. FoldLeft(WriteTurn, z, q) = g[DOMAIN q]
  BY <1>2 DEF FoldLeft, MapThenFoldSet
<1> HIDE DEF L
<1>4. \A h : Is(h) <=> FoldsTo(h, "write", z, q, L)
  BY <1>1 DEF FoldsTo, Step
<1>5. \E h : FoldsTo(h, "write", z, q, L)
  BY <1>1, FoldThere
<1>6. Is(g)
  <2> HIDE DEF Is
  <2> QED BY <1>2, <1>4, <1>5
<1>7. FoldsTo(g, "write", z, q, L)
  <2> HIDE DEF Is
  <2> QED BY <1>4, <1>6
<1>8. PICK f : Chain(f, "write", z, q, L) /\ f[L] = g[1..L]
  BY <1>1, <1>7, FoldIs
<1> QED BY <1>1, <1>3, <1>8 DEF L

-----------------------------------------------------------------------------
(* The sectors of a file.                                                  *)

Runs == [sector : Nat, count : Nat \ {0}]
RunSectors(run) == [k \in 1..run.count |-> run.sector + k - 1]

\* The runs of a file one behind the other, with the places where they end.
Laid(secs, off, runs) ==
  /\ off[0] = 0 /\ \A n \in 0..Len(runs) : off[n] \in Nat
  /\ secs \in Seq(Nat) /\ Len(secs) = off[Len(runs)]
  /\ \A n \in 1..Len(runs) :
       /\ off[n] = off[n - 1] + runs[n].count /\ off[n] <= Len(secs)
       /\ \A k \in 1..runs[n].count : secs[off[n - 1] + k] = runs[n].sector + k - 1

LEMMA RunIs ==
  ASSUME NEW run \in Runs
  PROVE  /\ RunSectors(run) \in Seq(Nat) /\ Len(RunSectors(run)) = run.count /\ run.count \in Nat
         /\ run.count >= 1 /\ run.sector \in Nat
         /\ \A k \in 1..run.count : RunSectors(run)[k] = run.sector + k - 1
<1>1. run.count \in Nat /\ run.sector \in Nat /\ run.count >= 1
  BY DEF Runs
<1>2. \A k \in 1..run.count : run.sector + k - 1 \in Nat
  BY <1>1
<1>3. RunSectors(run) \in [1..run.count -> Nat]
  BY <1>2 DEF RunSectors
<1> QED BY <1>1, <1>3 DEF RunSectors

\* What FlattenSeq has when it has come to each run.
Flat(f, runs) == f[0] = <<>> /\ \A n \in 1..Len(runs) : f[n] = f[n - 1] \o RunSectors(runs[n])

LEMMA FlatThere ==
  ASSUME NEW runs \in Seq(Runs)
  PROVE  \E f \in [0..Len(runs) -> Seq(Nat)] : Flat(f, runs)
<1> DEFINE R == Len(runs)
           T == Seq(Nat)
           z == <<>>
           G == [p \in Nat \X T |-> IF p[1] \in 1..R THEN p[2] \o RunSectors(runs[p[1]]) ELSE p[2]]
<1>1. R \in Nat /\ \A n \in 1..R : runs[n] \in Runs
  OBVIOUS
<1>2. ASSUME NEW n \in 1..R, NEW t \in T PROVE t \o RunSectors(runs[n]) \in T
  <2>1. RunSectors(runs[n]) \in T
    BY <1>1, RunIs
  <2> QED BY <2>1
<1>3. G \in [Nat \X T -> T]
  <2> HIDE DEF T
  <2> QED BY <1>2
<1>4. z \in T
  OBVIOUS
<1>5. PICK f \in [0..R -> T] : Follows(f, R, z, G)
  <2> HIDE DEF G, T, z, R
  <2> QED BY <1>1, <1>3, <1>4, Recursion
<1>6. ASSUME NEW n \in 1..R PROVE f[n] = f[n - 1] \o RunSectors(runs[n])
  <2>1. n \in 0..R /\ n # 0 /\ n - 1 \in 0..R /\ n \in Nat
    BY <1>1
  <2>2. f[n] = G[<<n, f[n - 1]>>]
    BY <1>5, <2>1 DEF Follows
  <2>3. f[n - 1] \in T
    BY <1>5, <2>1
  <2> QED BY <2>1, <2>2, <2>3
<1>7. f[0] = <<>>
  <2>1. 0 \in 0..R
    BY <1>1
  <2> QED BY <1>5, <2>1 DEF Follows
<1> QED BY <1>5, <1>6, <1>7 DEF Flat

LEMMA FlatIs ==
  ASSUME NEW runs \in Seq(Runs), NEW f \in [0..Len(runs) -> Seq(Nat)], Flat(f, runs)
  PROVE  FlattenSeq([n \in DOMAIN runs |-> RunSectors(runs[n])]) = f[Len(runs)]
<1> DEFINE R == Len(runs)
           seqs == [n \in DOMAIN runs |-> RunSectors(runs[n])]
           Is(g) == g = [i \in 1..Len(seqs) |-> IF i = 1 THEN seqs[i] ELSE g[i - 1] \o seqs[i]]
<1>1. R \in Nat /\ DOMAIN runs = 1..R /\ \A n \in 1..R : runs[n] \in Runs
  OBVIOUS
<1>2. seqs \in Seq(Seq(Nat)) /\ Len(seqs) = R /\ \A n \in 1..R : seqs[n] = RunSectors(runs[n])
  <2>1. \A n \in 1..R : RunSectors(runs[n]) \in Seq(Nat)
    BY <1>1, RunIs
  <2>2. seqs \in [1..R -> Seq(Nat)]
    BY <1>1, <2>1
  <2> QED BY <1>1, <2>2
<1>3. f[0] = <<>> /\ \A n \in 1..R : f[n] = f[n - 1] \o seqs[n]
  BY <1>2 DEF Flat
<1>4. CASE R = 0
  <2>1. seqs = <<>>
    <3> HIDE DEF seqs
    <3> QED BY <1>2, <1>4
  <2>2. FlattenSeq(seqs) = seqs
    <3> HIDE DEF seqs
    <3> QED BY <1>2, <1>4 DEF FlattenSeq
  <2> QED BY <1>3, <1>4, <2>1, <2>2
<1>5. CASE R # 0
  <2>1. PICK g : g = CHOOSE h : Is(h)
    OBVIOUS
  <2>2. FlattenSeq(seqs) = g[Len(seqs)]
    <3>1. Len(seqs) # 0
      BY <1>2, <1>5
    <3> QED BY <2>1, <3>1 DEF FlattenSeq
  <2> HIDE DEF seqs, R
  <2>3. f[1] = seqs[1]
    <3>1. 1 \in 1..R /\ f[1] = f[0] \o seqs[1] /\ seqs[1] \in Seq(Nat)
      <4>1. 1 \in 1..R
        BY <1>1, <1>5
      <4>2. seqs[1] \in Seq(Nat)
        BY <1>1, <1>2, <4>1, RunIs
      <4>3. f[1] = f[1 - 1] \o seqs[1]
        BY <1>3, <4>1
      <4> QED BY <4>1, <4>2, <4>3
    <3> QED BY <1>3, <3>1
  <2> DEFINE k == [i \in 1..R |-> f[i]]
  <2>4. \A i \in 1..R : k[i] = IF i = 1 THEN seqs[i] ELSE k[i - 1] \o seqs[i]
    <3> SUFFICES ASSUME NEW i \in 1..R PROVE k[i] = IF i = 1 THEN seqs[i] ELSE k[i - 1] \o seqs[i]
      OBVIOUS
    <3>1. i # 1 => i - 1 \in 1..R
      BY <1>1
    <3> QED BY <1>3, <2>3, <3>1
  <2>5. Is(k)
    <3> HIDE DEF k
    <3>1. k = [i \in 1..R |-> k[i]]
      BY DEF k
    <3> QED BY <1>2, <2>4, <3>1
  <2>6. Is(g)
    <3> HIDE DEF Is, k
    <3> QED BY <2>1, <2>5
  <2>7. \A i \in 1..R : g[i] = IF i = 1 THEN seqs[i] ELSE g[i - 1] \o seqs[i]
    BY <1>2, <2>6
  <2> HIDE DEF Is, k
  <2> DEFINE Odd == {i \in Nat : i \in 1..R /\ g[i] # f[i]}
  <2>8. Odd = {}
    <3> SUFFICES ASSUME Odd # {} PROVE FALSE
      OBVIOUS
    <3>1. PICK i \in Odd : \A j \in Odd : i <= j
      <4>1. Min(Odd) \in Odd /\ \A j \in Odd : Min(Odd) <= j
        BY MinIs
      <4> QED BY <4>1
    <3>2. i # 1
      BY <2>3, <2>7, <3>1
    <3>3. i - 1 \in 1..R /\ i - 1 \notin Odd /\ i - 1 \in Nat
      BY <1>1, <3>1, <3>2
    <3>4. g[i - 1] = f[i - 1]
      BY <3>3
    <3>5. i \in 1..R /\ g[i] # f[i]
      BY <3>1
    <3> HIDE DEF Odd
    <3>6. g[i] = g[i - 1] \o seqs[i]
      BY <2>7, <3>2, <3>5
    <3>7. f[i] = f[i - 1] \o seqs[i]
      BY <1>3, <3>5
    <3> QED BY <3>4, <3>5, <3>6, <3>7
  <2>9. R \in 1..R /\ R \notin Odd
    BY <1>1, <1>5, <2>8
  <2>10. g[R] = f[R]
    BY <1>1, <2>9
  <2> QED BY <1>2, <2>2, <2>10 DEF seqs, R
<1> QED BY <1>4, <1>5

\* The sectors of a file are those of its runs, one behind the other.
LEMMA SectorsLaid ==
  ASSUME NEW file, ~file.inline, file.runs \in Seq(Runs)
  PROVE  \E off : Laid(Sectors(file), off, file.runs)
<1> DEFINE runs == file.runs
           R == Len(runs)
<1>1. runs \in Seq(Runs) /\ R \in Nat /\ DOMAIN runs = 1..R /\ \A n \in 1..R : runs[n] \in Runs
  OBVIOUS
<1>2. PICK f \in [0..R -> Seq(Nat)] : Flat(f, runs)
  BY <1>1, FlatThere
<1>3. Sectors(file) = f[R]
  <2>1. Sectors(file) = FlattenSeq([n \in DOMAIN runs |-> RunSectors(runs[n])])
    BY DEF Sectors, RunSectors
  <2> QED BY <1>1, <1>2, <2>1, FlatIs
<1> HIDE DEF runs, R
<1> DEFINE off == [n \in 0..R |-> Len(f[n])]
<1>4. \A n \in 0..R : off[n] = Len(f[n]) /\ off[n] \in Nat /\ f[n] \in Seq(Nat)
  BY <1>2
<1>5. ASSUME NEW n \in 1..R
      PROVE  /\ n - 1 \in 0..R /\ n \in 0..R /\ off[n] = off[n - 1] + runs[n].count
             /\ runs[n].count \in Nat
             /\ \A j \in 1..off[n - 1] : f[n][j] = f[n - 1][j]
             /\ \A k \in 1..runs[n].count : f[n][off[n - 1] + k] = runs[n].sector + k - 1
  <2>1. n - 1 \in 0..R /\ n \in 0..R
    BY <1>1
  <2> DEFINE p == f[n - 1]
             q == RunSectors(runs[n])
  <2>2. f[n] = p \o q
    BY <1>2 DEF Flat, R
  <2>3. /\ q \in Seq(Nat) /\ Len(q) = runs[n].count /\ runs[n].count \in Nat
        /\ \A k \in 1..runs[n].count : q[k] = runs[n].sector + k - 1
    BY <1>1, RunIs
  <2>4. p \in Seq(Nat) /\ Len(p) = off[n - 1] /\ off[n - 1] \in Nat
    BY <1>4, <2>1
  <2>5. off[n] = Len(f[n])
    BY <1>4, <2>1
  <2> HIDE DEF p, q, off
  <2>6. /\ Len(p \o q) = Len(p) + Len(q)
        /\ \A j \in 1..Len(p) : (p \o q)[j] = p[j]
        /\ \A j \in 1..(Len(p) + Len(q)) : j > Len(p) => (p \o q)[j] = q[j - Len(p)]
    BY <2>3, <2>4, JoinIs
  <2>7. ASSUME NEW k \in 1..runs[n].count PROVE f[n][off[n - 1] + k] = runs[n].sector + k - 1
    <3>0. PICK o \in Nat, c \in Nat : o = off[n - 1] /\ o = Len(p) /\ c = Len(q) /\ k \in 1..c
      BY <2>3, <2>4
    <3>1. PICK j \in 1..(Len(p) + Len(q)) : j = off[n - 1] + k /\ j > Len(p) /\ j - Len(p) = k
      <4>1. o + k \in 1..(o + c) /\ o + k > o /\ (o + k) - o = k
        BY <3>0
      <4> QED BY <3>0, <4>1
    <3>2. (p \o q)[j] = q[j - Len(p)]
      BY <2>6, <3>1
    <3>3. f[n][j] = q[k]
      BY <2>2, <3>1, <3>2
    <3> QED BY <2>3, <3>1, <3>3
  <2> QED BY <2>1, <2>2, <2>3, <2>4, <2>5, <2>6, <2>7 DEF p
<1> HIDE DEF off
<1> DEFINE Ext(n, m) == off[n] <= off[m] /\ \A j \in 1..off[n] : f[m][j] = f[n][j]
           Odd == {m \in Nat : m \in 0..R /\ \E n \in 0..m : ~Ext(n, m)}
<1>6. Odd = {}
  <2> SUFFICES ASSUME Odd # {} PROVE FALSE
    OBVIOUS
  <2>1. PICK m \in Odd : \A j \in Odd : m <= j
    <3>1. Min(Odd) \in Odd /\ \A j \in Odd : Min(Odd) <= j
      BY MinIs
    <3> QED BY <3>1
  <2>2. PICK n \in 0..m : ~Ext(n, m)
    BY <2>1
  <2>3. m \in 0..R /\ m \in Nat /\ n \in 0..R
    BY <1>1, <2>1
  <2>4. n # m
    BY <1>4, <2>2, <2>3
  <2>5. m \in 1..R /\ m - 1 \in Nat /\ m - 1 \in 0..R /\ n \in 0..(m - 1) /\ m - 1 \notin Odd
    BY <1>1, <2>1, <2>2, <2>3, <2>4
  <2>6. Ext(n, m - 1)
    <3> HIDE DEF Ext
    <3> QED BY <2>5
  <2>7. /\ off[m] = off[m - 1] + runs[m].count /\ runs[m].count \in Nat
        /\ \A j \in 1..off[m - 1] : f[m][j] = f[m - 1][j]
    BY <1>5, <2>5
  <2>8. off[n] \in Nat /\ off[m - 1] \in Nat /\ off[n] <= off[m - 1]
    BY <1>4, <2>3, <2>5, <2>6
  <2>9. off[n] <= off[m]
    BY <2>7, <2>8
  <2>10. ASSUME NEW j \in 1..off[n] PROVE f[m][j] = f[n][j]
    <3>1. j \in 1..off[m - 1]
      BY <2>8
    <3> QED BY <2>6, <2>7, <3>1
  <2> QED BY <2>2, <2>9, <2>10
<1>7. ASSUME NEW n \in 0..R PROVE Ext(n, R)
  <2>0. R \in Nat /\ R \in 0..R
    BY <1>1
  <2>1. R \notin Odd
    <3> HIDE DEF Odd, Ext
    <3> QED BY <1>6
  <2> HIDE DEF Ext
  <2> QED BY <2>0, <2>1
<1>8. ASSUME NEW n \in 1..R, NEW k \in 1..runs[n].count
      PROVE  f[R][off[n - 1] + k] = runs[n].sector + k - 1
  <2>1. /\ n - 1 \in 0..R /\ n \in 0..R /\ off[n] = off[n - 1] + runs[n].count /\ runs[n].count \in Nat
        /\ f[n][off[n - 1] + k] = runs[n].sector + k - 1
    BY <1>5
  <2>2. off[n - 1] \in Nat
    BY <1>4, <2>1
  <2>3. off[n - 1] + k \in 1..off[n]
    BY <2>1, <2>2
  <2>4. f[R][off[n - 1] + k] = f[n][off[n - 1] + k]
    BY <1>7, <2>1, <2>3
  <2> QED BY <2>1, <2>4
<1>9. off[0] = 0
  <2>1. 0 \in 0..R /\ f[0] = <<>>
    BY <1>1, <1>2 DEF Flat
  <2> QED BY <1>4, <2>1
<1>10. \A n \in 1..R : off[n] = off[n - 1] + runs[n].count /\ off[n] <= off[R]
  <2> SUFFICES ASSUME NEW n \in 1..R PROVE off[n] = off[n - 1] + runs[n].count /\ off[n] <= off[R]
    OBVIOUS
  <2>1. n \in 0..R
    BY <1>5
  <2> QED BY <1>5, <1>7, <2>1
<1>11. R \in 0..R
  BY <1>1
<1>12. f[R] \in Seq(Nat) /\ Len(f[R]) = off[R]
  BY <1>4, <1>11
<1>13. \A n \in 0..R : off[n] \in Nat
  BY <1>4
<1> HIDE DEF Ext, Odd
<1>14. Laid(f[R], off, runs)
  BY <1>8, <1>9, <1>10, <1>12, <1>13 DEF Laid, R
<1> QED BY <1>3, <1>14 DEF runs

-----------------------------------------------------------------------------
(* The turns: the runs, or parts of runs, that a part of a file lies in.   *)

\* Volumes do not overlap, and end with the set.
LEMMA VolumesApart ==
  /\ \A u, v \in Vols : u < v => Start(u) + VolSizes[u] <= Start(v)
  /\ Total \in Nat /\ \A v \in Vols : Start(v) + VolSizes[v] <= Total
<1>1. /\ Len(VolSizes) \in Nat \ {0} /\ Vols = 1..Len(VolSizes)
      /\ \A v \in Vols : VolSizes[v] \in Nat \ {0} /\ Start(v) \in Nat
      /\ \A v \in Vols : v # 1 => v - 1 \in Vols /\ Start(v) = Start(v - 1) + VolSizes[v - 1]
  BY StartsAre
<1> DEFINE Behind1(v) == \A u \in Vols : u < v => Start(u) + VolSizes[u] <= Start(v)
           Odd == {v \in Nat : v \in Vols /\ ~Behind1(v)}
<1>2. Odd = {}
  <2> SUFFICES ASSUME Odd # {} PROVE FALSE
    OBVIOUS
  <2>1. PICK v \in Odd : \A w \in Odd : v <= w
    <3>1. Min(Odd) \in Odd /\ \A w \in Odd : Min(Odd) <= w
      BY MinIs
    <3> QED BY <3>1
  <2>2. PICK u \in Vols : u < v /\ ~(Start(u) + VolSizes[u] <= Start(v))
    BY <2>1
  <2>3. v # 1 /\ u \in Nat /\ v \in Nat /\ v \in Vols
    BY <1>1, <2>1, <2>2
  <2>4. v - 1 \in Vols /\ v - 1 \in Nat /\ Start(v) = Start(v - 1) + VolSizes[v - 1] /\ v - 1 \notin Odd
    <3>1. v - 1 \in Nat /\ v - 1 < v
      BY <1>1, <2>3
    <3>2. ~(v <= v - 1)
      BY <3>1, <2>3
    <3>3. v - 1 \notin Odd
      BY <2>1, <3>2
    <3> HIDE DEF Odd
    <3> QED BY <1>1, <2>3, <3>1, <3>3
  <2>5. CASE u = v - 1
    BY <1>1, <2>2, <2>4, <2>5
  <2>6. CASE u # v - 1
    <3>1. u < v - 1
      BY <2>2, <2>3, <2>6
    <3>2. Start(u) + VolSizes[u] <= Start(v - 1)
      BY <2>2, <2>4, <3>1
    <3> HIDE DEF Behind1, Odd
    <3>3. PICK b \in Nat, d \in Nat, e \in Nat : b = Start(v - 1) /\ d = VolSizes[v - 1] /\ e = Start(u) + VolSizes[u]
      <4>1. Start(v - 1) \in Nat /\ VolSizes[v - 1] \in Nat
        BY <1>1, <2>4
      <4>2. Start(u) + VolSizes[u] \in Nat
        BY <1>1
      <4> QED BY <4>1, <4>2
    <3>4. e <= b /\ Start(v) = b + d /\ ~(e <= Start(v))
      BY <2>2, <2>4, <3>2, <3>3
    <3>5. e <= b + d
      BY <3>3, <3>4
    <3> QED BY <3>4, <3>5
  <2> QED BY <2>5, <2>6
<1>3. \A u, v \in Vols : u < v => Start(u) + VolSizes[u] <= Start(v)
  <2> SUFFICES ASSUME NEW v \in Vols PROVE Behind1(v)
    OBVIOUS
  <2>1. v \in Nat /\ v \notin Odd
    <3> HIDE DEF Odd
    <3> QED BY <1>1, <1>2
  <2> HIDE DEF Behind1
  <2> QED BY <2>1
<1> DEFINE last == Len(VolSizes)
<1>4. last \in Vols /\ Total = Start(last) + VolSizes[last] /\ last \in Nat
  BY <1>1 DEF Total
<1> HIDE DEF last
<1>5. ASSUME NEW v \in Vols PROVE Start(v) + VolSizes[v] <= Total
  <2>1. CASE v = last
    BY <1>1, <1>4, <2>1
  <2>2. CASE v # last
    <3>1. v < last
      BY <1>1, <2>2 DEF last
    <3>2. Start(v) + VolSizes[v] <= Start(last)
      BY <1>3, <1>4, <3>1
    <3> QED BY <1>1, <1>4, <3>2
  <2> QED BY <2>1, <2>2
<1> QED BY <1>1, <1>3, <1>4, <1>5

\* A sector is in one volume.
LEMMA InVolume ==
  ASSUME NEW v \in Vols, NEW x \in Nat, Start(v) <= x, x < Start(v) + VolSizes[v]
  PROVE  x \in 0..(Total - 1) /\ VolumeAt(x) = v
<1>1. /\ \A u \in Vols : VolSizes[u] \in Nat /\ Start(u) \in Nat /\ u \in Nat
      /\ \A u, w \in Vols : u < w => Start(u) + VolSizes[u] <= Start(w)
      /\ Total \in Nat /\ Start(v) + VolSizes[v] <= Total
  BY StartsAre, VolumesApart
<1>2. x \in 0..(Total - 1)
  BY <1>1
<1>3. VolumeAt(x) \in Vols /\ Start(VolumeAt(x)) <= x /\ x < Start(VolumeAt(x)) + VolSizes[VolumeAt(x)]
  BY DEF VolumeAt
<1>4. VolumeAt(x) = v
  <2>1. PICK u \in Vols : u = VolumeAt(x)
    BY <1>3
  <2>2. ~(u < v)
    BY <1>1, <1>3, <2>1
  <2>3. ~(v < u)
    BY <1>1, <1>3, <2>1
  <2> QED BY <1>1, <2>1, <2>2, <2>3
<1> QED BY <1>2, <1>4

\* Sectors that begin and end in one volume.
OneVolume(run) == /\ run.sector + run.count <= Total
                  /\ VolumeAt(run.sector) = VolumeAt(run.sector + run.count - 1)

\* All of them are in it.
LEMMA OneVolumeIs ==
  ASSUME NEW run \in Runs, OneVolume(run)
  PROVE  LET v == VolumeAt(run.sector)
         IN  /\ v \in Vols /\ Start(v) \in Nat /\ VolSizes[v] \in Nat /\ Start(v) <= run.sector
             /\ run.sector + run.count <= Start(v) + VolSizes[v]
             /\ \A x \in Nat : run.sector <= x /\ x < run.sector + run.count =>
                  x \in 0..(Total - 1) /\ VolumeAt(x) = v
<1> DEFINE v == VolumeAt(run.sector)
           last == run.sector + run.count - 1
<1>1. run.sector \in Nat /\ run.count \in Nat /\ run.count >= 1 /\ Total \in Nat
  BY RunIs, VolumesApart
<1>2. run.sector + run.count <= Total /\ VolumeAt(last) = v
  BY DEF OneVolume
<1>3. run.sector \in 0..(Total - 1) /\ last \in 0..(Total - 1)
  BY <1>1, <1>2
<1>4. v \in Vols /\ run.sector - Start(v) \in SectorsOf(v) /\ last - Start(v) \in SectorsOf(v)
  BY <1>2, <1>3, VolumeAtIs
<1>5. Start(v) \in Nat /\ VolSizes[v] \in Nat
  BY <1>4, StartsAre
<1>6. Start(v) <= run.sector /\ run.sector + run.count <= Start(v) + VolSizes[v]
  BY <1>1, <1>4, <1>5 DEF SectorsOf
<1> HIDE DEF v
<1>7. ASSUME NEW x \in Nat, run.sector <= x, x < run.sector + run.count
      PROVE  x \in 0..(Total - 1) /\ VolumeAt(x) = v
  <2>1. Start(v) <= x /\ x < Start(v) + VolSizes[v]
    BY <1>1, <1>5, <1>6, <1>7
  <2> QED BY <1>4, <2>1, InVolume
<1> QED BY <1>4, <1>5, <1>6, <1>7 DEF v

\* And so are parts of them.
LEMMA PartInVolume ==
  ASSUME NEW run \in Runs, OneVolume(run), NEW n \in Nat, NEW count \in Nat \ {0}, n + count <= run.count
  PROVE  /\ [sector |-> run.sector + n, count |-> count] \in Runs
         /\ OneVolume([sector |-> run.sector + n, count |-> count])
<1> DEFINE part == [sector |-> run.sector + n, count |-> count]
<1>1. run.sector \in Nat /\ run.count \in Nat /\ count \in Nat /\ count >= 1 /\ Total \in Nat
  BY RunIs, VolumesApart
<1>2. part \in Runs
  BY <1>1 DEF Runs
<1>3. PICK v : v = VolumeAt(run.sector)
  OBVIOUS
<1>4. \A x \in Nat : run.sector <= x /\ x < run.sector + run.count =>
        x \in 0..(Total - 1) /\ VolumeAt(x) = v
  BY <1>3, OneVolumeIs
<1>5. PICK x \in Nat, y \in Nat : /\ x = run.sector + n /\ y = run.sector + n + count - 1
                                  /\ run.sector <= x /\ x < run.sector + run.count
                                  /\ run.sector <= y /\ y < run.sector + run.count
  <2>1. /\ run.sector + n \in Nat /\ run.sector + n + count - 1 \in Nat
        /\ run.sector <= run.sector + n /\ run.sector + n < run.sector + run.count
        /\ run.sector <= run.sector + n + count - 1 /\ run.sector + n + count - 1 < run.sector + run.count
    BY <1>1
  <2> QED BY <2>1
<1>6. VolumeAt(x) = v /\ VolumeAt(y) = v
  BY <1>4, <1>5
<1>7. run.sector + n + count <= Total
  BY <1>1 DEF OneVolume
<1>8. OneVolume(part)
  BY <1>5, <1>6, <1>7 DEF OneVolume
<1> QED BY <1>2, <1>8

\* The turns go through p places of a list of sectors from place a on.
Covers(turns, pos, secs, a, p) ==
  /\ turns \in Seq(Runs)
  /\ pos[0] = 0 /\ pos[Len(turns)] = p
  /\ \A n \in 0..Len(turns) : pos[n] \in Nat
  /\ \A n \in 1..Len(turns) :
       /\ pos[n] = pos[n - 1] + turns[n].count /\ pos[n] <= p
       /\ OneVolume(turns[n])
       /\ \A k \in 1..turns[n].count : secs[a + pos[n - 1] + k] = turns[n].sector + k - 1

LEMMA OneTurnMore ==
  ASSUME NEW turns, NEW pos, NEW secs, NEW a \in Nat, NEW p, Covers(turns, pos, secs, a, p),
         NEW turn \in Runs, OneVolume(turn), \A k \in 1..turn.count : secs[a + p + k] = turn.sector + k - 1
  PROVE  \E pos1 : Covers(Append(turns, turn), pos1, secs, a, p + turn.count)
<1> DEFINE L == Len(turns)
           pos1 == [n \in 0..(L + 1) |-> IF n <= L THEN pos[n] ELSE p + turn.count]
           more == Append(turns, turn)
<1>1. /\ turns \in Seq(Runs) /\ L \in Nat /\ pos[0] = 0 /\ pos[L] = p /\ p \in Nat
      /\ \A n \in 0..L : pos[n] \in Nat
  <2>1. /\ turns \in Seq(Runs) /\ pos[0] = 0 /\ pos[L] = p /\ \A n \in 0..L : pos[n] \in Nat
    BY DEF Covers
  <2>2. L \in Nat /\ L \in 0..L
    BY <2>1
  <2> QED BY <2>1, <2>2
<1>2. turn.count \in Nat
  BY RunIs
<1>3. /\ more \in Seq(Runs) /\ Len(more) = L + 1 /\ more[L + 1] = turn
      /\ \A n \in 1..L : more[n] = turns[n]
  BY <1>1
<1>4. /\ pos1[0] = 0 /\ pos1[L + 1] = p + turn.count /\ pos1[L] = p
      /\ \A n \in 0..L : pos1[n] = pos[n]
  BY <1>1
<1>5. \A n \in 0..(L + 1) : pos1[n] \in Nat
  BY <1>1, <1>2
<1> HIDE DEF pos1, more
<1>6. ASSUME NEW n \in 1..(L + 1)
      PROVE  /\ pos1[n] = pos1[n - 1] + more[n].count /\ pos1[n] <= p + turn.count
             /\ OneVolume(more[n])
             /\ \A k \in 1..more[n].count : secs[a + pos1[n - 1] + k] = more[n].sector + k - 1
  <2>1. CASE n = L + 1
    <3>1. n - 1 = L
      BY <1>1, <2>1
    <3> QED BY <1>1, <1>2, <1>3, <1>4, <2>1, <3>1
  <2>2. CASE n # L + 1
    <3>1. n \in 1..L /\ n \in 0..L /\ n - 1 \in 0..L
      BY <1>1, <2>2
    <3>2. more[n] = turns[n] /\ pos1[n] = pos[n] /\ pos1[n - 1] = pos[n - 1] /\ pos[n] \in Nat
      BY <1>1, <1>3, <1>4, <3>1
    <3>3. /\ pos[n] = pos[n - 1] + turns[n].count /\ pos[n] <= p
          /\ OneVolume(turns[n])
          /\ \A k \in 1..turns[n].count : secs[a + pos[n - 1] + k] = turns[n].sector + k - 1
      BY <3>1 DEF Covers
    <3> QED BY <1>1, <1>2, <3>2, <3>3
  <2> QED BY <2>1, <2>2
<1> HIDE DEF L
<1>7. Covers(more, pos1, secs, a, p + turn.count)
  BY <1>3, <1>4, <1>5, <1>6 DEF Covers
<1> QED BY <1>7 DEF more

\* The loop has come through m runs.
TurnInv(acc, m, secs, off, a, c) ==
  /\ acc = [start |-> acc.start, left |-> acc.left, turns |-> acc.turns]
  /\ acc.start \in Nat /\ acc.left \in 0..c
  /\ \E pos : Covers(acc.turns, pos, secs, a, c - acc.left)
  /\ acc.start > 0 => acc.left = c
  /\ acc.left > 0 => off[m] + acc.start = a + (c - acc.left)
  /\ acc.left = 0 => a + c <= off[m]

LEMMA TurnKeeps ==
  ASSUME NEW runs \in Seq(Runs), \A n \in 1..Len(runs) : OneVolume(runs[n]),
         NEW secs, NEW off, Laid(secs, off, runs), NEW a \in Nat, NEW c \in Nat,
         NEW m \in 1..Len(runs), NEW acc, TurnInv(acc, m - 1, secs, off, a, c)
  PROVE  TurnInv(Turn(acc, runs[m]), m, secs, off, a, c)
<1> DEFINE run == runs[m]
           new == Turn(acc, run)
           count == Min({run.count - acc.start, acc.left})
<1>1. /\ run \in Runs /\ OneVolume(run) /\ run.count \in Nat /\ run.count >= 1 /\ run.sector \in Nat
  <2>1. run \in Runs
    OBVIOUS
  <2> HIDE DEF run
  <2> QED BY <2>1, RunIs DEF run
<1>2. /\ acc = [start |-> acc.start, left |-> acc.left, turns |-> acc.turns]
      /\ acc.start \in Nat /\ acc.left \in Nat /\ acc.left <= c
      /\ acc.start > 0 => acc.left = c
      /\ acc.left > 0 => off[m - 1] + acc.start = a + (c - acc.left)
      /\ acc.left = 0 => a + c <= off[m - 1]
  BY DEF TurnInv
<1>3. PICK pos : Covers(acc.turns, pos, secs, a, c - acc.left)
  BY DEF TurnInv
<1>4. /\ off[m - 1] \in Nat /\ off[m] = off[m - 1] + run.count
      /\ \A k \in 1..run.count : secs[off[m - 1] + k] = run.sector + k - 1
  <2>1. m - 1 \in 0..Len(runs)
    OBVIOUS
  <2> QED BY <2>1 DEF Laid
<1>5. new = IF acc.left = 0 THEN acc
            ELSE IF Skipped(run, acc.start) THEN [acc EXCEPT !.start = @ - run.count]
            ELSE [start |-> 0, left |-> acc.left - count,
                  turns |-> Append(acc.turns, [sector |-> run.sector + acc.start, count |-> count])]
  BY DEF Turn, FirstSector
<1> HIDE DEF new, run, count
<1>6. CASE acc.left = 0
  <2>1. new = acc
    BY <1>5, <1>6
  <2>2. a + c <= off[m]
    BY <1>1, <1>2, <1>4, <1>6
  <2>3. TurnInv(acc, m, secs, off, a, c)
    BY <1>2, <1>3, <1>6, <2>2 DEF TurnInv
  <2> QED BY <2>1, <2>3 DEF new, run
<1>7. CASE acc.left # 0 /\ Skipped(run, acc.start)
  <2>1. acc.start > 0 /\ run.count <= acc.start
    BY <1>7 DEF Skipped
  <2>2. new = [start |-> acc.start - run.count, left |-> acc.left, turns |-> acc.turns]
    <3>1. new = [acc EXCEPT !.start = @ - run.count]
      BY <1>5, <1>7
    <3> QED BY <1>2, <3>1
  <2>3. new.start = acc.start - run.count /\ new.left = acc.left /\ new.turns = acc.turns
    BY <2>2
  <2>4. /\ new.start \in Nat /\ new.left \in 0..c
        /\ new.start > 0 => new.left = c
        /\ new.left > 0 => off[m] + new.start = a + (c - new.left)
        /\ new.left = 0 => a + c <= off[m]
    BY <1>1, <1>2, <1>4, <1>7, <2>1, <2>3
  <2>5. TurnInv(new, m, secs, off, a, c)
    BY <1>3, <2>2, <2>3, <2>4 DEF TurnInv
  <2> QED BY <2>5 DEF new, run
<1>8. CASE acc.left # 0 /\ ~Skipped(run, acc.start)
  <2>1. acc.start < run.count
    BY <1>1, <1>2, <1>8 DEF Skipped
  <2>2. count \in {run.count - acc.start, acc.left} /\ count <= run.count - acc.start /\ count <= acc.left
    <3>1. {run.count - acc.start, acc.left} \subseteq Nat /\ {run.count - acc.start, acc.left} # {}
      BY <1>1, <1>2, <2>1
    <3> QED BY <3>1, MinIs DEF count
  <2>3. count \in Nat \ {0} /\ acc.start + count <= run.count /\ count <= acc.left
    BY <1>1, <1>2, <1>8, <2>1, <2>2
  <2> DEFINE turn == [sector |-> run.sector + acc.start, count |-> count]
  <2>4. turn \in Runs /\ OneVolume(turn)
    BY <1>1, <1>2, <2>3, PartInVolume
  <2>5. turn.sector = run.sector + acc.start /\ turn.count = count
    OBVIOUS
  <2>6. new = [start |-> 0, left |-> acc.left - count, turns |-> Append(acc.turns, turn)]
    BY <1>5, <1>8
  <2> HIDE DEF turn
  <2>7. new.start = 0 /\ new.left = acc.left - count /\ new.turns = Append(acc.turns, turn)
    BY <2>6
  <2>8. \A k \in 1..turn.count : secs[a + (c - acc.left) + k] = turn.sector + k - 1
    <3> SUFFICES ASSUME NEW k \in 1..turn.count PROVE secs[a + (c - acc.left) + k] = turn.sector + k - 1
      OBVIOUS
    <3>1. PICK j \in 1..run.count : j = acc.start + k
      BY <1>1, <1>2, <2>3, <2>5, SMTT(30)
    <3>2. secs[off[m - 1] + j] = run.sector + j - 1
      BY <1>4
    <3>3. off[m - 1] + j = a + (c - acc.left) + k
      BY <1>2, <1>4, <1>8, <2>3, <2>5, <3>1, SMTT(30)
    <3>4. run.sector + j - 1 = turn.sector + k - 1
      BY <1>1, <1>2, <2>3, <2>5, <3>1
    <3> QED BY <3>2, <3>3, <3>4
  <2>9. PICK pos1 : Covers(Append(acc.turns, turn), pos1, secs, a, (c - acc.left) + turn.count)
    BY <1>3, <2>4, <2>8, OneTurnMore
  <2>10. (c - acc.left) + turn.count = c - new.left
    BY <1>2, <2>3, <2>5, <2>7
  <2>11. Covers(new.turns, pos1, secs, a, c - new.left)
    BY <2>7, <2>9, <2>10
  <2>12. /\ new.start \in Nat /\ new.left \in 0..c
         /\ new.start > 0 => new.left = c
         /\ new.left > 0 => off[m] + new.start = a + (c - new.left)
         /\ new.left = 0 => a + c <= off[m]
    <3>1. new.start = 0 /\ new.left \in 0..c
      BY <1>2, <2>3, <2>7
    <3>2. off[m - 1] + acc.start = a + (c - acc.left)
      BY <1>2, <1>8
    <3>3. new.left > 0 => count = run.count - acc.start
      BY <1>1, <1>2, <2>2, <2>7
    <3> DEFINE o == off[m - 1]
               t == acc.start
               l == acc.left
               r == run.count
    <3>6. /\ o \in Nat /\ t \in Nat /\ l \in Nat /\ r \in Nat /\ l <= c /\ o + t = a + (c - l)
          /\ off[m] = o + r /\ new.left = l - count /\ count \in Nat /\ count <= l /\ t + count <= r
          /\ new.left > 0 => count = r - t
      BY <1>1, <1>2, <1>4, <2>3, <2>7, <3>2, <3>3
    <3> HIDE DEF o, t, l, r
    <3>4. new.left > 0 => off[m] + 0 = a + (c - new.left)
      BY <3>6
    <3>5. new.left = 0 => a + c <= off[m]
      BY <3>6
    <3> QED BY <3>1, <3>4, <3>5
  <2>13. TurnInv(new, m, secs, off, a, c)
    <3>1. new = [start |-> new.start, left |-> new.left, turns |-> new.turns]
      BY <2>6
    <3> QED BY <2>11, <2>12, <3>1 DEF TurnInv
  <2> QED BY <2>13 DEF new, run
<1> QED BY <1>6, <1>7, <1>8

\* As much of the part as there is in a file of L sectors.
PartOf(p, a, c, L) == p \in Nat /\ p <= c /\ a + p <= L /\ (p = c \/ a + p = L)

LEMMA TurnsAre ==
  ASSUME NEW file, file.runs \in Seq(Runs), \A n \in 1..Len(file.runs) : OneVolume(file.runs[n]),
         NEW secs, NEW off, Laid(secs, off, file.runs), NEW a \in 0..Len(secs), NEW c \in Nat \ {0}
  PROVE  \E p, pos : Covers(Turns(file, a, c), pos, secs, a, p) /\ PartOf(p, a, c, Len(secs))
<1> DEFINE runs == file.runs
           R == Len(runs)
           z == [start |-> a, left |-> c, turns |-> <<>>]
<1>1. runs \in Seq(Runs) /\ R \in Nat /\ Len(secs) \in Nat /\ a \in Nat
      /\ Len(secs) = off[R] /\ off[0] = 0
  BY DEF Laid
<1>2. PICK f : Chain(f, "turn", z, runs, R) /\ Turns(file, a, c) = f[R].turns
  BY TurnsFold
<1>3. \A m \in 1..R : f[m] = Turn(f[m - 1], runs[m])
  BY <1>2 DEF Chain, Step
<1>4. f[0] = z
  BY <1>2 DEF Chain
<1>5. TurnInv(z, 0, secs, off, a, c)
  <2>1. z.start = a /\ z.left = c /\ z.turns = <<>> /\ z = [start |-> z.start, left |-> z.left, turns |-> z.turns]
    OBVIOUS
  <2> DEFINE none == [n \in 0..0 |-> 0]
  <2>2. Covers(<<>>, none, secs, a, 0)
    <3>1. <<>> \in Seq(Runs) /\ Len(<<>>) = 0 /\ none[0] = 0
      OBVIOUS
    <3> HIDE DEF none
    <3> QED BY <3>1 DEF Covers
  <2> HIDE DEF z, none
  <2>3. c - z.left = 0
    BY <2>1
  <2>4. Covers(z.turns, none, secs, a, c - z.left)
    BY <2>1, <2>2, <2>3
  <2>5. /\ z.start \in Nat /\ z.left \in 0..c
        /\ z.start > 0 => z.left = c
        /\ z.left > 0 => off[0] + z.start = a + (c - z.left)
        /\ z.left = 0 => a + c <= off[0]
    BY <1>1, <2>1
  <2> QED BY <2>1, <2>4, <2>5 DEF TurnInv
<1> HIDE DEF z
<1> DEFINE Good(m) == TurnInv(f[m], m, secs, off, a, c)
           Odd == {m \in Nat : m <= R /\ ~Good(m)}
<1>6. Odd = {}
  <2> SUFFICES ASSUME Odd # {} PROVE FALSE
    OBVIOUS
  <2>1. PICK m \in Odd : \A k \in Odd : m <= k
    <3>1. Min(Odd) \in Odd /\ \A k \in Odd : Min(Odd) <= k
      BY MinIs
    <3> QED BY <3>1
  <2>2. m \in Nat /\ m <= R /\ ~Good(m)
    BY <2>1
  <2>3. m # 0
    BY <1>4, <1>5, <2>2
  <2>4. m \in 1..R /\ m - 1 \in Nat /\ m - 1 <= R /\ ~(m <= m - 1)
    BY <1>1, <2>2, <2>3
  <2>5. m - 1 \notin Odd
    BY <2>1, <2>4
  <2>6. Good(m - 1)
    <3> HIDE DEF Good
    <3> QED BY <2>4, <2>5
  <2>7. PICK acc : acc = f[m - 1]
    OBVIOUS
  <2>8. TurnInv(acc, m - 1, secs, off, a, c)
    BY <2>6, <2>7
  <2>9. TurnInv(Turn(acc, runs[m]), m, secs, off, a, c)
    BY <1>1, <2>4, <2>8, TurnKeeps
  <2> QED BY <1>3, <2>2, <2>4, <2>7, <2>9
<1>7. Good(R)
  <2>1. R \notin Odd
    BY <1>6
  <2> HIDE DEF Good
  <2> QED BY <1>1, <2>1
<1> DEFINE acc == f[R]
           p == c - acc.left
<1>8. PICK pos : Covers(acc.turns, pos, secs, a, p)
  BY <1>7 DEF TurnInv
<1>9. PartOf(p, a, c, Len(secs))
  <2>1. /\ acc.start \in Nat /\ acc.left \in Nat /\ acc.left <= c
        /\ acc.start > 0 => acc.left = c
        /\ acc.left > 0 => Len(secs) + acc.start = a + p
        /\ acc.left = 0 => a + c <= Len(secs)
    BY <1>1, <1>7 DEF TurnInv
  <2> HIDE DEF acc
  <2>2. a \in Nat /\ a <= Len(secs) /\ Len(secs) \in Nat
    BY <1>1
  <2>3. p \in Nat /\ p <= c /\ (acc.left = 0 <=> p = c)
    BY <2>1
  <2>4. acc.start > 0 => acc.left = 0
    BY <2>1, <2>2
  <2>5. acc.left > 0 => acc.start = 0
    BY <2>1, <2>4
  <2> QED BY <2>1, <2>2, <2>3, <2>5 DEF PartOf
<1> QED BY <1>2, <1>8, <1>9

-----------------------------------------------------------------------------
(* Reading a part of a file.                                               *)

\* What a sector of the set holds in an image of the volumes.
Latest(f, x) == f[VolumeAt(x)][x - Start(VolumeAt(x))]

\* A turn reads its sectors.
LEMMA TurnReads ==
  ASSUME MemInv, NEW run \in Runs, OneVolume(run)
  PROVE  ReadVolume(run.sector, run.count) = [k \in 1..run.count |-> Latest(view, run.sector + k - 1)]
<1> DEFINE v == VolumeAt(run.sector)
           t == run.sector - Start(v)
           n == run.count
<1>1. /\ run.sector \in Nat /\ n \in Nat /\ n >= 1
      /\ v \in Vols /\ Start(v) \in Nat /\ VolSizes[v] \in Nat /\ Start(v) <= run.sector
      /\ run.sector + n <= Start(v) + VolSizes[v]
      /\ \A x \in Nat : run.sector <= x /\ x < run.sector + n => VolumeAt(x) = v
  BY RunIs, OneVolumeIs
<1>2. ReadVolume(run.sector, run.count) = ReadData(v, t, n)
  BY DEF ReadVolume
<1> HIDE DEF v, n
<1>3. t \in Nat /\ t + n \in Nat /\ t < t + n /\ t + n <= VolSizes[v] /\ (t + n) - t = n
  BY <1>1
<1>4. ReadData(v, t, n) = Stretch(view[v], t, t + n)
  BY <1>1, <1>3, ReadIs DEF Asked
<1>5. Stretch(view[v], t, t + n) = [k \in 1..n |-> view[v][t + k - 1]]
  BY <1>3 DEF Stretch
<1>6. ASSUME NEW k \in 1..n PROVE view[v][t + k - 1] = Latest(view, run.sector + k - 1)
  <2>1. PICK x \in Nat : x = run.sector + k - 1 /\ run.sector <= x /\ x < run.sector + n
    BY <1>1
  <2>2. VolumeAt(x) = v
    BY <1>1, <2>1
  <2>3. x - Start(v) = t + k - 1
    BY <1>1, <2>1
  <2> HIDE DEF t
  <2> QED BY <2>1, <2>2, <2>3 DEF Latest
<1> HIDE DEF t
<1> QED BY <1>2, <1>4, <1>5, <1>6 DEF n

\* The turns read the places that they go through.
ReadsPlaces(turns, secs, a, p) == ReadAll(turns) = [k \in 1..p |-> Latest(view, secs[a + k])]

LEMMA TurnsRead ==
  ASSUME MemInv, NEW turns, NEW pos, NEW secs, NEW a \in Nat, NEW p, Covers(turns, pos, secs, a, p)
  PROVE  ReadsPlaces(turns, secs, a, p)
<1> DEFINE L == Len(turns)
           F == [x \in Nat |-> Latest(view, secs[a + x + 1])]
<1>1. /\ turns \in Seq(Runs) /\ L \in Nat /\ pos[0] = 0 /\ pos[L] = p /\ p \in Nat
      /\ \A n \in 0..L : pos[n] \in Nat
  <2>1. /\ turns \in Seq(Runs) /\ pos[0] = 0 /\ pos[L] = p /\ \A n \in 0..L : pos[n] \in Nat
    BY DEF Covers
  <2>2. L \in Nat /\ L \in 0..L
    BY <2>1
  <2> QED BY <2>1, <2>2
<1>2. PICK f : Chain(f, "read", <<>>, turns, L) /\ ReadAll(turns) = f[L]
  BY <1>1, ReadFold
<1>3. f[0] = <<>> /\ \A n \in 1..L : f[n] = f[n - 1] \o ReadVolume(turns[n].sector, turns[n].count)
  BY <1>2 DEF Chain, Step
<1> DEFINE Good(n) == f[n] = Stretch(F, 0, pos[n])
           Odd == {n \in Nat : n <= L /\ ~Good(n)}
<1>4. ASSUME NEW b \in Nat, NEW e \in Nat, b <= e
      PROVE  Stretch(F, b, e) = [k \in 1..(e - b) |-> Latest(view, secs[a + b + k])]
  <2>1. ASSUME NEW k \in 1..(e - b) PROVE F[b + k - 1] = Latest(view, secs[a + b + k])
    <3>1. b + k - 1 \in Nat /\ a + (b + k - 1) + 1 = a + b + k
      BY <1>4
    <3> QED BY <3>1
  <2> HIDE DEF F
  <2> QED BY <2>1 DEF Stretch
<1> HIDE DEF F, L
<1>5. ASSUME NEW n \in 1..L, Good(n - 1) PROVE Good(n)
  <2> DEFINE turn == turns[n]
             b == pos[n - 1]
             e == pos[n]
  <2>1. turn \in Runs
    BY <1>1 DEF L
  <2>2. /\ e = b + turn.count /\ OneVolume(turn)
        /\ \A k \in 1..turn.count : secs[a + b + k] = turn.sector + k - 1
    BY DEF Covers, L
  <2>3. b \in Nat /\ turn.count \in Nat
    <3>1. n - 1 \in 0..L
      BY <1>1
    <3> HIDE DEF turn
    <3> QED BY <1>1, <2>1, <3>1, RunIs
  <2> HIDE DEF turn, b, e
  <2>4. ReadVolume(turn.sector, turn.count) = [k \in 1..turn.count |-> Latest(view, turn.sector + k - 1)]
    BY <2>1, <2>2, TurnReads
  <2>5. Stretch(F, b, e) = [k \in 1..turn.count |-> Latest(view, secs[a + b + k])]
    <3>1. e \in Nat /\ b <= e /\ e - b = turn.count
      BY <2>2, <2>3
    <3> QED BY <1>4, <2>3, <3>1
  <2>6. ReadVolume(turn.sector, turn.count) = Stretch(F, b, e)
    BY <2>2, <2>4, <2>5
  <2>7. Stretch(F, 0, b) \o Stretch(F, b, e) = Stretch(F, 0, e)
    <3>1. e \in Nat /\ b <= e /\ 0 <= b
      BY <2>2, <2>3
    <3> QED BY <2>3, <3>1, StretchJoins
  <2>8. f[n] = f[n - 1] \o ReadVolume(turn.sector, turn.count)
    BY <1>3 DEF turn
  <2>9. f[n - 1] = Stretch(F, 0, b)
    BY <1>5 DEF b
  <2> QED BY <2>6, <2>7, <2>8, <2>9 DEF e
<1>6. Good(0)
  <2>1. Stretch(F, 0, 0) = <<>>
    <3>1. 0 - 0 = 0
      OBVIOUS
    <3> QED BY <3>1 DEF Stretch
  <2> QED BY <1>1, <1>3, <2>1
<1> HIDE DEF Good
<1>7. Odd = {}
  <2> SUFFICES ASSUME Odd # {} PROVE FALSE
    OBVIOUS
  <2>1. PICK n \in Odd : \A k \in Odd : n <= k
    <3>1. Min(Odd) \in Odd /\ \A k \in Odd : Min(Odd) <= k
      BY MinIs
    <3> QED BY <3>1
  <2>2. n \in Nat /\ n <= L /\ ~Good(n)
    BY <2>1
  <2>3. n # 0
    BY <1>6, <2>2
  <2>4. n \in 1..L /\ n - 1 \in Nat /\ n - 1 <= L /\ ~(n <= n - 1)
    BY <1>1, <2>2, <2>3
  <2>5. n - 1 \notin Odd
    BY <2>1, <2>4
  <2>6. Good(n - 1)
    BY <2>4, <2>5
  <2> QED BY <1>5, <2>2, <2>4, <2>6
<1>8. Good(L)
  <2>1. L \notin Odd
    BY <1>7
  <2> QED BY <1>1, <2>1
<1>9. Stretch(F, 0, p) = [k \in 1..p |-> Latest(view, secs[a + k])]
  <2>1. p - 0 = p /\ \A k \in 1..p : a + 0 + k = a + k
    BY <1>1
  <2>2. Stretch(F, 0, p) = [k \in 1..(p - 0) |-> Latest(view, secs[a + 0 + k])]
    BY <1>1, <1>4
  <2> QED BY <2>1, <2>2
<1> QED BY <1>1, <1>2, <1>8, <1>9 DEF Good, ReadsPlaces

\* The data of a file lies on the volumes.
LEMMA FileIs ==
  ASSUME NEW file \in Files
  PROVE  /\ file.sector \in Nat
         /\ \A count \in 1..2 : /\ [sector |-> file.sector, count |-> count] \in Runs
                                /\ OneVolume([sector |-> file.sector, count |-> count])
         /\ file.runs \in Seq(Runs) /\ \A n \in 1..Len(file.runs) : OneVolume(file.runs[n])
<1>1. /\ file.sector \in Nat /\ file.sector + 1 < Total
      /\ VolumeAt(file.sector) = VolumeAt(file.sector + 1)
      /\ file.runs \in Seq(Runs)
      /\ \A n \in DOMAIN file.runs :
           /\ file.runs[n].sector + file.runs[n].count <= Total
           /\ VolumeAt(file.runs[n].sector) = VolumeAt(file.runs[n].sector + file.runs[n].count - 1)
  BY FilesOK DEF Runs
<1>2. ASSUME NEW count \in 1..2
      PROVE  /\ [sector |-> file.sector, count |-> count] \in Runs
             /\ OneVolume([sector |-> file.sector, count |-> count])
  <2> DEFINE run == [sector |-> file.sector, count |-> count]
  <2>1. run \in Runs /\ run.sector = file.sector /\ run.count = count
    BY <1>1 DEF Runs
  <2> HIDE DEF run
  <2>2. run.sector + run.count <= Total
    BY <1>1, <2>1, VolumesApart
  <2>3. CASE count = 1
    <3>1. run.sector + run.count - 1 = run.sector
      BY <1>1, <2>1, <2>3
    <3> QED BY <2>1, <2>2, <3>1 DEF OneVolume, run
  <2>4. CASE count = 2
    <3>1. run.sector + run.count - 1 = file.sector + 1
      BY <1>1, <2>1, <2>4
    <3> QED BY <1>1, <2>1, <2>2, <3>1 DEF OneVolume, run
  <2> QED BY <2>3, <2>4
<1>3. \A n \in 1..Len(file.runs) : OneVolume(file.runs[n])
  BY <1>1 DEF OneVolume
<1> QED BY <1>1, <1>2, <1>3

\* Any part of a file is read as it was written last.
LEMMA PartIsRead ==
  ASSUME MemInv, NEW file \in Files,
         NEW start \in 0..Len(Sectors(file)), NEW count \in 1..(Len(Sectors(file)) + 1)
  PROVE  ReadPart(file, start, count)
           = [k \in 1..Min({count, Len(Sectors(file)) - start}) |-> Latest(view, Sectors(file)[start + k])]
<1> DEFINE secs == Sectors(file)
           L == Len(secs)
           m == Min({count, L - start})
<1>1. ASSUME L \in Nat
      PROVE  /\ start \in Nat /\ count \in Nat /\ count >= 1 /\ start <= L
             /\ m \in {count, L - start} /\ m <= count /\ m <= L - start /\ m \in Nat
  <2>1. start \in Nat /\ count \in Nat /\ count >= 1 /\ start <= L
    BY <1>1
  <2> HIDE DEF L
  <2>2. {count, L - start} \subseteq Nat /\ {count, L - start} # {}
    BY <1>1, <2>1
  <2>3. m \in {count, L - start} /\ m <= count /\ m <= L - start
    BY <2>2, MinIs
  <2> HIDE DEF m
  <2> QED BY <2>1, <2>2, <2>3
<1> HIDE DEF m
<1>2. CASE file.inline
  <2>1. secs = <<file.sector>> /\ L = 1
    BY <1>2 DEF Sectors
  <2> HIDE DEF secs, L
  <2>2. /\ start \in Nat /\ count \in Nat /\ count >= 1 /\ start <= L
        /\ m \in {count, L - start} /\ m <= count /\ m <= L - start /\ m \in Nat
    BY <1>1, <2>1
  <2>3. CASE start = 0
    <3>1. ReadPart(file, start, count) = ReadVolume(file.sector, 1)
      <4>1. ~(start > 0)
        BY <2>3
      <4> QED BY <1>2, <4>1 DEF ReadPart
    <3> DEFINE run == [sector |-> file.sector, count |-> 1]
    <3>2. run \in Runs /\ OneVolume(run) /\ run.sector = file.sector /\ run.count = 1
      <4>1. 1 \in 1..2
        OBVIOUS
      <4>2. run \in Runs /\ OneVolume(run)
        BY <4>1, FileIs
      <4> QED BY <4>2
    <3>3. file.sector \in Nat
      BY FileIs
    <3> HIDE DEF run
    <3>4. ReadVolume(file.sector, 1) = [k \in 1..1 |-> Latest(view, file.sector + k - 1)]
      BY <3>2, TurnReads
    <3>5. m = 1
      BY <2>1, <2>2, <2>3
    <3>6. \A k \in 1..1 : file.sector + k - 1 = secs[start + k]
      BY <2>1, <2>3, <3>3
    <3> QED BY <3>1, <3>4, <3>5, <3>6 DEF secs, m, L
  <2>4. CASE start # 0
    <3>1. start > 0
      BY <2>2, <2>4
    <3>2. ReadPart(file, start, count) = <<>>
      BY <1>2, <3>1 DEF ReadPart
    <3>3. m = 0
      BY <2>1, <2>2, <3>1
    <3>4. [k \in 1..m |-> Latest(view, secs[start + k])] = <<>>
      BY <3>3
    <3> QED BY <3>2, <3>4 DEF secs, m, L
  <2> QED BY <2>3, <2>4
<1>3. CASE ~file.inline
  <2>1. file.runs \in Seq(Runs) /\ \A n \in 1..Len(file.runs) : OneVolume(file.runs[n])
    BY FileIs
  <2>2. PICK off : Laid(secs, off, file.runs)
    BY <1>3, <2>1, SectorsLaid
  <2>3. L \in Nat
    BY <2>2 DEF Laid
  <2>4. /\ start \in Nat /\ count \in Nat /\ count >= 1 /\ start <= L /\ start \in 0..L
        /\ m \in {count, L - start} /\ m <= count /\ m <= L - start /\ m \in Nat
    BY <1>1, <2>3
  <2>9. PICK turns : turns = Turns(file, start, count)
    OBVIOUS
  <2> HIDE DEF secs
  <2>5. PICK p, pos : Covers(turns, pos, secs, start, p) /\ PartOf(p, start, count, L)
    <3>1. count \in Nat \ {0}
      BY <2>4
    <3> QED BY <2>1, <2>2, <2>4, <2>9, <3>1, TurnsAre DEF L
  <2>6. ReadPart(file, start, count) = ReadAll(turns)
    BY <1>3, <2>9 DEF ReadPart, ReadAll
  <2> HIDE DEF L
  <2>7. ReadAll(turns) = [k \in 1..p |-> Latest(view, secs[start + k])]
    <3>1. ReadsPlaces(turns, secs, start, p)
      BY <2>4, <2>5, TurnsRead
    <3> QED BY <3>1 DEF ReadsPlaces
  <2>8. p = m
    <3>1. p \in Nat /\ p <= count /\ start + p <= L /\ (p = count \/ start + p = L)
      BY <2>5 DEF PartOf
    <3> QED BY <2>3, <2>4, <3>1
  <2> QED BY <2>6, <2>7, <2>8 DEF secs, m, L
<1> QED BY <1>2, <1>3

-----------------------------------------------------------------------------
(* Writing a part of a file.                                               *)

\* What a write within one volume changes.
LEMMA LatestWith ==
  ASSUME NEW w, Image(w), NEW run \in Runs, OneVolume(run), NEW data \in Seq(Vals), Len(data) = run.count
  PROVE  LET new == With(w, VolumeAt(run.sector), run.sector - Start(VolumeAt(run.sector)), data)
         IN  /\ Image(new)
             /\ \A x \in 0..(Total - 1) :
                  /\ x < run.sector \/ x >= run.sector + run.count => Latest(new, x) = Latest(w, x)
                  /\ \A k \in 1..run.count : x = run.sector + k - 1 => Latest(new, x) = data[k]
<1> DEFINE v == VolumeAt(run.sector)
           t == run.sector - Start(v)
           n == run.count
           new == With(w, v, t, data)
<1>1. /\ run.sector \in Nat /\ n \in Nat /\ n >= 1
      /\ v \in Vols /\ Start(v) \in Nat /\ VolSizes[v] \in Nat /\ Start(v) <= run.sector
      /\ run.sector + n <= Start(v) + VolSizes[v]
      /\ \A x \in Nat : run.sector <= x /\ x < run.sector + n => VolumeAt(x) = v
      /\ Total \in Nat
  BY RunIs, OneVolumeIs, VolumesApart
<1>2. t \in SectorsOf(v) /\ t \in Nat
  BY <1>1 DEF SectorsOf
<1>3. /\ Image(new) /\ \A u \in Vols : u # v => new[u] = w[u]
      /\ new[v] = [x \in SectorsOf(v) |-> IF x - t + 1 \in DOMAIN data THEN data[x - t + 1] ELSE w[v][x]]
  BY <1>1, <1>2, WithIs, SMTT(30)
<1>4. DOMAIN data = 1..n
  OBVIOUS
<1> HIDE DEF v, n, new, t
<1>5. ASSUME NEW x \in 0..(Total - 1)
      PROVE  /\ x < run.sector \/ x >= run.sector + n => Latest(new, x) = Latest(w, x)
             /\ \A k \in 1..n : x = run.sector + k - 1 => Latest(new, x) = data[k]
  <2>1. PICK u : u = VolumeAt(x) /\ u \in Vols /\ x - Start(u) \in SectorsOf(u)
    BY VolumeAtIs
  <2>2. Latest(new, x) = new[u][x - Start(u)] /\ Latest(w, x) = w[u][x - Start(u)]
    BY <2>1 DEF Latest
  <2>3. x \in Nat
    BY <1>1
  <2>4. CASE u # v
    <3>1. ~(run.sector <= x /\ x < run.sector + n)
      BY <1>1, <2>1, <2>3, <2>4
    <3>2. \A k \in 1..n : x # run.sector + k - 1
      BY <1>1, <2>3, <3>1
    <3> QED BY <1>3, <2>1, <2>2, <2>4, <3>2
  <2>5. CASE u = v
    <3> DEFINE y == x - Start(v)
    <3>1. new[v][y] = IF y - t + 1 \in DOMAIN data THEN data[y - t + 1] ELSE w[v][y]
      BY <1>3, <2>1, <2>5
    <3>2. y - t + 1 = x - run.sector + 1
      BY <1>1, <2>3 DEF t
    <3> HIDE DEF y
    <3>3. x < run.sector \/ x >= run.sector + n => y - t + 1 \notin DOMAIN data
      BY <1>1, <1>4, <2>3, <3>2
    <3>4. \A k \in 1..n : x = run.sector + k - 1 => y - t + 1 = k /\ k \in DOMAIN data
      BY <1>1, <1>4, <2>3, <3>2
    <3> QED BY <2>2, <2>5, <3>1, <3>3, <3>4 DEF y
  <2> QED BY <2>4, <2>5
<1> QED BY <1>3, <1>5 DEF v, t, n, new

\* The image w is base with the first p of the data written to the places from a on, and
\* in their order: of the data for one sector the last is there.
Overlaid(w, base, secs, a, data, p) ==
  \A x \in 0..(Total - 1) :
    /\ (\A k \in 1..p : secs[a + k] # x) => Latest(w, x) = Latest(base, x)
    /\ \A k \in 1..p : secs[a + k] = x /\ (\A j \in 1..p : j > k => secs[a + j] # x) =>
         Latest(w, x) = data[k]

LEMMA OverlaidMore ==
  ASSUME NEW w, Image(w), NEW base, NEW secs, NEW a \in Nat, NEW data, NEW p \in Nat,
         Overlaid(w, base, secs, a, data, p), NEW run \in Runs, OneVolume(run),
         NEW part \in Seq(Vals), Len(part) = run.count,
         \A k \in 1..run.count : part[k] = data[p + k] /\ secs[a + p + k] = run.sector + k - 1
  PROVE  Overlaid(With(w, VolumeAt(run.sector), run.sector - Start(VolumeAt(run.sector)), part),
                  base, secs, a, data, p + run.count)
<1> DEFINE new == With(w, VolumeAt(run.sector), run.sector - Start(VolumeAt(run.sector)), part)
           n == run.count
<1>1. run.sector \in Nat /\ n \in Nat /\ n >= 1 /\ Total \in Nat
  BY RunIs, VolumesApart
<1>2. \A x \in 0..(Total - 1) :
        /\ x < run.sector \/ x >= run.sector + n => Latest(new, x) = Latest(w, x)
        /\ \A k \in 1..n : x = run.sector + k - 1 => Latest(new, x) = part[k]
  BY LatestWith
<1>3. \A k \in 1..n : part[k] = data[p + k] /\ secs[a + p + k] = run.sector + k - 1
  OBVIOUS
<1> HIDE DEF new, n
<1>4. ASSUME NEW x \in 0..(Total - 1), \A k \in 1..(p + n) : secs[a + k] # x
      PROVE  Latest(new, x) = Latest(base, x)
  <2>1. \A k \in 1..n : x # run.sector + k - 1
    <3> SUFFICES ASSUME NEW k \in 1..n, x = run.sector + k - 1 PROVE FALSE
      OBVIOUS
    <3>1. PICK j \in 1..(p + n) : j = p + k /\ a + j = a + p + k
      BY <1>1
    <3> QED BY <1>3, <1>4, <3>1
  <2>2. x < run.sector \/ x >= run.sector + n
    <3> SUFFICES ASSUME ~(x < run.sector), ~(x >= run.sector + n) PROVE FALSE
      OBVIOUS
    <3>1. x \in Nat
      BY <1>1
    <3>2. x - run.sector + 1 \in 1..n /\ x = run.sector + (x - run.sector + 1) - 1
      BY <1>1, <3>1
    <3> QED BY <2>1, <3>2
  <2>3. \A k \in 1..p : secs[a + k] # x
    <3>1. \A k \in 1..p : k \in 1..(p + n)
      BY <1>1
    <3> QED BY <1>4, <3>1
  <2> QED BY <1>2, <2>2, <2>3 DEF Overlaid
<1>5. ASSUME NEW x \in 0..(Total - 1), NEW k \in 1..(p + n), secs[a + k] = x,
             \A j \in 1..(p + n) : j > k => secs[a + j] # x
      PROVE  Latest(new, x) = data[k]
  <2>1. k \in Nat /\ k >= 1 /\ k <= p + n /\ x \in Nat
    BY <1>1
  <2>2. CASE k > p
    <3>1. PICK i \in 1..n : k = p + i
      <4>1. k - p \in 1..n /\ k = p + (k - p)
        BY <1>1, <2>1, <2>2
      <4> QED BY <4>1
    <3>2. a + k = a + p + i
      BY <2>1, <3>1
    <3>3. x = run.sector + i - 1
      BY <1>3, <1>5, <3>2
    <3>4. Latest(new, x) = part[i]
      BY <1>2, <3>3
    <3> QED BY <1>3, <3>1, <3>4
  <2>3. CASE k <= p
    <3>1. \A i \in 1..n : x # run.sector + i - 1
      <4> SUFFICES ASSUME NEW i \in 1..n, x = run.sector + i - 1 PROVE FALSE
        OBVIOUS
      <4>1. PICK j \in 1..(p + n) : j = p + i /\ a + j = a + p + i /\ j > k
        BY <1>1, <2>1, <2>3
      <4> QED BY <1>3, <1>5, <4>1
    <3>2. x < run.sector \/ x >= run.sector + n
      <4> SUFFICES ASSUME ~(x < run.sector), ~(x >= run.sector + n) PROVE FALSE
        OBVIOUS
      <4>1. x - run.sector + 1 \in 1..n /\ x = run.sector + (x - run.sector + 1) - 1
        BY <1>1, <2>1
      <4> QED BY <3>1, <4>1
    <3>3. k \in 1..p /\ \A j \in 1..p : j \in 1..(p + n)
      BY <1>1, <2>1, <2>3
    <3>4. \A j \in 1..p : j > k => secs[a + j] # x
      BY <1>5, <3>3
    <3>5. Latest(w, x) = data[k]
      BY <1>5, <3>3, <3>4 DEF Overlaid
    <3> QED BY <1>2, <3>2, <3>5
  <2> QED BY <2>1, <2>2, <2>3
<1>6. Overlaid(new, base, secs, a, data, p + n)
  BY <1>4, <1>5 DEF Overlaid
<1> QED BY <1>6 DEF new, n

\* The loop has written the first p of the data.
WroteTo(acc, secs, a, data, p) ==
  /\ acc.rest \in Seq(Vals) /\ Len(acc.rest) = Len(data) - p
  /\ \A k \in 1..(Len(data) - p) : acc.rest[k] = data[p + k]
  /\ \E w : Shows(acc.disk, acc.blocks, w, local) /\ Overlaid(w, view, secs, a, data, p)

LEMMA WriteTurnKeeps ==
  ASSUME NEW secs, NEW a \in Nat, NEW data \in Seq(Vals), NEW p \in Nat,
         NEW turn \in Runs, OneVolume(turn), p + turn.count <= Len(data),
         \A k \in 1..turn.count : secs[a + p + k] = turn.sector + k - 1,
         NEW acc, WroteTo(acc, secs, a, data, p)
  PROVE  WroteTo(WriteTurn(acc, turn), secs, a, data, p + turn.count)
<1> DEFINE n == turn.count
           N == Len(data)
           rest == acc.rest
           part == SubSeq(rest, 1, n)
           s == turn.sector
           v == VolumeAt(s)
           all == WriteData(acc.disk, acc.blocks, s, part)
           more == SubSeq(rest, n + 1, Len(rest))
<1>1. /\ s \in Nat /\ n \in Nat /\ n >= 1 /\ N \in Nat /\ p + n <= N
      /\ v \in Vols /\ Start(v) \in Nat /\ VolSizes[v] \in Nat /\ Start(v) <= s
      /\ s + n <= Start(v) + VolSizes[v] /\ Total \in Nat /\ s + n <= Total
  BY RunIs, OneVolumeIs, VolumesApart DEF OneVolume
<1>2. rest \in Seq(Vals) /\ Len(rest) = N - p /\ \A k \in 1..(N - p) : rest[k] = data[p + k]
  BY DEF WroteTo
<1>3. PICK w : Shows(acc.disk, acc.blocks, w, local) /\ Overlaid(w, view, secs, a, data, p)
  BY DEF WroteTo
<1> HIDE DEF s, n, N, rest
<1>4. /\ part \in Seq(Vals) /\ Len(part) = n /\ \A k \in 1..n : part[k] = rest[k]
      /\ more \in Seq(Vals) /\ Len(more) = N - (p + n)
      /\ \A k \in 1..(N - (p + n)) : more[k] = rest[k + n]
  <2>1. n <= Len(rest) /\ Len(rest) \in Nat
    BY <1>1, <1>2
  <2>2. part \in Seq(Vals) /\ Len(part) = n /\ \A k \in 1..n : part[k] = rest[k]
    BY <1>1, <1>2, <2>1
  <2>3. /\ more \in Seq(Vals) /\ Len(more) = Len(rest) - n
        /\ \A k \in 1..(Len(rest) - n) : more[k] = rest[n + 1 + k - 1]
    BY <1>1, <1>2, <2>1
  <2>4. Len(rest) - n = N - (p + n) /\ \A k \in 1..(Len(rest) - n) : n + 1 + k - 1 = k + n
    BY <1>1, <1>2
  <2> HIDE DEF part, more
  <2> QED BY <2>2, <2>3, <2>4
<1> HIDE DEF part, more
<1>5. /\ \A k \in 1..n : part[k] = data[p + k]
      /\ \A k \in 1..(N - (p + n)) : more[k] = data[(p + n) + k]
  <2>1. ASSUME NEW k \in 1..n PROVE part[k] = data[p + k]
    <3>1. k \in 1..(N - p)
      BY <1>1
    <3> QED BY <1>2, <1>4, <3>1
  <2>2. ASSUME NEW k \in 1..(N - (p + n)) PROVE more[k] = data[(p + n) + k]
    <3>1. PICK j \in 1..(N - p) : j = k + n
      BY <1>1
    <3>2. p + j = (p + n) + k
      BY <1>1, <3>1
    <3> QED BY <1>2, <1>4, <3>1, <3>2
  <2> QED BY <2>1, <2>2
<1>6. s \in 0..(Total - 1) /\ part # <<>>
  <2>1. s \in 0..(Total - 1)
    BY <1>1
  <2>2. Len(part) # 0
    BY <1>1, <1>4
  <2> QED BY <2>1, <2>2
<1>7. all # {}
  <2>1. (s - Start(v)) + Len(part) <= VolSizes[v]
    BY <1>1, <1>4
  <2> QED BY <2>1 DEF WriteData
<1> HIDE DEF v
<1>8. PICK new : new = (CHOOSE r \in all : TRUE)
  OBVIOUS
<1>9. new \in all
  <2> HIDE DEF all
  <2> QED BY <1>7, <1>8
<1>10. WriteTurn(acc, turn) = [disk |-> new.disk, blocks |-> new.blocks, rest |-> more]
  BY <1>8 DEF WriteTurn, s, n, rest, part, more
<1> DEFINE w1 == With(w, v, s - Start(v), part)
<1>11. Shows(new.disk, new.blocks, w1, local)
  BY <1>3, <1>4, <1>6, <1>9, DataShown DEF v
<1>12. Overlaid(w1, view, secs, a, data, p + n)
  <2>1. Image(w)
    BY <1>3 DEF Shows
  <2>2. \A k \in 1..n : part[k] = data[p + k] /\ secs[a + p + k] = s + k - 1
    BY <1>5 DEF n, s
  <2> QED BY <1>3, <1>4, <2>1, <2>2, OverlaidMore DEF n, s, v
<1> DEFINE end == WriteTurn(acc, turn)
<1>13. end.disk = new.disk /\ end.blocks = new.blocks /\ end.rest = more
  BY <1>10
<1> HIDE DEF end, w1
<1>14. WroteTo(end, secs, a, data, p + n)
  BY <1>4, <1>5, <1>11, <1>12, <1>13 DEF WroteTo, N
<1> QED BY <1>14 DEF end, n

LEMMA TurnsWritten ==
  ASSUME NEW turns, NEW pos, NEW secs, NEW a \in Nat, NEW p, Covers(turns, pos, secs, a, p),
         NEW data \in Seq(Vals), p <= Len(data), NEW z, WroteTo(z, secs, a, data, 0)
  PROVE  WroteTo(FoldLeft(WriteTurn, z, turns), secs, a, data, p)
<1> DEFINE L == Len(turns)
<1>1. /\ turns \in Seq(Runs) /\ L \in Nat /\ pos[0] = 0 /\ pos[L] = p /\ p \in Nat
      /\ \A n \in 0..L : pos[n] \in Nat
  <2>1. /\ turns \in Seq(Runs) /\ pos[0] = 0 /\ pos[L] = p /\ \A n \in 0..L : pos[n] \in Nat
    BY DEF Covers
  <2>2. L \in Nat /\ L \in 0..L
    BY <2>1
  <2> QED BY <2>1, <2>2
<1>2. PICK f : Chain(f, "write", z, turns, L) /\ FoldLeft(WriteTurn, z, turns) = f[L]
  BY <1>1, WriteFold
<1>3. f[0] = z /\ \A n \in 1..L : f[n] = WriteTurn(f[n - 1], turns[n])
  BY <1>2 DEF Chain, Step
<1> DEFINE Good(n) == WroteTo(f[n], secs, a, data, pos[n])
           Odd == {n \in Nat : n <= L /\ ~Good(n)}
<1> HIDE DEF L
<1>4. ASSUME NEW n \in 1..L, Good(n - 1) PROVE Good(n)
  <2> DEFINE turn == turns[n]
             b == pos[n - 1]
             acc == f[n - 1]
  <2>1. turn \in Runs
    BY <1>1 DEF L
  <2>2. /\ pos[n] = b + turn.count /\ pos[n] <= p /\ OneVolume(turn)
        /\ \A k \in 1..turn.count : secs[a + b + k] = turn.sector + k - 1
    BY DEF Covers, L
  <2>3. b \in Nat /\ pos[n] \in Nat
    <3>1. n - 1 \in 0..L /\ n \in 0..L
      BY <1>1
    <3> HIDE DEF turn
    <3> QED BY <1>1, <3>1
  <2>4. WroteTo(acc, secs, a, data, b)
    BY <1>4
  <2>5. f[n] = WriteTurn(acc, turn)
    BY <1>3
  <2> HIDE DEF turn, b, acc, Good
  <2>6. Len(data) \in Nat
    OBVIOUS
  <2>7. b + turn.count <= Len(data)
    BY <1>1, <2>2, <2>3, <2>6
  <2>8. WroteTo(WriteTurn(acc, turn), secs, a, data, b + turn.count)
    BY <2>1, <2>2, <2>3, <2>4, <2>7, WriteTurnKeeps
  <2> QED BY <2>2, <2>5, <2>8 DEF Good
<1>5. Good(0)
  BY <1>1, <1>3
<1> HIDE DEF Good
<1>6. Odd = {}
  <2> SUFFICES ASSUME Odd # {} PROVE FALSE
    OBVIOUS
  <2>1. PICK n \in Odd : \A k \in Odd : n <= k
    <3>1. Min(Odd) \in Odd /\ \A k \in Odd : Min(Odd) <= k
      BY MinIs
    <3> QED BY <3>1
  <2>2. n \in Nat /\ n <= L /\ ~Good(n)
    BY <2>1
  <2>3. n # 0
    BY <1>5, <2>2
  <2>4. n \in 1..L /\ n - 1 \in Nat /\ n - 1 <= L /\ ~(n <= n - 1)
    BY <1>1, <2>2, <2>3
  <2>5. n - 1 \notin Odd
    BY <2>1, <2>4
  <2>6. Good(n - 1)
    BY <2>4, <2>5
  <2> QED BY <1>4, <2>2, <2>4, <2>6
<1>7. Good(L)
  <2>1. L \notin Odd
    BY <1>6
  <2> QED BY <1>1, <2>1
<1> QED BY <1>1, <1>2, <1>7 DEF Good

\* Two images that show the same in every sector of the set are one.
LEMMA SameImage ==
  ASSUME NEW w, Image(w), NEW f, f = [v \in Vols |-> [s \in SectorsOf(v) |-> f[v][s]]],
         \A x \in 0..(Total - 1) : Latest(f, x) = Latest(w, x)
  PROVE  f = w
<1>1. ASSUME NEW v \in Vols, NEW s \in SectorsOf(v) PROVE f[v][s] = w[v][s]
  <2>1. VolSizes[v] \in Nat /\ Start(v) \in Nat
    BY StartsAre
  <2>2. s \in Nat /\ s < VolSizes[v]
    BY <2>1 DEF SectorsOf
  <2>3. PICK x \in Nat : x = Start(v) + s /\ Start(v) <= x /\ x < Start(v) + VolSizes[v] /\ x - Start(v) = s
    BY <2>1, <2>2
  <2>4. x \in 0..(Total - 1) /\ VolumeAt(x) = v
    BY <2>3, InVolume
  <2>5. Latest(f, x) = Latest(w, x)
    BY <2>4
  <2> QED BY <2>3, <2>4, <2>5 DEF Latest
<1>2. w = [v \in Vols |-> w[v]] /\ \A v \in Vols : w[v] = [s \in SectorsOf(v) |-> w[v][s]]
  BY DEF Image
<1>3. \A v \in Vols : [s \in SectorsOf(v) |-> f[v][s]] = w[v]
  BY <1>1, <1>2
<1> QED BY <1>2, <1>3

\* The data of a part that is for sector x.
For(file, start, data, x) ==
  {k \in DOMAIN data : start + k <= Len(Holders(file)) /\ x \in Holders(file)[start + k]}

\* What was last written, once a part has been.
Later(f, file, start, data) ==
  [v \in Vols |-> [s \in SectorsOf(v) |->
    IF For(file, start, data, Start(v) + s) = {} THEN f[v][s]
    ELSE data[Max(For(file, start, data, Start(v) + s))]]]

LEMMA LaterIs ==
  ASSUME NEW f, NEW file, NEW start, NEW data, NEW x \in 0..(Total - 1)
  PROVE  Latest(Later(f, file, start, data), x) =
           IF For(file, start, data, x) = {} THEN Latest(f, x) ELSE data[Max(For(file, start, data, x))]
<1>1. PICK v : v = VolumeAt(x) /\ v \in Vols /\ x - Start(v) \in SectorsOf(v)
  BY VolumeAtIs
<1>2. Start(v) \in Nat /\ VolSizes[v] \in Nat /\ x \in Nat
  BY <1>1, StartsAre, VolumesApart
<1>3. PICK s \in SectorsOf(v) : s = x - Start(v) /\ Start(v) + s = x
  BY <1>1, <1>2
<1>4. Latest(f, x) = f[v][s]
  BY <1>1, <1>3 DEF Latest
<1>5. Latest(Later(f, file, start, data), x) = Later(f, file, start, data)[v][s]
  BY <1>1, <1>3 DEF Latest
<1>6. Later(f, file, start, data)[v][s] =
        IF For(file, start, data, x) = {} THEN f[v][s] ELSE data[Max(For(file, start, data, x))]
  BY <1>1, <1>3 DEF Later
<1> QED BY <1>4, <1>5, <1>6

\* The part has been written: to the drives and into memory, and nothing else has.
LEMMA LaterShown ==
  ASSUME NEW file, NEW start, NEW data \in Seq(Vals), NEW d, NEW bs, NEW w, Shows(d, bs, w, local),
         \A x \in 0..(Total - 1) :
           Latest(w, x) = IF For(file, start, data, x) = {} THEN Latest(view, x)
                          ELSE data[Max(For(file, start, data, x))]
  PROVE  Shows(d, bs, Later(view, file, start, data), local)
<1> DEFINE f == Later(view, file, start, data)
<1>1. f = [v \in Vols |-> [s \in SectorsOf(v) |-> f[v][s]]]
  BY DEF Later
<1>2. \A x \in 0..(Total - 1) : Latest(f, x) = Latest(w, x)
  BY LaterIs
<1>3. Image(w)
  BY DEF Shows
<1> HIDE DEF f
<1>4. f = w
  BY <1>1, <1>2, <1>3, SameImage
<1> QED BY <1>4 DEF f

LEMMA NothingWritten ==
  ASSUME MemInv, NEW secs, NEW a \in Nat, NEW data \in Seq(Vals)
  PROVE  WroteTo([disk |-> disk, blocks |-> blocks, rest |-> data], secs, a, data, 0)
<1> DEFINE z == [disk |-> disk, blocks |-> blocks, rest |-> data]
<1>1. z.disk = disk /\ z.blocks = blocks /\ z.rest = data
  OBVIOUS
<1> HIDE DEF z
<1>2. Shows(z.disk, z.blocks, view, local)
  BY <1>1 DEF MemInv, Shows
<1>3. Overlaid(view, view, secs, a, data, 0)
  BY DEF Overlaid
<1>4. Len(data) \in Nat /\ Len(data) - 0 = Len(data) /\ \A k \in 1..Len(data) : 0 + k = k
  OBVIOUS
<1>5. WroteTo(z, secs, a, data, 0)
  BY <1>1, <1>2, <1>3, <1>4 DEF WroteTo
<1> QED BY <1>5 DEF z

\* A part of a file that is not in its inode.
LEMMA RunsWritten ==
  ASSUME MemInv, NEW file \in Files, ~file.inline, NEW start \in 0..(Len(Sectors(file)) - 1),
         NEW data \in Seq(Vals), data # <<>>, NEW end,
         end = FoldLeft(WriteTurn, [disk |-> disk, blocks |-> blocks, rest |-> data],
                        Turns(file, start, Len(data)))
  PROVE  Shows(end.disk, end.blocks, Later(view, file, start, data), local)
<1> DEFINE secs == Sectors(file)
           L == Len(secs)
           c == Len(data)
<1>1. file.runs \in Seq(Runs) /\ \A n \in 1..Len(file.runs) : OneVolume(file.runs[n])
  BY FileIs
<1>2. PICK off : Laid(secs, off, file.runs)
  BY <1>1, SectorsLaid
<1>3. secs \in Seq(Nat) /\ L \in Nat /\ DOMAIN secs = 1..L
  BY <1>2 DEF Laid
<1>4. c \in Nat \ {0} /\ DOMAIN data = 1..c
  OBVIOUS
<1>5. PICK turns : turns = Turns(file, start, c)
  OBVIOUS
<1>6. Holders(file) = [k \in 1..L |-> {secs[k]}]
  BY <1>3 DEF Holders
<1> HIDE DEF secs
<1>7. start \in Nat /\ start \in 0..L
  BY <1>3 DEF secs
<1>8. PICK p, pos : Covers(turns, pos, secs, start, p) /\ PartOf(p, start, c, L)
  BY <1>1, <1>2, <1>4, <1>5, <1>7, TurnsAre
<1>9. p \in Nat /\ p <= c /\ start + p <= L /\ (p = c \/ start + p = L)
  BY <1>8 DEF PartOf
<1> HIDE DEF L
<1>10. WroteTo([disk |-> disk, blocks |-> blocks, rest |-> data], secs, start, data, 0)
  BY <1>7, NothingWritten
<1>11. end = FoldLeft(WriteTurn, [disk |-> disk, blocks |-> blocks, rest |-> data], turns)
  BY <1>5
<1>12. WroteTo(end, secs, start, data, p)
  BY <1>7, <1>8, <1>9, <1>10, <1>11, TurnsWritten
<1>13. PICK w : Shows(end.disk, end.blocks, w, local) /\ Overlaid(w, view, secs, start, data, p)
  BY <1>12 DEF WroteTo
<1> HIDE DEF c
<1>14. ASSUME NEW x \in 0..(Total - 1)
       PROVE  Latest(w, x) = IF For(file, start, data, x) = {} THEN Latest(view, x)
                             ELSE data[Max(For(file, start, data, x))]
  <2> DEFINE at == For(file, start, data, x)
  <2>1. \A k : k \in at <=> k \in 1..p /\ secs[start + k] = x
    <3>1. ASSUME NEW k \in 1..c, start + k <= L PROVE k \in 1..p
      <4>1. c \in Nat
        BY <1>4
      <4>2. CASE p = c
        BY <4>2
      <4>3. CASE start + p = L
        <5> HIDE DEF at
        <5>1. k \in Nat /\ k >= 1
          BY <4>1
        <5>2. k <= p
          BY <1>7, <1>9, <3>1, <4>3, <5>1
        <5> QED BY <1>9, <5>1, <5>2
      <4> QED BY <1>9, <4>2, <4>3
    <3>2. ASSUME NEW k \in 1..p PROVE k \in 1..c /\ start + k <= L /\ start + k \in 1..L
      BY <1>3, <1>4, <1>7, <1>9
    <3>3. ASSUME NEW k \in 1..p PROVE Holders(file)[start + k] = {secs[start + k]}
      BY <1>6, <3>2
    <3>4. Len(Holders(file)) = L
      BY <1>3, <1>6
    <3>5. at = {k \in 1..c : start + k <= L /\ x \in Holders(file)[start + k]}
      BY <1>4, <3>4 DEF For
    <3> HIDE DEF at
    <3>6. ASSUME NEW k \in at PROVE k \in 1..p /\ secs[start + k] = x
      <4>1. k \in 1..p /\ x \in Holders(file)[start + k]
        BY <3>1, <3>5
      <4> QED BY <3>3, <4>1
    <3>7. ASSUME NEW k \in 1..p, secs[start + k] = x PROVE k \in at
      BY <3>2, <3>3, <3>5, <3>7
    <3> QED BY <3>6, <3>7
  <2> HIDE DEF at
  <2>2. CASE at = {}
    <3>1. \A k \in 1..p : secs[start + k] # x
      BY <2>1, <2>2
    <3>2. Latest(w, x) = Latest(view, x)
      BY <1>13, <3>1 DEF Overlaid
    <3> QED BY <2>2, <3>2 DEF at
  <2>3. CASE at # {}
    <3>1. at \in SUBSET (1..p)
      BY <2>1
    <3>2. Max(at) \in at /\ \A n \in at : n <= Max(at)
      BY <1>9, <2>3, <3>1, LastIs
    <3>3. PICK k \in at : k = Max(at) /\ \A n \in at : n <= k
      BY <3>2
    <3>4. k \in 1..p /\ secs[start + k] = x
      BY <2>1
    <3>5. \A j \in 1..p : j > k => secs[start + j] # x
      <4> SUFFICES ASSUME NEW j \in 1..p, j > k, secs[start + j] = x PROVE FALSE
        OBVIOUS
      <4>1. j <= k
        BY <2>1, <3>3
      <4> QED BY <3>4, <4>1
    <3>6. Latest(w, x) = data[k]
      BY <1>13, <3>4, <3>5 DEF Overlaid
    <3> QED BY <2>3, <3>3, <3>6 DEF at
  <2> QED BY <2>2, <2>3
<1> QED BY <1>13, <1>14, LaterShown

\* The data that is in the inode, which is written with both its copies.
LEMMA InlineWritten ==
  ASSUME MemInv, NEW file \in Files, file.inline, NEW data \in Seq(Vals), data # <<>>, NEW end,
         end = FoldLeft(WriteTurn, [disk |-> disk, blocks |-> blocks, rest |-> <<data[1], data[1]>>],
                        <<[sector |-> file.sector, count |-> 2]>>)
  PROVE  Shows(end.disk, end.blocks, Later(view, file, 0, data), local)
<1> DEFINE run == [sector |-> file.sector, count |-> 2]
           turns == <<run>>
           twice == <<data[1], data[1]>>
           secs == <<file.sector, file.sector + 1>>
           pos == [n \in 0..1 |-> 2 * n]
<1>1. /\ file.sector \in Nat /\ run \in Runs /\ OneVolume(run)
      /\ run.sector = file.sector /\ run.count = 2
  <2>1. 2 \in 1..2
    OBVIOUS
  <2>2. file.sector \in Nat /\ run \in Runs /\ OneVolume(run)
    BY <2>1, FileIs
  <2> QED BY <2>2
<1>2. /\ data[1] \in Vals /\ twice \in Seq(Vals) /\ Len(twice) = 2
      /\ twice[1] = data[1] /\ twice[2] = data[1]
  <2>1. data[1] \in Vals
    OBVIOUS
  <2> QED BY <2>1
<1>3. secs[1] = file.sector /\ secs[2] = file.sector + 1
  OBVIOUS
<1>4. pos[0] = 0 /\ pos[1] = 2 /\ \A n \in 0..1 : pos[n] \in Nat
  OBVIOUS
<1>5. end = FoldLeft(WriteTurn, [disk |-> disk, blocks |-> blocks, rest |-> twice], turns)
  OBVIOUS
<1> HIDE DEF run
<1>6. turns \in Seq(Runs) /\ Len(turns) = 1 /\ turns[1] = run
  BY <1>1
<1> HIDE DEF turns, twice, secs, pos
<1>7. Covers(turns, pos, secs, 0, 2)
  <2>1. ASSUME NEW n \in 1..1
        PROVE  /\ pos[n] = pos[n - 1] + turns[n].count /\ pos[n] <= 2
               /\ OneVolume(turns[n])
               /\ \A k \in 1..turns[n].count : secs[0 + pos[n - 1] + k] = turns[n].sector + k - 1
    <3>1. n = 1 /\ n - 1 = 0
      OBVIOUS
    <3>2. turns[n].sector = file.sector /\ turns[n].count = 2 /\ OneVolume(turns[n])
      BY <1>1, <1>6, <3>1
    <3>3. pos[n] = 2 /\ pos[n - 1] = 0
      BY <1>4, <3>1
    <3>4. ASSUME NEW k \in 1..2 PROVE secs[0 + 0 + k] = file.sector + k - 1
      BY <1>1, <1>3
    <3> QED BY <3>2, <3>3, <3>4
  <2> QED BY <1>4, <1>6, <2>1 DEF Covers
<1>8. WroteTo([disk |-> disk, blocks |-> blocks, rest |-> twice], secs, 0, twice, 0)
  BY <1>2, NothingWritten
<1>9. WroteTo(end, secs, 0, twice, 2)
  <2>1. PICK z : z = [disk |-> disk, blocks |-> blocks, rest |-> twice]
    OBVIOUS
  <2>2. WroteTo(z, secs, 0, twice, 0)
    BY <1>8, <2>1
  <2>3. 2 <= Len(twice) /\ 0 \in Nat
    BY <1>2
  <2>4. WroteTo(FoldLeft(WriteTurn, z, turns), secs, 0, twice, 2)
    BY <1>2, <1>7, <2>2, <2>3, TurnsWritten
  <2> QED BY <1>5, <2>1, <2>4
<1>10. PICK w : Shows(end.disk, end.blocks, w, local) /\ Overlaid(w, view, secs, 0, twice, 2)
  BY <1>9 DEF WroteTo
<1>11. ASSUME NEW x \in 0..(Total - 1)
       PROVE  Latest(w, x) = IF For(file, 0, data, x) = {} THEN Latest(view, x)
                             ELSE data[Max(For(file, 0, data, x))]
  <2> DEFINE at == For(file, 0, data, x)
  <2>1. Holders(file) = <<{file.sector, file.sector + 1}>>
    BY DEF Holders
  <2>2. Len(data) \in Nat /\ Len(data) >= 1 /\ DOMAIN data = 1..Len(data)
    OBVIOUS
  <2>3. \A k : k \in at <=> k = 1 /\ x \in {file.sector, file.sector + 1}
    <3>1. at = {k \in 1..Len(data) : 0 + k <= 1 /\ x \in Holders(file)[0 + k]}
      BY <2>1, <2>2 DEF For
    <3> HIDE DEF at
    <3>2. Holders(file)[1] = {file.sector, file.sector + 1}
      BY <2>1
    <3>3. ASSUME NEW k \in at PROVE k = 1 /\ x \in {file.sector, file.sector + 1}
      <4>1. k = 1 /\ 0 + k = k
        BY <3>1
      <4> QED BY <3>1, <3>2, <4>1
    <3>4. x \in {file.sector, file.sector + 1} => 1 \in at
      BY <2>2, <3>1, <3>2
    <3> QED BY <3>3, <3>4
  <2> HIDE DEF at
  <2>4. CASE at = {}
    <3>1. x # file.sector /\ x # file.sector + 1
      BY <2>3, <2>4
    <3>2. \A k \in 1..2 : secs[0 + k] # x
      BY <1>3, <3>1
    <3>3. Latest(w, x) = Latest(view, x)
      BY <1>10, <3>2 DEF Overlaid
    <3> QED BY <2>4, <3>3 DEF at
  <2>5. CASE at # {}
    <3>1. at = {1} /\ (x = file.sector \/ x = file.sector + 1)
      BY <2>3, <2>5
    <3>2. Max(at) = 1
      <4>1. at \in SUBSET (1..1)
        BY <3>1
      <4>2. Max(at) \in at
        BY <2>5, <4>1, LastIs
      <4> QED BY <3>1, <4>2
    <3>3. PICK k \in 1..2 : secs[0 + k] = x /\ \A j \in 1..2 : j > k => secs[0 + j] # x
      <4>1. CASE x = file.sector
        BY <1>1, <1>3, <4>1
      <4>2. CASE x = file.sector + 1
        BY <1>1, <1>3, <4>2
      <4> QED BY <3>1, <4>1, <4>2
    <3>4. Latest(w, x) = twice[k]
      BY <1>10, <3>3 DEF Overlaid
    <3>5. twice[k] = data[1]
      BY <1>2
    <3> QED BY <2>5, <3>2, <3>4, <3>5 DEF at
  <2> QED BY <2>4, <2>5
<1> QED BY <1>10, <1>11, LaterShown

LEMMA WritePartInv ==
  ASSUME MemInv, NEW file \in Files, NEW start \in 0..(Len(Sectors(file)) - 1),
         NEW data \in Seq(Vals), data # <<>>, WritePart(file, start, data)
  PROVE  MemInv'
<1>1. local' = local
  BY DEF WritePart
<1>2. view' = Later(view, file, start, data)
  BY DEF WritePart, Later, For
<1>3. Shows(disk', blocks', view', local)
  <2>1. CASE ~file.inline
    <3>1. PICK end : end = FoldLeft(WriteTurn, [disk |-> disk, blocks |-> blocks, rest |-> data],
                                    Turns(file, start, Len(data)))
      OBVIOUS
    <3>2. disk' = end.disk /\ blocks' = end.blocks
      BY <2>1, <3>1 DEF WritePart
    <3> QED BY <1>2, <2>1, <3>1, <3>2, RunsWritten
  <2>2. CASE file.inline
    <3>1. start = 0
      <4>1. Len(Sectors(file)) = 1
        BY <2>2 DEF Sectors
      <4> QED BY <4>1
    <3>2. PICK end : end = FoldLeft(WriteTurn, [disk |-> disk, blocks |-> blocks, rest |-> <<data[1], data[1]>>],
                                    <<[sector |-> file.sector, count |-> 2]>>)
      OBVIOUS
    <3>3. disk' = end.disk /\ blocks' = end.blocks
      <4>1. [[disk |-> disk, blocks |-> blocks, rest |-> data] EXCEPT !.rest = <<data[1], data[1]>>]
              = [disk |-> disk, blocks |-> blocks, rest |-> <<data[1], data[1]>>]
        OBVIOUS
      <4>2. ~(start > 0)
        BY <3>1
      <4> QED BY <2>2, <3>2, <4>1, <4>2 DEF WritePart
    <3> QED BY <1>2, <2>2, <3>1, <3>2, <3>3, InlineWritten
  <2> QED BY <2>1, <2>2
<1> QED BY <1>1, <1>3 DEF Shows, MemInv

LEMMA DataNextInv == MemInv /\ [DataNext]_vars => MemInv'
<1> SUFFICES ASSUME MemInv, [DataNext]_vars PROVE MemInv'
  OBVIOUS
<1>1. CASE [Next]_vars
  BY <1>1, NextInv
<1>2. ASSUME NEW file \in Files, NEW start \in 0..(Len(Sectors(file)) - 1), NEW n \in 1..MaxCount,
             NEW data \in Parts(n), WritePart(file, start, data)
      PROVE  MemInv'
  <2>1. n \in Nat /\ n >= 1
    BY VolumesOK
  <2>2. data \in [1..n -> Vals]
    BY DEF Parts
  <2>3. data \in Seq(Vals) /\ Len(data) = n
    BY <2>1, <2>2
  <2>4. data # <<>>
    BY <2>1, <2>3
  <2> QED BY <1>2, <2>3, <2>4, WritePartInv
<1> QED BY <1>1, <1>2 DEF DataNext

LEMMA AlwaysDataInv == DataSpec => []MemInv
<1> QED BY InitInv, DataNextInv, PTL DEF DataSpec

\* Reads of a volume find the latest with files written in parts, too, and its blocks stay
\* apart.
THEOREM SafeWithFiles == DataSpec => [](BlocksApart /\ ReadsLatest)
<1> QED BY InvApart, InvReads, AlwaysDataInv, PTL

\* Any part of a file that is read, across its runs and the ends of volumes, and whatever of
\* it is in memory, is what was last written to that part of it.
THEOREM PartsReadBack == DataSpec => []PartsRead
<1>1. ASSUME MemInv PROVE PartsRead
  <2> SUFFICES ASSUME NEW file \in Files, NEW start \in 0..Len(Sectors(file)),
                      NEW count \in 1..(Len(Sectors(file)) + 1)
               PROVE  ReadPart(file, start, count)
                        = [k \in 1..Min({count, Len(Sectors(file)) - start}) |->
                             Latest(view, Sectors(file)[start + k])]
    BY DEF PartsRead, Latest
  <2> QED BY <1>1, PartIsRead
<1> QED BY <1>1, AlwaysDataInv, PTL
=============================================================================
