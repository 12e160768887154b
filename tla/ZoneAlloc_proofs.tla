-------------------------- MODULE ZoneAlloc_proofs --------------------------
(***************************************************************************)
(* Why the greedy allocation hands no unit out twice, covers what it is    *)
(* asked for and gives up only when nothing is left, for any number of     *)
(* zones of any sizes.                                                     *)
(***************************************************************************)
EXTENDS ZoneAlloc, BuddyZone_proofs, SequenceTheorems

-----------------------------------------------------------------------------
(* Folds are functions on the subsets of what they fold over.              *)

\* A function on the subsets of S that begins with z and goes on with G, one
\* element at a time, c says which.
FoldsWith(h, S, z, G, c) ==
  \A s \in SUBSET S : h[s] = IF s = {} THEN z ELSE G[<<s, h[s \ {c[s]}]>>]

\* The subsets with m elements at most.
UpTo(S, m) == {s \in SUBSET S : Cardinality(s) <= m}

\* The size of a subset and of one with an element less.
LEMMA OneSmaller ==
  ASSUME NEW S, IsFiniteSet(S), NEW s \in SUBSET S
  PROVE  /\ IsFiniteSet(s) /\ Cardinality(s) \in Nat /\ (Cardinality(s) = 0 <=> s = {})
         /\ \A x \in s : Cardinality(s \ {x}) = Cardinality(s) - 1 /\ s \ {x} \in SUBSET S
<1>1. IsFiniteSet(s)
  BY FS_Subset
<1> QED BY <1>1, FS_CardinalityType, FS_EmptySet, FS_RemoveElement

\* There is such a function.
LEMMA FoldThere ==
  ASSUME NEW S, IsFiniteSet(S), NEW T, NEW z \in T, NEW G \in [(SUBSET S) \X T -> T],
         NEW c, \A s \in SUBSET S : s # {} => c[s] \in s
  PROVE  \E h \in [SUBSET S -> T] : FoldsWith(h, S, z, G, c)
<1> DEFINE Right(h, m) == \A s \in UpTo(S, m) : h[s] = IF s = {} THEN z ELSE G[<<s, h[s \ {c[s]}]>>]
           Without1 == {m \in Nat : ~\E h \in [UpTo(S, m) -> T] : Right(h, m)}
<1>1. ASSUME Without1 # {} PROVE FALSE
  <2>1. PICK m \in Without1 : \A k \in Without1 : m <= k
    BY <1>1, LeastThereIs
  <2>2. CASE m = 0
    <3> DEFINE h == [s \in UpTo(S, 0) |-> z]
    <3>1. \A s \in UpTo(S, 0) : s = {}
      <4> SUFFICES ASSUME NEW s \in UpTo(S, 0) PROVE s = {}
        OBVIOUS
      <4>1. s \in SUBSET S /\ Cardinality(s) <= 0
        BY DEF UpTo
      <4> QED BY <4>1, OneSmaller
    <3>2. h \in [UpTo(S, 0) -> T] /\ Right(h, 0)
      BY <3>1
    <3> QED BY <2>1, <2>2, <3>2
  <2>3. CASE m # 0
    <3>1. m - 1 \in Nat /\ m - 1 \notin Without1
      BY <2>1, <2>3, SMTT(40)
    <3>2. PICK f \in [UpTo(S, m - 1) -> T] : Right(f, m - 1)
      BY <3>1
    <3> DEFINE Val(s) == IF s = {} THEN z ELSE G[<<s, f[s \ {c[s]}]>>]
               h == [s \in UpTo(S, m) |-> Val(s)]
    <3>3. ASSUME NEW s \in UpTo(S, m), s # {} PROVE s \ {c[s]} \in UpTo(S, m - 1)
      <4>1. s \in SUBSET S /\ Cardinality(s) <= m /\ c[s] \in s
        BY <3>3 DEF UpTo
      <4>2. Cardinality(s \ {c[s]}) = Cardinality(s) - 1 /\ Cardinality(s) \in Nat
        BY <4>1, OneSmaller
      <4> QED BY <2>1, <4>1, <4>2 DEF UpTo
    <3>4. ASSUME NEW s \in UpTo(S, m) PROVE Val(s) \in T
      <4>1. s \in SUBSET S
        BY DEF UpTo
      <4>2. CASE s # {}
        <5>1. f[s \ {c[s]}] \in T
          BY <3>2, <3>3, <4>2
        <5> QED BY <4>1, <4>2, <5>1
      <4> QED BY <4>2
    <3>5. \A s \in UpTo(S, m - 1) : s \in UpTo(S, m) /\ f[s] = Val(s)
      <4> SUFFICES ASSUME NEW s \in UpTo(S, m - 1) PROVE s \in UpTo(S, m) /\ f[s] = Val(s)
        OBVIOUS
      <4>1. s \in SUBSET S /\ Cardinality(s) <= m - 1 /\ Cardinality(s) \in Nat
        BY OneSmaller DEF UpTo
      <4>2. s \in UpTo(S, m)
        BY <2>1, <4>1 DEF UpTo
      <4>3. f[s] = Val(s)
        BY <3>2
      <4> QED BY <4>2, <4>3
    <3>6. \A s \in UpTo(S, m) : h[s] = Val(s)
      OBVIOUS
    <3> HIDE DEF Val
    <3>7. h \in [UpTo(S, m) -> T]
      BY <3>4
    <3>8. Right(h, m)
      <4> SUFFICES ASSUME NEW s \in UpTo(S, m)
                   PROVE  h[s] = IF s = {} THEN z ELSE G[<<s, h[s \ {c[s]}]>>]
        OBVIOUS
      <4>1. CASE s # {}
        <5>1. h[s \ {c[s]}] = f[s \ {c[s]}]
          BY <3>3, <3>5, <3>6, <4>1
        <5> QED BY <3>6, <4>1, <5>1 DEF Val
      <4>2. CASE s = {}
        BY <3>6, <4>2 DEF Val
      <4> QED BY <4>1, <4>2
    <3> HIDE DEF h
    <3> QED BY <2>1, <3>7, <3>8
  <2> QED BY <2>2, <2>3
<1>2. Cardinality(S) \in Nat
  BY FS_CardinalityType
<1>3. UpTo(S, Cardinality(S)) = SUBSET S
  BY FS_Subset, <1>2 DEF UpTo
<1>4. PICK h \in [SUBSET S -> T] : Right(h, Cardinality(S))
  <2>1. Cardinality(S) \notin Without1
    BY <1>1
  <2> HIDE DEF Right
  <2> QED BY <1>2, <1>3, <2>1
<1> QED BY <1>3, <1>4 DEF FoldsWith

-----------------------------------------------------------------------------
(* Sums over sets of numbers.                                              *)

\* c picks a member of every set; g is the sum f has over the sets, one member at
\* a time as c picks them.
Picks(c, S) == \A s \in SUBSET S : s # {} => c[s] \in s
SumStep(g, S, f, c) == g = [s \in SUBSET S |-> IF s = {} THEN 0 ELSE f[c[s]] + g[s \ {c[s]}]]

\* There is such a function.
LEMMA SumThere ==
  ASSUME NEW S, IsFiniteSet(S), NEW f \in [S -> Nat], NEW c, Picks(c, S)
  PROVE  \E h : SumStep(h, S, f, c)
<1> DEFINE G == [p \in (SUBSET S) \X Nat |-> IF p[1] = {} THEN 0 ELSE f[c[p[1]]] + p[2]]
<1>3. \A s \in SUBSET S : s # {} => c[s] \in s /\ f[c[s]] \in Nat
  BY DEF Picks
<1>4. G \in [(SUBSET S) \X Nat -> Nat]
  <2>1. ASSUME NEW s \in SUBSET S, NEW v \in Nat
        PROVE  (IF s = {} THEN 0 ELSE f[c[s]] + v) \in Nat
    BY <1>3
  <2> QED BY <2>1
<1>5. ASSUME NEW s \in SUBSET S, NEW v \in Nat, s # {} PROVE G[<<s, v>>] = f[c[s]] + v
  BY <1>5
<1> HIDE DEF G
<1>6. PICK h \in [SUBSET S -> Nat] : FoldsWith(h, S, 0, G, c)
  BY <1>3, <1>4, FoldThere
<1>7. ASSUME NEW s \in SUBSET S PROVE h[s] = IF s = {} THEN 0 ELSE f[c[s]] + h[s \ {c[s]}]
  <2>1. h[s] = IF s = {} THEN 0 ELSE G[<<s, h[s \ {c[s]}]>>]
    BY <1>6 DEF FoldsWith
  <2>2. CASE s # {}
    <3>1. h[s \ {c[s]}] \in Nat
      OBVIOUS
    <3> QED BY <1>5, <2>1, <2>2, <3>1
  <2> QED BY <2>1, <2>2
<1>8. SumStep(h, S, f, c)
  BY <1>7 DEF SumStep
<1> QED BY <1>8

\* Sums of parts of S, whatever is chosen first.
Sums(g, S, f) ==
  /\ g[{}] = 0
  /\ \A s \in SUBSET S : g[s] \in Nat
  /\ \A s \in SUBSET S : \A x \in s : g[s] = f[x] + g[s \ {x}]

\* A sum may take its terms in any order.
LEMMA SumParts ==
  ASSUME NEW S, IsFiniteSet(S), NEW f \in [S -> Nat], NEW c, Picks(c, S),
         NEW g, SumStep(g, S, f, c)
  PROVE  Sums(g, S, f)
<1>0. \A s \in SUBSET S : g[s] = IF s = {} THEN 0 ELSE f[c[s]] + g[s \ {c[s]}]
  BY DEF SumStep
<1>1. \A s \in SUBSET S : s # {} => c[s] \in s
  BY DEF Picks
<1> DEFINE Good(s) == g[s] \in Nat /\ \A x \in s : g[s] = f[x] + g[s \ {x}]
           Odd == {m \in Nat : \E s \in SUBSET S : Cardinality(s) = m /\ ~Good(s)}
<1>2. ASSUME Odd # {} PROVE FALSE
  <2>1. PICK m \in Odd : \A k \in Odd : m <= k
    BY <1>2, LeastThereIs
  <2>2. PICK s \in SUBSET S : Cardinality(s) = m /\ ~Good(s)
    BY <2>1
  <2>3. \A r \in SUBSET S : Cardinality(r) < m => Good(r)
    <3> SUFFICES ASSUME NEW r \in SUBSET S, Cardinality(r) < m PROVE Good(r)
      OBVIOUS
    <3>1. Cardinality(r) \in Nat
      BY OneSmaller
    <3> HIDE DEF Good
    <3> QED BY <2>1, <3>1
  <2>4. CASE s = {}
    <3>1. g[s] = 0
      BY <1>0, <2>4
    <3>2. Good(s)
      BY <2>4, <3>1
    <3> QED BY <2>2, <3>2
  <2>5. CASE s # {}
    <3>1. PICK y \in s : y = c[s] /\ g[s] = f[y] + g[s \ {y}]
      BY <1>0, <1>1, <2>5
    <3>2. \A x \in s : Cardinality(s \ {x}) < m /\ s \ {x} \in SUBSET S
      BY <2>2, OneSmaller
    <3>3. \A x \in s : Good(s \ {x})
      <4> HIDE DEF Good
      <4> QED BY <2>3, <3>2
    <3>4. g[s] \in Nat
      <4>1. PICK p \in Nat : p = g[s \ {y}]
        BY <3>3
      <4>2. PICK q \in Nat : q = f[y]
        OBVIOUS
      <4> QED BY <3>1, <4>1, <4>2
    <3>5. ASSUME NEW x \in s, x # y PROVE g[s] = f[x] + g[s \ {x}]
      <4>1. x \in s \ {y} /\ y \in s \ {x} /\ (s \ {y}) \ {x} = (s \ {x}) \ {y}
        BY <3>5
      <4>2. g[s \ {y}] = f[x] + g[(s \ {y}) \ {x}] /\ g[s \ {x}] = f[y] + g[(s \ {x}) \ {y}]
        BY <3>3, <4>1
      <4>3. PICK p \in Nat, q \in Nat : p = f[x] /\ q = f[y]
        OBVIOUS
      <4>4. PICK w \in Nat : w = g[(s \ {x}) \ {y}]
        <5>1. Cardinality((s \ {x}) \ {y}) < m /\ (s \ {x}) \ {y} \in SUBSET S
          <6>1. PICK r \in SUBSET S : r = s \ {x}
            OBVIOUS
          <6>3. y \in r /\ m \in Nat
            BY <2>1, <4>1, <6>1
          <6> HIDE DEF Good, Odd
          <6>2. Cardinality(r \ {y}) = Cardinality(r) - 1 /\ Cardinality(r) \in Nat
            BY <6>3, OneSmaller
          <6> QED BY <3>2, <6>1, <6>2, <6>3
        <5>2. Good((s \ {x}) \ {y})
          <6> HIDE DEF Good
          <6> QED BY <2>3, <5>1
        <5> QED BY <5>2
      <4>5. g[s] = q + (p + w) /\ g[s \ {x}] = q + w
        BY <3>1, <4>1, <4>2, <4>3, <4>4
      <4> QED BY <4>3, <4>5
    <3> QED BY <2>2, <3>1, <3>4, <3>5
  <2> QED BY <2>4, <2>5
<1>3. ASSUME NEW s \in SUBSET S PROVE Good(s)
  <2>1. Cardinality(s) \in Nat
    BY OneSmaller
  <2> HIDE DEF Good
  <2> QED BY <1>2, <2>1
<1> QED BY <1>0, <1>3 DEF Sums

\* e and f agree on R.
SameOn(R, e, f) == \A x \in R : e[x] = f[x]

\* Sums of the same numbers over the same sets are the same.
LEMMA SumsAgree ==
  ASSUME NEW S, IsFiniteSet(S), NEW R \in SUBSET S, NEW f, NEW g, NEW e, NEW h,
         Sums(g, S, f), Sums(h, R, e), SameOn(R, e, f)
  PROVE  g[R] = h[R]
<1> DEFINE Odd == {m \in Nat : \E s \in SUBSET R : Cardinality(s) = m /\ g[s] # h[s]}
<1>1. ASSUME Odd # {} PROVE FALSE
  <2>1. PICK m \in Odd : \A k \in Odd : m <= k
    BY <1>1, LeastThereIs
  <2>2. PICK s \in SUBSET R : Cardinality(s) = m /\ g[s] # h[s]
    BY <2>1
  <2>3. PICK x \in s : TRUE
    BY <2>2 DEF Sums
  <2>4. g[s] = f[x] + g[s \ {x}] /\ h[s] = e[x] + h[s \ {x}]
    BY <2>3 DEF Sums, SameOn
  <2>5. s \ {x} \in SUBSET R /\ Cardinality(s \ {x}) = m - 1 /\ m - 1 \in Nat
    <3>1. s \in SUBSET S
      OBVIOUS
    <3>2. Cardinality(s \ {x}) = Cardinality(s) - 1 /\ Cardinality(s \ {x}) \in Nat
      <4>1. s \ {x} \in SUBSET S
        OBVIOUS
      <4> QED BY <3>1, <4>1, OneSmaller
    <3> QED BY <2>2, <3>2
  <2>6. g[s \ {x}] = h[s \ {x}]
    <3>1. m - 1 \notin Odd
      BY <2>1, <2>5
    <3> QED BY <2>5, <3>1
  <2>7. e[x] = f[x]
    BY <2>3 DEF SameOn
  <2> QED BY <2>2, <2>4, <2>6, <2>7
<1>2. Cardinality(R) \in Nat /\ R \in SUBSET R
  BY OneSmaller
<1> QED BY <1>1, <1>2

-----------------------------------------------------------------------------
(* The blocks of an order a zone can give, with those split from larger ones. *)

\* The blocks of order k in what is to be found at the orders from k to c.
Blocks(z, k, c) == MapThenSumSet(LAMBDA j : NumFree(z, j) * 2^(j - k), k..(c - 1))
Counted(z, n) == \A j \in 0..(n - 1) : NumFree(z, j) \in Nat
AsBlocks(z, k, c) == [j \in k..(c - 1) |-> NumFree(z, j) * 2^(j - k)]
BlocksSum(g, z, k, c) == /\ Sums(g, k..(c - 1), AsBlocks(z, k, c))
                         /\ Blocks(z, k, c) = g[k..(c - 1)]

\* It is one of the sums of what is found.
LEMMA BlocksAre ==
  ASSUME NEW n \in Nat, NEW z, Counted(z, n), NEW c \in 0..n, NEW k \in 0..c
  PROVE  /\ AsBlocks(z, k, c) \in [k..(c - 1) -> Nat]
         /\ \E g : BlocksSum(g, z, k, c)
<1> DEFINE S == k..(c - 1)
           f == AsBlocks(z, k, c)
           F(j) == NumFree(z, j) * 2^(j - k)
           One(s) == CHOOSE x \in s : TRUE
           c1 == [s \in SUBSET S |-> One(s)]
           Is(g) == g = [s \in SUBSET S |-> IF s = {} THEN 0 ELSE F(One(s)) + g[s \ {One(s)}]]
<1>1. ASSUME NEW j \in S PROVE f[j] = F(j) /\ F(j) \in Nat
  <2>1. PICK m \in Nat : m = j - k
    OBVIOUS
  <2>2. PICK q \in Nat : q = 2^m
    BY PowerStep
  <2>3. PICK p \in Nat : p = NumFree(z, j)
    BY DEF Counted
  <2>4. F(j) = p * q /\ p * q \in Nat
    BY <2>1, <2>2, <2>3
  <2> QED BY <2>4 DEF AsBlocks
<1>2. f \in [S -> Nat]
  <2>1. f = [j \in S |-> f[j]]
    BY DEF AsBlocks
  <2> HIDE DEF f, F, S
  <2> QED BY <1>1, <2>1
<1>3. IsFiniteSet(S)
  BY FS_Interval
<1>4. ASSUME NEW s \in SUBSET S, s # {} PROVE One(s) \in s /\ f[One(s)] = F(One(s)) /\ c1[s] = One(s)
  <2>1. One(s) \in s
    BY <1>4
  <2>2. c1[s] = One(s)
    OBVIOUS
  <2> HIDE DEF f, F, S, One, c1
  <2> QED BY <1>1, <2>1, <2>2
<1> HIDE DEF c1, One
<1>10. Picks(c1, S)
  BY <1>4 DEF Picks
<1>5. \A g : SumStep(g, S, f, c1) <=> Is(g)
  <2> HIDE DEF f, F, S
  <2> SUFFICES ASSUME NEW g PROVE SumStep(g, S, f, c1) <=> Is(g)
    OBVIOUS
  <2>1. \A s \in SUBSET S : (IF s = {} THEN 0 ELSE F(One(s)) + g[s \ {One(s)}])
                          = (IF s = {} THEN 0 ELSE f[c1[s]] + g[s \ {c1[s]}])
    BY <1>4
  <2> QED BY <2>1 DEF SumStep
<1>6. PICK g : g = CHOOSE h : Is(h)
  OBVIOUS
<1>7. Blocks(z, k, c) = g[S]
  BY <1>6 DEF Blocks, MapThenSumSet, MapThenFoldSet, One
<1>8. SumStep(g, S, f, c1)
  <2> HIDE DEF f, S, Is
  <2>1. PICK h : SumStep(h, S, f, c1)
    BY <1>2, <1>3, <1>10, SumThere
  <2>2. Is(h)
    BY <1>5, <2>1
  <2>3. Is(g)
    BY <1>6, <2>2
  <2> QED BY <1>5, <2>3
<1> HIDE DEF f, S
<1>9. Sums(g, S, f)
  BY <1>2, <1>3, <1>8, <1>10, SumParts
<1>11. BlocksSum(g, z, k, c)
  BY <1>7, <1>9 DEF BlocksSum, S, f
<1> QED BY <1>2, <1>11 DEF S, f

\* The sum one order further.
LEMMA BlocksGrow ==
  ASSUME NEW n \in Nat, NEW z, Counted(z, n), NEW c \in 0..(n - 1), NEW k \in 0..c
  PROVE  /\ Blocks(z, k, k) = 0 /\ Blocks(z, k, c) \in Nat
         /\ Blocks(z, k, c + 1) = Blocks(z, k, c) + NumFree(z, c) * 2^(c - k)
<1>1. Blocks(z, k, k) = 0
  <2>1. k \in 0..n /\ k \in 0..k
    OBVIOUS
  <2>2. k..(k - 1) = {}
    OBVIOUS
  <2>3. PICK g : BlocksSum(g, z, k, k)
    BY <2>1, BlocksAre
  <2>4. Sums(g, {}, AsBlocks(z, k, k)) /\ Blocks(z, k, k) = g[{}]
    BY <2>2, <2>3 DEF BlocksSum
  <2> QED BY <2>4 DEF Sums
<1> DEFINE R == k..(c - 1)
           S == k..c
           e == AsBlocks(z, k, c)
           f == AsBlocks(z, k, c + 1)
<1>2. c \in 0..n /\ c + 1 \in 0..n /\ k \in 0..(c + 1) /\ (c + 1) - 1 = c
  OBVIOUS
<1>3. PICK h : Sums(h, R, e) /\ Blocks(z, k, c) = h[R]
  <2>1. PICK h : BlocksSum(h, z, k, c)
    BY <1>2, BlocksAre
  <2>2. Sums(h, R, e) /\ Blocks(z, k, c) = h[R]
    BY <2>1 DEF BlocksSum
  <2> QED BY <2>2
<1>4. PICK g : Sums(g, S, f) /\ Blocks(z, k, c + 1) = g[S]
  <2>1. PICK d \in 0..n : d = c + 1 /\ k \in 0..d
    BY <1>2
  <2>2. PICK g : BlocksSum(g, z, k, d)
    BY <2>1, BlocksAre
  <2>3. k..((c + 1) - 1) = S
    BY <1>2
  <2> QED BY <2>1, <2>2, <2>3 DEF BlocksSum
<1>5. R \in SUBSET S /\ S \ {c} = R /\ c \in S /\ IsFiniteSet(S)
  <2>1. IsFiniteSet(S)
    BY FS_Interval
  <2>2. R \subseteq S /\ c \in S
    OBVIOUS
  <2>3. S \ {c} = R
    OBVIOUS
  <2> QED BY <2>1, <2>2, <2>3
<1>6. SameOn(R, e, f)
  BY <1>2 DEF AsBlocks, SameOn
<1>7. f[c] = NumFree(z, c) * 2^(c - k) /\ f[c] \in Nat
  <2>1. f[c] = NumFree(z, c) * 2^(c - k)
    BY <1>2 DEF AsBlocks
  <2>2. f \in [k..((c + 1) - 1) -> Nat]
    BY <1>2, BlocksAre
  <2> QED BY <1>2, <2>1, <2>2
<1> HIDE DEF R, S, e, f
<1>8. g[S] = f[c] + g[R] /\ g[R] \in Nat
  BY <1>4, <1>5 DEF Sums
<1>9. g[R] = h[R]
  <2>1. R \in SUBSET R /\ R \in SUBSET S /\ IsFiniteSet(S)
    BY <1>5
  <2>2. Sums(g, S, f) /\ Sums(h, R, e)
    BY <1>3, <1>4
  <2> QED BY <1>6, <2>1, <2>2, SumsAgree
<1>10. Blocks(z, k, c) \in Nat /\ Blocks(z, k, c + 1) = f[c] + Blocks(z, k, c)
  BY <1>3, <1>4, <1>8, <1>9
<1>11. Blocks(z, k, c + 1) = Blocks(z, k, c) + f[c]
  BY <1>7, <1>10
<1> QED BY <1>1, <1>7, <1>10, <1>11

\* A number of blocks is a number, and none are below the first order.
LEMMA BlocksNat ==
  ASSUME NEW n \in Nat, NEW z, Counted(z, n), NEW c \in 0..n, NEW k \in 0..c
  PROVE  Blocks(z, k, c) \in Nat /\ Blocks(z, c, c) = 0
<1>1. PICK g : BlocksSum(g, z, k, c)
  BY BlocksAre
<1>2. c \in 0..c
  OBVIOUS
<1>3. PICK h : BlocksSum(h, z, c, c)
  BY <1>2, BlocksAre
<1>4. c..(c - 1) = {}
  OBVIOUS
<1>5. Sums(h, {}, AsBlocks(z, c, c)) /\ Blocks(z, c, c) = h[{}]
  BY <1>3, <1>4 DEF BlocksSum
<1>6. k..(c - 1) \in SUBSET (k..(c - 1))
  OBVIOUS
<1> QED BY <1>1, <1>5, <1>6 DEF BlocksSum, Sums

\* A block of order c gives 2^(c - k) blocks of order k.
LEMMA BlocksSplit ==
  ASSUME NEW n \in Nat, NEW z, Counted(z, n), NEW c \in 0..n, NEW k \in 0..c
  PROVE  Blocks(z, k, n) = Blocks(z, c, n) * 2^(c - k) + Blocks(z, k, c)
<1> DEFINE Right(m) == Blocks(z, k, m) = Blocks(z, c, m) * 2^(c - k) + Blocks(z, k, c)
           Odd == {m \in Nat : c <= m /\ m <= n /\ ~Right(m)}
<1>0. PICK q \in Nat : q = 2^(c - k)
  <2>1. c - k \in Nat
    OBVIOUS
  <2> QED BY <2>1, PowerStep
<1>1. ASSUME Odd # {} PROVE FALSE
  <2>1. PICK m \in Odd : \A i \in Odd : m <= i
    BY <1>1, LeastThereIs
  <2>2. CASE m = c
    <3>1. Blocks(z, c, c) = 0 /\ Blocks(z, k, c) \in Nat
      BY BlocksNat
    <3>2. Right(m)
      BY <1>0, <2>2, <3>1
    <3> QED BY <2>1, <3>2
  <2>3. CASE m # c
    <3>1. PICK i \in Nat : m = i + 1 /\ c <= i /\ i <= n - 1 /\ i < m
      <4>1. m - 1 \in Nat /\ m = (m - 1) + 1 /\ c <= m - 1 /\ m - 1 <= n - 1 /\ m - 1 < m
        BY <2>1, <2>3
      <4> QED BY <4>1
    <3>2. Right(i)
      <4>1. i \notin Odd
        BY <2>1, <3>1
      <4> HIDE DEF Right
      <4> QED BY <3>1, <4>1
    <3>3. i \in 0..(n - 1) /\ k \in 0..i /\ c \in 0..i /\ c \in 0..n /\ i \in 0..n
      BY <3>1
    <3>4. PICK f \in Nat : f = NumFree(z, i)
      BY <3>3 DEF Counted
    <3>5. PICK p \in Nat : p = 2^(i - c) /\ 2^(i - k) = p * q
      <4>1. i - c \in Nat /\ c - k \in Nat /\ i - k = (i - c) + (c - k)
        BY <3>1
      <4>2. 2^(i - c) \in Nat /\ 2^((i - c) + (c - k)) = 2^(i - c) * 2^(c - k)
        BY <4>1, PowerStep, PowerSum
      <4> QED BY <1>0, <4>1, <4>2
    <3>6. PICK x \in Nat : x = Blocks(z, k, i) /\ Blocks(z, k, m) = x + f * (p * q)
      <4>1. Blocks(z, k, i) \in Nat /\ Blocks(z, k, i + 1) = Blocks(z, k, i) + NumFree(z, i) * 2^(i - k)
        BY <3>3, BlocksGrow
      <4> QED BY <3>1, <3>4, <3>5, <4>1
    <3>7. PICK y \in Nat : y = Blocks(z, c, i) /\ Blocks(z, c, m) = y + f * p
      BY <3>1, <3>3, <3>4, <3>5, BlocksGrow
    <3>8. PICK w \in Nat : w = Blocks(z, k, c)
      BY BlocksNat
    <3>9. x = y * q + w
      BY <1>0, <3>2, <3>6, <3>7, <3>8
    <3>10. x + f * (p * q) = (y + f * p) * q + w
      <4>1. (y + f * p) * q = y * q + (f * p) * q /\ (f * p) * q = f * (p * q)
        OBVIOUS
      <4>2. y * q \in Nat /\ f * (p * q) \in Nat
        OBVIOUS
      <4> QED BY <3>9, <4>1, <4>2
    <3>11. Right(m)
      BY <1>0, <3>6, <3>7, <3>8, <3>10
    <3> QED BY <2>1, <3>11
  <2> QED BY <2>2, <2>3
<1> HIDE DEF Right
<1>2. Right(n)
  BY <1>1
<1> QED BY <1>2 DEF Right

\* Nothing is to be given just when nothing is free.
LEMMA BlocksZero ==
  ASSUME NEW n \in Nat, NEW z, Counted(z, n), NEW k \in 0..n
  PROVE  Blocks(z, k, n) = 0 <=> \A j \in k..(n - 1) : NumFree(z, j) = 0
<1> DEFINE None(m) == \A j \in k..(m - 1) : NumFree(z, j) = 0
           Odd == {m \in Nat : k <= m /\ m <= n /\ ~(Blocks(z, k, m) = 0 <=> None(m))}
<1>1. ASSUME Odd # {} PROVE FALSE
  <2>1. PICK m \in Odd : \A i \in Odd : m <= i
    BY <1>1, LeastThereIs
  <2>2. CASE m = k
    <3>1. k \in 0..k
      OBVIOUS
    <3>2. Blocks(z, k, k) = 0
      BY <3>1, BlocksNat
    <3> QED BY <2>1, <2>2, <3>2
  <2>3. CASE m # k
    <3>1. PICK i \in Nat : m = i + 1 /\ k <= i /\ i <= n - 1 /\ i < m
      <4>1. m - 1 \in Nat /\ m = (m - 1) + 1 /\ k <= m - 1 /\ m - 1 <= n - 1 /\ m - 1 < m
        BY <2>1, <2>3
      <4> QED BY <4>1
    <3>2. Blocks(z, k, i) = 0 <=> None(i)
      <4>1. i \notin Odd
        BY <2>1, <3>1
      <4> HIDE DEF None
      <4> QED BY <3>1, <4>1
    <3>3. i \in 0..(n - 1) /\ k \in 0..i
      BY <3>1
    <3>4. PICK f \in Nat : f = NumFree(z, i)
      BY <3>3 DEF Counted
    <3>5. PICK p \in Nat : p = 2^(i - k) /\ p # 0
      <4>1. i - k \in Nat
        BY <3>1
      <4> QED BY <4>1, PowerStep
    <3>6. PICK x \in Nat : x = Blocks(z, k, i) /\ Blocks(z, k, m) = x + f * p
      BY <3>1, <3>3, <3>4, <3>5, BlocksGrow
    <3>7. f * p \in Nat /\ (f * p = 0 <=> f = 0)
      BY <3>5
    <3>8. Blocks(z, k, m) = 0 <=> x = 0 /\ f = 0
      BY <3>6, <3>7
    <3>9. None(m) <=> None(i) /\ f = 0
      <4>1. i \in k..(m - 1) /\ \A j \in k..(m - 1) : j # i => j \in k..(i - 1)
        BY <3>1
      <4>2. \A j \in k..(i - 1) : j \in k..(m - 1)
        BY <3>1
      <4> QED BY <3>4, <4>1, <4>2
    <3> HIDE DEF None
    <3>10. Blocks(z, k, m) = 0 <=> None(m)
      BY <3>2, <3>6, <3>8, <3>9
    <3> QED BY <2>1, <3>10
  <2> QED BY <2>2, <2>3
<1>2. Blocks(z, k, n) = 0 <=> None(n)
  <2> HIDE DEF None
  <2> QED BY <1>1
<1> QED BY <1>2

-----------------------------------------------------------------------------
(* What taking a run does to the counts.                                   *)

\* The counters of a zone that is kept right never are below zero.
LEMMA Counts ==
  ASSUME NEW n \in Nat, NEW z, NotesOK(z, n)
  PROVE  Counted(z, n)
BY FS_CardinalityType DEF Counted, NotesOK

\* j is split for a block of order k: it has one less, each below has one more.
SplitCounts(y, z, n, k, j) ==
  \A i \in 0..(n - 1) : NumFree(y, i) = IF i \in k..(j - 1) THEN NumFree(z, i) + 1
                                        ELSE IF i = j THEN NumFree(z, i) - 1
                                        ELSE NumFree(z, i)

\* mfs_zone_find_run changes the counters of every order between the one asked
\* for and the one a block was taken from.
LEMMA FindCounts ==
  ASSUME NEW n \in Nat, NEW N \in Nat, NEW z, ZoneOK(z, n, N), NotesOK(z, n),
         NEW k \in 0..(n - 1), CanFind(z, k)
  PROVE  SplitCounts(FindRun(z, k), z, n, k, SourceOrder(z, k))
<1> DEFINE y == FindRun(z, k)
           j == SourceOrder(z, k)
           D == [i \in 0..(n - 1) |-> IF i \in k..(j - 1) THEN z.freed[i] + 1 ELSE z.freed[i]]
           L == [z.allocated EXCEPT ![j] = @ + 1]
<1>0. j \in k..(n - 1) /\ j \in 0..(n - 1) /\ Found(z)[j] # {} /\ Orders(z) = 0..(n - 1)
  BY SourceIs, Shape
<1>1. /\ z.count \in [0..(n - 1) -> Nat] /\ z.freed \in [0..(n - 1) -> Nat]
      /\ z.allocated \in [0..(n - 1) -> Nat]
  <2>1. z \in ZoneType(n, N)
    BY Shape
  <2> QED BY <2>1 DEF ZoneType
<1>2. PICK t : TakeAt(z, j) = [z EXCEPT !.runs[j] = t, !.allocated[j] = @ + 1]
  <2>1. PICK t : TakenFrom(z, n, N, j, BitAt(z, j), t)
    BY <1>0, TakenIs
  <2> QED BY <2>1 DEF TakenFrom
<1>3. y.count = z.count /\ y.freed = D /\ y.allocated = L
  <2>1. z \in ZoneType(n, N)
    BY Shape
  <2>2. PICK x : x = TakeAt(z, j)
    OBVIOUS
  <2>3. x.count = z.count /\ x.freed = z.freed /\ x.allocated = L /\ x.num = z.num
        /\ Orders(x) = 0..(n - 1)
        /\ x = [num |-> x.num, free |-> x.free, stamp |-> x.stamp, dirty |-> x.dirty,
                bits |-> x.bits, count |-> x.count, last |-> x.last, runs |-> x.runs,
                allocated |-> x.allocated, freed |-> x.freed]
    BY <1>0, <1>2, <2>1, <2>2 DEF ZoneType, Orders
  <2>4. y = SplitDown(x, k, j, BitAt(z, j))
    BY <2>2 DEF FindRun
  <2> QED BY <2>3, <2>4 DEF SplitDown
<1> HIDE DEF y, j
<1>4. ASSUME NEW i \in 0..(n - 1)
      PROVE  NumFree(y, i) = IF i \in k..(j - 1) THEN NumFree(z, i) + 1
                             ELSE IF i = j THEN NumFree(z, i) - 1 ELSE NumFree(z, i)
  <2>1. NumFree(y, i) = z.count[i] + D[i] - L[i] /\ NumFree(z, i) = z.count[i] + z.freed[i] - z.allocated[i]
    BY <1>3 DEF NumFree
  <2>2. PICK a \in Nat, d \in Nat, l \in Nat : a = z.count[i] /\ d = z.freed[i] /\ l = z.allocated[i]
    BY <1>1
  <2>3. D[i] = (IF i \in k..(j - 1) THEN d + 1 ELSE d) /\ L[i] = (IF i = j THEN l + 1 ELSE l)
    BY <1>0, <1>1, <2>2
  <2>4. i = j => i \notin k..(j - 1)
    BY <1>0
  <2>5. CASE i \in k..(j - 1)
    BY <2>1, <2>2, <2>3, <2>4, <2>5
  <2>6. CASE i = j
    BY <2>1, <2>2, <2>3, <2>4, <2>6
  <2>7. CASE i \notin k..(j - 1) /\ i # j
    BY <2>1, <2>2, <2>3, <2>7
  <2> QED BY <2>5, <2>6, <2>7
<1> QED BY <1>4 DEF y, j, SplitCounts

\* One block of the order asked for less is to be given.
LEMMA OneBlockLess ==
  ASSUME NEW n \in Nat, NEW z, NEW y, Counted(z, n), Counted(y, n), NEW k \in 0..(n - 1),
         NEW j \in k..(n - 1), SplitCounts(y, z, n, k, j)
  PROVE  Blocks(y, k, n) = Blocks(z, k, n) - 1
<1> DEFINE Now(m) == Blocks(z, k, m) + (IF m <= j THEN 2^(m - k) - 1 ELSE -1)
           Odd == {m \in Nat : k <= m /\ m <= n /\ Blocks(y, k, m) # Now(m)}
<1>1. ASSUME Odd # {} PROVE FALSE
  <2>1. PICK m \in Odd : \A i \in Odd : m <= i
    BY <1>1, LeastThereIs
  <2>2. CASE m = k
    <3>1. k \in 0..k /\ k \in 0..n /\ k <= j /\ k - k = 0
      OBVIOUS
    <3>2. Blocks(z, k, k) = 0 /\ Blocks(y, k, k) = 0
      BY <3>1, BlocksNat
    <3>3. 2^(m - k) = 1
      BY <2>2, <3>1, PowerZero
    <3>4. Blocks(y, k, m) = Now(m)
      BY <2>2, <3>1, <3>2, <3>3
    <3> QED BY <2>1, <3>4
  <2>3. CASE m # k
    <3>1. PICK i \in Nat : m = i + 1 /\ k <= i /\ i <= n - 1 /\ i < m
      <4>1. m - 1 \in Nat /\ m = (m - 1) + 1 /\ k <= m - 1 /\ m - 1 <= n - 1 /\ m - 1 < m
        BY <2>1, <2>3
      <4> QED BY <4>1
    <3>2. Blocks(y, k, i) = Now(i)
      <4>1. i \notin Odd
        BY <2>1, <3>1
      <4> HIDE DEF Now
      <4> QED BY <3>1, <4>1
    <3>3. i \in 0..(n - 1) /\ k \in 0..i
      BY <3>1
    <3>4. PICK f \in Nat : f = NumFree(z, i)
      BY <3>3 DEF Counted
    <3>5. PICK p \in Nat : p = 2^(i - k) /\ 2^(m - k) = 2 * p
      <4>1. i - k \in Nat /\ m - k = (i - k) + 1
        BY <3>1
      <4> QED BY <4>1, PowerStep
    <3>6. PICK x \in Nat : x = Blocks(z, k, i) /\ Blocks(z, k, m) = x + f * p
      <4>1. Blocks(z, k, i) \in Nat /\ Blocks(z, k, i + 1) = Blocks(z, k, i) + NumFree(z, i) * 2^(i - k)
        BY <3>3, BlocksGrow
      <4> QED BY <3>1, <3>4, <3>5, <4>1
    <3>7. /\ Blocks(y, k, i) \in Nat
          /\ Blocks(y, k, m) = Blocks(y, k, i) + NumFree(y, i) * p
      <4>1. Blocks(y, k, i) \in Nat /\ Blocks(y, k, i + 1) = Blocks(y, k, i) + NumFree(y, i) * 2^(i - k)
        BY <3>3, BlocksGrow
      <4> QED BY <3>1, <3>5, <4>1
    <3>8. CASE i < j
      <4>1. NumFree(y, i) = f + 1
        <5>1. i \in k..(j - 1)
          BY <3>1, <3>8
        <5> QED BY <3>3, <3>4, <5>1 DEF SplitCounts
      <4>2. Blocks(y, k, i) = x + (p - 1)
        BY <3>2, <3>5, <3>6, <3>8
      <4>3. (f + 1) * p = f * p + p /\ f * p \in Nat
        OBVIOUS
      <4>4. Blocks(y, k, m) = (x + f * p) + (2 * p - 1)
        BY <3>7, <4>1, <4>2, <4>3
      <4>5. m <= j
        BY <3>1, <3>8
      <4>6. Blocks(y, k, m) = Now(m)
        BY <3>5, <3>6, <4>4, <4>5
      <4> QED BY <2>1, <4>6
    <3>9. CASE i = j
      <4>1. NumFree(y, i) = f - 1
        <5>1. i \notin k..(j - 1)
          BY <3>9
        <5> QED BY <3>3, <3>4, <3>9, <5>1 DEF SplitCounts
      <4>2. Blocks(y, k, i) = x + (p - 1)
        BY <3>2, <3>5, <3>6, <3>9
      <4>3. (f - 1) * p = f * p - p /\ f * p \in Nat
        OBVIOUS
      <4>4. Blocks(y, k, m) = (x + f * p) + (-1)
        BY <3>7, <4>1, <4>2, <4>3
      <4>5. ~(m <= j)
        BY <3>1, <3>9
      <4>6. Blocks(y, k, m) = Now(m)
        BY <3>6, <4>4, <4>5
      <4> QED BY <2>1, <4>6
    <3>10. CASE i > j
      <4>1. NumFree(y, i) = f
        <5>1. i \notin k..(j - 1) /\ i # j
          BY <3>10
        <5> QED BY <3>3, <3>4, <5>1 DEF SplitCounts
      <4>2. Blocks(y, k, i) = x + (-1)
        BY <3>2, <3>6, <3>10
      <4>3. f * p \in Nat
        OBVIOUS
      <4>4. Blocks(y, k, m) = (x + f * p) + (-1)
        BY <3>7, <4>1, <4>2, <4>3
      <4>5. ~(m <= j)
        BY <3>1, <3>10
      <4>6. Blocks(y, k, m) = Now(m)
        BY <3>6, <4>4, <4>5
      <4> QED BY <2>1, <4>6
    <3> QED BY <3>1, <3>8, <3>9, <3>10
  <2> QED BY <2>2, <2>3
<1> HIDE DEF Now
<1>2. Blocks(y, k, n) = Now(n)
  BY <1>1
<1>3. ~(n <= j) /\ Blocks(z, k, n) \in Nat
  <2>1. n \in 0..n /\ k \in 0..n
    OBVIOUS
  <2> QED BY <2>1, BlocksNat
<1> QED BY <1>2, <1>3 DEF Now

-----------------------------------------------------------------------------
(* The sectors of a run list.                                              *)

\* The last of the places in a set.
LEMMA LargestIs ==
  ASSUME NEW L \in Nat, NEW s \in SUBSET (1..L), s # {}
  PROVE  Max(s) \in s /\ \A x \in s : x <= Max(s)
<1>1. s \in SUBSET (0..L)
  OBVIOUS
<1> QED BY <1>1, MaxIs

\* FoldLeft takes the places of a list from the last one down.
LastFirst(L) == [s \in SUBSET (1..L) |-> Max(s)]

\* It takes a place of every set that is not empty.
LEMMA LastPicks ==
  ASSUME NEW L \in Nat
  PROVE  Picks(LastFirst(L), 1..L) /\ \A s \in SUBSET (1..L) : LastFirst(L)[s] = Max(s)
BY LargestIs DEF Picks, LastFirst

\* The sectors of each run, and g as their sum over sets of runs.
Sectors(rs) == [n \in DOMAIN rs |-> SizeOf(rs[n])]
TotalSum(g, rs) == Sums(g, 1..Len(rs), Sectors(rs)) /\ TotalOf(rs) = g[1..Len(rs)]
Sized(rs) == \A n \in DOMAIN rs : SizeOf(rs[n]) \in Nat

\* The sectors of a run list are such a sum.
LEMMA TotalIs ==
  ASSUME NEW R, NEW rs \in Seq(R), Sized(rs)
  PROVE  Sectors(rs) \in [1..Len(rs) -> Nat] /\ \E g : TotalSum(g, rs)
<1> DEFINE S == 1..Len(rs)
           f == Sectors(rs)
           c == LastFirst(Len(rs))
           F(x) == SizeOf(rs[x])
           Is(g) == g = [s \in SUBSET S |-> IF s = {} THEN 0 ELSE g[s \ {Max(s)}] + F(Max(s))]
<1>1. DOMAIN rs = S /\ Len(rs) \in Nat /\ IsFiniteSet(S)
  BY FS_Interval
<1>2. \A x \in S : f[x] = F(x) /\ F(x) \in Nat
  BY <1>1 DEF Sectors, Sized
<1>3. f \in [S -> Nat]
  <2>1. f = [x \in S |-> f[x]]
    BY <1>1 DEF Sectors
  <2> HIDE DEF f, F, S
  <2> QED BY <1>2, <2>1
<1>4. Picks(c, S) /\ \A s \in SUBSET S : c[s] = Max(s)
  BY <1>1, LastPicks
<1> HIDE DEF c, f, F, S
<1>5. ASSUME NEW g \in [SUBSET S -> Nat], SumStep(g, S, f, c)
      PROVE  Is(g)
  <2>1. ASSUME NEW s \in SUBSET S, s # {}
        PROVE  f[c[s]] + g[s \ {c[s]}] = g[s \ {Max(s)}] + F(Max(s))
    <3>1. Max(s) \in S /\ c[s] = Max(s) /\ f[c[s]] = F(Max(s)) /\ F(Max(s)) \in Nat
      BY <1>2, <1>4, <2>1 DEF Picks
    <3>2. s \ {Max(s)} \in SUBSET S
      OBVIOUS
    <3>3. g[s \ {Max(s)}] \in Nat
      BY <3>2
    <3> QED BY <3>1, <3>3
  <2>2. \A s \in SUBSET S : (IF s = {} THEN 0 ELSE f[c[s]] + g[s \ {c[s]}])
                          = (IF s = {} THEN 0 ELSE g[s \ {Max(s)}] + F(Max(s)))
    BY <2>1
  <2> QED BY <1>5, <2>2 DEF SumStep
<1>6. PICK h : SumStep(h, S, f, c)
  BY <1>1, <1>3, <1>4, SumThere
<1>7. Sums(h, S, f)
  BY <1>1, <1>3, <1>4, <1>6, SumParts
<1>8. h \in [SUBSET S -> Nat]
  BY <1>6, <1>7 DEF SumStep, Sums
<1>9. Is(h)
  <2> HIDE DEF Is
  <2> QED BY <1>5, <1>6, <1>8
<1>10. PICK g : g = CHOOSE x : Is(x)
  OBVIOUS
<1>11. TotalOf(rs) = g[S]
  BY <1>1, <1>10 DEF TotalOf, FoldLeft, MapThenFoldSet, F
<1>12. Is(g)
  <2> HIDE DEF Is
  <2> QED BY <1>9, <1>10
<1>13. \A s \in SUBSET S : g[s] = IF s = {} THEN 0 ELSE g[s \ {Max(s)}] + F(Max(s))
  BY <1>12
<1>14. \A s \in SUBSET S : s # {} => Max(s) \in s
  BY <1>4 DEF Picks
<1> HIDE DEF Is
<1> DEFINE Odd == {m \in Nat : \E s \in SUBSET S : Cardinality(s) = m /\ g[s] \notin Nat}
<1>15. ASSUME Odd # {} PROVE FALSE
  <2>1. PICK m \in Odd : \A i \in Odd : m <= i
    BY <1>15, LeastThereIs
  <2>2. PICK s \in SUBSET S : Cardinality(s) = m /\ g[s] \notin Nat
    BY <2>1
  <2>3. s # {}
    <3>1. s = {} => g[s] = 0
      BY <1>13
    <3> QED BY <2>2, <3>1
  <2>4. PICK x \in s : x = Max(s)
    BY <1>14, <2>3
  <2>5. s \ {x} \in SUBSET S /\ Cardinality(s \ {x}) = m - 1 /\ m - 1 \in Nat
    <3>1. s \ {x} \in SUBSET S
      OBVIOUS
    <3>2. Cardinality(s \ {x}) = Cardinality(s) - 1 /\ Cardinality(s \ {x}) \in Nat
      BY <1>1, <3>1, OneSmaller, SMTT(40)
    <3> QED BY <2>2, <3>1, <3>2
  <2>6. g[s \ {x}] \in Nat
    <3>1. m - 1 \notin Odd
      BY <2>1, <2>5
    <3> QED BY <2>5, <3>1
  <2>7. F(x) \in Nat
    BY <1>2
  <2>8. g[s] = g[s \ {x}] + F(x)
    BY <1>13, <2>3, <2>4
  <2> QED BY <2>2, <2>6, <2>7, <2>8
<1>16. \A s \in SUBSET S : g[s] \in Nat
  <2> SUFFICES ASSUME NEW s \in SUBSET S PROVE g[s] \in Nat
    OBVIOUS
  <2>1. Cardinality(s) \in Nat
    BY <1>1, OneSmaller
  <2> QED BY <1>15, <2>1
<1>17. SumStep(g, S, f, c)
  <2>1. ASSUME NEW s \in SUBSET S, s # {}
        PROVE  f[c[s]] + g[s \ {c[s]}] = g[s \ {Max(s)}] + F(Max(s))
    <3>1. Max(s) \in S /\ c[s] = Max(s) /\ f[c[s]] = F(Max(s)) /\ F(Max(s)) \in Nat
      BY <1>2, <1>4, <2>1 DEF Picks
    <3>2. s \ {Max(s)} \in SUBSET S
      OBVIOUS
    <3>3. g[s \ {Max(s)}] \in Nat
      BY <1>16, <3>2
    <3> QED BY <3>1, <3>3
  <2>2. g = [s \in SUBSET S |-> IF s = {} THEN 0 ELSE g[s \ {Max(s)}] + F(Max(s))]
    BY <1>12 DEF Is
  <2>3. \A s \in SUBSET S : (IF s = {} THEN 0 ELSE f[c[s]] + g[s \ {c[s]}])
                          = (IF s = {} THEN 0 ELSE g[s \ {Max(s)}] + F(Max(s)))
    BY <2>1
  <2> QED BY <2>2, <2>3 DEF SumStep
<1>18. Sums(g, S, f)
  BY <1>1, <1>3, <1>4, <1>17, SumParts
<1>19. TotalSum(g, rs)
  BY <1>11, <1>18 DEF TotalSum, S, f
<1> QED BY <1>3, <1>19 DEF S, f

\* A run more.
LEMMA TotalGrows ==
  ASSUME NEW R, NEW rs \in Seq(R), Sized(rs), NEW r \in R, SizeOf(r) \in Nat
  PROVE  /\ TotalOf(rs) \in Nat /\ TotalOf(Append(rs, r)) = TotalOf(rs) + SizeOf(r)
         /\ TotalOf(<<>>) = 0 /\ Sized(Append(rs, r))
<1> DEFINE ts == Append(rs, r)
           L == Len(rs)
<1>1. /\ ts \in Seq(R) /\ Len(ts) = L + 1 /\ L \in Nat /\ DOMAIN ts = 1..(L + 1)
      /\ \A x \in 1..L : ts[x] = rs[x] /\ ts[L + 1] = r
  OBVIOUS
<1>2. ts[L + 1] = r /\ L + 1 \in 1..(L + 1) /\ DOMAIN rs = 1..L
  OBVIOUS
<1> HIDE DEF ts
<1>3. Sized(ts)
  <2> SUFFICES ASSUME NEW x \in 1..(L + 1) PROVE SizeOf(ts[x]) \in Nat
    BY <1>1 DEF Sized
  <2>1. CASE x = L + 1
    BY <1>2, <2>1
  <2>2. CASE x # L + 1
    BY <1>1, <1>2, <2>2 DEF Sized
  <2> QED BY <2>1, <2>2
<1>4. PICK h : TotalSum(h, rs)
  BY TotalIs
<1>5. PICK g : TotalSum(g, ts)
  BY <1>1, <1>3, TotalIs
<1> DEFINE Q == 1..L
           S == 1..(L + 1)
<1>6. Q \in SUBSET S /\ S \ {L + 1} = Q /\ IsFiniteSet(S)
  <2>1. IsFiniteSet(S)
    BY FS_Interval
  <2>2. S \ {L + 1} = Q
    BY <1>1
  <2> QED BY <2>1, <2>2
<1>7. SameOn(Q, Sectors(rs), Sectors(ts)) /\ Sectors(ts)[L + 1] = SizeOf(r)
  BY <1>1, <1>2 DEF SameOn, Sectors
<1>8. Sums(h, Q, Sectors(rs)) /\ TotalOf(rs) = h[Q] /\ Sums(g, S, Sectors(ts)) /\ TotalOf(ts) = g[S]
  BY <1>1, <1>4, <1>5 DEF TotalSum
<1> HIDE DEF Q, S
<1>9. g[Q] = h[Q]
  BY <1>6, <1>7, <1>8, SumsAgree
<1>10. L + 1 \in S /\ S \in SUBSET S
  BY <1>2 DEF S
<1>11. g[S] = SizeOf(r) + g[Q] /\ g[Q] \in Nat
  BY <1>6, <1>7, <1>8, <1>10 DEF Sums
<1>12. TotalOf(<<>>) = 0
  <2>1. <<>> \in Seq(R) /\ Sized(<<>>) /\ 1..Len(<<>>) = {}
    BY DEF Sized
  <2>2. PICK e : TotalSum(e, <<>>)
    BY <2>1, TotalIs
  <2> QED BY <2>1, <2>2 DEF TotalSum, Sums
<1> QED BY <1>3, <1>8, <1>9, <1>11, <1>12 DEF ts

-----------------------------------------------------------------------------
(* The state of the zones and of the counts beside them.                   *)

\* The orders of zone i, the units of a run, and those of a zone that are free in
\* its bitmaps and that a search finds.
NumOf(i) == NumOrders(ZoneUnits[i])
Units(r) == UnitsIn(r.order, r.bit)
FreeIn(z, i)  == Covered(z.bits, NumOf(i))
FoundUp(z, i) == Covered(Found(z), NumOf(i))

\* Every zone is whole, no change is in its bitmaps that is not committed, and its
\* counters are those of what a search finds.
ZoneIs(z, i) == ZoneOK(z, NumOf(i), ZoneUnits[i]) /\ NotesOK(z, NumOf(i)) /\ z.stamp = 0
ZonesInv == zones = [i \in ZoneNos |-> zones[i]] /\ \A i \in ZoneNos : ZoneIs(zones[i], i)

\* The runs of a zone lie in it.
RunSet == {r \in [zone : ZoneNos, order : Nat, bit : Nat] :
             r.order <= NumOf(r.zone) - 1 /\ Units(r) \subseteq 0..(ZoneUnits[r.zone] - 1)}
RunsInv == runs \in Seq(RunSet) /\ Len(runs) <= MaxRuns

\* Before every pick.
CountsInv ==
  \A i \in ZoneNos : /\ curorders[i] \in 0..(NumOf(i) - 1)
                     /\ freeblocks[i] = Blocks(zones[i], curorders[i], NumOf(i))
\* What was taken and what is left make up what was asked for.
PickInv ==
  pc = "pick" => /\ size \in Nat \ {0} /\ lastrun \in Nat /\ want \in Nat
                 /\ CountsInv /\ TotalOf(runs) + size = want

\* What the assumptions on the constants say of each zone.
LEMMA ZoneNosAre ==
  /\ ZoneNos = 1..Len(ZoneUnits) /\ Len(ZoneUnits) \in Nat
  /\ \A i \in ZoneNos : /\ ZoneUnits[i] \in Nat \ {0} /\ MinAlloc[i] \in Nat \ {0}
                        /\ NumOf(i) \in Nat \ {0} /\ NumOf(i) \in Nat
<1>1. ZoneNos = 1..Len(ZoneUnits) /\ Len(ZoneUnits) \in Nat
  BY ZonesOK DEF ZoneNos
<1>2. ASSUME NEW i \in ZoneNos PROVE ZoneUnits[i] \in Nat \ {0} /\ MinAlloc[i] \in Nat \ {0}
  BY <1>1, ZonesOK
<1>3. ASSUME NEW i \in ZoneNos PROVE NumOf(i) \in Nat \ {0}
  <2>1. ZoneUnits[i] \in Nat
    BY <1>2
  <2> QED BY <2>1, NumOrdersIs DEF NumOf
<1> QED BY <1>1, <1>2, <1>3

\* A run has sectors.
LEMMA RunSizeIs ==
  ASSUME NEW i \in ZoneNos, NEW k \in Nat
  PROVE  RunSize(i, k) \in Nat \ {0}
<1>1. PICK m \in Nat \ {0} : m = MinAlloc[i]
  BY ZoneNosAre
<1>2. PICK p \in Nat \ {0} : p = 2^k
  BY PowerStep
<1>3. m * p \in Nat \ {0}
  OBVIOUS
<1> QED BY <1>1, <1>2, <1>3 DEF RunSize

\* What is written in the variables when the order of zone i comes down to k.
LEMMA FreeBlocksAtIs ==
  ASSUME ZonesInv, CountsInv, NEW i \in ZoneNos, NEW k \in 0..curorders[i]
  PROVE  /\ FreeBlocksAt(i, k) = Blocks(zones[i], k, NumOf(i)) /\ FreeBlocksAt(i, k) \in Nat
         /\ Counted(zones[i], NumOf(i)) /\ k \in 0..(NumOf(i) - 1) /\ k \in Nat
<1>1. PICK n \in Nat : n = NumOf(i) /\ n # 0
  BY ZoneNosAre
<1>2. PICK c \in 0..(n - 1) : c = curorders[i] /\ freeblocks[i] = Blocks(zones[i], c, n)
  BY <1>1 DEF CountsInv
<1>3. Counted(zones[i], n)
  BY <1>1, Counts DEF ZonesInv, ZoneIs
<1>4. c \in 0..n /\ k \in 0..c /\ n \in 0..n /\ k \in 0..n /\ k \in 0..(n - 1) /\ k \in Nat
  BY <1>1, <1>2
<1>5. Blocks(zones[i], k, n) = Blocks(zones[i], c, n) * 2^(c - k) + Blocks(zones[i], k, c)
  BY <1>3, <1>4, BlocksSplit
<1>6. Blocks(zones[i], k, n) \in Nat
  BY <1>3, <1>4, BlocksNat
<1>7. FreeBlocksAt(i, k) = freeblocks[i] * 2^(c - k) + Blocks(zones[i], k, c)
  BY <1>2 DEF FreeBlocksAt, Blocks
<1> QED BY <1>1, <1>2, <1>3, <1>4, <1>5, <1>6, <1>7

\* The order tried, and what there is to say when zone i has no run to give.
LEMMA OrderIs ==
  ASSUME ZonesInv, CountsInv, size \in Nat \ {0}, NEW i \in ZoneNos
  PROVE  /\ OrderNow(i) \in 0..(NumOf(i) - 1) /\ OrderNow(i) \in 0..curorders[i]
         /\ FreeNow(i) = Blocks(zones[i], OrderNow(i), NumOf(i)) /\ FreeNow(i) \in Nat
         /\ RunsToAlloc(i) # 0 => /\ FreeNow(i) # 0
                                  /\ RunSize(i, OrderNow(i)) < size + MinAlloc[i]
         /\ RunsToAlloc(i) = 0 => \A j \in 0..(NumOf(i) - 1) : NumFree(zones[i], j) = 0
<1> DEFINE Ok(k) == /\ RunSize(i, k) <= lastrun
                    /\ UnitsLeft(i) \div 2^k > 0
                    /\ FreeBlocksAt(i, k) > 0
           S == {k \in 0..curorders[i] : k = 0 \/ Ok(k)}
           k == OrderNow(i)
<1>1. curorders[i] \in Nat
  BY ZoneNosAre DEF CountsInv
<1>2. k \in S
  <2>1. k = Max(S)
    BY DEF OrderNow
  <2>2. S \in SUBSET (0..curorders[i]) /\ 0 \in S
    BY <1>1
  <2> QED BY <1>1, <2>1, <2>2, MaxIs
<1>3. k \in 0..curorders[i] /\ (k = 0 \/ Ok(k))
  BY <1>2
<1> HIDE DEF k
<1>4. /\ FreeNow(i) = Blocks(zones[i], k, NumOf(i)) /\ FreeNow(i) \in Nat
      /\ Counted(zones[i], NumOf(i)) /\ k \in 0..(NumOf(i) - 1) /\ k \in Nat
      /\ FreeNow(i) = FreeBlocksAt(i, k)
  BY <1>3, FreeBlocksAtIs DEF FreeNow, k
<1>5. PICK m \in Nat \ {0} : m = MinAlloc[i]
  BY ZoneNosAre
<1>6. PICK p \in Nat \ {0} : p = 2^k
  BY <1>4, PowerStep
<1>7. PICK w \in Nat : w = UnitsLeft(i) /\ w = (size + m - 1) \div m /\ w # 0
  <2>1. size + m - 1 \in Nat /\ size + m - 1 >= m
    BY <1>5
  <2>2. (size + m - 1) \div m \in Nat \ {0}
    BY <2>1
  <2> QED BY <1>5, <2>2 DEF UnitsLeft
<1>8. PICK q \in Nat : q = w \div p
  BY <1>6, <1>7
<1>9. PICK f \in Nat : f = FreeNow(i)
  BY <1>4
<1>10. RunsToAlloc(i) = Min({q, f})
  BY <1>6, <1>7, <1>8, <1>9 DEF RunsToAlloc, k
<1>11. RunsToAlloc(i) # 0 <=> q # 0 /\ f # 0
  <2>1. Min({q, f}) \in {q, f} /\ Min({q, f}) <= q /\ Min({q, f}) <= f
    <3>1. {q, f} \in SUBSET Nat /\ {q, f} # {} /\ q \in {q, f} /\ f \in {q, f}
      OBVIOUS
    <3> QED BY <3>1, MinIs
  <2> QED BY <1>10, <2>1
<1>12. ASSUME q # 0 PROVE RunSize(i, k) < size + MinAlloc[i]
  <2>1. p <= w
    BY <1>8, <1>12
  <2>2. m * w <= size + m - 1
    BY <1>7
  <2>3. m * p <= m * w
    <3>1. w - p \in Nat
      BY <2>1
    <3>2. m * (w - p) \in Nat /\ m * w = m * p + m * (w - p)
      BY <3>1
    <3>3. m * p \in Nat
      OBVIOUS
    <3> QED BY <3>2, <3>3
  <2>4. m * p \in Nat /\ m * w \in Nat
    OBVIOUS
  <2> QED BY <1>5, <1>6, <2>2, <2>3, <2>4 DEF RunSize
<1>13. ASSUME RunsToAlloc(i) = 0
       PROVE  \A j \in 0..(NumOf(i) - 1) : NumFree(zones[i], j) = 0
  <2>1. k = 0
    <3>1. ~Ok(k)
      <4>1. Ok(k) => q > 0 /\ f > 0
        BY <1>4, <1>6, <1>7, <1>8, <1>9
      <4> HIDE DEF Ok
      <4> QED BY <1>11, <1>13, <4>1
    <3> HIDE DEF Ok
    <3> QED BY <1>3, <3>1
  <2>2. p = 1 /\ q = w
    BY <1>6, <1>8, <2>1, PowerZero
  <2>3. f = 0
    BY <1>7, <1>11, <1>13, <2>2
  <2>4. 0 \in 0..NumOf(i) /\ NumOf(i) \in Nat
    BY ZoneNosAre
  <2>5. Blocks(zones[i], 0, NumOf(i)) = 0
    BY <1>4, <1>9, <2>1, <2>3
  <2> QED BY <1>4, <2>4, <2>5, BlocksZero
<1> QED BY <1>3, <1>4, <1>9, <1>11, <1>12, <1>13 DEF k

-----------------------------------------------------------------------------
(* The choice of a zone.                                                   *)

\* Zone i as the best one.
Cand(i) == [fit |-> RunSize(i, OrderNow(i)), zone |-> i,
            borrow |-> Borrowed(i), free |-> FreeNow(i)]

\* What is best of the zones in s.
BestOf(best, s) == \/ best = NoFit /\ \A i \in s : RunsToAlloc(i) = 0
                   \/ \E i \in s : best = Cand(i) /\ RunsToAlloc(i) # 0

\* The choice is that of a zone with a run to give, and of none only when no zone
\* has one.
LEMMA ChoiceIs ==
  ASSUME ZonesInv, CountsInv, size \in Nat \ {0}
  PROVE  BestOf(Choice, ZoneNos)
<1> DEFINE L == Len(ZoneUnits)
           S == 1..L
           T == {NoFit} \cup {Cand(i) : i \in ZoneNos}
           Q == [i \in ZoneNos |-> i]
           c == LastFirst(L)
           Next1(v, i) == IF Better(i, v) THEN Cand(i) ELSE v
           G == [p \in (SUBSET S) \X T |-> IF p[1] = {} THEN NoFit ELSE Next1(p[2], c[p[1]])]
           Is(g) == g = [s \in SUBSET S |-> IF s = {} THEN NoFit ELSE Next1(g[s \ {Max(s)}], Q[Max(s)])]
<1>1. ZoneNos = S /\ L \in Nat /\ IsFiniteSet(S)
  BY ZoneNosAre, FS_Interval
<1>2. Picks(c, S) /\ \A s \in SUBSET S : c[s] = Max(s)
  BY <1>1, LastPicks
<1>3. ASSUME NEW v \in T, NEW i \in S PROVE Next1(v, i) \in T
  BY <1>1
<1>4. \A i \in S : Q[i] = i
  BY <1>1
<1>5. DOMAIN Q = S
  BY <1>1
<1>6. PICK g : g = CHOOSE x : Is(x)
  OBVIOUS
<1>7. Choice = g[S]
  BY <1>5, <1>6 DEF Choice, FoldLeft, MapThenFoldSet, Cand
<1>8. NoFit \in T
  OBVIOUS
<1> HIDE DEF T, Q, c, S, Next1
<1>9. G \in [(SUBSET S) \X T -> T]
  <2>1. ASSUME NEW s \in SUBSET S, NEW v \in T
        PROVE  (IF s = {} THEN NoFit ELSE Next1(v, c[s])) \in T
    <3>1. s # {} => c[s] \in S
      BY <1>2 DEF Picks
    <3> QED BY <1>3, <1>8, <3>1
  <2> QED BY <2>1
<1>10. ASSUME NEW s \in SUBSET S, NEW v \in T, s # {} PROVE G[<<s, v>>] = Next1(v, c[s])
  BY <1>10
<1> HIDE DEF G
<1>11. PICK h \in [SUBSET S -> T] : FoldsWith(h, S, NoFit, G, c)
  <2>1. \A s \in SUBSET S : s # {} => c[s] \in s
    BY <1>2 DEF Picks
  <2> QED BY <1>1, <1>8, <1>9, <2>1, FoldThere
<1>12. ASSUME NEW s \in SUBSET S
       PROVE  h[s] = IF s = {} THEN NoFit ELSE Next1(h[s \ {Max(s)}], Q[Max(s)])
  <2>1. h[s] = IF s = {} THEN NoFit ELSE G[<<s, h[s \ {c[s]}]>>]
    BY <1>11 DEF FoldsWith
  <2>2. CASE s # {}
    <3>1. s \ {c[s]} \in SUBSET S
      OBVIOUS
    <3>2. h[s \ {c[s]}] \in T /\ c[s] = Max(s) /\ Q[Max(s)] = c[s]
      BY <1>2, <1>4, <2>2, <3>1 DEF Picks
    <3>3. G[<<s, h[s \ {c[s]}]>>] = Next1(h[s \ {c[s]}], c[s])
      BY <1>10, <2>2, <3>2
    <3> QED BY <2>1, <2>2, <3>2, <3>3
  <2>3. CASE s = {}
    BY <2>1, <2>3
  <2> QED BY <2>2, <2>3
<1>13. Is(h)
  BY <1>12
<1>14. Is(g)
  <2> HIDE DEF Is
  <2> QED BY <1>6, <1>13
<1>15. \A s \in SUBSET S : g[s] = IF s = {} THEN NoFit ELSE Next1(g[s \ {Max(s)}], Q[Max(s)])
  BY <1>14
<1> HIDE DEF Is
<1>16. ASSUME NEW i \in S PROVE Better(i, NoFit) <=> RunsToAlloc(i) # 0
  <2>1. OrderNow(i) \in Nat
    <3>1. OrderNow(i) \in 0..(NumOf(i) - 1)
      BY <1>1, OrderIs
    <3> QED BY <3>1
  <2>2. PICK r \in Nat \ {0} : r = RunSize(i, OrderNow(i))
    BY <1>1, <2>1, RunSizeIs
  <2>3. NoFit.fit = 0
    BY DEF NoFit
  <2> QED BY <2>2, <2>3 DEF Better
<1> DEFINE Odd == {m \in Nat : \E s \in SUBSET S : Cardinality(s) = m /\ ~BestOf(g[s], s)}
<1>17. ASSUME Odd # {} PROVE FALSE
  <2>1. PICK m \in Odd : \A i \in Odd : m <= i
    BY <1>17, LeastThereIs
  <2>2. PICK s \in SUBSET S : Cardinality(s) = m /\ ~BestOf(g[s], s)
    BY <2>1
  <2>3. s # {}
    <3>1. s = {} => g[s] = NoFit
      BY <1>15
    <3>2. s = {} => BestOf(g[s], s)
      BY <3>1 DEF BestOf
    <3> QED BY <2>2, <3>2
  <2>4. PICK x \in s : x = Max(s)
    BY <1>2, <2>3 DEF Picks
  <2>5. s \ {x} \in SUBSET S /\ Cardinality(s \ {x}) = m - 1 /\ m - 1 \in Nat
    <3>1. s \ {x} \in SUBSET S
      OBVIOUS
    <3>2. Cardinality(s \ {x}) = Cardinality(s) - 1 /\ Cardinality(s \ {x}) \in Nat
      BY <1>1, <3>1, OneSmaller
    <3> QED BY <2>2, <3>1, <3>2
  <2>6. BestOf(g[s \ {x}], s \ {x})
    <3>1. m - 1 \notin Odd
      BY <2>1, <2>5
    <3> QED BY <2>5, <3>1
  <2>7. PICK v : v = g[s \ {x}]
    OBVIOUS
  <2>8. g[s] = IF Better(x, v) THEN Cand(x) ELSE v
    <3>1. g[s] = Next1(g[s \ {x}], Q[x])
      BY <1>15, <2>3, <2>4
    <3>2. Q[x] = x
      BY <1>4
    <3> QED BY <2>7, <3>1, <3>2 DEF Next1
  <2>9. CASE Better(x, v)
    <3>1. RunsToAlloc(x) # 0
      BY <2>9 DEF Better
    <3>2. BestOf(g[s], s)
      BY <2>8, <2>9, <3>1 DEF BestOf
    <3> QED BY <2>2, <3>2
  <2>10. CASE ~Better(x, v)
    <3>1. CASE v = NoFit /\ \A i \in s \ {x} : RunsToAlloc(i) = 0
      <4>1. RunsToAlloc(x) = 0
        BY <1>16, <2>10, <3>1
      <4>2. BestOf(g[s], s)
        BY <2>8, <2>10, <3>1, <4>1 DEF BestOf
      <4> QED BY <2>2, <4>2
    <3>2. CASE \E i \in s \ {x} : v = Cand(i) /\ RunsToAlloc(i) # 0
      <4>1. BestOf(g[s], s)
        BY <2>8, <2>10, <3>2 DEF BestOf
      <4> QED BY <2>2, <4>1
    <3> QED BY <2>6, <2>7, <3>1, <3>2 DEF BestOf
  <2> QED BY <2>9, <2>10
<1>18. BestOf(g[S], S)
  <2>1. Cardinality(S) \in Nat /\ S \in SUBSET S
    BY <1>1, OneSmaller
  <2> QED BY <1>17, <2>1
<1> QED BY <1>1, <1>7, <1>18

-----------------------------------------------------------------------------
(* A run list is applied to the zones.                                     *)

\* The units of zone i in the runs of a list whose places are in s.
UnitsOf(rs, i, s) == UNION {Units(rs[m]) : m \in {x \in s : rs[x].zone = i}}
RunsDisjoint(rs) ==
  \A m, x \in DOMAIN rs : m # x /\ rs[m].zone = rs[x].zone => Units(rs[m]) \cap Units(rs[x]) = {}
AllChangeable(z, rs, i, state) ==
  \A m \in DOMAIN rs : rs[m].zone = i =>
    Changeable(z.bits, NumOf(i), rs[m].order, rs[m].bit, state)
With1(A, B, state) == IF state THEN A \cup B ELSE A \ B

\* Zone z once the runs whose places are in s are applied to it.
Applied(y, z, rs, i, state, s) ==
  /\ ZoneOK(y, NumOf(i), ZoneUnits[i]) /\ y.stamp = 0 /\ (y = z \/ y.dirty = TRUE)
  /\ FreeIn(y, i) = With1(FreeIn(z, i), UnitsOf(rs, i, s), state)
Apply1(v, rs, i, m, state) ==
  IF rs[m].zone = i THEN Update(v, rs[m].order, rs[m].bit, state, 1) ELSE v

\* What it means to be a run.
LEMMA RunIs ==
  ASSUME NEW r \in RunSet
  PROVE  /\ r.zone \in ZoneNos /\ r.order \in 0..(NumOf(r.zone) - 1) /\ r.order \in Nat /\ r.bit \in Nat
         /\ Units(r) \subseteq 0..(ZoneUnits[r.zone] - 1) /\ Units(r) \subseteq Nat
<1>1. r.zone \in ZoneNos /\ r.order \in Nat /\ r.bit \in Nat /\ r.order <= NumOf(r.zone) - 1
      /\ Units(r) \subseteq 0..(ZoneUnits[r.zone] - 1)
  BY DEF RunSet
<1>2. NumOf(r.zone) \in Nat /\ ZoneUnits[r.zone] \in Nat
  BY <1>1, ZoneNosAre
<1> QED BY <1>1, <1>2

\* One run more is applied.
LEMMA OneApplied ==
  ASSUME NEW rs \in Seq(RunSet), RunsDisjoint(rs), NEW state \in BOOLEAN, NEW i \in ZoneNos,
         NEW z, ZoneOK(z, NumOf(i), ZoneUnits[i]), AllChangeable(z, rs, i, state),
         NEW s \in SUBSET (1..Len(rs)), NEW x \in s, NEW v, Applied(v, z, rs, i, state, s \ {x})
  PROVE  Applied(Apply1(v, rs, i, x, state), z, rs, i, state, s)
<1> DEFINE r == rs[x]
           U == UnitsOf(rs, i, s \ {x})
           W == UnitsOf(rs, i, s)
<1>1. x \in DOMAIN rs /\ r \in RunSet /\ s \subseteq DOMAIN rs
  OBVIOUS
<1>2. CASE r.zone # i
  <2>1. {y \in s : rs[y].zone = i} = {y \in s \ {x} : rs[y].zone = i}
    BY <1>2
  <2>2. W = U
    BY <2>1 DEF UnitsOf
  <2>3. Apply1(v, rs, i, x, state) = v
    BY <1>2 DEF Apply1
  <2> HIDE DEF U, W
  <2> QED BY <2>2, <2>3 DEF Applied, U, W
<1>3. CASE r.zone = i
  <2>1. PICK n \in Nat : n = NumOf(i) /\ n # 0
    BY ZoneNosAre
  <2>2. PICK N \in Nat : N = ZoneUnits[i]
    BY ZoneNosAre
  <2>3. r.order \in 0..(n - 1) /\ r.bit \in Nat /\ UnitsIn(r.order, r.bit) \subseteq 0..(N - 1)
    BY <1>1, <1>3, <2>1, <2>2, RunIs DEF Units
  <2>4. W = U \cup Units(r)
    <3>1. \A u : u \in W <=> \E y \in s : rs[y].zone = i /\ u \in Units(rs[y])
      BY DEF UnitsOf
    <3>2. \A u : u \in U <=> \E y \in s \ {x} : rs[y].zone = i /\ u \in Units(rs[y])
      BY DEF UnitsOf
    <3> HIDE DEF U, W
    <3>3. \A u : u \in W <=> u \in U \/ u \in Units(r)
      BY <1>3, <3>1, <3>2
    <3> QED BY <3>3
  <2>5. U \cap Units(r) = {}
    <3> SUFFICES ASSUME NEW u \in U, u \in Units(r) PROVE FALSE
      OBVIOUS
    <3>1. PICK y \in s \ {x} : rs[y].zone = i /\ u \in Units(rs[y])
      BY DEF UnitsOf
    <3>2. y \in DOMAIN rs /\ y # x /\ rs[y].zone = rs[x].zone
      BY <1>1, <1>3, <3>1
    <3> QED BY <1>1, <3>1, <3>2 DEF RunsDisjoint
  <2> HIDE DEF U, W
  <2>6. Changeable(z.bits, n, r.order, r.bit, state)
    BY <1>1, <1>3, <2>1 DEF AllChangeable
  <2>7. Covered(v.bits, n) = With1(Covered(z.bits, n), U, state)
    BY <2>1 DEF Applied, FreeIn, U
  <2>8. Changeable(v.bits, n, r.order, r.bit, state)
    BY <2>5, <2>6, <2>7 DEF Changeable, With1, Units
  <2>9. ZoneOK(v, n, N) /\ v.stamp = 0
    BY <2>1, <2>2 DEF Applied
  <2>10. Changed(Update(v, r.order, r.bit, state, 1), v, n, N, r.order, r.bit, state)
    <3>1. 1 \in Nat /\ 1 > v.stamp
      BY <2>9
    <3> QED BY <2>3, <2>8, <2>9, <3>1, UpdateIs
  <2>11. PICK y : y = Update(v, r.order, r.bit, state, 1)
    OBVIOUS
  <2>12. /\ ZoneOK(y, n, N) /\ y.dirty = TRUE /\ y.stamp = 0
         /\ Covered(y.bits, n) = With1(Covered(v.bits, n), Units(r), state)
    BY <2>9, <2>10, <2>11 DEF Changed, NotesKept, With1, Units
  <2>13. Covered(y.bits, n) = With1(Covered(z.bits, n), W, state)
    BY <2>4, <2>7, <2>12 DEF With1
  <2>14. Applied(y, z, rs, i, state, s)
    BY <2>1, <2>2, <2>12, <2>13 DEF Applied, FreeIn, W
  <2> QED BY <1>3, <2>11, <2>14 DEF Apply1
<1> QED BY <1>2, <1>3

\* The runs of zone i are applied in the order of the list.
FoldUpdate(z, rs, i, state) ==
  LET Fold(v, r) == IF r.zone = i THEN Update(v, r.order, r.bit, state, 1) ELSE v
  IN  FoldLeft(Fold, z, rs)

\* The zone once the whole list is applied.
LEMMA AllApplied ==
  ASSUME NEW rs \in Seq(RunSet), RunsDisjoint(rs), NEW state \in BOOLEAN, NEW i \in ZoneNos,
         NEW z, ZoneIs(z, i), AllChangeable(z, rs, i, state)
  PROVE  Applied(FoldUpdate(z, rs, i, state), z, rs, i, state, DOMAIN rs)
<1> DEFINE L == Len(rs)
           S == 1..L
           c == LastFirst(L)
           T == {y \in ZoneType(NumOf(i), ZoneUnits[i]) : ZoneOK(y, NumOf(i), ZoneUnits[i])}
           Op(v, m) == Apply1(v, rs, i, m, state)
           G == [p \in (SUBSET S) \X T |->
                   IF p[1] # {} /\ Op(p[2], c[p[1]]) \in T THEN Op(p[2], c[p[1]]) ELSE p[2]]
           Is(g) == g = [s \in SUBSET S |-> IF s = {} THEN z ELSE Op(g[s \ {Max(s)}], Max(s))]
           Good(v, s) == Applied(v, z, rs, i, state, s)
<1>1. DOMAIN rs = S /\ L \in Nat /\ IsFiniteSet(S)
  BY FS_Interval
<1>2. Picks(c, S) /\ \A s \in SUBSET S : c[s] = Max(s)
  BY <1>1, LastPicks
<1>3. z \in T
  BY ZoneNosAre, Shape DEF ZoneIs
<1>4. PICK g : g = CHOOSE x : Is(x)
  OBVIOUS
<1>5. FoldUpdate(z, rs, i, state) = g[S]
  BY <1>1, <1>4 DEF FoldUpdate, FoldLeft, MapThenFoldSet, Apply1
<1> HIDE DEF c, S, Op
<1>6. Good(z, {})
  <2>1. UnitsOf(rs, i, {}) = {}
    BY DEF UnitsOf
  <2> QED BY <2>1 DEF Applied, ZoneIs, With1
<1>7. ASSUME NEW s \in SUBSET S, NEW x \in s, NEW v, Good(v, s \ {x}) PROVE Good(Op(v, x), s)
  BY <1>7, OneApplied DEF Op, S, ZoneIs
<1>8. ASSUME NEW v, NEW s, Good(v, s) PROVE v \in T
  <2>1. ZoneOK(v, NumOf(i), ZoneUnits[i])
    BY <1>8 DEF Applied
  <2> QED BY <2>1, ZoneNosAre, Shape
<1> HIDE DEF Good, T
<1>9. G \in [(SUBSET S) \X T -> T]
  <2>1. ASSUME NEW s \in SUBSET S, NEW v \in T
        PROVE  (IF s # {} /\ Op(v, c[s]) \in T THEN Op(v, c[s]) ELSE v) \in T
    OBVIOUS
  <2> QED BY <2>1
<1>10. ASSUME NEW s \in SUBSET S, NEW v \in T, s # {}, Op(v, c[s]) \in T PROVE G[<<s, v>>] = Op(v, c[s])
  BY <1>10
<1> HIDE DEF G
<1>11. PICK h \in [SUBSET S -> T] : FoldsWith(h, S, z, G, c)
  <2>1. \A s \in SUBSET S : s # {} => c[s] \in s
    BY <1>2 DEF Picks
  <2> QED BY <1>1, <1>3, <1>9, <2>1, FoldThere
<1> DEFINE Right(f, s) == Good(f[s], s) /\ f[s] = IF s = {} THEN z ELSE Op(f[s \ {Max(s)}], Max(s))
           Odd(f) == {m \in Nat : \E s \in SUBSET S : Cardinality(s) = m /\ ~Right(f, s)}
<1>12. ASSUME NEW f, f = h \/ Is(f), Odd(f) # {} PROVE FALSE
  <2>1. PICK m \in Odd(f) : \A k \in Odd(f) : m <= k
    BY <1>12, LeastThereIs
  <2>2. PICK s \in SUBSET S : Cardinality(s) = m /\ ~Right(f, s)
    BY <2>1
  <2>3. CASE s = {}
    <3>1. h[s] = z
      BY <1>11, <2>3 DEF FoldsWith
    <3>2. Is(f) => f[s] = z
      BY <2>3
    <3>3. f[s] = z
      BY <1>12, <3>1, <3>2
    <3>4. Right(f, s)
      BY <1>6, <2>3, <3>3
    <3> QED BY <2>2, <3>4
  <2>4. CASE s # {}
    <3>1. PICK x \in s : x = Max(s) /\ c[s] = x
      BY <1>2, <2>4 DEF Picks
    <3>2. s \ {x} \in SUBSET S /\ Cardinality(s \ {x}) = m - 1 /\ m - 1 \in Nat
      <4>1. s \ {x} \in SUBSET S
        OBVIOUS
      <4> HIDE DEF Right, Odd, Is
      <4>2. Cardinality(s \ {x}) = Cardinality(s) - 1 /\ Cardinality(s \ {x}) \in Nat
        BY <1>1, <4>1, OneSmaller
      <4> QED BY <2>2, <4>1, <4>2
    <3>3. Good(f[s \ {x}], s \ {x})
      <4>1. m \in Nat /\ \A k \in Nat : k < m => k \notin Odd(f)
        <5>1. m \in Nat
          OBVIOUS
        <5> HIDE DEF Odd
        <5> QED BY <2>1, <5>1
      <4>2. m - 1 < m
        BY <4>1
      <4>3. m - 1 \notin Odd(f)
        <5> HIDE DEF Odd
        <5> QED BY <3>2, <4>1, <4>2
      <4> QED BY <3>2, <4>3
    <3>4. PICK v \in T : v = f[s \ {x}]
      BY <1>8, <3>3
    <3>5. Good(Op(v, x), s) /\ Op(v, x) \in T
      BY <1>7, <1>8, <3>3, <3>4
    <3>6. CASE f = h
      <4>1. h[s] = G[<<s, h[s \ {c[s]}]>>]
        BY <1>11, <2>4 DEF FoldsWith
      <4>2. h[s] = Op(v, x)
        BY <1>10, <2>4, <3>1, <3>4, <3>5, <3>6, <4>1
      <4>3. Right(f, s)
        BY <2>4, <3>1, <3>4, <3>5, <3>6, <4>2
      <4> QED BY <2>2, <4>3
    <3>7. CASE Is(f)
      <4>1. f[s] = Op(v, x)
        <5>1. f[s] = IF s = {} THEN z ELSE Op(f[s \ {Max(s)}], Max(s))
          BY <3>7
        <5> QED BY <2>4, <3>1, <3>4, <5>1
      <4>2. Right(f, s)
        BY <2>4, <3>1, <3>4, <3>5, <4>1
      <4> QED BY <2>2, <4>2
    <3> QED BY <1>12, <3>6, <3>7
  <2> QED BY <2>3, <2>4
<1>13. ASSUME NEW f, f = h \/ Is(f), NEW s \in SUBSET S PROVE Right(f, s)
  <2>1. Cardinality(s) \in Nat
    BY <1>1, OneSmaller
  <2>2. Odd(f) = {}
    <3> HIDE DEF Odd, Is
    <3> QED BY <1>12, <1>13
  <2> HIDE DEF Right, Is
  <2> QED BY <2>1, <2>2
<1>14. Is(h)
  <2>1. \A s \in SUBSET S : h[s] = IF s = {} THEN z ELSE Op(h[s \ {Max(s)}], Max(s))
    <3> HIDE DEF Is
    <3> QED BY <1>13
  <2> QED BY <2>1
<1>15. Is(g)
  <2> HIDE DEF Is
  <2> QED BY <1>4, <1>14
<1>16. Good(g[S], S)
  <2> HIDE DEF Is
  <2>1. S \in SUBSET S
    OBVIOUS
  <2> QED BY <1>13, <1>15, <2>1
<1> QED BY <1>1, <1>5, <1>16 DEF Good

\* What a commit leaves of a zone whose changes were applied.
LEMMA SettledIs ==
  ASSUME NEW i \in ZoneNos, NEW z, ZoneIs(z, i), NEW v, ZoneOK(v, NumOf(i), ZoneUnits[i]),
         v.stamp = 0, v = z \/ v.dirty = TRUE
  PROVE  LET y == [CommitZone(v, 1) EXCEPT !.stamp = 0]
         IN  ZoneIs(y, i) /\ FreeIn(y, i) = FreeIn(v, i)
<1> DEFINE y == [CommitZone(v, 1) EXCEPT !.stamp = 0]
<1>1. PICK n \in Nat : n = NumOf(i)
  BY ZoneNosAre
<1>2. PICK N \in Nat : N = ZoneUnits[i]
  BY ZoneNosAre
<1>3. ZoneOK(v, n, N) /\ v \in ZoneType(n, N)
  BY <1>1, <1>2, Shape
<1>4. v = [num |-> v.num, free |-> v.free, stamp |-> 0, dirty |-> v.dirty,
           bits |-> v.bits, count |-> v.count, last |-> v.last, runs |-> v.runs,
           allocated |-> v.allocated, freed |-> v.freed]
  BY <1>3 DEF ZoneType
<1>5. CASE v.dirty
  <2>1. y = ClearChanges([v EXCEPT !.stamp = 0])
    <3>1. [v EXCEPT !.stamp = 1] =
            [num |-> v.num, free |-> v.free, stamp |-> 1, dirty |-> v.dirty,
             bits |-> v.bits, count |-> v.count, last |-> v.last, runs |-> v.runs,
             allocated |-> v.allocated, freed |-> v.freed]
      BY <1>4
    <3>2. [v EXCEPT !.stamp = 0] = v
      BY <1>4
    <3>3. Orders([v EXCEPT !.stamp = 1]) = Orders(v)
      BY <3>1 DEF Orders
    <3> QED BY <1>4, <1>5, <3>1, <3>2, <3>3 DEF CommitZone, ClearChanges
  <2>2. v.dirty \in BOOLEAN /\ 0 \in Nat
    BY <1>3 DEF ZoneType
  <2>3. Cleared(ClearChanges([v EXCEPT !.stamp = 0]), v, 0, n, N)
    BY <1>3, <2>2, ClearedIs
  <2>4. PICK x : x = y
    OBVIOUS
  <2>5. Cleared(x, v, 0, n, N)
    BY <2>1, <2>3, <2>4
  <2> HIDE DEF y
  <2>6. ZoneIs(x, i) /\ FreeIn(x, i) = FreeIn(v, i)
    BY <1>1, <1>2, <2>5 DEF Cleared, ZoneIs, FreeIn
  <2> QED BY <2>4, <2>6 DEF y
<1>6. CASE ~v.dirty
  <2>1. v = z
    BY <1>6
  <2>2. y = v
    BY <1>4, <1>6 DEF CommitZone
  <2> HIDE DEF y
  <2>3. ZoneIs(y, i) /\ FreeIn(y, i) = FreeIn(v, i)
    BY <2>1, <2>2
  <2> QED BY <2>3 DEF y
<1> QED BY <1>5, <1>6

\* A run list in the zones: before and after.
LEMMA UpdatedIs ==
  ASSUME ZonesInv, NEW rs \in Seq(RunSet), RunsDisjoint(rs), NEW state \in BOOLEAN,
         \A i \in ZoneNos : AllChangeable(zones[i], rs, i, state),
         zones' = Updated(zones, rs, state)
  PROVE  /\ ZonesInv'
         /\ \A i \in ZoneNos :
              FreeIn(zones'[i], i) = With1(FreeIn(zones[i], i), UnitsOf(rs, i, DOMAIN rs), state)
<1>1. ASSUME NEW i \in ZoneNos
      PROVE  /\ ZoneIs(zones'[i], i)
             /\ FreeIn(zones'[i], i) = With1(FreeIn(zones[i], i), UnitsOf(rs, i, DOMAIN rs), state)
  <2>1. PICK v : v = FoldUpdate(zones[i], rs, i, state)
    OBVIOUS
  <2>2. zones'[i] = [CommitZone(v, 1) EXCEPT !.stamp = 0]
    BY <2>1 DEF Updated, FoldUpdate
  <2>3. Applied(v, zones[i], rs, i, state, DOMAIN rs) /\ ZoneIs(zones[i], i)
    BY <2>1, AllApplied DEF ZonesInv
  <2>4. PICK y : y = zones'[i]
    OBVIOUS
  <2>5. ZoneIs(y, i) /\ FreeIn(y, i) = FreeIn(v, i)
    <3>1. ZoneOK(v, NumOf(i), ZoneUnits[i]) /\ v.stamp = 0 /\ (v = zones[i] \/ v.dirty = TRUE)
      BY <2>3 DEF Applied
    <3> QED BY <2>2, <2>3, <2>4, <3>1, SettledIs
  <2> QED BY <2>3, <2>4, <2>5 DEF Applied
<1>2. zones' = [i \in ZoneNos |-> zones'[i]]
  BY DEF Updated
<1> QED BY <1>1, <1>2 DEF ZonesInv

-----------------------------------------------------------------------------
(* The invariant.                                                          *)

\* Two files share no unit; a file has units that are not free; a run taken has
\* units that are free in the bitmaps and that a search does not find.
ApartFrom(f, g) ==
  \A m \in DOMAIN f, x \in DOMAIN g :
    f[m].zone = g[x].zone => Units(f[m]) \cap Units(g[x]) = {}
FileOK(f) == /\ f \in Seq(RunSet) /\ RunsDisjoint(f)
             /\ \A m \in DOMAIN f : Units(f[m]) \cap FreeIn(zones[f[m].zone], f[m].zone) = {}
FilesInv == /\ \A f \in files : FileOK(f)
            /\ \A f, g \in files : f # g => ApartFrom(f, g)
Held(r) == Units(r) \subseteq FreeIn(zones[r.zone], r.zone) \ FoundUp(zones[r.zone], r.zone)
HeldInv == pc \in {"pick", "done"} => RunsDisjoint(runs) /\ \A m \in DOMAIN runs : Held(runs[m])
TypeInv ==
  /\ pc \in {"idle", "pick", "done", "failed"} /\ size \in Nat /\ want \in Sizes \cup {0}
  /\ \A i \in ZoneNos : curorders[i] \in 0..(NumOf(i) - 1) /\ freeblocks[i] \in Nat

AllocInv == /\ ZonesInv /\ FilesInv /\ HeldInv /\ RunsInv /\ PickInv /\ TypeInv
            /\ SizeCovered /\ FailsOnlyWhenFull

\* It holds at first: new zones are whole.
LEMMA InitAlloc == Init => AllocInv
<1> SUFFICES ASSUME Init PROVE AllocInv
  OBVIOUS
<1>1. ASSUME NEW i \in ZoneNos PROVE ZoneIs(zones[i], i)
  <2>1. PICK N \in Nat : N = ZoneUnits[i]
    BY ZoneNosAre
  <2>2. PICK n \in Nat : n = NumOrders(N)
    BY NumOrdersIs
  <2>3. PICK z : z = NewZone(N)
    OBVIOUS
  <2>4. ZoneOK(z, n, N) /\ z.stamp = 0
        /\ \A k \in 0..(n - 1) : z.runs[k] = <<>> /\ z.allocated[k] = 0 /\ z.freed[k] = 0
    BY <2>2, <2>3, NewZoneIs
  <2>5. NotesOK(z, n)
    BY <2>4, NewNotesOK
  <2>6. zones[i] = z
    BY <2>1, <2>3 DEF Init
  <2> QED BY <2>1, <2>2, <2>4, <2>5, <2>6 DEF ZoneIs, NumOf
<1>2. ZonesInv
  BY <1>1 DEF ZonesInv, Init
<1>3. FilesInv /\ HeldInv /\ PickInv /\ SizeCovered /\ FailsOnlyWhenFull
  BY DEF FilesInv, HeldInv, PickInv, SizeCovered, FailsOnlyWhenFull, Init
<1>4. RunsInv
  <2>1. runs = <<>> /\ <<>> \in Seq(RunSet) /\ Len(<<>>) = 0 /\ MaxRuns \in Nat
    BY ZonesOK DEF Init
  <2> QED BY <2>1 DEF RunsInv
<1>5. TypeInv
  BY ZoneNosAre DEF TypeInv, Init
<1> QED BY <1>2, <1>3, <1>4, <1>5 DEF AllocInv

\* The zones stay.
LEMMA SameZones ==
  ASSUME ZonesInv, FilesInv, zones' = zones, files' = files
  PROVE  ZonesInv' /\ FilesInv'
BY DEF ZonesInv, FilesInv, FileOK

-----------------------------------------------------------------------------
(* The steps.                                                              *)

\* No run is no sector.
LEMMA TotalEmpty == TotalOf(<<>>) = 0
<1>1. <<>> \in Seq({}) /\ Sized(<<>>) /\ Len(<<>>) = 0 /\ 1..0 = {}
  BY DEF Sized
<1>2. PICK e : TotalSum(e, <<>>)
  BY <1>1, TotalIs
<1> QED BY <1>1, <1>2 DEF TotalSum, Sums

\* All runs have a size.
LEMMA RunsSized ==
  ASSUME NEW rs \in Seq(RunSet)
  PROVE  Sized(rs) /\ \A r \in RunSet : SizeOf(r) \in Nat \ {0}
<1>1. ASSUME NEW r \in RunSet PROVE SizeOf(r) \in Nat \ {0}
  BY RunIs, RunSizeIs DEF SizeOf
<1>2. \A m \in DOMAIN rs : rs[m] \in RunSet
  OBVIOUS
<1> QED BY <1>1, <1>2 DEF Sized

\* An allocation begins: what the last order of each zone can give is what is
\* free there.
LEMMA StartStep ==
  ASSUME AllocInv, NEW s \in Sizes, Start(s)
  PROVE  AllocInv'
<1>1. pc = "idle" /\ pc' = "pick" /\ size' = s /\ want' = s /\ lastrun' = Huge /\ runs' = <<>>
      /\ zones' = zones /\ files' = files
  BY DEF Start
<1>2. s \in Nat \ {0} /\ Huge \in Nat
  BY ZonesOK DEF Huge
<1>3. ZonesInv' /\ FilesInv'
  BY <1>1, SameZones DEF AllocInv
<1>4. ASSUME NEW i \in ZoneNos
      PROVE  /\ curorders'[i] \in 0..(NumOf(i) - 1) /\ freeblocks'[i] \in Nat
             /\ freeblocks'[i] = Blocks(zones'[i], curorders'[i], NumOf(i))
  <2>1. PICK n \in Nat : n = NumOf(i) /\ n # 0
    BY ZoneNosAre
  <2>2. PICK N \in Nat : N = ZoneUnits[i]
    BY ZoneNosAre
  <2>3. PICK z : z = zones[i]
    OBVIOUS
  <2>4. ZoneOK(z, n, N) /\ NotesOK(z, n)
    BY <2>1, <2>2, <2>3 DEF AllocInv, ZonesInv, ZoneIs
  <2>5. Counted(z, n) /\ z.num = n
    BY <2>4, Counts, Shape
  <2>6. n - 1 \in 0..(n - 1) /\ (n - 1) + 1 = n /\ (n - 1) - (n - 1) = 0
    BY <2>1
  <2>7. /\ Blocks(z, n - 1, n - 1) = 0
        /\ Blocks(z, n - 1, (n - 1) + 1) = Blocks(z, n - 1, n - 1) + NumFree(z, n - 1) * 2^((n - 1) - (n - 1))
    BY <2>5, <2>6, BlocksGrow
  <2>8. NumFree(z, n - 1) \in Nat
    BY <2>5, <2>6 DEF Counted
  <2>9. Blocks(z, n - 1, n) = NumFree(z, n - 1)
    BY <2>6, <2>7, <2>8, PowerZero
  <2>10. curorders'[i] = n - 1 /\ freeblocks'[i] = NumFree(z, n - 1)
    BY <2>3, <2>5 DEF Start
  <2> QED BY <1>1, <2>1, <2>3, <2>6, <2>8, <2>9, <2>10
<1>5. CountsInv'
  BY <1>4 DEF CountsInv
<1>6. PickInv'
  BY <1>1, <1>2, <1>5, TotalEmpty DEF PickInv
<1>7. HeldInv' /\ RunsInv'
  <2>1. <<>> \in Seq(RunSet) /\ DOMAIN <<>> = {} /\ Len(<<>>) = 0 /\ MaxRuns \in Nat
    BY ZonesOK
  <2> QED BY <1>1, <2>1 DEF HeldInv, RunsInv, RunsDisjoint
<1>8. TypeInv' /\ SizeCovered' /\ FailsOnlyWhenFull'
  BY <1>1, <1>2, <1>4 DEF TypeInv, SizeCovered, FailsOnlyWhenFull
<1> QED BY <1>3, <1>6, <1>7, <1>8 DEF AllocInv

\* A pick that fails, and one that takes a run of order k from zone i.
Fails == /\ pc' = "failed" /\ UNCHANGED <<zones, files, allocvars>>
         /\ \A i \in ZoneNos : RunsToAlloc(i) = 0
Takes(i, k) ==
  /\ RunsToAlloc(i) # 0 /\ k = OrderNow(i) /\ CanFind(zones[i], k) /\ files' = files
  /\ zones' = [zones EXCEPT ![i] = FindRun(@, k)]
  /\ runs' = Append(runs, [zone |-> i, order |-> k, bit |-> FoundBit(zones[i], k)])
  /\ curorders' = [x \in ZoneNos |-> OrderNow(x)]
  /\ freeblocks' = [x \in ZoneNos |-> FreeAfter(x, i)]
  /\ size' = SizeAfter(i, RunSize(i, k)) /\ lastrun' = RunSize(i, k) /\ want' = want
  /\ pc' = IF size' = 0 THEN "done" ELSE "pick"

\* A zone that has a run to give gives it: the counts beside the map never
\* promise what the map does not find.
LEMMA CanTake ==
  ASSUME ZonesInv, CountsInv, size \in Nat \ {0}, NEW i \in ZoneNos, RunsToAlloc(i) # 0
  PROVE  CanFind(zones[i], OrderNow(i))
<1>1. PICK n \in Nat : n = NumOf(i) /\ n # 0
  BY ZoneNosAre
<1>2. PICK N \in Nat : N = ZoneUnits[i]
  BY ZoneNosAre
<1>3. PICK z : z = zones[i]
  OBVIOUS
<1>4. PICK k \in 0..(n - 1) : k = OrderNow(i) /\ FreeNow(i) = Blocks(z, k, n) /\ FreeNow(i) # 0
  BY <1>1, <1>3, OrderIs
<1>5. ZoneOK(z, n, N) /\ NotesOK(z, n) /\ Counted(z, n)
  BY <1>1, <1>2, <1>3, Counts DEF ZonesInv, ZoneIs
<1>6. k \in 0..n
  OBVIOUS
<1>7. PICK j \in k..(n - 1) : NumFree(z, j) # 0
  BY <1>4, <1>5, <1>6, BlocksZero
<1>8. Found(z)[j] # {}
  <2>1. NumFree(z, j) = Cardinality(Found(z)[j])
    BY <1>5 DEF NotesOK
  <2> QED BY <1>7, <2>1, FS_EmptySet
<1> QED BY <1>3, <1>4, <1>5, <1>8, SourceIs

\* A pick fails only when no zone has a run to give.
LEMMA PickIs ==
  ASSUME AllocInv, Pick
  PROVE  /\ pc = "pick" /\ Len(runs) < MaxRuns
         /\ Fails \/ \E i \in ZoneNos : Takes(i, OrderNow(i))
<1>1. /\ pc = "pick" /\ Len(runs) < MaxRuns /\ files' = files
      /\ ZonesInv /\ CountsInv /\ size \in Nat \ {0}
  BY DEF Pick, AllocInv, PickInv
<1>2. BestOf(Choice, ZoneNos)
  BY <1>1, ChoiceIs
<1>3. CASE Choice = NoFit /\ \A i \in ZoneNos : RunsToAlloc(i) = 0
  <2>1. Choice.fit = 0
    BY <1>3 DEF NoFit
  <2>2. pc' = "failed" /\ UNCHANGED <<zones, allocvars>>
    BY <2>1 DEF Pick
  <2> QED BY <1>1, <1>3, <2>2 DEF Fails
<1>4. ASSUME NEW i \in ZoneNos, Choice = Cand(i), RunsToAlloc(i) # 0
      PROVE  Takes(i, OrderNow(i))
  <2>1. PICK k : k = OrderNow(i)
    OBVIOUS
  <2>2. Choice.zone = i /\ Choice.fit = RunSize(i, k)
    BY <1>4, <2>1 DEF Cand
  <2>3. CanFind(zones[i], k)
    BY <1>1, <1>4, <2>1, CanTake
  <2>4. RunSize(i, k) # 0
    <3>1. k \in Nat
      BY <1>1, <2>1, OrderIs, ZoneNosAre
    <3> QED BY <3>1, RunSizeIs
  <2>5. /\ zones' = [zones EXCEPT ![i] = FindRun(@, k)]
        /\ runs' = Append(runs, [zone |-> i, order |-> k, bit |-> FoundBit(zones[i], k)])
        /\ curorders' = [x \in ZoneNos |-> OrderNow(x)]
        /\ freeblocks' = [x \in ZoneNos |-> FreeAfter(x, i)]
        /\ size' = SizeAfter(i, RunSize(i, k)) /\ lastrun' = RunSize(i, k) /\ want' = want
        /\ pc' = IF size' = 0 THEN "done" ELSE "pick"
    BY <2>1, <2>2, <2>3, <2>4 DEF Pick
  <2> QED BY <1>1, <1>4, <2>1, <2>3, <2>5 DEF Takes
<1> QED BY <1>1, <1>2, <1>3, <1>4 DEF BestOf

\* What taking a run of order k does to zone i, and that it does nothing to the
\* other zones.
Taking(i, k, r) ==
  /\ r \in RunSet /\ r.zone = i /\ r.order = k /\ SizeOf(r) = RunSize(i, k)
  /\ runs' = Append(runs, r) /\ ZonesInv'
  /\ \A x \in ZoneNos : FreeIn(zones'[x], x) = FreeIn(zones[x], x)
  /\ \A x \in ZoneNos \ {i} : zones'[x] = zones[x]
  /\ Units(r) \subseteq FoundUp(zones[i], i)
  /\ FoundUp(zones'[i], i) = FoundUp(zones[i], i) \ Units(r)
  /\ FoundUp(zones[i], i) \subseteq FreeIn(zones[i], i)
  /\ Blocks(zones'[i], k, NumOf(i)) = Blocks(zones[i], k, NumOf(i)) - 1

\* The zone map hands the run out.
LEMMA TakingIs ==
  ASSUME ZonesInv, CountsInv, size \in Nat \ {0}, NEW i \in ZoneNos, NEW k, Takes(i, k)
  PROVE  \E r : Taking(i, k, r)
<1>1. PICK n \in Nat : n = NumOf(i) /\ n # 0
  BY ZoneNosAre
<1>2. PICK N \in Nat : N = ZoneUnits[i]
  BY ZoneNosAre
<1>3. PICK z : z = zones[i]
  OBVIOUS
<1>4. ZoneOK(z, n, N) /\ NotesOK(z, n) /\ z.stamp = 0
  BY <1>1, <1>2, <1>3 DEF ZonesInv, ZoneIs
<1>5. k \in 0..(n - 1) /\ CanFind(z, k)
  BY <1>1, <1>3, OrderIs DEF Takes
<1>6. PICK y : y = FindRun(z, k)
  OBVIOUS
<1>7. PICK b : b = FoundBit(z, k)
  OBVIOUS
<1>8. /\ ZoneOK(y, n, N) /\ NotesOK(y, n) /\ y.bits = z.bits /\ y.stamp = 0
      /\ b \in Nat /\ UnitsIn(k, b) \subseteq Covered(Found(z), n)
      /\ Covered(Found(y), n) = Covered(Found(z), n) \ UnitsIn(k, b)
  BY <1>4, <1>5, <1>6, <1>7, FindIs
<1>9. Covered(Found(z), n) \subseteq Covered(z.bits, n) /\ Covered(z.bits, n) \subseteq 0..(N - 1)
  BY <1>4, FoundFree DEF ZoneOK
<1>10. Blocks(y, k, n) = Blocks(z, k, n) - 1
  <2>1. Counted(z, n) /\ Counted(y, n)
    BY <1>4, <1>8, Counts
  <2>2. PICK j : j = SourceOrder(z, k)
    OBVIOUS
  <2>3. j \in k..(n - 1)
    BY <1>4, <1>5, <2>2, SourceIs
  <2>4. SplitCounts(y, z, n, k, j)
    BY <1>4, <1>5, <1>6, <2>2, FindCounts
  <2> QED BY <1>5, <2>1, <2>3, <2>4, OneBlockLess
<1>11. /\ zones'[i] = y /\ \A x \in ZoneNos \ {i} : zones'[x] = zones[x]
       /\ zones' = [x \in ZoneNos |-> zones'[x]]
  <2>1. zones = [x \in ZoneNos |-> zones[x]] /\ zones' = [zones EXCEPT ![i] = y]
    BY <1>3, <1>6 DEF ZonesInv, Takes
  <2> QED BY <2>1
<1>12. ZoneIs(y, i)
  BY <1>1, <1>2, <1>8 DEF ZoneIs
<1>13. ZonesInv'
  <2>1. \A x \in ZoneNos : ZoneIs(zones'[x], x)
    BY <1>11, <1>12 DEF ZonesInv
  <2> QED BY <1>11, <2>1 DEF ZonesInv
<1>14. PICK r : r = [zone |-> i, order |-> k, bit |-> b]
  OBVIOUS
<1>15. r.zone = i /\ r.order = k /\ r.bit = b /\ k \in Nat /\ k <= n - 1
  BY <1>5, <1>14
<1>16. Units(r) = UnitsIn(k, b)
  BY <1>15 DEF Units
<1>17. r \in RunSet
  BY <1>1, <1>2, <1>8, <1>9, <1>14, <1>15, <1>16 DEF RunSet
<1>18. runs' = Append(runs, r)
  BY <1>3, <1>7, <1>14 DEF Takes
<1>19. SizeOf(r) = RunSize(i, k)
  BY <1>15 DEF SizeOf
<1>20. /\ Units(r) \subseteq FoundUp(zones[i], i)
       /\ FoundUp(zones'[i], i) = FoundUp(zones[i], i) \ Units(r)
       /\ FoundUp(zones[i], i) \subseteq FreeIn(zones[i], i)
       /\ Blocks(zones'[i], k, NumOf(i)) = Blocks(zones[i], k, NumOf(i)) - 1
       /\ FreeIn(zones'[i], i) = FreeIn(zones[i], i)
  BY <1>1, <1>3, <1>8, <1>9, <1>10, <1>11, <1>16 DEF FoundUp, FreeIn
<1>21. \A x \in ZoneNos : FreeIn(zones'[x], x) = FreeIn(zones[x], x)
  BY <1>11, <1>20
<1>22. Taking(i, k, r)
  BY <1>11, <1>13, <1>15, <1>17, <1>18, <1>19, <1>20, <1>21 DEF Taking
<1> QED BY <1>22

\* A run is taken: the counts follow it, and what is left to cover shrinks.
LEMMA TakesStep ==
  ASSUME AllocInv, pc = "pick", Len(runs) < MaxRuns, NEW i \in ZoneNos, Takes(i, OrderNow(i))
  PROVE  AllocInv'
<1>1. /\ ZonesInv /\ FilesInv /\ RunsInv /\ CountsInv /\ size \in Nat \ {0} /\ lastrun \in Nat
      /\ want \in Nat /\ TotalOf(runs) + size = want /\ RunsDisjoint(runs)
      /\ \A m \in DOMAIN runs : Held(runs[m])
  BY DEF AllocInv, PickInv, HeldInv
<1>2. PICK k : k = OrderNow(i)
  OBVIOUS
<1>3. Takes(i, k)
  BY <1>2
<1>4. PICK r : Taking(i, k, r)
  BY <1>1, <1>3, TakingIs
<1>5. ZonesInv'
  BY <1>4 DEF Taking
<1>6. FilesInv'
  <2>1. files' = files /\ \A x \in ZoneNos : FreeIn(zones'[x], x) = FreeIn(zones[x], x)
    BY <1>3, <1>4 DEF Takes, Taking
  <2>2. ASSUME NEW f \in files PROVE FileOK(f)'
    <3>1. FileOK(f)
      BY <1>1 DEF FilesInv
    <3>2. ASSUME NEW m \in DOMAIN f
          PROVE  Units(f[m]) \cap FreeIn(zones'[f[m].zone], f[m].zone) = {}
      <4>1. f[m] \in RunSet
        BY <3>1 DEF FileOK
      <4>2. f[m].zone \in ZoneNos
        BY <4>1, RunIs
      <4> QED BY <2>1, <3>1, <4>2 DEF FileOK
    <3> QED BY <3>1, <3>2 DEF FileOK
  <2> QED BY <1>1, <2>1, <2>2 DEF FilesInv
<1>7. runs \in Seq(RunSet) /\ r \in RunSet /\ runs' = Append(runs, r)
  BY <1>1, <1>4 DEF RunsInv, Taking
<1>8. /\ runs' \in Seq(RunSet) /\ Len(runs') = Len(runs) + 1 /\ DOMAIN runs' = DOMAIN runs \cup {Len(runs) + 1}
      /\ \A m \in DOMAIN runs : runs'[m] = runs[m] /\ m # Len(runs) + 1
      /\ runs'[Len(runs) + 1] = r
      /\ Front(runs') = runs /\ Last(runs') = r
  <2>1. Len(runs) \in Nat /\ DOMAIN runs = 1..Len(runs)
    BY <1>7
  <2>2. /\ runs' \in Seq(RunSet) /\ Len(runs') = Len(runs) + 1 /\ DOMAIN runs' = 1..(Len(runs) + 1)
        /\ runs'[Len(runs) + 1] = r /\ \A m \in 1..Len(runs) : runs'[m] = runs[m]
    BY <1>7
  <2>3. Front(runs') = runs /\ Last(runs') = r
    <3>1. Front(runs') = SubSeq(runs', 1, Len(runs))
      BY <2>1, <2>2 DEF Front
    <3>2. SubSeq(runs', 1, Len(runs)) = runs
      BY <1>7, <2>1, <2>2
    <3> QED BY <2>2, <3>1, <3>2 DEF Last
  <2> QED BY <2>1, <2>2, <2>3
<1>9. RunsInv'
  <2>1. MaxRuns \in Nat /\ Len(runs) \in Nat
    BY <1>7, ZonesOK
  <2> QED BY <1>8, <2>1 DEF RunsInv
<1>10. HeldInv'
  <2>1. ASSUME NEW m \in DOMAIN runs, runs[m].zone = r.zone PROVE Units(runs[m]) \cap Units(r) = {}
    <3>1. Units(r) \subseteq FoundUp(zones[i], i) /\ r.zone = i
      BY <1>4 DEF Taking
    <3>2. Held(runs[m])
      BY <1>1
    <3> QED BY <2>1, <3>1, <3>2 DEF Held
  <2>2. ASSUME NEW m \in DOMAIN runs', NEW x \in DOMAIN runs', m # x, runs'[m].zone = runs'[x].zone
        PROVE  Units(runs'[m]) \cap Units(runs'[x]) = {}
    <3>1. CASE m \in DOMAIN runs /\ x \in DOMAIN runs
      BY <1>1, <1>8, <2>2, <3>1 DEF RunsDisjoint
    <3>2. CASE m = Len(runs) + 1
      <4>1. x \in DOMAIN runs
        BY <1>8, <2>2, <3>2
      <4> QED BY <1>8, <2>1, <2>2, <3>2, <4>1
    <3>3. CASE x = Len(runs) + 1
      <4>1. m \in DOMAIN runs
        BY <1>8, <2>2, <3>3
      <4> QED BY <1>8, <2>1, <2>2, <3>3, <4>1
    <3> QED BY <1>8, <3>1, <3>2, <3>3
  <2>3. ASSUME NEW q \in RunSet, Held(q) \/ q = r,
               q.zone = r.zone /\ q # r => Units(q) \cap Units(r) = {}
        PROVE  Units(q) \subseteq FreeIn(zones'[q.zone], q.zone) \ FoundUp(zones'[q.zone], q.zone)
    <3>1. q.zone \in ZoneNos
      BY RunIs
    <3>2. FreeIn(zones'[q.zone], q.zone) = FreeIn(zones[q.zone], q.zone)
      BY <1>4, <3>1 DEF Taking
    <3>3. CASE q.zone # i
      <4>1. zones'[q.zone] = zones[q.zone] /\ q # r
        BY <1>4, <3>1, <3>3 DEF Taking
      <4> QED BY <2>3, <4>1 DEF Held
    <3>4. CASE q.zone = i /\ q # r
      <4>1. r.zone = i /\ FoundUp(zones'[i], i) = FoundUp(zones[i], i) \ Units(r)
        BY <1>4 DEF Taking
      <4> QED BY <2>3, <3>2, <3>4, <4>1 DEF Held
    <3>5. CASE q = r
      <4>1. /\ r.zone = i /\ FoundUp(zones'[i], i) = FoundUp(zones[i], i) \ Units(r)
            /\ Units(r) \subseteq FoundUp(zones[i], i) /\ FoundUp(zones[i], i) \subseteq FreeIn(zones[i], i)
        BY <1>4 DEF Taking
      <4> QED BY <3>2, <3>5, <4>1
    <3> QED BY <3>3, <3>4, <3>5
  <2>4. ASSUME NEW m \in DOMAIN runs'
        PROVE  Units(runs'[m]) \subseteq FreeIn(zones'[runs'[m].zone], runs'[m].zone) \ FoundUp(zones'[runs'[m].zone], runs'[m].zone)
    <3>1. PICK q \in RunSet : q = runs'[m]
      BY <1>8
    <3>2. Held(q) \/ q = r
      BY <1>1, <1>8, <3>1
    <3>3. q.zone = r.zone /\ q # r => Units(q) \cap Units(r) = {}
      BY <1>8, <2>1, <3>1
    <3> QED BY <2>3, <3>1, <3>2, <3>3
  <2> QED BY <2>2, <2>4 DEF HeldInv, RunsDisjoint, Held
<1>11. ASSUME NEW x \in ZoneNos
       PROVE  /\ curorders'[x] \in 0..(NumOf(x) - 1) /\ freeblocks'[x] \in Nat
              /\ freeblocks'[x] = Blocks(zones'[x], curorders'[x], NumOf(x))
  <2>1. PICK n \in Nat : n = NumOf(x) /\ n # 0
    BY ZoneNosAre
  <2>2. PICK c : c = OrderNow(x)
    OBVIOUS
  <2>3. c \in 0..(n - 1) /\ FreeNow(x) = Blocks(zones[x], c, n) /\ FreeNow(x) \in Nat
    BY <1>1, <2>1, <2>2, OrderIs
  <2>4. curorders'[x] = c /\ freeblocks'[x] = FreeAfter(x, i)
    BY <1>3, <2>2 DEF Takes
  <2>5. CASE x = i
    <3>1. Blocks(zones'[x], c, n) = Blocks(zones[x], c, n) - 1
      BY <1>2, <1>4, <2>1, <2>2, <2>5 DEF Taking
    <3>2. freeblocks'[x] = FreeNow(x) - 1
      BY <2>4, <2>5 DEF FreeAfter
    <3>3. FreeNow(x) # 0
      BY <1>1, <1>3, <2>5, OrderIs DEF Takes
    <3> QED BY <2>1, <2>3, <2>4, <3>1, <3>2, <3>3
  <2>6. CASE x # i
    <3>1. zones'[x] = zones[x]
      BY <1>4, <2>6 DEF Taking
    <3>2. freeblocks'[x] = FreeNow(x)
      BY <2>4, <2>6 DEF FreeAfter
    <3> QED BY <2>1, <2>3, <2>4, <3>1, <3>2
  <2> QED BY <2>5, <2>6
<1>12. CountsInv'
  BY <1>11 DEF CountsInv
<1>13. PICK fit \in Nat \ {0} : fit = RunSize(i, k)
  <2>1. k \in Nat
    BY <1>1, <1>2, OrderIs, ZoneNosAre
  <2> QED BY <2>1, RunSizeIs
<1>14. PICK m \in Nat \ {0} : m = MinAlloc[i] /\ fit < size + m
  <2>1. fit < size + MinAlloc[i]
    BY <1>1, <1>2, <1>3, <1>13, OrderIs DEF Takes
  <2> QED BY <2>1, ZoneNosAre
<1>15. PICK t \in Nat : t = TotalOf(runs) /\ TotalOf(runs') = t + fit
  <2>1. SizeOf(r) = fit
    BY <1>2, <1>4, <1>13 DEF Taking
  <2>2. Sized(runs) /\ SizeOf(r) \in Nat
    BY <1>7, RunsSized
  <2> QED BY <1>7, <2>1, <2>2, TotalGrows
<1>16. /\ size' = (IF size > fit THEN size - fit ELSE 0) /\ size' \in Nat
       /\ lastrun' = fit /\ want' = want /\ pc' = IF size' = 0 THEN "done" ELSE "pick"
  <2>1. size' = SizeAfter(i, fit) /\ lastrun' = fit /\ want' = want
        /\ pc' = IF size' = 0 THEN "done" ELSE "pick"
    BY <1>2, <1>3, <1>13 DEF Takes
  <2> QED BY <1>1, <2>1 DEF SizeAfter
<1>17. PickInv'
  BY <1>1, <1>12, <1>15, <1>16 DEF PickInv
<1>18. SizeCovered'
  <2>1. Last(runs').zone = i
    BY <1>4, <1>8 DEF Taking
  <2>2. ASSUME pc' = "done"
        PROVE  /\ TotalOf(runs') >= want' /\ TotalOf(runs) < want'
               /\ TotalOf(runs') - want' < m
    BY <1>1, <1>14, <1>15, <1>16, <2>2
  <2> QED BY <1>8, <1>14, <2>1, <2>2 DEF SizeCovered
<1>19. TypeInv' /\ FailsOnlyWhenFull'
  BY <1>11, <1>16 DEF AllocInv, TypeInv, FailsOnlyWhenFull
<1> QED BY <1>5, <1>6, <1>9, <1>10, <1>17, <1>18, <1>19 DEF AllocInv

\* A pick that fails finds every zone without a free block of any order.
LEMMA FailsStep ==
  ASSUME AllocInv, pc = "pick", Fails
  PROVE  AllocInv'
<1>1. /\ ZonesInv /\ FilesInv /\ RunsInv /\ CountsInv /\ size \in Nat \ {0} /\ TypeInv
  BY DEF AllocInv, PickInv
<1>2. /\ pc' = "failed" /\ zones' = zones /\ files' = files /\ size' = size /\ want' = want
      /\ curorders' = curorders /\ freeblocks' = freeblocks /\ runs' = runs
  BY DEF Fails, allocvars
<1>3. ASSUME NEW i \in ZoneNos, NEW k \in Orders(zones[i]) PROVE NumFree(zones[i], k) = 0
  <2>1. RunsToAlloc(i) = 0
    BY DEF Fails
  <2>2. \A j \in 0..(NumOf(i) - 1) : NumFree(zones[i], j) = 0
    BY <1>1, <2>1, OrderIs
  <2>3. Orders(zones[i]) = 0..(NumOf(i) - 1)
    <3>1. ZoneOK(zones[i], NumOf(i), ZoneUnits[i])
      BY <1>1 DEF ZonesInv, ZoneIs
    <3> QED BY <3>1, ZoneNosAre, Shape
  <2> QED BY <2>2, <2>3
<1>4. FailsOnlyWhenFull'
  BY <1>2, <1>3 DEF FailsOnlyWhenFull
<1>5. ZonesInv' /\ FilesInv'
  BY <1>1, <1>2, SameZones
<1>6. RunsInv' /\ HeldInv' /\ PickInv' /\ TypeInv' /\ SizeCovered'
  BY <1>1, <1>2 DEF RunsInv, HeldInv, PickInv, TypeInv, SizeCovered
<1> QED BY <1>4, <1>5, <1>6 DEF AllocInv

\* A step that changes pc only, to one of no allocation that goes on.
LEMMA EndStep ==
  ASSUME AllocInv, UNCHANGED <<zones, files, allocvars>>,
         pc' = "idle" \/ (pc' = "failed" /\ Len(runs) >= MaxRuns)
  PROVE  AllocInv'
<1>1. /\ zones' = zones /\ files' = files /\ size' = size /\ want' = want
      /\ curorders' = curorders /\ freeblocks' = freeblocks /\ runs' = runs
  BY DEF allocvars
<1>2. ZonesInv' /\ FilesInv'
  BY <1>1, SameZones DEF AllocInv
<1>3. ~(Len(runs) >= MaxRuns /\ Len(runs) < MaxRuns)
  <2>1. Len(runs) \in Nat /\ MaxRuns \in Nat
    BY ZonesOK DEF AllocInv, RunsInv
  <2> QED BY <2>1
<1>4. RunsInv' /\ HeldInv' /\ PickInv' /\ TypeInv' /\ SizeCovered' /\ FailsOnlyWhenFull'
  BY <1>1, <1>3 DEF AllocInv, RunsInv, HeldInv, PickInv, TypeInv, SizeCovered, FailsOnlyWhenFull
<1> QED BY <1>2, <1>4 DEF AllocInv

\* The variables of an allocation stay, and none goes on.
LEMMA IdleStep ==
  ASSUME AllocInv, allocvars' = allocvars, pc' = "idle", ZonesInv', FilesInv'
  PROVE  AllocInv'
<1>1. /\ size' = size /\ want' = want
      /\ curorders' = curorders /\ freeblocks' = freeblocks /\ runs' = runs
  BY DEF allocvars
<1>2. RunsInv' /\ HeldInv' /\ PickInv' /\ TypeInv' /\ SizeCovered' /\ FailsOnlyWhenFull'
  BY <1>1 DEF AllocInv, RunsInv, HeldInv, PickInv, TypeInv, SizeCovered, FailsOnlyWhenFull
<1> QED BY <1>2 DEF AllocInv

\* A file is committed: its units, which were held for it, are free no more.
LEMMA CommitStep ==
  ASSUME AllocInv, Commit
  PROVE  AllocInv'
<1>1. /\ pc = "done" /\ pc' = "idle" /\ zones' = Updated(zones, runs, FALSE)
      /\ files' = files \cup {runs} /\ allocvars' = allocvars
  BY DEF Commit
<1>2. /\ ZonesInv /\ FilesInv /\ runs \in Seq(RunSet) /\ RunsDisjoint(runs)
      /\ \A m \in DOMAIN runs : runs[m] \in RunSet
      /\ \A m \in DOMAIN runs : Held(runs[m])
  BY <1>1 DEF AllocInv, RunsInv, HeldInv
<1>3. \A i \in ZoneNos : AllChangeable(zones[i], runs, i, FALSE)
  <2> SUFFICES ASSUME NEW i \in ZoneNos, NEW m \in DOMAIN runs, runs[m].zone = i
               PROVE  UnitsIn(runs[m].order, runs[m].bit) \subseteq Covered(zones[i].bits, NumOf(i))
    BY DEF AllChangeable, Changeable
  <2>1. Held(runs[m])
    BY <1>2
  <2> QED BY <2>1 DEF Held, Units, FreeIn
<1>4. /\ ZonesInv'
      /\ \A i \in ZoneNos : FreeIn(zones'[i], i) = FreeIn(zones[i], i) \ UnitsOf(runs, i, DOMAIN runs)
  <2>1. PICK state \in BOOLEAN : state = FALSE
    OBVIOUS
  <2>2. /\ ZonesInv'
        /\ \A i \in ZoneNos :
             FreeIn(zones'[i], i) = With1(FreeIn(zones[i], i), UnitsOf(runs, i, DOMAIN runs), state)
    BY <1>1, <1>2, <1>3, <2>1, UpdatedIs
  <2> QED BY <2>1, <2>2 DEF With1
<1>5. \A m \in DOMAIN runs : Units(runs[m]) \subseteq UnitsOf(runs, runs[m].zone, DOMAIN runs)
  BY DEF UnitsOf
<1>6. ASSUME NEW f \in files PROVE FileOK(f)'
  <2>1. FileOK(f)
    BY <1>2 DEF FilesInv
  <2>2. ASSUME NEW m \in DOMAIN f
        PROVE  Units(f[m]) \cap FreeIn(zones'[f[m].zone], f[m].zone) = {}
    <3>1. f[m].zone \in ZoneNos
      BY <2>1, RunIs DEF FileOK
    <3> QED BY <1>4, <2>1, <3>1 DEF FileOK
  <2> QED BY <2>1, <2>2 DEF FileOK
<1>7. FileOK(runs)'
  <2>1. runs' = runs
    BY <1>1 DEF allocvars
  <2>2. ASSUME NEW m \in DOMAIN runs
        PROVE  Units(runs[m]) \cap FreeIn(zones'[runs[m].zone], runs[m].zone) = {}
    <3>1. runs[m].zone \in ZoneNos
      BY <1>2, RunIs
    <3> QED BY <1>4, <1>5, <3>1
  <2> QED BY <1>2, <2>1, <2>2 DEF FileOK
<1>8. ASSUME NEW f \in files PROVE ApartFrom(f, runs) /\ ApartFrom(runs, f)
  <2>1. ASSUME NEW m \in DOMAIN f, NEW x \in DOMAIN runs, f[m].zone = runs[x].zone
        PROVE  Units(f[m]) \cap Units(runs[x]) = {}
    <3>1. FileOK(f) /\ Held(runs[x])
      BY <1>2 DEF FilesInv
    <3>2. Units(f[m]) \cap FreeIn(zones[f[m].zone], f[m].zone) = {}
      BY <3>1 DEF FileOK
    <3> QED BY <2>1, <3>1, <3>2 DEF Held
  <2> QED BY <2>1 DEF ApartFrom
<1>9. FilesInv'
  <2>1. runs' = runs
    BY <1>1 DEF allocvars
  <2>2. \A f \in files' : FileOK(f)'
    BY <1>1, <1>6, <1>7, <2>1
  <2>3. \A f, g \in files' : f # g => ApartFrom(f, g)
    BY <1>1, <1>2, <1>8 DEF FilesInv
  <2> QED BY <2>2, <2>3 DEF FilesInv
<1> QED BY <1>1, <1>4, <1>9, IdleStep

\* A file is deleted: its units, which no other file has, are free again.
LEMMA DeleteStep ==
  ASSUME AllocInv, NEW f \in files, Delete(f)
  PROVE  AllocInv'
<1>1. /\ pc = "idle" /\ pc' = "idle" /\ zones' = Updated(zones, f, TRUE)
      /\ files' = files \ {f} /\ allocvars' = allocvars
  BY DEF Delete
<1>2. /\ ZonesInv /\ FilesInv /\ FileOK(f) /\ f \in Seq(RunSet) /\ RunsDisjoint(f)
  BY DEF AllocInv, FilesInv, FileOK
<1>3. \A i \in ZoneNos : AllChangeable(zones[i], f, i, TRUE)
  <2> SUFFICES ASSUME NEW i \in ZoneNos, NEW m \in DOMAIN f, f[m].zone = i
               PROVE  UnitsIn(f[m].order, f[m].bit) \cap Covered(zones[i].bits, NumOf(i)) = {}
    BY DEF AllChangeable, Changeable
  <2> QED BY <1>2 DEF FileOK, Units, FreeIn
<1>4. /\ ZonesInv'
      /\ \A i \in ZoneNos : FreeIn(zones'[i], i) = FreeIn(zones[i], i) \cup UnitsOf(f, i, DOMAIN f)
  <2>1. PICK state \in BOOLEAN : state = TRUE
    OBVIOUS
  <2>2. /\ ZonesInv'
        /\ \A i \in ZoneNos :
             FreeIn(zones'[i], i) = With1(FreeIn(zones[i], i), UnitsOf(f, i, DOMAIN f), state)
    BY <1>1, <1>2, <1>3, <2>1, UpdatedIs
  <2> QED BY <2>1, <2>2 DEF With1
<1>5. ASSUME NEW g \in files' PROVE FileOK(g)'
  <2>1. FileOK(g) /\ ApartFrom(g, f)
    BY <1>1, <1>2 DEF FilesInv
  <2>2. ASSUME NEW m \in DOMAIN g
        PROVE  Units(g[m]) \cap FreeIn(zones'[g[m].zone], g[m].zone) = {}
    <3>1. PICK i \in ZoneNos : i = g[m].zone
      BY <2>1, RunIs DEF FileOK
    <3>2. Units(g[m]) \cap FreeIn(zones[i], i) = {}
      BY <2>1, <3>1 DEF FileOK
    <3>3. Units(g[m]) \cap UnitsOf(f, i, DOMAIN f) = {}
      BY <2>1, <3>1 DEF ApartFrom, UnitsOf
    <3> QED BY <1>4, <3>1, <3>2, <3>3
  <2> QED BY <2>1, <2>2 DEF FileOK
<1>6. FilesInv'
  <2>1. \A g, h \in files' : g # h => ApartFrom(g, h)
    BY <1>1, <1>2 DEF FilesInv
  <2> QED BY <1>5, <2>1 DEF FilesInv
<1> QED BY <1>1, <1>4, <1>6, IdleStep

\* The invariant is kept by every step.
LEMMA StepAlloc == AllocInv /\ [Next]_vars => AllocInv'
<1> SUFFICES ASSUME AllocInv, [Next]_vars
             PROVE  AllocInv'
  OBVIOUS
<1>1. CASE \E s \in Sizes : Start(s)
  BY <1>1, StartStep
<1>2. CASE Pick
  BY <1>2, PickIs, TakesStep, FailsStep
<1>3. CASE NoRunsLeft
  BY <1>3, EndStep DEF NoRunsLeft
<1>4. CASE Commit
  BY <1>4, CommitStep
<1>5. CASE GiveUp
  BY <1>5, EndStep DEF GiveUp
<1>6. CASE \E f \in files : Delete(f)
  BY <1>6, DeleteStep
<1>7. CASE UNCHANGED vars
  <2>1. /\ zones' = zones /\ files' = files /\ size' = size /\ want' = want /\ pc' = pc /\ lastrun' = lastrun
        /\ curorders' = curorders /\ freeblocks' = freeblocks /\ runs' = runs
    BY <1>7 DEF vars, allocvars
  <2>2. ZonesInv' /\ FilesInv'
    BY <2>1, SameZones DEF AllocInv
  <2>3. RunsInv' /\ TypeInv' /\ SizeCovered' /\ FailsOnlyWhenFull'
    BY <2>1 DEF AllocInv, RunsInv, TypeInv, SizeCovered, FailsOnlyWhenFull
  <2>4. HeldInv' /\ PickInv'
    BY <2>1 DEF AllocInv, HeldInv, Held, PickInv, CountsInv
  <2> QED BY <2>2, <2>3, <2>4 DEF AllocInv
<1> QED BY <1>1, <1>2, <1>3, <1>4, <1>5, <1>6, <1>7 DEF Next

-----------------------------------------------------------------------------
(* The properties.                                                         *)

\* The counts of the invariant are those of FreeBlocksTrue.
LEMMA InvCounts == AllocInv => FreeBlocksTrue
<1> SUFFICES ASSUME AllocInv
             PROVE  FreeBlocksTrue
  OBVIOUS
<1>1. ASSUME NEW i \in ZoneNos PROVE Orders(zones[i]) = 0..(NumOf(i) - 1) /\ zones[i].num = NumOf(i)
  <2>1. ZoneOK(zones[i], NumOf(i), ZoneUnits[i])
    BY DEF AllocInv, ZonesInv, ZoneIs
  <2> QED BY <2>1, ZoneNosAre, Shape
<1>2. \A i \in ZoneNos : curorders[i] \in Orders(zones[i]) /\ freeblocks[i] \in Nat
  BY <1>1 DEF AllocInv, TypeInv
<1>3. ASSUME NEW m \in DOMAIN runs, NEW u \in UnitsIn(runs[m].order, runs[m].bit)
      PROVE  u < ZoneUnits[runs[m].zone]
  <2>1. PICK r \in RunSet : r = runs[m]
    BY DEF AllocInv, RunsInv
  <2>2. Units(r) \subseteq 0..(ZoneUnits[r.zone] - 1) /\ ZoneUnits[r.zone] \in Nat
    BY RunIs, ZoneNosAre
  <2> QED BY <2>1, <2>2 DEF Units
<1>4. TypeOK
  BY <1>2, <1>3 DEF TypeOK, AllocInv, TypeInv, RunsInv
<1>5. ASSUME pc = "pick", NEW i \in ZoneNos
      PROVE  freeblocks[i] =
               MapThenSumSet(LAMBDA j : NumFree(zones[i], j) * 2^(j - curorders[i]),
                             curorders[i]..(zones[i].num - 1))
  <2>1. freeblocks[i] = Blocks(zones[i], curorders[i], zones[i].num)
    BY <1>1, <1>5 DEF AllocInv, PickInv, CountsInv
  <2> QED BY <2>1 DEF Blocks
<1> QED BY <1>4, <1>5 DEF FreeBlocksTrue

\* Two runs that have no unit in common take nothing in common.
LEMMA TakenApart ==
  ASSUME NEW r, NEW s, r.zone = s.zone => Units(r) \cap Units(s) = {}
  PROVE  Taken(r) \cap Taken(s) = {}
BY DEF Taken, Units

\* The run lists of the invariant have nothing in common.
LEMMA InvApart == AllocInv => RunsApart
<1> SUFFICES ASSUME AllocInv
             PROVE  RunsApart
  OBVIOUS
<1> DEFINE Owned(f) == UNION {Taken(f[n]) : n \in DOMAIN f}
<1>1. ASSUME NEW f, NEW g, ApartFrom(f, g) PROVE Owned(f) \cap Owned(g) = {}
  <2>1. \A m \in DOMAIN f, x \in DOMAIN g : Taken(f[m]) \cap Taken(g[x]) = {}
    BY <1>1, TakenApart DEF ApartFrom
  <2> QED BY <2>1
<1>2. \A f, g \in files : f # g => Owned(f) \cap Owned(g) = {}
  BY <1>1 DEF AllocInv, FilesInv
<1>3. ASSUME pc \in {"pick", "done"}, NEW f \in files PROVE Owned(f) \cap Owned(runs) = {}
  <2>1. ASSUME NEW m \in DOMAIN f, NEW x \in DOMAIN runs, f[m].zone = runs[x].zone
        PROVE  Units(f[m]) \cap Units(runs[x]) = {}
    <3>1. FileOK(f) /\ Held(runs[x])
      BY <1>3 DEF AllocInv, FilesInv, HeldInv
    <3>2. Units(f[m]) \cap FreeIn(zones[f[m].zone], f[m].zone) = {}
      BY <3>1 DEF FileOK
    <3> QED BY <2>1, <3>1, <3>2 DEF Held
  <2>2. ApartFrom(f, runs)
    BY <2>1 DEF ApartFrom
  <2> QED BY <1>1, <2>2
<1>4. ASSUME pc \in {"pick", "done"}, NEW m \in DOMAIN runs, NEW n \in DOMAIN runs, m # n
      PROVE  Taken(runs[m]) \cap Taken(runs[n]) = {}
  <2>1. RunsDisjoint(runs)
    BY <1>4 DEF AllocInv, HeldInv
  <2> QED BY <1>4, <2>1, TakenApart DEF RunsDisjoint
<1> QED BY <1>2, <1>3, <1>4 DEF RunsApart

-----------------------------------------------------------------------------
(* The theorems.                                                           *)

\* The invariant of the allocation holds in every state: the zone maps are
\* whole, the runs taken are held in them for the new file alone, and what is
\* taken and what is left to cover make up the size asked for.
THEOREM AllocSafe == Spec => []AllocInv
BY InitAlloc, StepAlloc, PTL DEF Spec

\* mfs_alloc_greedy reads what each zone has free once, and then keeps the count
\* itself: it is what the zone maps would say at every pick, for zones of any
\* number and size.
THEOREM AllocCountsTrue == Spec => []FreeBlocksTrue
BY AllocSafe, InvCounts, PTL

\* The runs of a file cover its size, none of them is one too many, and what the
\* last one wastes is less than a unit of its zone.
THEOREM AllocCovers == Spec => []SizeCovered
<1>1. AllocInv => SizeCovered
  BY DEF AllocInv
<1> QED BY <1>1, AllocSafe, PTL

\* An allocation whose inode has room for another run fails only when no zone has
\* a free block of any order.
THEOREM AllocFailsFull == Spec => []FailsOnlyWhenFull
<1>1. AllocInv => FailsOnlyWhenFull
  BY DEF AllocInv
<1> QED BY <1>1, AllocSafe, PTL

\* No unit is given to two files, nor twice to the file being allocated.
THEOREM AllocRunsApart == Spec => []RunsApart
BY AllocSafe, InvApart, PTL
=============================================================================
