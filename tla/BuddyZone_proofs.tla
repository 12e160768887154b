-------------------------- MODULE BuddyZone_proofs ---------------------------
(***************************************************************************)
(* What the operations of BuddyZone do to the blocks of a zone of any      *)
(* size.  Blocks of the orders form a tree: block b of order k is half of  *)
(* block b \div 2 of order k + 1, and holds the units u with Up(u, k) = b. *)
(***************************************************************************)
EXTENDS BuddyZone, FiniteSetTheorems, WellFoundedInduction, TLAPS

-----------------------------------------------------------------------------
(* Powers of two.                                                          *)

\* A set of natural numbers that is not empty has a least one.
LEMMA LeastThereIs ==
  ASSUME NEW S \in SUBSET Nat, S # {}
  PROVE  \E n \in S : \A m \in S : n <= m
<1>1. PICK x \in S : \A y \in S : ~(<<y, x>> \in OpToRel(<, Nat))
  BY NatLessThanWellFounded, WFMin
<1>2. \A y \in S : ~(y < x)
  BY <1>1 DEF OpToRel
<1> QED BY <1>2

\* There are twice as many sets of n + 1 numbers as there are of n.
LEMMA PowerStep ==
  ASSUME NEW n \in Nat
  PROVE  2^n \in Nat \ {0} /\ 2^(n + 1) = 2 * 2^n
<1> DEFINE S == 1..n
           T == 1..(n + 1)
           With == {X \cup {n + 1} : X \in SUBSET S}
<1>1. /\ IsFiniteSet(S) /\ Cardinality(S) = n
      /\ IsFiniteSet(T) /\ Cardinality(T) = n + 1
  BY FS_Interval
<1>2. /\ IsFiniteSet(SUBSET S) /\ Cardinality(SUBSET S) = 2^n
      /\ IsFiniteSet(SUBSET T) /\ Cardinality(SUBSET T) = 2^(n + 1)
  BY <1>1, FS_SUBSET
<1>3. n + 1 \notin S /\ T = S \cup {n + 1}
  OBVIOUS
<1>4. SUBSET T = (SUBSET S) \cup With
  <2>1. ASSUME NEW X \in SUBSET T PROVE X \in (SUBSET S) \cup With
    <3>1. CASE n + 1 \in X
      <4>1. X \ {n + 1} \in SUBSET S /\ X = (X \ {n + 1}) \cup {n + 1}
        BY <1>3, <3>1
      <4> QED BY <4>1
    <3>2. CASE n + 1 \notin X
      BY <1>3, <3>2
    <3> QED BY <3>1, <3>2
  <2>2. ASSUME NEW X \in SUBSET S PROVE X \in SUBSET T /\ X \cup {n + 1} \in SUBSET T
    BY <1>3
  <2>3. \A X \in With : X \in SUBSET T
    BY <2>2
  <2>4. \A X \in SUBSET S : X \in SUBSET T
    BY <1>3
  <2> HIDE DEF S, T, With
  <2> QED BY <2>1, <2>3, <2>4
<1>5. (SUBSET S) \cap With = {}
  BY <1>3
<1>6. IsFiniteSet(With) /\ Cardinality(With) = Cardinality(SUBSET S)
  <2> DEFINE f == [X \in SUBSET S |-> X \cup {n + 1}]
  <2>1. f \in Bijection(SUBSET S, With)
    <3>1. f \in [SUBSET S -> With] /\ \A Y \in With : \E X \in SUBSET S : f[X] = Y
      OBVIOUS
    <3>2. ASSUME NEW X \in SUBSET S, NEW Y \in SUBSET S, f[X] = f[Y] PROVE X = Y
      <4>1. X \cup {n + 1} = Y \cup {n + 1}
        BY <3>2
      <4> QED BY <4>1, <1>3
    <3>3. f \in Injection(SUBSET S, With)
      <4> HIDE DEF f
      <4> QED BY <3>1, <3>2 DEF Injection, IsInjective
    <3>4. f \in Surjection(SUBSET S, With)
      <4> HIDE DEF f
      <4> QED BY <3>1 DEF Surjection
    <3> QED BY <3>3, <3>4 DEF Bijection
  <2>2. ExistsBijection(SUBSET S, With)
    BY <2>1 DEF ExistsBijection
  <2> QED BY <1>2, <2>2, FS_Bijection
<1>7. Cardinality(SUBSET T) = Cardinality(SUBSET S) + Cardinality(With) - Cardinality((SUBSET S) \cap With)
  BY <1>2, <1>4, <1>6, FS_Union
<1>8. Cardinality((SUBSET S) \cap With) = 0
  BY <1>5, FS_EmptySet
<1>9. Cardinality(SUBSET S) \in Nat /\ Cardinality(SUBSET S) # 0
  <2>1. SUBSET S # {}
    OBVIOUS
  <2> QED BY <1>2, <2>1, FS_CardinalityType, FS_EmptySet
<1> QED BY <1>2, <1>6, <1>7, <1>8, <1>9

\* The first power is 1.
LEMMA PowerZero == 2^0 = 1
OBVIOUS

\* Powers are multiplied.
LEMMA PowerSum ==
  ASSUME NEW m \in Nat, NEW n \in Nat
  PROVE  2^(m + n) = 2^m * 2^n
<1> DEFINE Odd == {i \in Nat : 2^(m + i) # 2^m * 2^i}
<1> SUFFICES ASSUME Odd # {} PROVE FALSE
  OBVIOUS
<1>1. PICK i \in Odd : \A j \in Odd : i <= j
  BY LeastThereIs
<1>2. i # 0
  <2>1. 2^(m + 0) = 2^m * 2^0
    <3>1. m + 0 = m /\ 2^m \in Nat /\ 2^0 = 1
      BY PowerStep, PowerZero
    <3>2. 2^m * 1 = 2^m
      BY <3>1
    <3> QED BY <3>1, <3>2
  <2> QED BY <2>1
<1>3. PICK j \in Nat : i = j + 1
  BY <1>1, <1>2
<1>4. 2^(m + j) = 2^m * 2^j
  BY <1>1, <1>3
<1>5. 2^i = 2 * 2^j /\ 2^(m + i) = 2 * 2^(m + j) /\ 2^j \in Nat /\ 2^m \in Nat /\ 2^(m + j) \in Nat
  <2>1. m + i = (m + j) + 1 /\ m + j \in Nat
    BY <1>3
  <2> QED BY <1>3, <2>1, PowerStep
<1>6. ASSUME NEW a \in Nat, NEW b \in Nat PROVE 2 * (a * b) = a * (2 * b)
  OBVIOUS
<1>7. 2^(m + i) = 2^m * 2^i
  BY <1>4, <1>5, <1>6
<1> QED BY <1>1, <1>7

\* Powers grow faster than their exponents.
LEMMA PowerAbove ==
  ASSUME NEW n \in Nat
  PROVE  2^n > n
<1> DEFINE Odd == {i \in Nat : ~(2^i > i)}
<1> SUFFICES ASSUME Odd # {} PROVE FALSE
  OBVIOUS
<1>1. PICK i \in Odd : \A j \in Odd : i <= j
  BY LeastThereIs
<1>2. i # 0
  <2>1. 2^0 > 0
    BY PowerZero
  <2> QED BY <2>1
<1>3. PICK j \in Nat : i = j + 1
  BY <1>1, <1>2
<1>4. 2^j > j
  BY <1>1, <1>3
<1>5. 2^i = 2 * 2^j /\ 2^j \in Nat
  BY <1>3, PowerStep
<1> QED BY <1>1, <1>3, <1>4, <1>5

-----------------------------------------------------------------------------
(* The tree of blocks.                                                     *)

\* A block and its buddy are the two halves of the same block.
LEMMA BuddyIs ==
  ASSUME NEW b \in Nat
  PROVE  /\ Buddy(b) \in Nat /\ Buddy(b) # b /\ Buddy(Buddy(b)) = b
         /\ Buddy(b) \div 2 = b \div 2 /\ b \div 2 \in Nat
         /\ \A c \in Nat : c \div 2 = b \div 2 => c = b \/ c = Buddy(b)
BY DEF Buddy

\* Going up no steps, and going up one step more.
LEMMA UpIs ==
  ASSUME NEW b \in Nat, NEW n \in Nat
  PROVE  /\ Up(b, n) \in Nat /\ Up(b, 0) = b
         /\ Up(b, n + 1) = Up(b, n) \div 2
<1>1. 2^n \in Nat \ {0} /\ 2^(n + 1) = 2^n * 2
  BY PowerStep
<1>2. ASSUME NEW c \in Nat \ {0} PROVE b \div c \in Nat /\ (b \div c) \div 2 = b \div (c * 2)
  OBVIOUS
<1>3. Up(b, 0) = b
  <2>1. b \div 1 = b
    OBVIOUS
  <2> QED BY <2>1, PowerZero DEF Up
<1>4. b \div 2^n \in Nat /\ (b \div 2^n) \div 2 = b \div (2^n * 2)
  BY <1>1, <1>2
<1> QED BY <1>1, <1>3, <1>4 DEF Up

\* A step up, for a block of order k.
LEMMA UpNext ==
  ASSUME NEW b \in Nat, NEW k \in Nat, NEW j \in Nat, k <= j
  PROVE  /\ j - k \in Nat /\ Up(b, j - k) \in Nat
         /\ Up(b, (j + 1) - k) = Up(b, j - k) \div 2
<1>1. j - k \in Nat /\ (j + 1) - k = (j - k) + 1
  OBVIOUS
<1>2. PICK n \in Nat : n = j - k
  BY <1>1
<1>3. Up(b, n) \in Nat /\ Up(b, n + 1) = Up(b, n) \div 2
  BY UpIs
<1> QED BY <1>1, <1>2, <1>3

\* Going up m steps and then n more.
LEMMA UpUp ==
  ASSUME NEW b \in Nat, NEW m \in Nat, NEW n \in Nat
  PROVE  Up(Up(b, m), n) = Up(b, m + n)
<1>1. 2^m \in Nat \ {0} /\ 2^n \in Nat \ {0} /\ 2^(m + n) = 2^m * 2^n
  BY PowerStep, PowerSum
<1>2. ASSUME NEW c \in Nat \ {0}, NEW d \in Nat \ {0} PROVE (b \div c) \div d = b \div (c * d)
  OBVIOUS
<1> QED BY <1>1, <1>2 DEF Up

\* The units of a block are those below it, 2^k of them.
LEMMA BlockUnits ==
  ASSUME NEW k \in Nat, NEW b \in Nat
  PROVE  /\ UnitsIn(k, b) = {u \in Nat : Up(u, k) = b}
         /\ b * 2^k \in Nat /\ Up(b * 2^k, k) = b
         /\ IsFiniteSet(UnitsIn(k, b)) /\ Cardinality(UnitsIn(k, b)) = 2^k
<1>1. PICK c \in Nat \ {0} : c = 2^k
  BY PowerStep
<1>2. b * c \in Nat /\ (b + 1) * c \in Nat /\ (b + 1) * c = b * c + c
  OBVIOUS
<1>3. ASSUME NEW u \in Nat PROVE u \div c = b <=> b * c <= u /\ u <= (b + 1) * c - 1
  <2>1. (u \div c) \in Nat /\ (u \div c) * c <= u /\ u < (u \div c) * c + c
    OBVIOUS
  <2>2. ASSUME NEW x \in Nat, NEW y \in Nat, x < y PROVE x * c + c <= y * c
    <3>1. PICK z \in Nat : y = (x + 1) + z
      <4>1. y - (x + 1) \in Nat /\ y = (x + 1) + (y - (x + 1))
        BY <2>2
      <4> QED BY <4>1
    <3>2. y * c = x * c + c + z * c /\ z * c >= 0 /\ z * c \in Nat /\ x * c \in Nat
      BY <3>1
    <3> QED BY <3>2
  <2> DEFINE q == u \div c
  <2>3. q \in Nat /\ q * c \in Nat /\ q * c <= u /\ u < q * c + c
    BY <2>1
  <2> HIDE DEF q
  <2>4. q < b => q * c + c <= b * c
    BY <2>2, <2>3
  <2>5. b < q => b * c + c <= q * c
    BY <2>2, <2>3
  <2>6. q = b <=> b * c <= u /\ u <= (b + 1) * c - 1
    BY <1>2, <2>3, <2>4, <2>5
  <2> QED BY <2>6 DEF q
<1>4. (b * c) \div c = b
  BY <1>2, <1>3
<1>5. UnitsIn(k, b) = (b * c)..((b + 1) * c - 1)
  BY <1>1 DEF UnitsIn
<1>6. UnitsIn(k, b) \subseteq Nat
  BY <1>2, <1>5
<1>7. \A u \in Nat : u \in UnitsIn(k, b) <=> Up(u, k) = b
  <2> SUFFICES ASSUME NEW u \in Nat PROVE u \in UnitsIn(k, b) <=> Up(u, k) = b
    OBVIOUS
  <2>1. Up(u, k) = u \div c
    BY <1>1 DEF Up
  <2>2. u \in UnitsIn(k, b) <=> b * c <= u /\ u <= (b + 1) * c - 1
    BY <1>2, <1>5
  <2> QED BY <1>3, <2>1, <2>2
<1>8. IsFiniteSet(UnitsIn(k, b)) /\ Cardinality(UnitsIn(k, b)) = c
  <2>1. IsFiniteSet((b * c)..((b + 1) * c - 1))
        /\ Cardinality((b * c)..((b + 1) * c - 1)) =
             IF b * c > (b + 1) * c - 1 THEN 0 ELSE ((b + 1) * c - 1) - b * c + 1
    BY <1>2, FS_Interval
  <2> QED BY <1>2, <1>5, <2>1
<1>9. Up(b * 2^k, k) = b
  BY <1>1, <1>4 DEF Up
<1> QED BY <1>1, <1>2, <1>6, <1>7, <1>8, <1>9

\* Whether a unit is in a block.
LEMMA UnitIs ==
  ASSUME NEW k \in Nat, NEW b \in Nat, NEW u
  PROVE  u \in UnitsIn(k, b) <=> u \in Nat /\ Up(u, k) = b
BY BlockUnits, ZenonT(40)

\* Going up from a unit: it passes block b, or the buddy of one b is in.
LEMMA Ladder ==
  ASSUME NEW u \in Nat, NEW b \in Nat, NEW k \in Nat, NEW t \in Nat, k <= t,
         Up(u, t) = Up(b, t - k)
  PROVE  Up(u, k) = b \/ \E m \in k..(t - 1) : Up(u, m) = Buddy(Up(b, m - k))
<1> DEFINE S == {m \in Nat : k <= m /\ m <= t /\ Up(u, m) = Up(b, m - k)}
<1>1. S # {} /\ S \in SUBSET Nat
  OBVIOUS
<1>2. PICK m \in S : \A n \in S : m <= n
  BY <1>1, LeastThereIs
<1>3. CASE m = k
  BY <1>3, UpIs
<1>4. CASE m # k
  <2>1. PICK i \in Nat : m = i + 1 /\ i >= k /\ i \in k..(t - 1) /\ i - k \in Nat
    <3>1. m - 1 \in Nat /\ m = (m - 1) + 1 /\ m - 1 >= k /\ m - 1 <= t - 1 /\ (m - 1) - k \in Nat
      BY <1>4
    <3> QED BY <3>1
  <2>2. Up(u, m) = Up(u, i) \div 2 /\ Up(b, m - k) = Up(b, i - k) \div 2 /\ Up(u, i) \in Nat /\ Up(b, i - k) \in Nat
    <3>1. Up(u, i) \in Nat /\ Up(u, i + 1) = Up(u, i) \div 2
      BY UpIs
    <3>2. Up(b, i - k) \in Nat /\ Up(b, (i + 1) - k) = Up(b, i - k) \div 2
      BY <2>1, UpNext
    <3> QED BY <2>1, <3>1, <3>2
  <2>3. Up(u, i) # Up(b, i - k)
    BY <1>2, <2>1
  <2>4. Up(u, i) = Buddy(Up(b, i - k))
    <3> DEFINE x == Up(u, i)
               w == Up(b, i - k)
    <3>1. x \in Nat /\ w \in Nat /\ x # w
      BY <2>2, <2>3
    <3>2. x \div 2 = w \div 2
      BY <1>2, <2>2
    <3> HIDE DEF x, w
    <3>3. x = Buddy(w)
      BY <3>1, <3>2, BuddyIs
    <3> QED BY <3>3 DEF x, w
  <2> QED BY <2>1, <2>4
<1> QED BY <1>3, <1>4

\* ... and what passes such a buddy is in the larger block but not in b.
LEMMA LadderBack ==
  ASSUME NEW u \in Nat, NEW b \in Nat, NEW k \in Nat, NEW t \in Nat, NEW m \in k..(t - 1),
         Up(u, m) = Buddy(Up(b, m - k))
  PROVE  Up(u, t) = Up(b, t - k) /\ Up(u, k) # b
<1>1. m \in Nat /\ m + 1 \in Nat /\ m + 1 <= t /\ k <= m /\ m - k \in Nat /\ (m + 1) - k = (m - k) + 1
      /\ (m + 1) - k \in Nat /\ t - k \in Nat
  OBVIOUS
<1>2. Up(u, m + 1) = Up(b, (m + 1) - k)
  <2>1. Up(u, m) \in Nat /\ Up(u, m + 1) = Up(u, m) \div 2
    BY <1>1, UpIs
  <2>2. Up(b, m - k) \in Nat /\ Up(b, (m + 1) - k) = Up(b, m - k) \div 2
    BY <1>1, UpNext
  <2>3. Buddy(Up(b, m - k)) \div 2 = Up(b, m - k) \div 2
    BY <2>2, BuddyIs
  <2> QED BY <2>1, <2>2, <2>3
<1>3. Up(u, t) = Up(Up(u, m + 1), t - (m + 1)) /\ Up(b, t - k) = Up(Up(b, (m + 1) - k), t - (m + 1))
  <2>1. Up(u, t) = Up(Up(u, m + 1), t - (m + 1))
    <3>1. t - (m + 1) \in Nat /\ (m + 1) + (t - (m + 1)) = t
      BY <1>1
    <3> QED BY <1>1, <3>1, UpUp
  <2>2. Up(b, t - k) = Up(Up(b, (m + 1) - k), t - (m + 1))
    <3>1. PICK i \in Nat : i = m + 1
      BY <1>1
    <3>2. k <= i /\ i <= t
      BY <1>1, <3>1
    <3>3. Up(Up(b, i - k), t - i) = Up(b, t - k)
      <4>1. i - k \in Nat /\ t - i \in Nat /\ (i - k) + (t - i) = t - k
        BY <3>2
      <4> QED BY <4>1, UpUp
    <3> QED BY <3>1, <3>3
  <2> QED BY <2>1, <2>2
<1>4. Up(u, k) # b
  <2> SUFFICES ASSUME Up(u, k) = b PROVE FALSE
    OBVIOUS
  <2>1. Up(Up(u, k), m - k) = Up(u, m)
    <3>1. k + (m - k) = m
      BY <1>1
    <3> QED BY <1>1, <3>1, UpUp
  <2>2. Up(b, m - k) \in Nat /\ Up(u, m) = Up(b, m - k)
    BY <1>1, <2>1, UpIs
  <2> QED BY <2>2, BuddyIs
<1> QED BY <1>2, <1>3, <1>4

-----------------------------------------------------------------------------
(* Sets of blocks, one for each order below n.                             *)

Covers(F, n, u) == \E k \in 0..(n - 1) : Up(u, k) \in F[k]

\* No block is part of another one, and none of two is the buddy of the other.
Apart(F, n) ==
  \A k, j \in 0..(n - 1) : k < j => \A b \in F[k] : Up(b, j - k) \notin F[j]
Merged(F, n) == \A k \in 0..(n - 2) : \A b \in F[k] : Buddy(b) \notin F[k]
Forest(F, n) == F \in [0..(n - 1) -> SUBSET Nat] /\ Apart(F, n) /\ Merged(F, n)

\* What happens to these sets when block b of order k is taken out of the one
\* at order from that it is part of, and when it is put back and merged up to
\* order top.
Without(F, n, k, b, from) ==
  [j \in 0..(n - 1) |->
     CASE j \in k..(from - 1) -> F[j] \cup {Buddy(Up(b, j - k))}
       [] j = from            -> F[j] \ {Up(b, j - k)}
       [] OTHER               -> F[j]]
With(F, n, k, b, top) ==
  [j \in 0..(n - 1) |->
     CASE j \in k..(top - 1) -> F[j] \ {Buddy(Up(b, j - k))}
       [] j = top            -> F[j] \cup {Up(b, j - k)}
       [] OTHER              -> F[j]]

\* A unit is in one block only.
LEMMA OneCover ==
  ASSUME NEW n \in Nat, NEW F, Forest(F, n), NEW u \in Nat,
         NEW i \in 0..(n - 1), NEW j \in 0..(n - 1), Up(u, i) \in F[i], Up(u, j) \in F[j]
  PROVE  i = j
<1>1. ASSUME NEW x \in 0..(n - 1), NEW y \in 0..(n - 1), x < y, Up(u, x) \in F[x], Up(u, y) \in F[y]
      PROVE  FALSE
  <2>1. x \in Nat /\ y - x \in Nat /\ x + (y - x) = y
    BY <1>1
  <2>2. Up(Up(u, x), y - x) = Up(u, y)
    BY <2>1, UpUp
  <2> QED BY <1>1, <2>2 DEF Forest, Apart
<1>2. ~(i < j) /\ ~(j < i)
  BY <1>1
<1> QED BY <1>2

\* A block that is part of one in the sets: where it goes up to, and that the
\* blocks beside its way up are not there.
LEMMA WayUp ==
  ASSUME NEW n \in Nat, NEW F, Forest(F, n), NEW b \in Nat,
         NEW from \in 0..(n - 1), NEW k \in 0..from, Up(b, from - k) \in F[from],
         NEW j \in k..(from - 1)
  PROVE  /\ Up(b, j - k) \in Nat /\ Up(b, j - k) \notin F[j]
         /\ Buddy(Up(b, j - k)) \in Nat /\ Buddy(Up(b, j - k)) \notin F[j]
         /\ \A t \in (j + 1)..(n - 1) : /\ Up(Buddy(Up(b, j - k)), t - j) = Up(b, t - k)
                                        /\ Up(Up(b, j - k), t - j) = Up(b, t - k)
<1> DEFINE a == Up(b, j - k)
<1>1. j \in Nat /\ k \in Nat /\ from \in Nat /\ k <= j /\ j + 1 <= from /\ j \in 0..(n - 1) /\ j - k \in Nat
  OBVIOUS
<1>2. a \in Nat /\ Up(b, (j + 1) - k) = a \div 2
  BY <1>1, UpNext
<1>3. Buddy(a) \in Nat /\ Buddy(a) \div 2 = a \div 2
  BY <1>2, BuddyIs
<1> HIDE DEF a
<1>4. ASSUME NEW c \in Nat, c \div 2 = a \div 2, NEW t \in (j + 1)..(n - 1)
      PROVE  Up(c, t - j) = Up(b, t - k)
  <2>1. t \in Nat /\ t - (j + 1) \in Nat /\ t - j = 1 + (t - (j + 1)) /\ k <= j + 1 /\ j + 1 <= t /\ j + 1 \in Nat
    BY <1>1
  <2>2. Up(c, 1) = c \div 2
    <3>1. Up(c, 0 + 1) = Up(c, 0) \div 2 /\ Up(c, 0) = c
      BY UpIs
    <3> QED BY <3>1
  <2>3. Up(c, t - j) = Up(Up(c, 1), t - (j + 1))
    BY <2>1, UpUp
  <2>4. Up(Up(b, (j + 1) - k), t - (j + 1)) = Up(b, t - k)
    <3>1. (j + 1) - k \in Nat /\ ((j + 1) - k) + (t - (j + 1)) = t - k
      BY <1>1, <2>1
    <3> QED BY <2>1, <3>1, UpUp
  <2> QED BY <1>2, <1>4, <2>2, <2>3, <2>4
<1>5. ASSUME NEW c \in Nat, c \div 2 = a \div 2 PROVE c \notin F[j]
  <2>1. Up(c, from - j) = Up(b, from - k)
    BY <1>1, <1>4, <1>5
  <2>2. j < from /\ j \in 0..(n - 1)
    BY <1>1
  <2> QED BY <2>1, <2>2 DEF Forest, Apart
<1> QED BY <1>2, <1>3, <1>4, <1>5 DEF a

\* Taking a block out leaves sets of the same kind, which hold all other units.
LEMMA WithoutIs ==
  ASSUME NEW n \in Nat, NEW F, Forest(F, n), NEW b \in Nat,
         NEW from \in 0..(n - 1), NEW k \in 0..from, Up(b, from - k) \in F[from]
  PROVE  LET G == Without(F, n, k, b, from)
         IN  /\ Forest(G, n)
             /\ \A u \in Nat : Covers(G, n, u) <=> Covers(F, n, u) /\ Up(u, k) # b
<1> DEFINE G == Without(F, n, k, b, from)
           A(j) == Up(b, j - k)
<1>0. /\ from \in Nat /\ k \in Nat /\ k <= from
      /\ \A j \in k..(from - 1) : j \in 0..(n - 1) /\ j # from
      /\ \A j \in 0..(n - 1) : j \in Nat
  OBVIOUS
<1>1. /\ F \in [0..(n - 1) -> SUBSET Nat]
      /\ \A j \in 0..(n - 1) : \A c \in F[j] : c \in Nat
  BY DEF Forest
<1>2. \A j \in k..(from - 1) : G[j] = F[j] \cup {Buddy(A(j))}
  BY <1>0 DEF Without
<1>3. G[from] = F[from] \ {A(from)}
  BY <1>0 DEF Without
<1>4. \A j \in 0..(n - 1) : j \notin k..(from - 1) /\ j # from => G[j] = F[j]
  BY DEF Without
<1>5. \A j \in k..(from - 1) :
        /\ A(j) \in Nat /\ A(j) \notin F[j] /\ Buddy(A(j)) \in Nat /\ Buddy(A(j)) \notin F[j]
        /\ A(j) # Buddy(A(j)) /\ Buddy(Buddy(A(j))) = A(j)
        /\ \A t \in (j + 1)..(n - 1) : Up(Buddy(A(j)), t - j) = A(t)
  <2> SUFFICES ASSUME NEW j \in k..(from - 1)
               PROVE  /\ A(j) \in Nat /\ A(j) \notin F[j] /\ Buddy(A(j)) \in Nat /\ Buddy(A(j)) \notin F[j]
                      /\ A(j) # Buddy(A(j)) /\ Buddy(Buddy(A(j))) = A(j)
                      /\ \A t \in (j + 1)..(n - 1) : Up(Buddy(A(j)), t - j) = A(t)
    OBVIOUS
  <2>1. /\ A(j) \in Nat /\ A(j) \notin F[j] /\ Buddy(A(j)) \in Nat /\ Buddy(A(j)) \notin F[j]
        /\ \A t \in (j + 1)..(n - 1) : Up(Buddy(A(j)), t - j) = A(t)
    BY WayUp
  <2> QED BY <2>1, BuddyIs
<1>6. A(from) \in F[from] /\ A(from) \in Nat
  BY <1>0, <1>1
<1> HIDE DEF G, A
<1>7. \A j \in 0..(n - 1) : \A c \in G[j] :
        \/ c \in F[j] /\ (j = from => c # A(from))
        \/ j \in k..(from - 1) /\ c = Buddy(A(j))
  BY <1>2, <1>3, <1>4
<1>8. \A j \in 0..(n - 1) : G[j] \subseteq Nat
  BY <1>1, <1>5, <1>7
<1>9. G \in [0..(n - 1) -> SUBSET Nat]
  <2>1. G = [j \in 0..(n - 1) |-> G[j]]
    BY DEF G, Without
  <2> QED BY <1>8, <2>1
<1>10. Apart(G, n)
  <2> SUFFICES ASSUME NEW i \in 0..(n - 1), NEW j \in 0..(n - 1), i < j, NEW c \in G[i], Up(c, j - i) \in G[j]
               PROVE  FALSE
    BY DEF Apart
  <2>0. i \in Nat /\ j \in Nat /\ j - i \in Nat /\ c \in Nat
    BY <1>8
  <2>1. CASE c \in F[i] /\ (i = from => c # A(from))
    <3>1. Up(c, j - i) \notin F[j]
      BY <2>1 DEF Forest, Apart
    <3>2. j \in k..(from - 1) /\ Up(c, j - i) = Buddy(A(j))
      BY <1>7, <3>1
    <3>3. Up(Buddy(A(j)), from - j) = A(from)
      <4>1. from \in (j + 1)..(n - 1)
        BY <3>2
      <4> QED BY <1>5, <3>2, <4>1
    <3>4. Up(c, from - i) = A(from)
      <4>1. i <= j /\ j <= from
        BY <3>2
      <4>2. from - j \in Nat /\ (j - i) + (from - j) = from - i
        BY <2>0, <3>2
      <4>3. Up(Up(c, j - i), from - j) = Up(c, from - i)
        BY <2>0, <4>2, UpUp
      <4> QED BY <3>2, <3>3, <4>3
    <3>5. i < from
      BY <3>2
    <3> QED BY <1>6, <2>1, <3>4, <3>5 DEF Forest, Apart
  <2>2. CASE i \in k..(from - 1) /\ c = Buddy(A(i))
    <3>1. Up(c, j - i) = A(j)
      <4>1. j \in (i + 1)..(n - 1)
        BY <2>0
      <4> QED BY <1>5, <2>2, <4>1
    <3>2. CASE j < from
      <4>1. j \in k..(from - 1)
        BY <2>2, <3>2
      <4> QED BY <1>2, <1>5, <3>1, <4>1
    <3>3. CASE j = from
      BY <1>3, <3>1, <3>3
    <3>4. CASE j > from
      <4>1. A(j) \in F[j]
        BY <1>7, <3>1, <3>4
      <4>2. Up(A(from), j - from) = A(j)
        <5>1. from - k \in Nat /\ j - from \in Nat /\ (from - k) + (j - from) = j - k
          BY <1>0, <2>0, <3>4
        <5> QED BY <5>1, UpUp DEF A
      <4> QED BY <1>6, <3>4, <4>1, <4>2 DEF Forest, Apart
    <3> QED BY <1>0, <2>0, <3>2, <3>3, <3>4
  <2> QED BY <1>7, <2>1, <2>2
<1>11. Merged(G, n)
  <2> SUFFICES ASSUME NEW i \in 0..(n - 2), NEW c \in G[i], Buddy(c) \in G[i] PROVE FALSE
    BY DEF Merged
  <2>0. i \in 0..(n - 1) /\ c \in Nat /\ Buddy(Buddy(c)) = c /\ Buddy(c) \in Nat
    <3>1. i \in 0..(n - 1)
      OBVIOUS
    <3>2. c \in Nat
      BY <1>8, <3>1
    <3> QED BY <3>1, <3>2, BuddyIs
  <2>1. ASSUME i \in k..(from - 1), A(i) \in G[i] PROVE FALSE
    BY <1>2, <1>5, <2>1
  <2>2. CASE c \in F[i] /\ Buddy(c) \in F[i]
    BY <2>2 DEF Forest, Merged
  <2>3. CASE i \in k..(from - 1) /\ c = Buddy(A(i))
    BY <1>5, <2>1, <2>3
  <2>4. CASE i \in k..(from - 1) /\ Buddy(c) = Buddy(A(i))
    <3>1. c = A(i)
      BY <1>5, <2>0, <2>4
    <3> QED BY <2>1, <2>4, <3>1
  <2> QED BY <1>7, <2>0, <2>2, <2>3, <2>4
<1>12. ASSUME NEW u \in Nat, Covers(F, n, u), Up(u, k) # b PROVE Covers(G, n, u)
  <2>1. PICK j \in 0..(n - 1) : Up(u, j) \in F[j]
    BY <1>12 DEF Covers
  <2>2. CASE j # from \/ Up(u, j) # A(from)
    <3>1. Up(u, j) \in G[j]
      BY <1>2, <1>3, <1>4, <2>1, <2>2
    <3> QED BY <3>1 DEF Covers
  <2>3. CASE j = from /\ Up(u, j) = A(from)
    <3>1. PICK m \in k..(from - 1) : Up(u, m) = Buddy(A(m))
      BY <1>0, <1>12, <2>3, Ladder DEF A
    <3>2. Up(u, m) \in G[m] /\ m \in 0..(n - 1)
      BY <1>0, <1>2, <3>1
    <3> QED BY <3>2 DEF Covers
  <2> QED BY <2>2, <2>3
<1>13. ASSUME NEW u \in Nat, Covers(G, n, u) PROVE Covers(F, n, u) /\ Up(u, k) # b
  <2>1. PICK j \in 0..(n - 1) : Up(u, j) \in G[j]
    BY <1>13 DEF Covers
  <2>2. CASE Up(u, j) \in F[j] /\ (j = from => Up(u, j) # A(from))
    <3>1. ASSUME Up(u, k) = b PROVE FALSE
      <4>1. k + (from - k) = from /\ from - k \in Nat
        BY <1>0
      <4>2. Up(u, from) = A(from)
        BY <1>0, <3>1, <4>1, UpUp DEF A
      <4>3. j = from
        BY <1>6, <2>2, <4>2, OneCover
      <4> QED BY <2>2, <4>2, <4>3
    <3> QED BY <2>2, <3>1 DEF Covers
  <2>3. CASE j \in k..(from - 1) /\ Up(u, j) = Buddy(A(j))
    <3>1. Up(u, from) = A(from) /\ Up(u, k) # b
      BY <1>0, <2>3, LadderBack, SMTT(30) DEF A
    <3> QED BY <1>6, <3>1 DEF Covers
  <2> QED BY <1>7, <2>1, <2>2, <2>3
<1> QED BY <1>9, <1>10, <1>11, <1>12, <1>13 DEF G, Forest

\* Putting a block back of which nothing is there: the sets hold its units too.
MergesTo(F, n, k, b, top) ==
  /\ \A j \in k..(top - 1) : Buddy(Up(b, j - k)) \in F[j]
  /\ top < n - 1 => Buddy(Up(b, top - k)) \notin F[top]
NothingOf(F, n, k, b) == \A u \in Nat : Up(u, k) = b => ~Covers(F, n, u)

\* A block put back merges with every buddy that is there: the sets are a forest
\* again and hold what they held and the units of the block.
LEMMA WithIs ==
  ASSUME NEW n \in Nat, NEW F, Forest(F, n), NEW b \in Nat,
         NEW top \in 0..(n - 1), NEW k \in 0..top,
         MergesTo(F, n, k, b, top), NothingOf(F, n, k, b)
  PROVE  LET G == With(F, n, k, b, top)
         IN  /\ Forest(G, n)
             /\ \A u \in Nat : Covers(G, n, u) <=> Covers(F, n, u) \/ Up(u, k) = b
<1> DEFINE G == With(F, n, k, b, top)
           A(j) == Up(b, j - k)
<1>0. /\ top \in Nat /\ k \in Nat /\ k <= top
      /\ \A j \in k..(top - 1) : j \in 0..(n - 1) /\ j # top
      /\ \A j \in 0..(n - 1) : j \in Nat
  OBVIOUS
<1>1. /\ F \in [0..(n - 1) -> SUBSET Nat]
      /\ \A j \in 0..(n - 1) : \A c \in F[j] : c \in Nat
  BY DEF Forest
<1>2. \A j \in k..(top - 1) : G[j] = F[j] \ {Buddy(A(j))}
  BY <1>0 DEF With
<1>3. G[top] = F[top] \cup {A(top)}
  BY <1>0 DEF With
<1>4. \A j \in 0..(n - 1) : j \notin k..(top - 1) /\ j # top => G[j] = F[j]
  BY DEF With
<1>5. A(top) \in Nat
  <2>1. top - k \in Nat
    BY <1>0
  <2> QED BY <2>1, UpIs
<1>6. /\ \A j \in k..(top - 1) : Buddy(A(j)) \in F[j]
      /\ top < n - 1 => Buddy(A(top)) \notin F[top]
  BY DEF MergesTo
<1>7. ASSUME NEW u \in Nat, Up(u, top) = A(top)
      PROVE  Up(u, k) = b \/ \E m \in k..(top - 1) : Up(u, m) = Buddy(A(m))
  BY <1>0, <1>7, Ladder
<1>8. ASSUME NEW u \in Nat, NEW j \in k..(top - 1), Up(u, j) = Buddy(A(j)) PROVE Up(u, top) = A(top)
  <2>1. k <= top /\ Up(u, j) = Buddy(Up(b, j - k))
    BY <1>0, <1>8
  <2>2. Up(u, top) = Up(b, top - k)
    <3>1. k \in Nat /\ top \in Nat /\ j \in k..(top - 1)
      BY <1>0
    <3> QED BY <2>1, <3>1, LadderBack
  <2> QED BY <2>2
<1>9. \A j \in (top + 1)..(n - 1) : Up(A(top), j - top) = A(j)
  <2> SUFFICES ASSUME NEW j \in (top + 1)..(n - 1) PROVE Up(A(top), j - top) = A(j)
    OBVIOUS
  <2>1. PICK x \in Nat, y \in Nat : top - k = x /\ j - top = y /\ j - k = x + y
    <3>1. top - k \in Nat /\ j - top \in Nat /\ j - k = (top - k) + (j - top)
      BY <1>0
    <3> QED BY <3>1
  <2>2. Up(Up(b, x), y) = Up(b, x + y)
    BY UpUp
  <2> QED BY <2>1, <2>2
<1>10. \A j \in k..(n - 1) : A(j) \notin F[j]
  <2> SUFFICES ASSUME NEW j \in k..(n - 1), A(j) \in F[j] PROVE FALSE
    OBVIOUS
  <2>1. b * 2^k \in Nat /\ Up(b * 2^k, k) = b
    BY <1>0, BlockUnits
  <2>2. k + (j - k) = j /\ j - k \in Nat /\ j \in 0..(n - 1)
    BY <1>0
  <2>3. Up(b * 2^k, j) = A(j)
    <3>1. PICK u \in Nat : u = b * 2^k
      BY <2>1
    <3>2. Up(Up(u, k), j - k) = Up(u, k + (j - k))
      BY <1>0, <2>2, UpUp
    <3> QED BY <2>1, <2>2, <3>1, <3>2
  <2> HIDE DEF A
  <2> QED BY <2>1, <2>2, <2>3 DEF Covers, NothingOf
<1> HIDE DEF G, A
<1>11. \A j \in 0..(n - 1) : \A c \in G[j] :
         \/ c \in F[j] /\ (j \in k..(top - 1) => c # Buddy(A(j)))
         \/ j = top /\ c = A(top)
  BY <1>0, <1>2, <1>3, <1>4
<1>12. \A j \in 0..(n - 1) : G[j] \subseteq Nat
  BY <1>1, <1>5, <1>11
<1>13. G \in [0..(n - 1) -> SUBSET Nat]
  <2>1. G = [j \in 0..(n - 1) |-> G[j]]
    BY DEF G, With
  <2> QED BY <1>12, <2>1
<1>14. Apart(G, n)
  <2> SUFFICES ASSUME NEW i \in 0..(n - 1), NEW j \in 0..(n - 1), i < j, NEW c \in G[i], Up(c, j - i) \in G[j]
               PROVE  FALSE
    BY DEF Apart
  <2>0. i \in Nat /\ j \in Nat /\ j - i \in Nat /\ c \in Nat
    BY <1>12
  <2>1. CASE c \in F[i] /\ (i \in k..(top - 1) => c # Buddy(A(i)))
    <3>1. Up(c, j - i) \notin F[j]
      BY <2>1 DEF Forest, Apart
    <3>2. j = top /\ Up(c, top - i) = A(top)
      BY <1>11, <3>1
    <3>3. PICK u \in Nat : Up(u, i) = c
      BY <2>0, BlockUnits
    <3>4. Up(u, top) = A(top)
      <4>1. top - i \in Nat /\ i + (top - i) = top
        BY <2>0, <3>2
      <4> QED BY <2>0, <3>2, <3>3, <4>1, UpUp
    <3>5. Covers(F, n, u)
      BY <2>1, <3>3 DEF Covers
    <3>6. PICK m \in k..(top - 1) : Up(u, m) = Buddy(A(m))
      BY <1>7, <3>4, <3>5 DEF NothingOf
    <3>7. i = m
      BY <1>0, <1>6, <2>1, <3>3, <3>6, OneCover
    <3> QED BY <2>1, <3>3, <3>6, <3>7
  <2>2. CASE i = top /\ c = A(top)
    <3>1. Up(c, j - i) = A(j) /\ j \in k..(n - 1) /\ j # top /\ j \notin k..(top - 1)
      BY <1>0, <1>9, <2>0, <2>2
    <3>2. A(j) \in F[j]
      BY <1>4, <3>1
    <3> QED BY <1>10, <3>1, <3>2
  <2> QED BY <1>11, <2>1, <2>2
<1>15. Merged(G, n)
  <2> SUFFICES ASSUME NEW i \in 0..(n - 2), NEW c \in G[i], Buddy(c) \in G[i] PROVE FALSE
    BY DEF Merged
  <2>0. i \in 0..(n - 1) /\ i < n - 1 /\ c \in Nat /\ Buddy(Buddy(c)) = c /\ Buddy(c) # c /\ Buddy(c) \in Nat
    <3>1. i \in 0..(n - 1) /\ i < n - 1
      OBVIOUS
    <3>2. c \in Nat
      BY <1>12, <3>1
    <3> QED BY <3>1, <3>2, BuddyIs
  <2>1. CASE c \in F[i] /\ Buddy(c) \in F[i]
    BY <2>1 DEF Forest, Merged
  <2>2. CASE i = top /\ c = A(top)
    BY <1>6, <1>11, <2>0, <2>2
  <2>3. CASE i = top /\ Buddy(c) = A(top)
    BY <1>6, <1>11, <2>0, <2>3
  <2> QED BY <1>11, <2>0, <2>1, <2>2, <2>3
<1>16. ASSUME NEW u \in Nat, Covers(F, n, u) PROVE Covers(G, n, u)
  <2>1. PICK j \in 0..(n - 1) : Up(u, j) \in F[j]
    BY <1>16 DEF Covers
  <2>2. CASE j \in k..(top - 1) /\ Up(u, j) = Buddy(A(j))
    BY <1>3, <1>8, <2>2 DEF Covers
  <2>3. CASE ~(j \in k..(top - 1) /\ Up(u, j) = Buddy(A(j)))
    <3>1. Up(u, j) \in G[j]
      BY <1>2, <1>3, <1>4, <2>1, <2>3
    <3> QED BY <3>1 DEF Covers
  <2> QED BY <2>2, <2>3
<1>17. ASSUME NEW u \in Nat, Up(u, k) = b PROVE Covers(G, n, u)
  <2>1. k + (top - k) = top /\ top - k \in Nat
    BY <1>0
  <2>2. Up(u, top) = A(top)
    BY <1>0, <1>17, <2>1, UpUp DEF A
  <2> QED BY <1>3, <2>2 DEF Covers
<1>18. ASSUME NEW u \in Nat, Covers(G, n, u), Up(u, k) # b PROVE Covers(F, n, u)
  <2>1. PICK j \in 0..(n - 1) : Up(u, j) \in G[j]
    BY <1>18 DEF Covers
  <2>2. CASE Up(u, j) \in F[j]
    BY <2>2 DEF Covers
  <2>3. CASE j = top /\ Up(u, j) = A(top)
    <3>1. PICK m \in k..(top - 1) : Up(u, m) = Buddy(A(m))
      BY <1>7, <1>18, <2>3
    <3> QED BY <1>0, <1>6, <3>1 DEF Covers
  <2> QED BY <1>11, <2>1, <2>2, <2>3
<1> QED BY <1>13, <1>14, <1>15, <1>16, <1>17, <1>18 DEF G, Forest

\* A block whose units are all there is there whole, or part of one that is.
LEMMA MergedWhole ==
  ASSUME NEW n \in Nat, NEW F, Forest(F, n), NEW k \in 0..(n - 1), NEW b \in Nat,
         \A u \in Nat : Up(u, k) = b => Covers(F, n, u)
  PROVE  \E j \in k..(n - 1) : Up(b, j - k) \in F[j]
<1> DEFINE There(i, c) == \E j \in i..(n - 1) : Up(c, j - i) \in F[j]
           Full(i, c) == \A u \in Nat : Up(u, i) = c => Covers(F, n, u)
           Odd == {i \in Nat : i <= n - 1 /\ \E c \in Nat : Full(i, c) /\ ~There(i, c)}
<1>0. k \in Nat /\ k <= n - 1 /\ Full(k, b)
  OBVIOUS
<1> SUFFICES ASSUME Odd # {} PROVE FALSE
  BY <1>0
<1>1. PICK i \in Odd : \A j \in Odd : i <= j
  BY LeastThereIs
<1>2. PICK c \in Nat : Full(i, c) /\ ~There(i, c)
  OBVIOUS
<1>3. CASE i = 0
  <2>1. Up(c, 0) = c
    BY UpIs
  <2>2. PICK j \in 0..(n - 1) : Up(c, j) \in F[j]
    BY <1>2, <1>3, <2>1 DEF Covers
  <2>3. j - 0 = j
    OBVIOUS
  <2> QED BY <1>2, <1>3, <2>2, <2>3
<1>4. CASE i # 0
  <2>1. PICK h \in Nat : i = h + 1 /\ h < n - 1 /\ h \in 0..(n - 2) /\ h \in 0..(n - 1)
    <3>1. i - 1 \in Nat /\ i = (i - 1) + 1 /\ i - 1 < n - 1 /\ i - 1 \in 0..(n - 2) /\ i - 1 \in 0..(n - 1)
      BY <1>4
    <3> QED BY <3>1
  <2>2. h \notin Odd
    BY <1>1, <2>1
  <2>3. ASSUME NEW d \in Nat, d \div 2 = c PROVE d \in F[h]
    <3>1. Full(h, d)
      <4> SUFFICES ASSUME NEW u \in Nat, Up(u, h) = d PROVE Covers(F, n, u)
        OBVIOUS
      <4>1. Up(u, i) = c
        BY <2>1, <2>3, UpIs
      <4> QED BY <1>2, <4>1
    <3>2. There(h, d)
      BY <2>1, <2>2, <3>1
    <3>3. PICK j \in h..(n - 1) : Up(d, j - h) \in F[j]
      BY <3>2
    <3>4. CASE j = h
      <4>1. j - h = 0 /\ Up(d, 0) = d
        BY <2>1, <3>4, UpIs
      <4> QED BY <3>3, <3>4, <4>1
    <3>5. CASE j # h
      <4>1. j \in i..(n - 1) /\ j - i \in Nat /\ j - h = 1 + (j - i)
        BY <2>1, <3>5
      <4>2. Up(d, 1) = c
        <5>1. Up(d, 0 + 1) = Up(d, 0) \div 2 /\ Up(d, 0) = d
          BY UpIs
        <5> QED BY <2>3, <5>1
      <4>3. Up(Up(d, 1), j - i) = Up(d, 1 + (j - i))
        BY <4>1, UpUp
      <4>4. Up(c, j - i) \in F[j]
        BY <3>3, <4>1, <4>2, <4>3
      <4> QED BY <1>2, <4>1, <4>4
    <3> QED BY <3>4, <3>5
  <2>4. 2 * c \in Nat /\ (2 * c) \div 2 = c
    OBVIOUS
  <2>5. Buddy(2 * c) \in Nat /\ Buddy(2 * c) \div 2 = c
    BY <2>4, BuddyIs
  <2>6. 2 * c \in F[h] /\ Buddy(2 * c) \in F[h]
    BY <2>3, <2>4, <2>5
  <2> QED BY <2>1, <2>6 DEF Forest, Merged
<1> QED BY <1>3, <1>4

-----------------------------------------------------------------------------
(* Least and greatest members; how many bitmaps a map has.                 *)

\* A set of natural numbers has its least member.
LEMMA MinIs ==
  ASSUME NEW S \in SUBSET Nat, S # {}
  PROVE  Min(S) \in S /\ \A y \in S : Min(S) <= y
BY LeastThereIs DEF Min

\* A bounded set of natural numbers has its greatest member.
LEMMA MaxIs ==
  ASSUME NEW m \in Nat, NEW S \in SUBSET (0..m), S # {}
  PROVE  Max(S) \in S /\ \A y \in S : Max(S) >= y
<1> DEFINE T == {m - x : x \in S}
<1>1. T \in SUBSET Nat /\ T # {}
  <2>1. \A x \in S : x \in Nat /\ m - x \in Nat
    OBVIOUS
  <2> QED BY <2>1
<1>2. PICK t \in T : \A y \in T : t <= y
  BY <1>1, LeastThereIs
<1>3. PICK x \in S : t = m - x
  BY <1>2
<1>4. \A y \in S : x >= y
  <2> SUFFICES ASSUME NEW y \in S PROVE x >= y
    OBVIOUS
  <2>1. t <= m - y /\ x \in Nat /\ y \in Nat
    BY <1>2
  <2> QED BY <1>3, <2>1
<1>5. \E z \in S : \A y \in S : z >= y
  BY <1>4
<1> QED BY <1>5 DEF Max

\* A map has bitmaps enough for a block as large as the zone.
LEMMA NumOrdersIs ==
  ASSUME NEW n \in Nat
  PROVE  /\ NumOrders(n) \in Nat \ {0} /\ NumOrders(n) - 1 \in 0..n
         /\ 2^(NumOrders(n) - 1) >= n
<1> DEFINE S == {o \in 0..n : 2^o >= n}
<1>1. S \in SUBSET Nat
  OBVIOUS
<1>2. n \in S
  <2>1. 2^n > n /\ 2^n \in Nat
    BY PowerAbove, PowerStep
  <2> QED BY <2>1
<1>3. Min(S) \in S
  BY <1>1, <1>2, MinIs
<1>4. PICK o \in S : o = Min(S)
  BY <1>3
<1>5. NumOrders(n) = o + 1 /\ o \in 0..n /\ 2^o >= n
  BY <1>4 DEF NumOrders
<1>6. (o + 1) - 1 = o
  BY <1>5
<1> QED BY <1>5, <1>6

-----------------------------------------------------------------------------
(* Lists of notes.                                                         *)

NotedIn(s) == {s[i].bit : i \in DOMAIN s}
LeftIn(s)  == {s[i].bit : i \in {x \in DOMAIN s : s[x].free}}
\* No bit is left over twice.
LeftOnce(s) == \A x, y \in DOMAIN s : s[x].free /\ s[y].free /\ s[x].bit = s[y].bit => x = y
Notes(N) == [bit : 0..N, free : BOOLEAN]

\* What a list joined of two holds.
LEMMA ListsJoined ==
  ASSUME NEW S, NEW a \in Seq(S), NEW b \in Seq(S)
  PROVE  /\ a \o b \in Seq(S) /\ Len(a \o b) = Len(a) + Len(b)
         /\ \A i \in 1..(Len(a) + Len(b)) : (a \o b)[i] = IF i <= Len(a) THEN a[i] ELSE b[i - Len(a)]
OBVIOUS

\* A block of the bitmap is noted.
LEMMA NoteAppended ==
  ASSUME NEW N \in Nat, NEW s \in Seq(Notes(N)), LeftOnce(s), NEW b \in 0..N
  PROVE  LET t == Append(s, Note(b, FALSE))
         IN  t \in Seq(Notes(N)) /\ LeftOnce(t) /\ LeftIn(t) = LeftIn(s) /\ NotedIn(t) = NotedIn(s) \cup {b}
<1> DEFINE e == Note(b, FALSE)
           t == Append(s, e)
<1>1. e \in Notes(N) /\ e.bit = b /\ ~e.free
  BY DEF Note, Notes
<1> HIDE DEF e
<1>2. /\ t \in Seq(Notes(N)) /\ DOMAIN t = DOMAIN s \cup {Len(s) + 1} /\ t[Len(s) + 1] = e
      /\ \A i \in DOMAIN s : t[i] = s[i]
  BY <1>1
<1> HIDE DEF t
<1>3. LeftOnce(t)
  BY <1>1, <1>2 DEF LeftOnce
<1>4. NotedIn(t) = NotedIn(s) \cup {b}
  BY <1>1, <1>2 DEF NotedIn
<1>5. LeftIn(t) = LeftIn(s)
  BY <1>1, <1>2 DEF LeftIn
<1> QED BY <1>2, <1>3, <1>4, <1>5 DEF t, e

\* The other half of a split block is put at the head of the list.
Consed(t, s, N, b) ==
  /\ t \in Seq(Notes(N)) /\ LeftOnce(t)
  /\ LeftIn(t) = LeftIn(s) \cup {b} /\ NotedIn(t) = NotedIn(s) \cup {b}

\* The note at the head keeps the list one in which no bit is left over twice.
LEMMA NoteConsed ==
  ASSUME NEW N \in Nat, NEW s \in Seq(Notes(N)), LeftOnce(s), NEW b \in 0..N, b \notin LeftIn(s)
  PROVE  Consed(Cons(Note(b, TRUE), s), s, N, b)
<1> DEFINE e == Note(b, TRUE)
           t == Cons(e, s)
<1>1. e \in Notes(N) /\ e.bit = b /\ e.free
  BY DEF Note, Notes
<1> HIDE DEF e
<1>2. /\ t \in Seq(Notes(N)) /\ t[1] = e
      /\ 1 \in DOMAIN t /\ \A i \in DOMAIN s : t[i + 1] = s[i] /\ i + 1 \in DOMAIN t
      /\ \A i \in DOMAIN t : i = 1 \/ (i - 1 \in DOMAIN s /\ t[i] = s[i - 1] /\ i = (i - 1) + 1)
      /\ DOMAIN t \subseteq Nat /\ DOMAIN s \subseteq Nat
  BY <1>1 DEF Cons
<1> HIDE DEF t
<1>3. LeftOnce(t)
  <2> SUFFICES ASSUME NEW x \in DOMAIN t, NEW y \in DOMAIN t, t[x].free, t[y].free, t[x].bit = t[y].bit
               PROVE  x = y
    BY DEF LeftOnce
  <2>1. ASSUME NEW i \in DOMAIN s, s[i].free PROVE s[i].bit # b
    BY <2>1 DEF LeftIn
  <2>2. CASE x = 1 /\ y # 1
    <3>1. y - 1 \in DOMAIN s /\ t[y] = s[y - 1] /\ t[x].bit = b
      BY <1>1, <1>2, <2>2
    <3> QED BY <2>1, <3>1
  <2>3. CASE x # 1 /\ y = 1
    <3>1. x - 1 \in DOMAIN s /\ t[x] = s[x - 1] /\ t[y].bit = b
      BY <1>1, <1>2, <2>3
    <3> QED BY <2>1, <3>1
  <2>4. CASE x # 1 /\ y # 1
    <3>1. PICK v \in DOMAIN s : v = x - 1 /\ t[x] = s[v] /\ x = v + 1
      BY <1>2, <2>4
    <3>2. PICK w \in DOMAIN s : w = y - 1 /\ t[y] = s[w] /\ y = w + 1
      BY <1>2, <2>4
    <3>3. v = w
      BY <3>1, <3>2 DEF LeftOnce
    <3> QED BY <3>1, <3>2, <3>3
  <2> QED BY <2>2, <2>3, <2>4
<1>4. NotedIn(t) = NotedIn(s) \cup {b}
  <2>1. ASSUME NEW x \in NotedIn(t) PROVE x \in NotedIn(s) \cup {b}
    <3>1. PICK i \in DOMAIN t : x = t[i].bit
      BY DEF NotedIn
    <3>2. CASE i = 1
      BY <1>1, <1>2, <3>1, <3>2
    <3>3. CASE i # 1
      <4>1. PICK v \in DOMAIN s : t[i] = s[v]
        BY <1>2, <3>3
      <4> QED BY <3>1, <4>1 DEF NotedIn
    <3> QED BY <3>2, <3>3
  <2>2. ASSUME NEW x \in NotedIn(s) \cup {b} PROVE x \in NotedIn(t)
    BY <1>1, <1>2 DEF NotedIn
  <2> QED BY <2>1, <2>2
<1>5. LeftIn(t) = LeftIn(s) \cup {b}
  <2>1. ASSUME NEW x \in LeftIn(t) PROVE x \in LeftIn(s) \cup {b}
    BY <1>1, <1>2 DEF LeftIn
  <2>2. ASSUME NEW x \in LeftIn(s) \cup {b} PROVE x \in LeftIn(t)
    BY <1>1, <1>2 DEF LeftIn
  <2> QED BY <2>1, <2>2
<1> QED BY <1>2, <1>3, <1>4, <1>5 DEF t, e, Consed

\* A block left over by a split is taken off the list.
LEMMA NoteRemoved ==
  ASSUME NEW N \in Nat, NEW s \in Seq(Notes(N)), LeftOnce(s), NEW m \in DOMAIN s, s[m].free
  PROVE  LET t == RemoveAt(s, m)
         IN  /\ t \in Seq(Notes(N)) /\ LeftOnce(t) /\ LeftIn(t) = LeftIn(s) \ {s[m].bit}
             /\ NotedIn(t) \cup {s[m].bit} = NotedIn(s)
<1> DEFINE t == RemoveAt(s, m)
           At(i) == IF i < m THEN i ELSE i + 1
<1>1. m \in 1..Len(s) /\ Len(s) \in Nat /\ DOMAIN s = 1..Len(s)
  OBVIOUS
<1>2. t \in Seq(Notes(N)) /\ Len(t) = Len(s) - 1 /\ \A i \in 1..(Len(s) - 1) : t[i] = s[At(i)]
  <2> DEFINE h == SubSeq(s, 1, m - 1)
             g == SubSeq(s, m + 1, Len(s))
  <2>1. h \in Seq(Notes(N)) /\ Len(h) = m - 1 /\ \A i \in 1..(m - 1) : h[i] = s[i]
    BY <1>1
  <2>2. g \in Seq(Notes(N)) /\ Len(g) = Len(s) - m /\ \A i \in 1..(Len(s) - m) : g[i] = s[i + m]
    BY <1>1
  <2> HIDE DEF h, g
  <2>3. /\ h \o g \in Seq(Notes(N)) /\ Len(h \o g) = Len(s) - 1
        /\ \A i \in 1..(Len(s) - 1) : (h \o g)[i] = IF i <= m - 1 THEN h[i] ELSE g[i - (m - 1)]
    <3>1. h \o g \in Seq(Notes(N)) /\ Len(h \o g) = Len(h) + Len(g)
          /\ \A i \in 1..(Len(h) + Len(g)) : (h \o g)[i] = IF i <= Len(h) THEN h[i] ELSE g[i - Len(h)]
      BY <2>1, <2>2, ListsJoined
    <3>2. Len(h) = m - 1 /\ Len(h) + Len(g) = Len(s) - 1
      BY <1>1, <2>1, <2>2
    <3> QED BY <3>1, <3>2
  <2>4. ASSUME NEW i \in 1..(Len(s) - 1) PROVE (h \o g)[i] = s[At(i)]
    <3>1. CASE i <= m - 1
      BY <1>1, <2>1, <2>3, <3>1
    <3>2. CASE i > m - 1
      <4>1. i - (m - 1) \in 1..(Len(s) - m) /\ (i - (m - 1)) + m = i + 1
        BY <1>1, <3>2
      <4>2. (h \o g)[i] = g[i - (m - 1)]
        BY <1>1, <2>3, <3>2
      <4>3. (h \o g)[i] = s[i + 1]
        BY <2>2, <4>1, <4>2
      <4>4. At(i) = i + 1
        BY <1>1, <3>2
      <4> QED BY <4>3, <4>4
    <3>3. i <= m - 1 \/ i > m - 1
      BY <1>1
    <3> QED BY <3>1, <3>2, <3>3
  <2>5. t = h \o g
    BY DEF h, g, RemoveAt
  <2> HIDE DEF t
  <2> QED BY <2>3, <2>4, <2>5
<1> HIDE DEF t
<1>3. DOMAIN t = 1..(Len(s) - 1)
  BY <1>1, <1>2
<1>4. \A i \in DOMAIN t : At(i) \in DOMAIN s /\ At(i) # m /\ t[i] = s[At(i)]
  BY <1>1, <1>2, <1>3
<1>5. \A i \in DOMAIN s : i # m => \E j \in DOMAIN t : At(j) = i
  <2> SUFFICES ASSUME NEW i \in DOMAIN s, i # m PROVE \E j \in DOMAIN t : At(j) = i
    OBVIOUS
  <2>1. CASE i < m
    BY <1>1, <1>3, <2>1
  <2>2. CASE i > m
    <3>1. i - 1 \in DOMAIN t /\ At(i - 1) = i
      BY <1>1, <1>3, <2>2
    <3> QED BY <3>1
  <2> QED BY <1>1, <2>1, <2>2
<1>6. \A i, j \in DOMAIN t : At(i) = At(j) => i = j
  BY <1>1, <1>3
<1> HIDE DEF At
<1>7. LeftOnce(t)
  BY <1>4, <1>6 DEF LeftOnce
<1>8. LeftIn(t) = LeftIn(s) \ {s[m].bit}
  <2>1. ASSUME NEW x \in LeftIn(t) PROVE x \in LeftIn(s) \ {s[m].bit}
    BY <1>4 DEF LeftIn, LeftOnce
  <2>2. ASSUME NEW x \in LeftIn(s) \ {s[m].bit} PROVE x \in LeftIn(t)
    <3>1. PICK i \in DOMAIN s : s[i].free /\ x = s[i].bit
      BY DEF LeftIn
    <3>2. PICK j \in DOMAIN t : At(j) = i
      BY <1>5, <3>1, <2>2
    <3> QED BY <1>4, <3>1, <3>2 DEF LeftIn
  <2> QED BY <2>1, <2>2
<1>9. NotedIn(t) \cup {s[m].bit} = NotedIn(s)
  <2>1. ASSUME NEW x \in NotedIn(t) \cup {s[m].bit} PROVE x \in NotedIn(s)
    BY <1>4 DEF NotedIn
  <2>2. ASSUME NEW x \in NotedIn(s), x # s[m].bit PROVE x \in NotedIn(t)
    <3>1. PICK i \in DOMAIN s : x = s[i].bit
      BY DEF NotedIn
    <3>2. PICK j \in DOMAIN t : At(j) = i
      BY <1>5, <3>1, <2>2
    <3> QED BY <1>4, <3>1, <3>2 DEF NotedIn
  <2> QED BY <2>1, <2>2
<1> QED BY <1>2, <1>7, <1>8, <1>9 DEF t

-----------------------------------------------------------------------------
(* Zone maps whose bitmaps and counters agree.                             *)

ZoneType(n, N) ==
  [num : {n}, free : Nat, stamp : Nat, dirty : BOOLEAN,
   bits  : [0..(n - 1) -> SUBSET Nat],
   count : [0..(n - 1) -> Nat],
   last  : [0..(n - 1) -> 0..N],
   runs  : [0..(n - 1) -> Seq(Notes(N))],
   allocated : [0..(n - 1) -> Nat],
   freed : [0..(n - 1) -> Nat]]

Covered(F, n) == {u \in Nat : Covers(F, n, u)}
CountOK(F, c, n) == \A k \in 0..(n - 1) : IsFiniteSet(F[k]) /\ c[k] = Cardinality(F[k])

\* A map of N units in n orders.
ZoneOK(z, n, N) ==
  /\ z \in ZoneType(n, N)
  /\ Forest(z.bits, n)
  /\ Covered(z.bits, n) \subseteq 0..(N - 1)
  /\ z.free = Cardinality(Covered(z.bits, n))
  /\ CountOK(z.bits, z.count, n)

\* What the type of a map says of its fields.
LEMMA Shape ==
  ASSUME NEW n \in Nat, NEW N \in Nat, NEW z, ZoneOK(z, n, N)
  PROVE  /\ z \in ZoneType(n, N) /\ z.num = n /\ Orders(z) = 0..(n - 1)
         /\ z.stamp \in Nat /\ \A k \in 0..(n - 1) : k \in Nat /\ z.last[k] \in Nat
<1>1. z \in ZoneType(n, N)
  BY DEF ZoneOK
<1>2. z.num = n /\ z.stamp \in Nat /\ z.last \in [0..(n - 1) -> 0..N]
  BY <1>1 DEF ZoneType
<1>3. Orders(z) = 0..(n - 1)
  BY <1>2 DEF Orders
<1>4. ASSUME NEW k \in 0..(n - 1) PROVE k \in Nat /\ z.last[k] \in Nat
  BY <1>2
<1> QED BY <1>1, <1>2, <1>3, <1>4

NotesKept(y, z) == /\ y.stamp = z.stamp /\ y.runs = z.runs
                   /\ y.allocated = z.allocated /\ y.freed = z.freed

\* A zone's units bound the bits of its bitmaps.
LEMMA BitsBounded ==
  ASSUME NEW n \in Nat, NEW N \in Nat, NEW F, F \in [0..(n - 1) -> SUBSET Nat],
         Covered(F, n) \subseteq 0..(N - 1), NEW k \in 0..(n - 1), NEW b \in F[k]
  PROVE  b \in Nat /\ b * 2^k \in 0..(N - 1) /\ b < N /\ b + 1 \in 0..N
<1>1. PICK c \in Nat \ {0} : c = 2^k
  BY PowerStep
<1>2. b \in Nat /\ b * c \in Nat
  BY <1>1
<1>3. Up(b * c, k) = b
  BY <1>1, <1>2, BlockUnits
<1>4. b * c \in 0..(N - 1)
  BY <1>2, <1>3 DEF Covered, Covers
<1>5. b <= b * c
  <2>1. PICK d \in Nat : c = 1 + d
    <3>1. c - 1 \in Nat /\ c = 1 + (c - 1)
      OBVIOUS
    <3> QED BY <3>1
  <2>2. b * d \in Nat /\ b * c = b + b * d
    BY <1>2, <2>1
  <2> QED BY <1>2, <2>2
<1> QED BY <1>1, <1>2, <1>4, <1>5

\* What is in the order's set but for one block.
LEMMA OneLess ==
  ASSUME NEW S, IsFiniteSet(S), NEW x, NEW c, c = Cardinality(S)
  PROVE  /\ x \in S => /\ IsFiniteSet(S \ {x}) /\ c - 1 = Cardinality(S \ {x}) /\ c - 1 \in Nat
         /\ x \notin S => /\ IsFiniteSet(S \cup {x}) /\ c + 1 = Cardinality(S \cup {x}) /\ c + 1 \in Nat
<1>1. Cardinality(S) \in Nat
  BY FS_CardinalityType
<1>2. IsFiniteSet(S \ {x}) /\ (x \in S => Cardinality(S \ {x}) = Cardinality(S) - 1)
  BY FS_RemoveElement
<1>3. IsFiniteSet(S \cup {x}) /\ (x \notin S => Cardinality(S \cup {x}) = Cardinality(S) + 1)
  BY FS_AddElement
<1>4. IsFiniteSet(S \ {x}) => Cardinality(S \ {x}) \in Nat
  BY FS_CardinalityType
<1> QED BY <1>1, <1>2, <1>3, <1>4

\* Units of disjoint sets are counted one by one.
LEMMA CountBoth ==
  ASSUME NEW N \in Nat, NEW A, NEW B, A \subseteq 0..(N - 1), B \subseteq 0..(N - 1), A \cap B = {}
  PROVE  /\ IsFiniteSet(A) /\ IsFiniteSet(B) /\ Cardinality(A) \in Nat /\ Cardinality(B) \in Nat
         /\ Cardinality(A \cup B) = Cardinality(A) + Cardinality(B)
         /\ Cardinality(A) <= N
<1>1. IsFiniteSet(0..(N - 1)) /\ Cardinality(0..(N - 1)) = N
  <2>1. 0 \in Int /\ N - 1 \in Int
    OBVIOUS
  <2>2. IsFiniteSet(0..(N - 1)) /\ Cardinality(0..(N - 1)) = IF 0 > N - 1 THEN 0 ELSE (N - 1) - 0 + 1
    BY <2>1, FS_Interval
  <2> QED BY <2>2
<1>2. IsFiniteSet(A) /\ IsFiniteSet(B) /\ Cardinality(A) <= N
  BY <1>1, FS_Subset
<1>3. Cardinality(A) \in Nat /\ Cardinality(B) \in Nat
  BY <1>2, FS_CardinalityType
<1>4. Cardinality(A \cup B) = Cardinality(A) + Cardinality(B) - Cardinality(A \cap B)
  BY <1>2, FS_Union
<1>5. Cardinality(A \cap B) = 0
  BY FS_EmptySet
<1> QED BY <1>2, <1>3, <1>4, <1>5

\* The size of a set of units cut in two.
LEMMA CountParts ==
  ASSUME NEW N \in Nat, NEW A, NEW B, NEW C, C \subseteq 0..(N - 1), A \cup B = C, A \cap B = {}
  PROVE  Cardinality(A) \in Nat /\ Cardinality(B) \in Nat /\ Cardinality(C) = Cardinality(A) + Cardinality(B)
<1>1. A \subseteq 0..(N - 1) /\ B \subseteq 0..(N - 1)
  OBVIOUS
<1> QED BY <1>1, CountBoth, ZenonT(40)

\* Division keeps the order of what it divides.
LEMMA QuotientGrows ==
  ASSUME NEW c \in Nat \ {0}, NEW x \in Nat, NEW y \in Nat, x <= y
  PROVE  x \div c <= y \div c
<1>1. PICK p \in Nat : p = x \div c /\ p * c <= x /\ p * c \in Nat
  <2>1. x \div c \in Nat /\ (x \div c) * c <= x /\ (x \div c) * c \in Nat
    OBVIOUS
  <2> QED BY <2>1
<1>2. PICK q \in Nat : q = y \div c /\ y < q * c + c /\ q * c \in Nat
  <2>1. y \div c \in Nat /\ y < (y \div c) * c + c /\ (y \div c) * c \in Nat
    OBVIOUS
  <2> QED BY <2>1
<1>3. ASSUME q < p PROVE FALSE
  <2>1. PICK d \in Nat : p = (q + 1) + d
    <3>1. p - (q + 1) \in Nat /\ p = (q + 1) + (p - (q + 1))
      BY <1>3
    <3> QED BY <3>1
  <2>2. p * c = q * c + c + d * c /\ d * c \in Nat
    BY <2>1
  <2> QED BY <1>1, <1>2, <2>2
<1> QED BY <1>1, <1>2, <1>3

\* The blocks of a new map are those the odd numbers of blocks leave over.
LEMMA NewBits ==
  ASSUME NEW N \in Nat, NEW n \in Nat, n = NumOrders(N), NEW F, F = [k \in 0..(n - 1) |-> OddBit(N, k)]
  PROVE  Forest(F, n) /\ Covered(F, n) = 0..(N - 1)
<1>1. \A k \in Nat : Up(N, k) \in Nat /\ Up(N, k + 1) = Up(N, k) \div 2
  BY UpIs
<1>2. ASSUME NEW k \in 0..(n - 1), NEW b \in F[k]
      PROVE  b \in Nat /\ Up(N, k) = b + 1 /\ b \div 2 = Up(N, k + 1) /\ Buddy(b) # b
  <2>1. k \in Nat /\ Up(N, k) % 2 = 1 /\ b = Up(N, k) - 1
    BY <1>2 DEF OddBit, Up
  <2>2. Up(N, k) \in Nat /\ Up(N, k + 1) = Up(N, k) \div 2
    BY <1>1, <2>1
  <2>3. b \in Nat /\ Up(N, k) = b + 1 /\ b \div 2 = Up(N, k) \div 2
    BY <2>1, <2>2, SMTT(30)
  <2> QED BY <2>2, <2>3, BuddyIs
<1>3. \A k \in 0..(n - 1) : Up(N, k) % 2 = 1 => Up(N, k) - 1 \in F[k]
  BY DEF OddBit, Up
<1>4. F \in [0..(n - 1) -> SUBSET Nat]
  BY <1>2
<1>5. Apart(F, n)
  <2> SUFFICES ASSUME NEW k \in 0..(n - 1), NEW j \in 0..(n - 1), k < j, NEW b \in F[k], Up(b, j - k) \in F[j]
               PROVE  FALSE
    BY DEF Apart
  <2>1. b \in Nat /\ b \div 2 = Up(N, k + 1) /\ Up(N, j) = Up(b, j - k) + 1
    BY <1>2
  <2>2. PICK m \in Nat : j - k = 1 + m /\ (k + 1) + m = j
    <3>1. j - (k + 1) \in Nat /\ j - k = 1 + (j - (k + 1)) /\ (k + 1) + (j - (k + 1)) = j
      OBVIOUS
    <3> QED BY <3>1
  <2>3. Up(b, 1) = b \div 2
    <3>1. Up(b, 0 + 1) = Up(b, 0) \div 2 /\ Up(b, 0) = b
      BY <2>1, UpIs
    <3> QED BY <3>1
  <2>4. Up(b, 1 + m) = Up(Up(N, k + 1), m)
    <3>1. Up(Up(b, 1), m) = Up(b, 1 + m)
      BY <2>1, UpUp, ZenonT(40)
    <3> QED BY <2>1, <2>3, <3>1
  <2>5. Up(Up(N, k + 1), m) = Up(N, j)
    <3>1. k + 1 \in Nat
      OBVIOUS
    <3> QED BY <2>2, <3>1, UpUp
  <2>6. Up(N, j) \in Nat
    BY <1>1
  <2> QED BY <2>1, <2>2, <2>4, <2>5, <2>6
<1>6. Merged(F, n)
  <2> SUFFICES ASSUME NEW k \in 0..(n - 2), NEW b \in F[k], Buddy(b) \in F[k] PROVE FALSE
    BY DEF Merged
  <2>1. k \in 0..(n - 1)
    OBVIOUS
  <2>2. Up(N, k) = b + 1 /\ Up(N, k) = Buddy(b) + 1 /\ b \in Nat /\ Buddy(b) \in Nat /\ Buddy(b) # b
    BY <1>2, <2>1
  <2> QED BY <2>2
<1>7. ASSUME NEW u \in Nat, Covers(F, n, u) PROVE u < N
  <2>1. PICK k \in 0..(n - 1) : Up(u, k) \in F[k]
    BY <1>7 DEF Covers
  <2>2. Up(u, k) \in Nat /\ Up(u, k) < Up(N, k)
    BY <1>2, <2>1
  <2>3. PICK c \in Nat \ {0} : c = 2^k
    BY PowerStep
  <2>4. ASSUME NEW x \in Nat, N <= x PROVE N \div c <= x \div c
    BY <2>4, QuotientGrows
  <2>5. Up(u, k) = u \div c /\ Up(N, k) = N \div c
    BY <2>3 DEF Up
  <2>6. u \div c < N \div c /\ u \div c \in Nat /\ N \div c \in Nat
    BY <1>1, <2>2, <2>5
  <2> QED BY <2>4, <2>6
<1>8. ASSUME NEW u \in Nat, u < N PROVE Covers(F, n, u)
  <2>1. PICK t \in Nat : t = n - 1 /\ n = t + 1 /\ 2^t >= N /\ t \in 0..(n - 1)
    <3>1. n \in Nat \ {0} /\ 2^(n - 1) >= N
      BY NumOrdersIs
    <3>2. n - 1 \in Nat /\ n = (n - 1) + 1 /\ n - 1 \in 0..(n - 1)
      BY <3>1
    <3> QED BY <3>1, <3>2
  <2>2. Up(u, t) = 0 /\ Up(N, t) \in {0, 1}
    <3>1. PICK c \in Nat \ {0} : c = 2^t
      BY PowerStep
    <3>2. u < c /\ N <= c
      <4>1. c >= N
        BY <2>1, <3>1
      <4> QED BY <1>8, <4>1
    <3>3. u \div c = 0 /\ N \div c \in {0, 1}
      <4>1. u \div c = 0
        BY <3>2
      <4>2. CASE N = c
        <5>1. N \div c = 1
          BY <4>2
        <5> QED BY <4>1, <5>1
      <4>3. CASE N < c
        <5>1. N \div c = 0
          BY <4>3
        <5> QED BY <4>1, <5>1
      <4> QED BY <3>2, <4>2, <4>3
    <3> QED BY <3>1, <3>3 DEF Up
  <2> DEFINE S == {k \in Nat : k <= t /\ ~(Up(u, k) < Up(N, k))}
  <2>3. CASE S = {}
    <3>1. Up(u, t) < Up(N, t)
      BY <2>3
    <3>2. Up(N, t) = 1 /\ Up(N, t) % 2 = 1 /\ Up(N, t) - 1 = 0
      BY <2>2, <3>1
    <3> QED BY <1>3, <2>1, <2>2, <3>2 DEF Covers
  <2>4. CASE S # {}
    <3>1. PICK i \in S : \A x \in S : i <= x
      BY <2>4, LeastThereIs
    <3>2. i # 0
      BY <1>8, UpIs
    <3>3. PICK h \in Nat : i = h + 1 /\ h <= t /\ h \in 0..(n - 1)
      <4>1. i - 1 \in Nat /\ i = (i - 1) + 1 /\ i - 1 <= t /\ i - 1 \in 0..(n - 1)
        BY <2>1, <3>2
      <4> QED BY <4>1
    <3>4. Up(u, h) < Up(N, h) /\ ~(Up(u, h + 1) < Up(N, h + 1))
      BY <3>1, <3>3
    <3>5. Up(u, h) \in Nat /\ Up(u, h + 1) = Up(u, h) \div 2
      BY UpIs
    <3>6. Up(N, h) \in Nat /\ Up(N, h + 1) = Up(N, h) \div 2
      BY <1>1
    <3>7. ASSUME NEW x \in Nat, NEW y \in Nat, x < y, ~(x \div 2 < y \div 2) PROVE y % 2 = 1 /\ x = y - 1
      BY <3>7
    <3>8. Up(N, h) % 2 = 1 /\ Up(u, h) = Up(N, h) - 1
      BY <3>4, <3>5, <3>6, <3>7
    <3> QED BY <1>3, <3>3, <3>8 DEF Covers
  <2> QED BY <2>3, <2>4
<1> QED BY <1>4, <1>5, <1>6, <1>7, <1>8 DEF Forest, Covered

\* A new map is whole and free.
LEMMA NewZoneIs ==
  ASSUME NEW N \in Nat
  PROVE  LET z == NewZone(N)
             n == NumOrders(N)
         IN  /\ ZoneOK(z, n, N) /\ Covered(z.bits, n) = 0..(N - 1)
             /\ z.num = n /\ z.stamp = 0 /\ z.dirty = FALSE
             /\ \A k \in 0..(n - 1) : z.runs[k] = <<>> /\ z.allocated[k] = 0 /\ z.freed[k] = 0
<1> DEFINE z == NewZone(N)
           n == NumOrders(N)
           F == [k \in 0..(n - 1) |-> OddBit(N, k)]
           c == [k \in 0..(n - 1) |-> Cardinality(OddBit(N, k))]
<1>1. z = [num |-> n, free |-> N, stamp |-> 0, dirty |-> FALSE, bits |-> F, count |-> c,
           last |-> [k \in 0..(n - 1) |-> 0], runs |-> [k \in 0..(n - 1) |-> <<>>],
           allocated |-> [k \in 0..(n - 1) |-> 0], freed |-> [k \in 0..(n - 1) |-> 0]]
  BY DEF NewZone
<1>2. n \in Nat /\ F = [k \in 0..(n - 1) |-> OddBit(N, k)]
  BY NumOrdersIs
<1>3. Forest(F, n) /\ Covered(F, n) = 0..(N - 1)
  <2> HIDE DEF n, F
  <2>1. n = NumOrders(N)
    BY DEF n
  <2> QED BY <1>2, <2>1, NewBits
<1>4. CountOK(F, c, n) /\ c \in [0..(n - 1) -> Nat]
  <2>1. ASSUME NEW k \in 0..(n - 1)
        PROVE  IsFiniteSet(OddBit(N, k)) /\ Cardinality(OddBit(N, k)) \in Nat
    <3>1. IsFiniteSet(OddBit(N, k))
      BY FS_EmptySet, FS_Singleton DEF OddBit
    <3> QED BY <3>1, FS_CardinalityType
  <2> QED BY <2>1 DEF CountOK
<1>5. N = Cardinality(0..(N - 1))
  <2>1. 0 \in Int /\ N - 1 \in Int
    OBVIOUS
  <2>2. Cardinality(0..(N - 1)) = IF 0 > N - 1 THEN 0 ELSE (N - 1) - 0 + 1
    BY <2>1, FS_Interval
  <2> QED BY <2>2
<1>6. F \in [0..(n - 1) -> SUBSET Nat]
  BY <1>3 DEF Forest
<1> HIDE DEF z, n, F, c
<1>7. z \in ZoneType(n, N)
  <2>1. <<>> \in Seq(Notes(N))
    OBVIOUS
  <2> QED BY <1>1, <1>4, <1>6, <2>1 DEF ZoneType
<1>8. ZoneOK(z, n, N)
  BY <1>1, <1>3, <1>4, <1>5, <1>7 DEF ZoneOK
<1> QED BY <1>1, <1>3, <1>8 DEF z, n

\* A block is freed: its units are free too, and the counters say so.
LEMMA ReleaseIs ==
  ASSUME NEW n \in Nat, NEW N \in Nat, NEW z, ZoneOK(z, n, N), NEW k \in 0..(n - 1), NEW b \in Nat,
         UnitsIn(k, b) \subseteq 0..(N - 1), NothingOf(z.bits, n, k, b)
  PROVE  LET y == Release(z, k, b)
         IN  /\ ZoneOK(y, n, N) /\ Covered(y.bits, n) = Covered(z.bits, n) \cup UnitsIn(k, b)
             /\ y.dirty = TRUE /\ NotesKept(y, z)
<1> DEFINE S == {j \in k..(n - 1) : j = n - 1 \/ Buddy(Up(b, j - k)) \notin z.bits[j]}
           top == Min(S)
           A(j) == Up(b, j - k)
           G == With(z.bits, n, k, b, top)
           C == [j \in 0..(n - 1) |->
                   CASE j \in k..(top - 1) -> z.count[j] - 1
                     [] j = top            -> z.count[j] + 1
                     [] OTHER              -> z.count[j]]
           y == Release(z, k, b)
<1>0. z \in ZoneType(n, N) /\ z.num = n /\ Orders(z) = 0..(n - 1)
  BY DEF ZoneOK, ZoneType, Orders
<1>1. top \in S /\ \A j \in S : top <= j
  <2>1. n - 1 \in S /\ S \in SUBSET Nat
    OBVIOUS
  <2> HIDE DEF S
  <2> QED BY <2>1, MinIs
<1>2. top \in k..(n - 1) /\ top \in 0..(n - 1) /\ k \in 0..top
  BY <1>1
<1>3. MergesTo(z.bits, n, k, b, top)
  <2>1. ASSUME NEW j \in k..(top - 1) PROVE Buddy(A(j)) \in z.bits[j]
    <3>1. j \notin S /\ j \in k..(n - 1)
      <4>1. j < top /\ j \in k..(n - 1)
        BY <1>2
      <4> HIDE DEF S, top
      <4> QED BY <1>1, <1>2, <4>1
    <3> QED BY <3>1
  <2>2. top < n - 1 => Buddy(A(top)) \notin z.bits[top]
    BY <1>1
  <2> HIDE DEF top
  <2> QED BY <2>1, <2>2 DEF MergesTo
<1>4. y = [z EXCEPT !.bits = G, !.count = C, !.free = z.free + 2^k, !.dirty = TRUE]
  <2>1. Min({j \in k..(z.num - 1) : \/ j = z.num - 1
                                    \/ Buddy(Up(b, j - k)) \notin z.bits[j]}) = top
    BY <1>0
  <2> DEFINE R(o, t) ==
               [z EXCEPT
                 !.bits  = [j \in o |->
                              CASE j \in k..(t - 1) -> @[j] \ {Buddy(Up(b, j - k))}
                                [] j = t            -> @[j] \cup {Up(b, j - k)}
                                [] OTHER            -> @[j]],
                 !.count = [j \in o |->
                              CASE j \in k..(t - 1) -> @[j] - 1
                                [] j = t            -> @[j] + 1
                                [] OTHER            -> @[j]],
                 !.free = @ + 2^k, !.dirty = TRUE]
  <2>2. y = R(Orders(z), Min({j \in k..(z.num - 1) : \/ j = z.num - 1
                                                    \/ Buddy(Up(b, j - k)) \notin z.bits[j]}))
    BY DEF Release
  <2>3. R(0..(n - 1), top) = [z EXCEPT !.bits = G, !.count = C, !.free = z.free + 2^k, !.dirty = TRUE]
    <3> HIDE DEF top
    <3> QED BY DEF With
  <2> HIDE DEF top, G, C, y, R
  <2> QED BY <1>0, <2>1, <2>2, <2>3
<1> HIDE DEF S, top
<1>5. /\ Forest(G, n)
      /\ \A u \in Nat : Covers(G, n, u) <=> Covers(z.bits, n, u) \/ Up(u, k) = b
  BY <1>2, <1>3, WithIs DEF ZoneOK
<1>6. UnitsIn(k, b) = {u \in Nat : Up(u, k) = b} /\ Cardinality(UnitsIn(k, b)) = 2^k
  BY BlockUnits
<1>7. 2^k \in Nat
  BY PowerStep
<1>8. Covered(G, n) = Covered(z.bits, n) \cup UnitsIn(k, b)
  BY <1>5, <1>6 DEF Covered
<1>9. Covered(z.bits, n) \cap UnitsIn(k, b) = {}
  BY <1>6 DEF Covered, NothingOf
<1>10. Cardinality(Covered(G, n)) = z.free + 2^k
  BY <1>6, <1>8, <1>9, CountBoth DEF ZoneOK
<1>11. Covered(G, n) \subseteq 0..(N - 1)
  BY <1>8 DEF ZoneOK
<1>12. A(top) \notin z.bits[top]
  <2>1. b * 2^k \in Nat /\ Up(b * 2^k, k) = b
    BY BlockUnits
  <2>2. PICK u \in Nat, x \in Nat : u = b * 2^k /\ x = top - k /\ k + x = top
    <3>1. top - k \in Nat /\ k + (top - k) = top
      BY <1>2
    <3> QED BY <2>1, <3>1
  <2>3. Up(Up(u, k), x) = Up(u, k + x)
    BY UpUp
  <2>4. Up(u, top) = A(top)
    BY <2>1, <2>2, <2>3
  <2>5. ~Covers(z.bits, n, u)
    BY <2>1, <2>2 DEF NothingOf
  <2> QED BY <1>2, <2>4, <2>5 DEF Covers
<1>13. CountOK(G, C, n) /\ C \in [0..(n - 1) -> Nat]
  <2>1. ASSUME NEW j \in 0..(n - 1)
        PROVE  IsFiniteSet(G[j]) /\ C[j] = Cardinality(G[j]) /\ C[j] \in Nat
    <3>1. IsFiniteSet(z.bits[j]) /\ z.count[j] = Cardinality(z.bits[j]) /\ z.count[j] \in Nat
      BY <1>0 DEF ZoneOK, CountOK, ZoneType
    <3>2. CASE j \in k..(top - 1)
      <4>1. Buddy(A(j)) \in z.bits[j]
        BY <1>3, <3>2 DEF MergesTo
      <4>2. G[j] = z.bits[j] \ {Buddy(A(j))} /\ C[j] = z.count[j] - 1
        BY <3>2 DEF With
      <4> HIDE DEF G, C, A
      <4> QED BY <3>1, <4>1, <4>2, OneLess
    <3>3. CASE j = top
      <4>1. G[j] = z.bits[j] \cup {A(j)} /\ C[j] = z.count[j] + 1 /\ A(j) \notin z.bits[j]
        BY <1>2, <1>12, <3>3 DEF With
      <4> HIDE DEF G, C, A
      <4> QED BY <3>1, <4>1, OneLess
    <3>4. CASE j \notin k..(top - 1) /\ j # top
      <4>1. G[j] = z.bits[j] /\ C[j] = z.count[j]
        BY <3>4 DEF With
      <4> QED BY <3>1, <4>1
    <3> QED BY <3>2, <3>3, <3>4
  <2>2. C = [j \in 0..(n - 1) |-> C[j]]
    OBVIOUS
  <2> HIDE DEF G, C
  <2> QED BY <2>1, <2>2 DEF CountOK
<1>14. G \in [0..(n - 1) -> SUBSET Nat]
  BY <1>5 DEF Forest
<1> HIDE DEF G, C, A, y
<1>15. /\ y \in ZoneType(n, N) /\ y.bits = G /\ y.count = C /\ y.free = z.free + 2^k /\ y.dirty = TRUE
       /\ NotesKept(y, z)
  <2>1. z.free + 2^k \in Nat
    <3>1. z.free \in Nat
      BY <1>0 DEF ZoneType
    <3> QED BY <1>7, <3>1
  <2> QED BY <1>0, <1>4, <1>13, <1>14, <2>1 DEF ZoneType, NotesKept
<1>16. ZoneOK(y, n, N)
  BY <1>5, <1>10, <1>11, <1>13, <1>15 DEF ZoneOK
<1> QED BY <1>8, <1>15, <1>16 DEF y

PartOf(F, k, b, j) == Up(b, j - k) \in F[j]

\* A block that is part of a free one is allocated: its units are free no more.
LEMMA BorrowIs ==
  ASSUME NEW n \in Nat, NEW N \in Nat, NEW z, ZoneOK(z, n, N), NEW b \in Nat,
         NEW from \in 0..(n - 1), NEW k \in 0..from, PartOf(z.bits, k, b, from)
  PROVE  LET y == Borrow(z, k, b, from)
         IN  /\ ZoneOK(y, n, N) /\ Covered(y.bits, n) = Covered(z.bits, n) \ UnitsIn(k, b)
             /\ UnitsIn(k, b) \subseteq Covered(z.bits, n)
             /\ y.dirty = TRUE /\ NotesKept(y, z)
<1> DEFINE A(j) == Up(b, j - k)
           G == Without(z.bits, n, k, b, from)
           C == [j \in 0..(n - 1) |->
                   CASE j \in k..(from - 1) -> z.count[j] + 1
                     [] j = from            -> z.count[j] - 1
                     [] OTHER               -> z.count[j]]
           y == Borrow(z, k, b, from)
<1>0. z \in ZoneType(n, N) /\ z.num = n /\ Orders(z) = 0..(n - 1) /\ k \in Nat
  BY Shape
<1>1. y = [z EXCEPT !.bits = G, !.count = C, !.last[from] = A(from) + 1,
                    !.free = z.free - 2^k, !.dirty = TRUE]
  BY <1>0 DEF Borrow, Without
<1>2. /\ Forest(G, n)
      /\ \A u \in Nat : Covers(G, n, u) <=> Covers(z.bits, n, u) /\ Up(u, k) # b
  BY WithoutIs DEF ZoneOK, PartOf
<1>3. UnitsIn(k, b) = {u \in Nat : Up(u, k) = b} /\ Cardinality(UnitsIn(k, b)) = 2^k
  BY <1>0, BlockUnits
<1>4. 2^k \in Nat
  BY <1>0, PowerStep
<1>5. Covered(G, n) = Covered(z.bits, n) \ UnitsIn(k, b)
  BY <1>2, <1>3 DEF Covered
<1>6. UnitsIn(k, b) \subseteq Covered(z.bits, n)
  <2> SUFFICES ASSUME NEW u \in Nat, Up(u, k) = b PROVE Covers(z.bits, n, u)
    BY <1>3 DEF Covered
  <2>1. PICK x \in Nat : x = from - k /\ k + x = from
    <3>1. from - k \in Nat /\ k + (from - k) = from
      OBVIOUS
    <3> QED BY <3>1
  <2>2. Up(Up(u, k), x) = Up(u, k + x)
    BY <1>0, UpUp
  <2>3. Up(u, from) \in z.bits[from]
    BY <2>1, <2>2 DEF PartOf
  <2> QED BY <2>3 DEF Covers
<1>7. Covered(G, n) \subseteq 0..(N - 1)
  BY <1>5 DEF ZoneOK
<1>8. Cardinality(Covered(G, n)) = z.free - 2^k /\ z.free - 2^k \in Nat
  <2>1. Covered(G, n) \cup UnitsIn(k, b) = Covered(z.bits, n)
    BY <1>5, <1>6
  <2>2. Covered(G, n) \cap UnitsIn(k, b) = {}
    BY <1>5
  <2>3. Covered(z.bits, n) \subseteq 0..(N - 1) /\ z.free = Cardinality(Covered(z.bits, n))
    BY DEF ZoneOK
  <2>4. PICK U, V, W : U = UnitsIn(k, b) /\ V = Covered(G, n) /\ W = Covered(z.bits, n)
    OBVIOUS
  <2>5. Cardinality(V) \in Nat /\ Cardinality(W) = Cardinality(V) + Cardinality(U)
    BY <2>1, <2>2, <2>3, <2>4, CountParts, SMTT(30)
  <2>6. z.free = Cardinality(V) + 2^k
    BY <1>3, <2>3, <2>4, <2>5
  <2>7. z.free - 2^k = Cardinality(V)
    BY <1>4, <2>5, <2>6
  <2> QED BY <2>4, <2>5, <2>7
<1>9. CountOK(G, C, n) /\ C \in [0..(n - 1) -> Nat]
  <2>1. ASSUME NEW j \in 0..(n - 1)
        PROVE  IsFiniteSet(G[j]) /\ C[j] = Cardinality(G[j]) /\ C[j] \in Nat
    <3>1. IsFiniteSet(z.bits[j]) /\ z.count[j] = Cardinality(z.bits[j]) /\ z.count[j] \in Nat
      BY <1>0 DEF ZoneOK, CountOK, ZoneType
    <3>2. CASE j \in k..(from - 1)
      <4>1. Buddy(A(j)) \notin z.bits[j]
        BY <3>2, WayUp DEF ZoneOK, PartOf
      <4>2. G[j] = z.bits[j] \cup {Buddy(A(j))} /\ C[j] = z.count[j] + 1
        BY <3>2 DEF Without
      <4> HIDE DEF G, C, A
      <4> QED BY <3>1, <4>1, <4>2, OneLess
    <3>3. CASE j = from
      <4>1. G[j] = z.bits[j] \ {A(j)} /\ C[j] = z.count[j] - 1 /\ A(j) \in z.bits[j]
        BY <3>3 DEF Without, PartOf
      <4> HIDE DEF G, C, A
      <4> QED BY <3>1, <4>1, OneLess
    <3>4. CASE j \notin k..(from - 1) /\ j # from
      <4>1. G[j] = z.bits[j] /\ C[j] = z.count[j]
        BY <3>4 DEF Without
      <4> QED BY <3>1, <4>1
    <3> QED BY <3>2, <3>3, <3>4
  <2>2. C = [j \in 0..(n - 1) |-> C[j]]
    OBVIOUS
  <2> HIDE DEF G, C
  <2> QED BY <2>1, <2>2 DEF CountOK
<1>10. G \in [0..(n - 1) -> SUBSET Nat]
  BY <1>2 DEF Forest
<1>11. A(from) + 1 \in 0..N
  <2>1. z.bits \in [0..(n - 1) -> SUBSET Nat] /\ Covered(z.bits, n) \subseteq 0..(N - 1)
    BY DEF ZoneOK, Forest
  <2>2. A(from) \in z.bits[from]
    BY DEF PartOf
  <2> QED BY <2>1, <2>2, BitsBounded
<1> HIDE DEF G, C, A, y
<1>12. /\ y \in ZoneType(n, N) /\ y.bits = G /\ y.count = C /\ y.free = z.free - 2^k /\ y.dirty = TRUE
       /\ NotesKept(y, z)
  BY <1>0, <1>1, <1>8, <1>9, <1>10, <1>11 DEF ZoneType, NotesKept
<1>13. ZoneOK(y, n, N)
  BY <1>2, <1>7, <1>8, <1>9, <1>12 DEF ZoneOK
<1> QED BY <1>5, <1>6, <1>12, <1>13 DEF y

\* An update that is new to the map frees a block of which nothing is free, or
\* allocates one that is all free.
Changeable(F, n, k, b, state) ==
  IF state THEN UnitsIn(k, b) \cap Covered(F, n) = {} ELSE UnitsIn(k, b) \subseteq Covered(F, n)

\* What becomes of the zone and its units when block b of order k changes.
Changed(y, z, n, N, k, b, state) ==
  /\ ZoneOK(y, n, N) /\ y.dirty = TRUE /\ NotesKept(y, z)
  /\ Covered(y.bits, n) = IF state THEN Covered(z.bits, n) \cup UnitsIn(k, b)
                                   ELSE Covered(z.bits, n) \ UnitsIn(k, b)

\* An update that is new to the map leaves the map whole and changes just the units of
\* its block, both when the block merges with its buddies and when it splits a larger one.
LEMMA UpdateIs ==
  ASSUME NEW n \in Nat, NEW N \in Nat, NEW z, ZoneOK(z, n, N), NEW k \in 0..(n - 1), NEW b \in Nat,
         UnitsIn(k, b) \subseteq 0..(N - 1), NEW state \in BOOLEAN, NEW stamp \in Nat, stamp > z.stamp,
         Changeable(z.bits, n, k, b, state)
  PROVE  Changed(Update(z, k, b, state, stamp), z, n, N, k, b, state)
<1> DEFINE at == FreeOrders(z, k, b)
<1>0. z \in ZoneType(n, N) /\ z.num = n /\ k \in Nat /\ z.stamp \in Nat
  BY Shape
<1>1. at = {j \in k..(n - 1) : Up(b, j - k) \in z.bits[j]}
  BY <1>0 DEF FreeOrders
<1>2. UnitsIn(k, b) = {u \in Nat : Up(u, k) = b}
  BY <1>0, BlockUnits
<1>3. ~(stamp <= z.stamp)
  BY <1>0
<1>4. CASE state
  <2>1. NothingOf(z.bits, n, k, b)
    BY <1>2, <1>4 DEF Covered, NothingOf, Changeable
  <2>2. at = {}
    <3> SUFFICES ASSUME NEW j \in at PROVE FALSE
      OBVIOUS
    <3>1. b * 2^k \in Nat /\ Up(b * 2^k, k) = b
      BY <1>0, BlockUnits
    <3>2. j \in k..(n - 1) /\ Up(b, j - k) \in z.bits[j]
      BY <1>1
    <3>3. PICK u \in Nat, x \in Nat : u = b * 2^k /\ x = j - k /\ k + x = j
      <4>1. j - k \in Nat /\ k + (j - k) = j
        BY <3>2
      <4> QED BY <3>1, <4>1
    <3>4. Up(Up(u, k), x) = Up(u, k + x)
      BY UpUp
    <3>5. Up(u, j) \in z.bits[j] /\ j \in 0..(n - 1) /\ Up(u, k) = b
      BY <3>1, <3>2, <3>3, <3>4
    <3> QED BY <2>1, <3>5 DEF NothingOf, Covers
  <2> HIDE DEF at
  <2>3. Update(z, k, b, state, stamp) = Release(z, k, b)
    BY <1>3, <1>4, <2>2 DEF Update, at
  <2> DEFINE y == Release(z, k, b)
  <2>4. /\ ZoneOK(y, n, N) /\ Covered(y.bits, n) = Covered(z.bits, n) \cup UnitsIn(k, b)
        /\ y.dirty = TRUE /\ NotesKept(y, z)
    BY <2>1, ReleaseIs
  <2> HIDE DEF y
  <2>5. Update(z, k, b, state, stamp) = y
    BY <2>3 DEF y
  <2> QED BY <1>4, <2>4, <2>5 DEF Changed
<1>5. CASE ~state
  <2>1. PICK j \in k..(n - 1) : Up(b, j - k) \in z.bits[j]
    <3>1. \A u \in Nat : Up(u, k) = b => Covers(z.bits, n, u)
      BY <1>2, <1>5 DEF Covered, Changeable
    <3> QED BY <3>1, MergedWhole DEF ZoneOK
  <2>2. Min(at) \in at
    <3>1. at # {} /\ at \in SUBSET Nat
      BY <1>1, <2>1
    <3> HIDE DEF at
    <3> QED BY <3>1, MinIs
  <2>3. PICK from \in 0..(n - 1) : from = Min(at) /\ k \in 0..from /\ Up(b, from - k) \in z.bits[from]
    <3>1. Min(at) \in k..(n - 1) /\ Up(b, Min(at) - k) \in z.bits[Min(at)]
      BY <1>1, <2>2
    <3>2. Min(at) \in 0..(n - 1) /\ k \in 0..Min(at)
      BY <3>1
    <3> QED BY <3>1, <3>2
  <2>4. at # {}
    BY <1>1, <2>1
  <2> HIDE DEF at
  <2>8. PartOf(z.bits, k, b, from)
    BY <2>3 DEF PartOf
  <2>5. Update(z, k, b, state, stamp) = Borrow(z, k, b, from)
    BY <1>3, <1>5, <2>3, <2>4 DEF Update, at
  <2> DEFINE y == Borrow(z, k, b, from)
  <2>6. /\ ZoneOK(y, n, N) /\ Covered(y.bits, n) = Covered(z.bits, n) \ UnitsIn(k, b)
        /\ UnitsIn(k, b) \subseteq Covered(z.bits, n)
        /\ y.dirty = TRUE /\ NotesKept(y, z)
    <3>1. k \in 0..from
      BY <2>3
    <3> QED BY <2>8, <3>1, BorrowIs, Zenon
  <2> HIDE DEF y
  <2>7. Update(z, k, b, state, stamp) = y
    BY <2>5 DEF y
  <2> QED BY <1>5, <2>6, <2>7 DEF Changed
<1> QED BY <1>4, <1>5

-----------------------------------------------------------------------------
(* What a search can find.                                                 *)

\* The blocks found by searches to come: those of the bitmaps that are not
\* noted, and those left over by splits.
FoundIn(bits, s) == (bits \ NotedIn(s)) \cup LeftIn(s)
Found(z) == [k \in Orders(z) |-> FoundIn(z.bits[k], z.runs[k])]

\* A block left over by a split is part of a larger one of the bitmaps.
Split(F, n, k, b) == \E t \in (k + 1)..(n - 1) : PartOf(F, k, b, t)

\* The lists agree with each other, with the bitmaps and with the counters.
NotesOK(z, n) ==
  /\ Forest(Found(z), n)
  /\ \A k \in 0..(n - 1) : /\ IsFiniteSet(Found(z)[k]) /\ NumFree(z, k) = Cardinality(Found(z)[k])
                           /\ LeftOnce(z.runs[k])
                           /\ \A b \in LeftIn(z.runs[k]) : Split(z.bits, n, k, b)

\* The scan of a bitmap ends at a usable bit.
LEMMA ScanIs ==
  ASSUME NEW n \in Nat, NEW N \in Nat, NEW z, ZoneOK(z, n, N), NEW k \in 0..(n - 1), Usable(z, k) # {}
  PROVE  ScanFrom(z, k) \in Usable(z, k)
<1>0. /\ z \in ZoneType(n, N) /\ z.num = n /\ z.last[k] \in Nat /\ WordBits \in Nat \ {0} /\ k \in Nat
      /\ n - 1 - k \in Nat
  BY WordBitsOK, Shape
<1>1. Usable(z, k) \subseteq Nat
  BY <1>0 DEF Usable, ZoneType
<1>2. PICK m \in Nat : NInts(z, k) = m + 1
  <2>1. PICK c \in Nat \ {0} : c = NBits(z, k)
    BY <1>0, PowerStep DEF NBits
  <2>2. (c + WordBits - 1) \div WordBits \in Nat /\ (c + WordBits - 1) \div WordBits >= 1
    BY <1>0
  <2>3. NInts(z, k) - 1 \in Nat /\ NInts(z, k) = (NInts(z, k) - 1) + 1
    BY <2>1, <2>2 DEF NInts
  <2> QED BY <2>3
<1>3. ASSUME NEW b \in Nat PROVE ScanPosition(z, k, b) \in 0..m
  <2>1. b \div WordBits \in Int /\ z.last[k] \div WordBits \in Int
    BY <1>0
  <2>2. PICK x \in Int : x = b \div WordBits - z.last[k] \div WordBits
    BY <2>1
  <2>3. x % (m + 1) \in 0..m
    OBVIOUS
  <2> QED BY <1>2, <2>2, <2>3 DEF ScanPosition
<1> DEFINE S == {ScanPosition(z, k, b) : b \in Usable(z, k)}
           far == Max(S)
           T == {b \in Usable(z, k) : ScanPosition(z, k, b) = far}
<1>4. far \in S
  <2>1. S \in SUBSET (0..m) /\ S # {}
    BY <1>1, <1>3
  <2> HIDE DEF S
  <2> QED BY <2>1, MaxIs
<1>5. T # {} /\ T \in SUBSET Nat
  BY <1>1, <1>4
<1>6. Min(T) \in T
  <2> HIDE DEF T
  <2> QED BY <1>5, MinIs
<1>7. ScanFrom(z, k) = Min(T)
  BY DEF ScanFrom
<1> HIDE DEF far
<1> QED BY <1>6, <1>7

\* A block is taken where one is to be found: that one, and it alone, is found
\* no more.
TakenFrom(z, n, N, j, a, t) ==
  /\ a \in Found(z)[j]
  /\ TakeAt(z, j) = [z EXCEPT !.runs[j] = t, !.allocated[j] = @ + 1]
  /\ t \in Seq(Notes(N)) /\ LeftOnce(t) /\ LeftIn(t) \subseteq LeftIn(z.runs[j])
  /\ FoundIn(z.bits[j], t) = Found(z)[j] \ {a}

\* A run that is there to be found can be taken, from the list of left over halves
\* or, when that is empty, from the bitmap.
LEMMA TakenIs ==
  ASSUME NEW n \in Nat, NEW N \in Nat, NEW z, ZoneOK(z, n, N), NotesOK(z, n),
         NEW j \in 0..(n - 1), Found(z)[j] # {}
  PROVE  \E t : TakenFrom(z, n, N, j, BitAt(z, j), t)
<1> DEFINE s == z.runs[j]
           a == BitAt(z, j)
<1>0. /\ z \in ZoneType(n, N) /\ z.num = n /\ Orders(z) = 0..(n - 1)
      /\ s \in Seq(Notes(N)) /\ LeftOnce(s)
      /\ Found(z)[j] = (z.bits[j] \ NotedIn(s)) \cup LeftIn(s)
      /\ z.bits[j] \subseteq Nat
  BY DEF ZoneOK, ZoneType, Orders, NotesOK, Found, FoundIn
<1>1. LeftIn(s) = {s[i].bit : i \in LeftOver(z, j)} /\ LeftOver(z, j) \subseteq DOMAIN s
      /\ \A i \in LeftOver(z, j) : s[i].free
  BY DEF LeftIn, LeftOver
<1>2. NotedIn(s) = Noted(z, j)
  BY DEF NotedIn, Noted
<1>3. CASE LeftOver(z, j) # {}
  <2>1. PICK m \in DOMAIN s : m = Min(LeftOver(z, j)) /\ m \in LeftOver(z, j)
    <3>1. LeftOver(z, j) \in SUBSET Nat
      BY <1>0, <1>1
    <3> QED BY <1>1, <1>3, <3>1, MinIs
  <2>2. a = s[m].bit /\ a \in LeftIn(s)
    BY <1>1, <1>3, <2>1 DEF BitAt
  <2> DEFINE t == RemoveAt(s, m)
  <2>3. TakeAt(z, j) = [z EXCEPT !.runs[j] = t, !.allocated[j] = @ + 1]
    BY <1>3, <2>1 DEF TakeAt
  <2>4. /\ t \in Seq(Notes(N)) /\ LeftOnce(t) /\ LeftIn(t) = LeftIn(s) \ {a}
        /\ NotedIn(t) \cup {a} = NotedIn(s)
    BY <1>0, <1>1, <2>1, <2>2, NoteRemoved, SMTT(30)
  <2>5. a \notin z.bits[j]
    <3>1. PICK x \in (j + 1)..(n - 1) : Up(a, x - j) \in z.bits[x]
      BY <2>2 DEF NotesOK, Split, PartOf
    <3> QED BY <3>1 DEF ZoneOK, Forest, Apart
  <2> HIDE DEF t, a, s
  <2>6. FoundIn(z.bits[j], t) = Found(z)[j] \ {a}
    BY <1>0, <2>4, <2>5 DEF FoundIn
  <2>7. TakenFrom(z, n, N, j, a, t)
    BY <1>0, <2>2, <2>3, <2>4, <2>6 DEF TakenFrom, s
  <2> QED BY <2>7 DEF a
<1>4. CASE LeftOver(z, j) = {}
  <2>1. LeftIn(s) = {} /\ Usable(z, j) = Found(z)[j] /\ Usable(z, j) \subseteq z.bits[j]
    BY <1>0, <1>1, <1>2, <1>4 DEF Usable
  <2>2. a = ScanFrom(z, j) /\ a \in Usable(z, j)
    BY <1>4, <2>1, ScanIs DEF BitAt
  <2> DEFINE t == Append(s, Note(a, FALSE))
  <2>3. TakeAt(z, j) = [z EXCEPT !.runs[j] = t, !.allocated[j] = @ + 1]
    BY <1>4, <2>2 DEF TakeAt
  <2>4. a \in 0..N
    <3>1. a \in z.bits[j] /\ z.bits \in [0..(n - 1) -> SUBSET Nat] /\ Covered(z.bits, n) \subseteq 0..(N - 1)
      BY <2>1, <2>2 DEF ZoneOK, Forest
    <3>2. a \in Nat /\ a < N
      BY <3>1, BitsBounded
    <3> QED BY <3>2
  <2> HIDE DEF a
  <2>5. t \in Seq(Notes(N)) /\ LeftOnce(t) /\ LeftIn(t) = LeftIn(s) /\ NotedIn(t) = NotedIn(s) \cup {a}
    BY <1>0, <2>4, NoteAppended
  <2> HIDE DEF t, s
  <2>6. FoundIn(z.bits[j], t) = Found(z)[j] \ {a}
    BY <1>0, <2>1, <2>5 DEF FoundIn
  <2>7. TakenFrom(z, n, N, j, a, t)
    BY <1>0, <2>1, <2>2, <2>3, <2>5, <2>6 DEF TakenFrom, s
  <2> QED BY <2>7 DEF a
<1> QED BY <1>3, <1>4

\* The zone y, whose changes are cleared, beside the one it comes from.
Cleared(y, z, s, n, N) == /\ ZoneOK(y, n, N) /\ NotesOK(y, n) /\ Found(y) = z.bits
                          /\ y.bits = z.bits /\ y.stamp = s

\* Nothing is noted once the changes are cleared: all that is free is found.
LEMMA ClearedIs ==
  ASSUME NEW n \in Nat, NEW N \in Nat, NEW z, NEW s \in Nat, NEW d \in BOOLEAN, ZoneOK(z, n, N)
  PROVE  /\ Cleared(ClearChanges([z EXCEPT !.stamp = s]), z, s, n, N)
         /\ Cleared([ClearChanges(z) EXCEPT !.dirty = d], z, z.stamp, n, N)
<1>1. z \in ZoneType(n, N) /\ z.num = n /\ Orders(z) = 0..(n - 1) /\ z.bits \in [0..(n - 1) -> SUBSET Nat]
      /\ CountOK(z.bits, z.count, n) /\ z.count \in [0..(n - 1) -> Nat]
  BY DEF ZoneOK, ZoneType, Orders
<1>2. ASSUME NEW x, x.num = n, x.bits = z.bits, x.count = z.count, x.runs = [k \in 0..(n - 1) |-> <<>>],
             x.allocated = [k \in 0..(n - 1) |-> 0], x.freed = [k \in 0..(n - 1) |-> 0]
      PROVE  NotesOK(x, n) /\ Found(x) = z.bits
  <2>1. Orders(x) = 0..(n - 1)
    BY <1>2 DEF Orders
  <2>2. \A k \in 0..(n - 1) : x.runs[k] = <<>>
    BY <1>2
  <2>3. NotedIn(<<>>) = {} /\ LeftIn(<<>>) = {} /\ LeftOnce(<<>>)
    BY DEF NotedIn, LeftIn, LeftOnce
  <2>4. Found(x) = z.bits
    <3>1. \A k \in 0..(n - 1) : Found(x)[k] = z.bits[k]
      BY <1>2, <2>1, <2>2, <2>3 DEF Found, FoundIn
    <3>2. Found(x) = [k \in 0..(n - 1) |-> Found(x)[k]] /\ z.bits = [k \in 0..(n - 1) |-> z.bits[k]]
      BY <1>1, <2>1 DEF Found
    <3> QED BY <3>1, <3>2
  <2>5. \A k \in 0..(n - 1) : NumFree(x, k) = z.count[k] /\ z.count[k] = Cardinality(z.bits[k])
                              /\ IsFiniteSet(z.bits[k])
    <3> SUFFICES ASSUME NEW k \in 0..(n - 1)
                 PROVE  NumFree(x, k) = z.count[k] /\ z.count[k] = Cardinality(z.bits[k])
                        /\ IsFiniteSet(z.bits[k])
      OBVIOUS
    <3>1. x.count[k] = z.count[k] /\ x.freed[k] = 0 /\ x.allocated[k] = 0
      BY <1>2
    <3>2. PICK c \in Nat : c = z.count[k]
      BY <1>1
    <3>3. NumFree(x, k) = c + 0 - 0
      BY <3>1, <3>2 DEF NumFree
    <3> QED BY <1>1, <3>2, <3>3 DEF CountOK
  <2>6. Forest(z.bits, n)
    BY DEF ZoneOK
  <2> QED BY <2>2, <2>3, <2>4, <2>5, <2>6 DEF NotesOK
<1>3. <<>> \in Seq(Notes(N))
  OBVIOUS
<1> DEFINE y == ClearChanges([z EXCEPT !.stamp = s])
           x == [ClearChanges(z) EXCEPT !.dirty = d]
<1>4. Orders([z EXCEPT !.stamp = s]) = 0..(n - 1)
  BY <1>1 DEF Orders, ZoneType
<1>5. /\ y \in ZoneType(n, N) /\ y.num = n /\ y.bits = z.bits /\ y.count = z.count /\ y.free = z.free
      /\ y.stamp = s /\ y.dirty = z.dirty
      /\ y.runs = [k \in 0..(n - 1) |-> <<>>]
      /\ y.allocated = [k \in 0..(n - 1) |-> 0] /\ y.freed = [k \in 0..(n - 1) |-> 0]
  BY <1>1, <1>3, <1>4 DEF ClearChanges, ZoneType
<1>6. /\ x \in ZoneType(n, N) /\ x.num = n /\ x.bits = z.bits /\ x.count = z.count /\ x.free = z.free
      /\ x.stamp = z.stamp /\ x.dirty = d
      /\ x.runs = [k \in 0..(n - 1) |-> <<>>]
      /\ x.allocated = [k \in 0..(n - 1) |-> 0] /\ x.freed = [k \in 0..(n - 1) |-> 0]
  BY <1>1, <1>3 DEF ClearChanges, ZoneType
<1> HIDE DEF x, y
<1>7. NotesOK(y, n) /\ Found(y) = z.bits /\ NotesOK(x, n) /\ Found(x) = z.bits
  BY <1>2, <1>5, <1>6
<1>8. ZoneOK(y, n, N) /\ ZoneOK(x, n, N)
  BY <1>5, <1>6 DEF ZoneOK
<1>9. Cleared(y, z, s, n, N) /\ Cleared(x, z, z.stamp, n, N)
  BY <1>5, <1>6, <1>7, <1>8 DEF Cleared
<1> QED BY <1>9 DEF x, y

\* In a new map all that is free is found.
LEMMA NewNotesOK ==
  ASSUME NEW n \in Nat, NEW N \in Nat, NEW z, ZoneOK(z, n, N),
         \A k \in 0..(n - 1) : z.runs[k] = <<>> /\ z.allocated[k] = 0 /\ z.freed[k] = 0
  PROVE  NotesOK(z, n) /\ Found(z) = z.bits
<1>1. z.num = n /\ z \in ZoneType(n, N) /\ z.bits \in [0..(n - 1) -> SUBSET Nat]
  BY DEF ZoneOK, ZoneType
<1>2. \A k \in 0..(n - 1) : Found(z)[k] = z.bits[k]
  BY <1>1 DEF Found, FoundIn, Orders, NotedIn, LeftIn
<1>3. Found(z) = z.bits
  <2>1. Found(z) = [k \in 0..(n - 1) |-> Found(z)[k]]
    BY <1>1 DEF Found, Orders
  <2> QED BY <1>1, <1>2, <2>1
<1>4. ASSUME NEW k \in 0..(n - 1)
      PROVE  IsFiniteSet(z.bits[k]) /\ NumFree(z, k) = Cardinality(z.bits[k])
  <2>1. z.count[k] \in Nat
    BY <1>1 DEF ZoneType
  <2> QED BY <2>1 DEF ZoneOK, CountOK, NumFree
<1>5. \A k \in 0..(n - 1) : LeftOnce(z.runs[k]) /\ LeftIn(z.runs[k]) = {}
  BY DEF LeftOnce, LeftIn
<1>6. Forest(z.bits, n)
  BY DEF ZoneOK
<1> QED BY <1>3, <1>4, <1>5, <1>6 DEF NotesOK

\* What is found is free.
LEMMA FoundFree ==
  ASSUME NEW n \in Nat, NEW N \in Nat, NEW z, ZoneOK(z, n, N), NotesOK(z, n)
  PROVE  Covered(Found(z), n) \subseteq Covered(z.bits, n)
<1> SUFFICES ASSUME NEW u \in Nat, Covers(Found(z), n, u) PROVE Covers(z.bits, n, u)
  BY DEF Covered
<1>1. PICK k \in 0..(n - 1) : Up(u, k) \in Found(z)[k]
  BY DEF Covers
<1>2. Orders(z) = 0..(n - 1)
  BY DEF ZoneOK, ZoneType, Orders
<1>3. Up(u, k) \in z.bits[k] \/ Up(u, k) \in LeftIn(z.runs[k])
  BY <1>1, <1>2 DEF Found, FoundIn
<1>4. CASE Up(u, k) \in z.bits[k]
  BY <1>4 DEF Covers
<1>5. CASE Up(u, k) \in LeftIn(z.runs[k])
  <2>1. PICK t \in (k + 1)..(n - 1) : Up(Up(u, k), t - k) \in z.bits[t]
    BY <1>5 DEF NotesOK, Split, PartOf
  <2>2. PICK c \in Nat : c = t - k /\ k + c = t
    <3>1. t - k \in Nat /\ k + (t - k) = t
      OBVIOUS
    <3> QED BY <3>1
  <2>3. Up(Up(u, k), c) = Up(u, k + c)
    BY UpUp
  <2>4. Up(u, t) \in z.bits[t] /\ t \in 0..(n - 1)
    BY <2>1, <2>2, <2>3
  <2> QED BY <2>4 DEF Covers
<1> QED BY <1>3, <1>4, <1>5

\* The order a search takes from: one where something is found, and there is
\* one unless nothing is found at the order wanted or above.
LEMMA SourceIs ==
  ASSUME NEW n \in Nat, NEW N \in Nat, NEW z, ZoneOK(z, n, N), NotesOK(z, n), NEW k \in 0..(n - 1)
  PROVE  /\ ~Wrong(z, k) /\ (CanFind(z, k) <=> \E j \in k..(n - 1) : Found(z)[j] # {})
         /\ CanFind(z, k) => SourceOrder(z, k) \in k..(n - 1) /\ Found(z)[SourceOrder(z, k)] # {}
<1> DEFINE S == {j \in k..(n - 1) : NumFree(z, j) > 0}
           src == SourceOrder(z, k)
<1>0. z.num = n /\ Orders(z) = 0..(n - 1)
  BY DEF ZoneOK, ZoneType, Orders
<1>1. src = IF S = {} THEN -1 ELSE Min(S)
  BY <1>0 DEF SourceOrder
<1>2. \A j \in k..(n - 1) : j \in S <=> Found(z)[j] # {}
  <2> SUFFICES ASSUME NEW j \in k..(n - 1) PROVE NumFree(z, j) > 0 <=> Found(z)[j] # {}
    OBVIOUS
  <2>1. j \in 0..(n - 1)
    OBVIOUS
  <2>2. IsFiniteSet(Found(z)[j]) /\ NumFree(z, j) = Cardinality(Found(z)[j])
    BY <2>1 DEF NotesOK
  <2>3. Cardinality(Found(z)[j]) \in Nat /\ (Cardinality(Found(z)[j]) = 0 <=> Found(z)[j] = {})
    BY <2>2, FS_CardinalityType, FS_EmptySet
  <2> QED BY <2>2, <2>3
<1>3. S # {} => src \in S
  <2>1. S \in SUBSET Nat
    OBVIOUS
  <2> HIDE DEF S, src
  <2> QED BY <1>1, <2>1, MinIs
<1>4. src # -1 => src \in k..(n - 1) /\ Found(z)[src] # {}
  <2>1. src # -1 => src \in S
    BY <1>1, <1>3
  <2>2. src \in S => src \in k..(n - 1)
    BY <1>0
  <2> HIDE DEF src, S
  <2> QED BY <1>2, <2>1, <2>2
<1>5. (\E j \in k..(n - 1) : Found(z)[j] # {}) => src # -1
  <2> SUFFICES ASSUME NEW j \in k..(n - 1), Found(z)[j] # {} PROVE src # -1
    OBVIOUS
  <2>1. j \in S
    BY <1>2
  <2>2. src \in S
    BY <1>3, <2>1
  <2>3. -1 \notin S
    OBVIOUS
  <2> HIDE DEF S, src
  <2> QED BY <2>2, <2>3
<1>6. ~Wrong(z, k)
  <2> SUFFICES ASSUME src # -1, LeftOver(z, src) = {}, Usable(z, src) = {} PROVE FALSE
    BY DEF Wrong
  <2>1. src \in 0..(n - 1) /\ Found(z)[src] # {}
    BY <1>4
  <2> HIDE DEF src, S
  <2>2. Found(z)[src] = {}
    BY <1>0, <2>1 DEF Found, FoundIn, NotedIn, Noted, Usable, LeftIn, LeftOver
  <2> QED BY <2>1, <2>2
<1>7. CanFind(z, k) <=> src # -1
  BY <1>6 DEF CanFind
<1> HIDE DEF src, S
<1>8. (\E j \in k..(n - 1) : Found(z)[j] # {}) <=> src # -1
  BY <1>4, <1>5
<1> QED BY <1>4, <1>6, <1>7, <1>8 DEF src

\* What is beside the way up from the first part of block a of order j.
LEMMA HalvesAre ==
  ASSUME NEW a \in Nat, NEW k \in Nat, NEW j \in Nat, k <= j
  PROVE  /\ a * 2^(j - k) \in Nat /\ Up(a * 2^(j - k), j - k) = a
         /\ \A i \in k..(j - 1) : /\ Up(a * 2^(j - k), i - k) = a * 2^(j - i)
                                  /\ Buddy(a * 2^(j - i)) = a * 2^(j - i) + 1
<1>1. PICK m \in Nat : m = j - k
  OBVIOUS
<1>2. a * 2^m \in Nat /\ Up(a * 2^m, m) = a
  BY BlockUnits
<1>3. ASSUME NEW i \in k..(j - 1)
      PROVE  /\ Up(a * 2^(j - k), i - k) = a * 2^(j - i)
             /\ Buddy(a * 2^(j - i)) = a * 2^(j - i) + 1
  <2>1. PICK x \in Nat, v \in Nat : x = i - k /\ j - i = v + 1 /\ j - k = (v + 1) + x
    <3>1. i - k \in Nat /\ j - i - 1 \in Nat /\ j - i = (j - i - 1) + 1 /\ j - k = ((j - i - 1) + 1) + (i - k)
      OBVIOUS
    <3> QED BY <3>1
  <2>2. PICK p \in Nat, q \in Nat : p = 2^v /\ q = 2^x /\ 2^(v + 1) = 2 * p /\ 2^((v + 1) + x) = (2 * p) * q
    <3>1. PICK w \in Nat : w = v + 1
      OBVIOUS
    <3>2. 2^v \in Nat /\ 2^x \in Nat /\ 2^(v + 1) = 2 * 2^v
      BY PowerStep
    <3>3. 2^(w + x) = 2^w * 2^x
      BY PowerSum
    <3> QED BY <3>1, <3>2, <3>3
  <2>3. PICK c \in Nat : c = a * (2 * p) /\ c = 2 * (a * p) /\ a * p \in Nat /\ a * ((2 * p) * q) = c * q
    OBVIOUS
  <2>4. Up(c * q, x) = c
    BY <2>2, BlockUnits
  <2>5. c % 2 = 0
    <3>1. PICK d \in Nat : d = a * p
      BY <2>3
    <3> QED BY <2>3, <3>1
  <2>6. Buddy(c) = c + 1
    BY <2>5 DEF Buddy
  <2>7. a * 2^(j - k) = c * q /\ a * 2^(j - i) = c
    BY <2>1, <2>2, <2>3
  <2> QED BY <2>1, <2>4, <2>6, <2>7
<1> QED BY <1>1, <1>2, <1>3

\* A search hands a block out: its units are found no more, and the bitmaps
\* stay as they are.
LEMMA FindIs ==
  ASSUME NEW n \in Nat, NEW N \in Nat, NEW z, ZoneOK(z, n, N), NotesOK(z, n),
         NEW k \in 0..(n - 1), CanFind(z, k)
  PROVE  LET y == FindRun(z, k)
             b == FoundBit(z, k)
         IN  /\ ZoneOK(y, n, N) /\ NotesOK(y, n)
             /\ y.bits = z.bits /\ y.dirty = z.dirty /\ y.stamp = z.stamp
             /\ b \in Nat /\ UnitsIn(k, b) \subseteq Covered(Found(z), n)
             /\ Covered(Found(y), n) = Covered(Found(z), n) \ UnitsIn(k, b)
<1>0. /\ z \in ZoneType(n, N) /\ z.num = n /\ Orders(z) = 0..(n - 1) /\ k \in Nat
      /\ z.bits \in [0..(n - 1) -> SUBSET Nat]
  BY DEF ZoneOK, ZoneType, Orders
<1>1. PICK j \in 0..(n - 1) : j = SourceOrder(z, k) /\ k <= j /\ Found(z)[j] # {}
  <2>1. SourceOrder(z, k) \in k..(n - 1) /\ Found(z)[SourceOrder(z, k)] # {}
    BY SourceIs
  <2>2. SourceOrder(z, k) \in 0..(n - 1) /\ k <= SourceOrder(z, k)
    BY <2>1
  <2> QED BY <2>1, <2>2
<1>2. PICK t : TakenFrom(z, n, N, j, BitAt(z, j), t)
  BY <1>1, TakenIs
<1>3. PICK a \in Nat : a = BitAt(z, j) /\ a \in Found(z)[j]
  <2>1. BitAt(z, j) \in Found(z)[j]
    BY <1>2 DEF TakenFrom
  <2>2. Found(z) \in [0..(n - 1) -> SUBSET Nat]
    BY DEF NotesOK, Forest
  <2> QED BY <2>1, <2>2
<1> DEFINE Halves == \A i \in k..(j - 1) : /\ Up(a * 2^(j - k), i - k) = a * 2^(j - i)
                                           /\ Buddy(a * 2^(j - i)) = a * 2^(j - i) + 1
<1>22. a * 2^(j - k) \in Nat /\ Up(a * 2^(j - k), j - k) = a /\ Halves
  <2>1. j \in Nat /\ k \in Nat /\ k <= j
    BY <1>0, <1>1
  <2> QED BY <2>1, HalvesAre, ZenonT(60)
<1> HIDE DEF Halves
<1>4. PICK b \in Nat : b = FoundBit(z, k) /\ b = a * 2^(j - k) /\ Up(b, j - k) = a
  BY <1>1, <1>3, <1>22 DEF FoundBit
<1>5. ASSUME NEW i \in k..(j - 1)
      PROVE  Buddy(Up(b, i - k)) = a * 2^(j - i) + 1
  <2>1. /\ Up(a * 2^(j - k), i - k) = a * 2^(j - i)
        /\ Buddy(a * 2^(j - i)) = a * 2^(j - i) + 1
    BY <1>22 DEF Halves
  <2> QED BY <1>4, <2>1
<1> DEFINE H(i) == Buddy(Up(b, i - k))
           R == [i \in 0..(n - 1) |-> IF i \in k..(j - 1) THEN Cons(Note(H(i), TRUE), z.runs[i])
                                      ELSE IF i = j THEN t ELSE z.runs[i]]
           L == [z.allocated EXCEPT ![j] = @ + 1]
           D == [i \in 0..(n - 1) |-> IF i \in k..(j - 1) THEN z.freed[i] + 1 ELSE z.freed[i]]
           y == FindRun(z, k)
           G == Without(Found(z), n, k, b, j)
<1>6. y = [z EXCEPT !.runs = R, !.allocated = L, !.freed = D]
  <2> DEFINE x == TakeAt(z, j)
             Q == [i \in 0..(n - 1) |-> IF i \in k..(j - 1) THEN Cons(Note(a * 2^(j - i) + 1, TRUE), x.runs[i])
                                                            ELSE x.runs[i]]
             E == [i \in 0..(n - 1) |-> IF i \in k..(j - 1) THEN x.freed[i] + 1 ELSE x.freed[i]]
  <2>1. x = [z EXCEPT !.runs[j] = t, !.allocated[j] = @ + 1]
    BY <1>2 DEF TakenFrom
  <2>2. /\ x.num = z.num /\ x.freed = z.freed /\ x.runs[j] = t
        /\ \A i \in 0..(n - 1) : i # j => x.runs[i] = z.runs[i]
    BY <1>0, <2>1, SMTT(30) DEF ZoneType
  <2>3. y = [x EXCEPT !.runs = Q, !.freed = E]
    <3>1. y = SplitDown(x, k, j, a)
      BY <1>1, <1>3 DEF FindRun
    <3>2. Orders(x) = 0..(n - 1)
      BY <1>0, <2>2 DEF Orders
    <3> HIDE DEF x, y
    <3> QED BY <3>1, <3>2 DEF SplitDown
  <2>4. Q = R
    <3> HIDE DEF x
    <3>1. \A i \in k..(j - 1) : i # j /\ H(i) = a * 2^(j - i) + 1
      BY <1>5
    <3> QED BY <2>2, <3>1
  <2>5. E = D
    <3> HIDE DEF x
    <3> QED BY <2>2
  <2> HIDE DEF x, Q, E, R, D, y
  <2> QED BY <1>0, <2>1, <2>3, <2>4, <2>5 DEF ZoneType
<1>7. ASSUME NEW i \in k..(j - 1)
      PROVE  /\ R[i] \in Seq(Notes(N)) /\ LeftOnce(R[i]) /\ LeftIn(R[i]) = LeftIn(z.runs[i]) \cup {H(i)}
             /\ FoundIn(z.bits[i], R[i]) = Found(z)[i] \cup {H(i)}
             /\ Split(z.bits, n, i, H(i)) /\ H(i) \notin Found(z)[i]
  <2>0. i \in 0..(n - 1) /\ z.runs[i] \in Seq(Notes(N)) /\ LeftOnce(z.runs[i])
    <3>1. i \in 0..(n - 1)
      BY <1>0
    <3> QED BY <1>0, <3>1 DEF ZoneType, NotesOK
  <2>1. /\ H(i) \in Nat /\ H(i) \notin Found(z)[i]
        /\ \A x \in (i + 1)..(n - 1) : Up(H(i), x - i) = Up(b, x - k)
    <3>1. Up(b, j - k) \in Found(z)[j] /\ Forest(Found(z), n)
      BY <1>3, <1>4 DEF NotesOK
    <3>2. k \in 0..j
      BY <1>0, <1>1
    <3> QED BY <3>1, <3>2, WayUp
  <2>2. PICK x \in (i + 1)..(n - 1) : Up(b, x - k) \in z.bits[x]
    <3>1. a \in z.bits[j] \/ a \in LeftIn(z.runs[j])
      BY <1>0, <1>3 DEF Found, FoundIn
    <3>2. CASE a \in z.bits[j]
      BY <1>4, <3>2
    <3>3. CASE a \in LeftIn(z.runs[j])
      <4>1. PICK x \in (j + 1)..(n - 1) : Up(a, x - j) \in z.bits[x]
        BY <3>3 DEF NotesOK, Split, PartOf
      <4>2. PICK c \in Nat, d \in Nat : c = j - k /\ d = x - j /\ x - k = c + d
        <5>1. j - k \in Nat /\ x - j \in Nat /\ x - k = (j - k) + (x - j)
          BY <1>0, <1>1
        <5> QED BY <5>1
      <4>3. Up(Up(b, c), d) = Up(b, c + d)
        BY UpUp
      <4>4. Up(b, x - k) \in z.bits[x]
        BY <1>4, <4>1, <4>2, <4>3
      <4>5. x \in (i + 1)..(n - 1)
        BY <1>0, <1>1
      <4> QED BY <4>4, <4>5
    <3> QED BY <3>1, <3>2, <3>3
  <2>3. Split(z.bits, n, i, H(i)) /\ Up(H(i), x - i) \in z.bits[x]
    BY <2>1, <2>2 DEF Split, PartOf
  <2>4. H(i) \notin z.bits[i]
    <3>1. i < x /\ x \in 0..(n - 1)
      BY <1>0, <2>0
    <3> QED BY <2>0, <2>3, <3>1 DEF ZoneOK, Forest, Apart
  <2>5. H(i) \in 0..N
    <3>0. PICK h \in Nat : h = H(i)
      BY <2>1
    <3>9. i \in Nat /\ h * 2^i \in Nat /\ Up(h * 2^i, i) = h
      BY <2>0, BlockUnits
    <3>1. PICK u \in Nat : Up(u, i) = H(i) /\ u = H(i) * 2^i
      BY <3>0, <3>9
    <3>2. PICK c \in Nat : c = x - i /\ i + c = x
      <4>1. x - i \in Nat /\ i + (x - i) = x
        BY <2>0
      <4> QED BY <4>1
    <3>3. Up(Up(u, i), c) = Up(u, i + c)
      BY <2>0, UpUp
    <3>4. Up(u, x) \in z.bits[x] /\ x \in 0..(n - 1)
      BY <2>0, <2>3, <3>1, <3>2, <3>3
    <3>5. u \in 0..(N - 1)
      BY <3>4 DEF ZoneOK, Covered, Covers
    <3>6. PICK p \in Nat \ {0} : p = 2^i
      BY <2>0, PowerStep
    <3>7. H(i) <= H(i) * p
      <4>1. PICK d \in Nat : p = 1 + d
        <5>1. p - 1 \in Nat /\ p = 1 + (p - 1)
          OBVIOUS
        <5> QED BY <5>1
      <4>2. h * d \in Nat /\ h * p = h + h * d
        BY <4>1
      <4> QED BY <3>0, <4>2
    <3> QED BY <2>1, <3>1, <3>5, <3>6, <3>7
  <2>6. H(i) \notin LeftIn(z.runs[i]) /\ Found(z)[i] = FoundIn(z.bits[i], z.runs[i])
    BY <1>0, <2>0, <2>1 DEF Found, FoundIn
  <2>7. R[i] = Cons(Note(H(i), TRUE), z.runs[i])
    BY <2>0
  <2> HIDE DEF H, R
  <2>8. /\ R[i] \in Seq(Notes(N)) /\ LeftOnce(R[i]) /\ LeftIn(R[i]) = LeftIn(z.runs[i]) \cup {H(i)}
        /\ NotedIn(R[i]) = NotedIn(z.runs[i]) \cup {H(i)}
    <3>1. PICK h \in 0..N : h = H(i)
      BY <2>5
    <3>2. PICK s \in Seq(Notes(N)) : s = z.runs[i]
      BY <2>0
    <3>3. LeftOnce(s) /\ h \notin LeftIn(s)
      BY <2>0, <2>6, <3>1, <3>2
    <3>4. Consed(Cons(Note(h, TRUE), s), s, N, h)
      BY <3>3, NoteConsed
    <3> QED BY <2>7, <3>1, <3>2, <3>4 DEF Consed
  <2>9. FoundIn(z.bits[i], R[i]) = Found(z)[i] \cup {H(i)}
    BY <2>4, <2>6, <2>8 DEF FoundIn
  <2> QED BY <2>1, <2>3, <2>8, <2>9
<1>8. /\ R[j] = t /\ t \in Seq(Notes(N)) /\ LeftOnce(t) /\ LeftIn(t) \subseteq LeftIn(z.runs[j])
      /\ FoundIn(z.bits[j], t) = Found(z)[j] \ {a}
  <2>1. R[j] = t
    <3>1. j \notin k..(j - 1)
      BY <1>0
    <3> QED BY <3>1
  <2> HIDE DEF R
  <2> QED BY <1>2, <1>3, <2>1 DEF TakenFrom
<1>9. \A i \in 0..(n - 1) : i \notin k..(j - 1) /\ i # j => R[i] = z.runs[i]
  OBVIOUS
<1>10. /\ L \in [0..(n - 1) -> Nat] /\ L[j] = z.allocated[j] + 1
       /\ \A i \in 0..(n - 1) : i # j => L[i] = z.allocated[i]
       /\ D \in [0..(n - 1) -> Nat] /\ \A i \in k..(j - 1) : i \in 0..(n - 1) /\ i # j /\ D[i] = z.freed[i] + 1
       /\ \A i \in 0..(n - 1) : i \notin k..(j - 1) => D[i] = z.freed[i]
       /\ \A i \in 0..(n - 1) : z.allocated[i] \in Nat /\ z.freed[i] \in Nat /\ z.count[i] \in Nat
  <2>1. /\ z.allocated \in [0..(n - 1) -> Nat] /\ z.freed \in [0..(n - 1) -> Nat]
        /\ z.count \in [0..(n - 1) -> Nat]
    BY <1>0 DEF ZoneType
  <2>2. \A i \in k..(j - 1) : i \in 0..(n - 1) /\ i # j
    BY <1>0
  <2>3. /\ L \in [0..(n - 1) -> Nat] /\ L[j] = z.allocated[j] + 1
        /\ \A i \in 0..(n - 1) : i # j => L[i] = z.allocated[i]
    BY <2>1, SMTT(30)
  <2>4. \A i \in 0..(n - 1) : D[i] \in Nat /\ D[i] = IF i \in k..(j - 1) THEN z.freed[i] + 1 ELSE z.freed[i]
    BY <2>1, SMTT(30)
  <2>5. D \in [0..(n - 1) -> Nat]
    <3>1. D = [i \in 0..(n - 1) |-> D[i]]
      OBVIOUS
    <3> HIDE DEF D
    <3> QED BY <2>4, <3>1
  <2> HIDE DEF D, L
  <2> QED BY <2>1, <2>2, <2>3, <2>4, <2>5
<1>11. R \in [0..(n - 1) -> Seq(Notes(N))]
  <2>1. R = [i \in 0..(n - 1) |-> R[i]]
    OBVIOUS
  <2>2. ASSUME NEW i \in 0..(n - 1) PROVE R[i] \in Seq(Notes(N))
    <3> HIDE DEF R
    <3>1. z.runs[i] \in Seq(Notes(N))
      BY <1>0 DEF ZoneType
    <3> QED BY <1>7, <1>8, <1>9, <3>1
  <2> HIDE DEF R
  <2> QED BY <2>1, <2>2
<1> HIDE DEF R, L, D, y
<1>12. /\ y \in ZoneType(n, N) /\ y.num = n /\ y.bits = z.bits /\ y.dirty = z.dirty /\ y.stamp = z.stamp
       /\ y.count = z.count /\ y.free = z.free
       /\ y.runs = R /\ y.allocated = L /\ y.freed = D
  BY <1>0, <1>6, <1>10, <1>11 DEF ZoneType
<1>13. ZoneOK(y, n, N)
  BY <1>12 DEF ZoneOK
<1>14. \A i \in 0..(n - 1) : Found(y)[i] = FoundIn(z.bits[i], R[i]) /\ Found(z)[i] = FoundIn(z.bits[i], z.runs[i])
  BY <1>0, <1>12 DEF Found, Orders
<1>15. Found(y) = G
  <2>1. ASSUME NEW i \in 0..(n - 1) PROVE Found(y)[i] = G[i]
    <3>1. CASE i \in k..(j - 1)
      <4>1. G[i] = Found(z)[i] \cup {H(i)}
        BY <3>1 DEF Without
      <4> HIDE DEF G, H
      <4> QED BY <1>7, <1>14, <3>1, <4>1
    <3>2. CASE i = j
      <4>1. i \notin k..(j - 1)
        BY <1>0, <3>2
      <4>2. G[i] = Found(z)[i] \ {Up(b, j - k)}
        BY <3>2, <4>1 DEF Without
      <4> HIDE DEF G
      <4> QED BY <1>4, <1>8, <1>14, <3>2, <4>2
    <3>3. CASE i \notin k..(j - 1) /\ i # j
      <4>1. G[i] = Found(z)[i]
        BY <3>3 DEF Without
      <4> HIDE DEF G
      <4> QED BY <1>9, <1>14, <3>3, <4>1
    <3> QED BY <3>1, <3>2, <3>3
  <2>2. Found(y) = [i \in 0..(n - 1) |-> Found(y)[i]]
    BY <1>12 DEF Found, Orders
  <2>3. G = [i \in 0..(n - 1) |-> G[i]]
    BY DEF Without
  <2> HIDE DEF G
  <2> QED BY <2>1, <2>2, <2>3
<1>16. /\ Forest(G, n)
       /\ \A u \in Nat : Covers(G, n, u) <=> Covers(Found(z), n, u) /\ Up(u, k) # b
  <2>1. Up(b, j - k) \in Found(z)[j] /\ Forest(Found(z), n) /\ k \in 0..j
    BY <1>0, <1>1, <1>3, <1>4 DEF NotesOK
  <2> QED BY <2>1, WithoutIs
<1> HIDE DEF G, H
<1>17. UnitsIn(k, b) = {u \in Nat : Up(u, k) = b}
  BY <1>0, BlockUnits
<1>18. Covered(Found(y), n) = Covered(Found(z), n) \ UnitsIn(k, b)
  BY <1>15, <1>16, <1>17 DEF Covered
<1>19. UnitsIn(k, b) \subseteq Covered(Found(z), n)
  <2> SUFFICES ASSUME NEW u \in Nat, Up(u, k) = b PROVE Covers(Found(z), n, u)
    BY <1>17 DEF Covered
  <2>1. PICK x \in Nat : x = j - k /\ k + x = j
    <3>1. j - k \in Nat /\ k + (j - k) = j
      BY <1>0, <1>1
    <3> QED BY <3>1
  <2>2. Up(Up(u, k), x) = Up(u, k + x)
    BY <1>0, UpUp
  <2>3. Up(u, j) \in Found(z)[j]
    BY <1>3, <1>4, <2>1, <2>2
  <2> QED BY <2>3 DEF Covers
<1>20. ASSUME NEW i \in 0..(n - 1)
       PROVE  /\ IsFiniteSet(Found(y)[i]) /\ NumFree(y, i) = Cardinality(Found(y)[i])
              /\ LeftOnce(y.runs[i])
              /\ \A c \in LeftIn(y.runs[i]) : Split(y.bits, n, i, c)
  <2>1. /\ IsFiniteSet(Found(z)[i]) /\ NumFree(z, i) = Cardinality(Found(z)[i])
        /\ LeftOnce(z.runs[i]) /\ \A c \in LeftIn(z.runs[i]) : Split(z.bits, n, i, c)
    BY DEF NotesOK
  <2>2. /\ NumFree(z, i) = z.count[i] + z.freed[i] - z.allocated[i]
        /\ NumFree(y, i) = z.count[i] + D[i] - L[i]
    BY <1>12 DEF NumFree
  <2>3. CASE i \in k..(j - 1)
    <3>1. NumFree(y, i) = NumFree(z, i) + 1
      <4>1. D[i] = z.freed[i] + 1 /\ L[i] = z.allocated[i]
        BY <1>10, <2>3
      <4>2. PICK p \in Nat, q \in Nat, r \in Nat : p = z.count[i] /\ q = z.freed[i] /\ r = z.allocated[i]
        BY <1>10
      <4>3. NumFree(z, i) = p + q - r /\ NumFree(y, i) = p + (q + 1) - r
        BY <2>2, <4>1, <4>2
      <4> QED BY <4>3
    <3>2. Found(y)[i] = Found(z)[i] \cup {H(i)} /\ H(i) \notin Found(z)[i]
      BY <1>7, <1>14, <2>3
    <3>3. IsFiniteSet(Found(y)[i]) /\ NumFree(y, i) = Cardinality(Found(y)[i])
      BY <2>1, <3>1, <3>2, OneLess
    <3> QED BY <1>7, <1>12, <2>1, <2>3, <3>3
  <2>4. CASE i = j
    <3>1. i \notin k..(j - 1)
      BY <1>0, <2>4
    <3>2. NumFree(y, i) = NumFree(z, i) - 1
      <4>1. D[i] = z.freed[i] /\ L[i] = z.allocated[i] + 1
        BY <1>10, <2>4, <3>1
      <4>2. PICK p \in Nat, q \in Nat, r \in Nat : p = z.count[i] /\ q = z.freed[i] /\ r = z.allocated[i]
        BY <1>10
      <4>3. NumFree(z, i) = p + q - r /\ NumFree(y, i) = p + q - (r + 1)
        BY <2>2, <4>1, <4>2
      <4>4. p + q - (r + 1) = (p + q - r) - 1
        BY SMTT(40)
      <4> QED BY <4>3, <4>4, Zenon
    <3>3. Found(y)[i] = Found(z)[i] \ {a} /\ a \in Found(z)[i]
      BY <1>3, <1>8, <1>14, <2>4
    <3>4. IsFiniteSet(Found(y)[i]) /\ NumFree(y, i) = Cardinality(Found(y)[i])
      BY <2>1, <3>2, <3>3, OneLess
    <3> QED BY <1>8, <1>12, <2>1, <2>4, <3>4
  <2>5. CASE i \notin k..(j - 1) /\ i # j
    <3>1. NumFree(y, i) = NumFree(z, i) /\ R[i] = z.runs[i] /\ Found(y)[i] = Found(z)[i]
      BY <1>9, <1>10, <1>14, <2>2, <2>5
    <3> QED BY <1>12, <2>1, <3>1
  <2> QED BY <2>3, <2>4, <2>5
<1>21. NotesOK(y, n)
  BY <1>15, <1>16, <1>20 DEF NotesOK
<1> QED BY <1>4, <1>12, <1>13, <1>18, <1>19, <1>21 DEF y
=============================================================================
