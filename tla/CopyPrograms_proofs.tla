------------------------ MODULE CopyPrograms_proofs -------------------------
(***************************************************************************)
(* What a restore or a copy has done to its target when it makes its last  *)
(* repairs, for every source drive, size of a sector and of the buffers,   *)
(* and whatever became of a stored backup on the way.  First lists of      *)
(* units, then the writer, the reader, and the programs around them.       *)
(***************************************************************************)
EXTENDS CopyPrograms, FiniteSetTheorems, WellFoundedInduction, SequenceTheorems, TLAPS

-----------------------------------------------------------------------------
(* What holds in every state.                                              *)

States(table) == {table[i] : i \in DOMAIN table}

\* A sequence, whatever it is a sequence of.
IsList(s) == Len(s) \in Nat /\ s = [i \in 1..Len(s) |-> s[i]]

\* A unit that the state machine of the backup makes, with a number for its value ...
Plain(u) == u = <<u[1], u[2], u[3]>> /\ u[1] # "zip" /\ u[3] \in Nat
PlainList(s) == IsList(s) /\ \A i \in 1..Len(s) : Plain(s[i])

\* ... and one of the stream, which may hold some of those, compressed.
Sent(u) == /\ u = <<u[1], u[2], u[3]>> /\ u[3] \in Nat
           /\ u[1] = "zip" => PlainList(u[2])
SentList(s) == IsList(s) /\ \A i \in 1..Len(s) : Sent(s[i])

\* The writer: the lists it works on, and how far it can be in each state.
BackupTyped ==
  /\ DOMAIN b = {"state", "val1", "val2", "ptr", "shared", "cursector", "crc", "compressed",
                 "ratio"}
  /\ b.state \in States(BackupTable) /\ b.shared \in 0..(SECTOR - 1)
  /\ b.val1 \in Nat /\ b.val2 \in Nat /\ b.ptr \in BOOLEAN
  /\ b.ratio \in Nat /\ b.compressed \in BOOLEAN /\ (b.compressed <=> b.ratio # 0)
  /\ DOMAIN bcall = {"room", "page", "out", "size"}
  /\ bcall.room \in Nat /\ bcall.size \in Nat
  /\ PlainList(bcall.page) /\ PlainList(bcall.out)
  /\ DOMAIN zip = {"open", "buf", "in", "held"}
  /\ zip.open \in BOOLEAN /\ PlainList(zip.in) /\ PlainList(zip.held)
  /\ zip.open => b.compressed /\ Len(zip.held) < b.ratio
  /\ SentList(bout)

BackupWithin ==
  /\ b.state = "parts" => b.val1 <= Len(Drive.parts)
  /\ b.state = "mfsparts" => b.val1 <= Drive.mfs
  /\ b.state = "zones" => b.val1 <= Drive.zones
  /\ b.state = "extra" /\ b.val2 < Len(Drive.extra) => b.val1 <= Drive.extra[b.val2 + 1]
  /\ b.state = "partitions" =>
       b.val1 < Len(Drive.parts) /\ b.val2 <= Drive.parts[b.val1 + 1]
  /\ b.state = "inodes" =>
       /\ b.val1 < Len(Drive.files)
       /\ b.ptr => b.val2 <= Drive.files[b.val1 + 1]

\* The reader, in the same way.
RestoreTyped ==
  /\ DOMAIN r = {"state", "val1", "val2", "ptr", "shared", "since", "cursector", "crc",
                 "nsectors", "compressed", "initialized"}
  /\ r.state \in States(RestoreTable) /\ r.shared \in 0..(SECTOR - 1)
  /\ r.val1 \in Nat /\ r.val2 \in Nat /\ r.ptr \in Nat /\ r.since \in Nat
  /\ DOMAIN rcall = {"size", "in", "room", "page", "done", "got"}
  /\ rcall.size \in Nat /\ rcall.room \in Nat /\ rcall.done \in Nat /\ rcall.got \in Nat
  /\ SentList(rcall.page) /\ SentList(rcall.in)
  /\ rcall.room * SECTOR <= Len(rcall.page)
  /\ DOMAIN unzip = {"open", "out", "held", "ended"}
  /\ PlainList(unzip.out) /\ PlainList(unzip.held)
  /\ rpc = "first" => Len(rcall.page) <= rcall.size
  /\ rpc \in {"unzip", "unzipped"} => Len(rcall.in) <= rcall.size
  /\ rpc = "unzipped" => rcall.done * SECTOR + Len(rcall.page) = Len(unzip.out)

RestoreWithin ==
  /\ DOMAIN head = {"parts", "mfsparts", "zones", "extra"} /\ SentList(head.parts)
  /\ r.state = "begin" => head.parts = <<>>
  /\ r.state = "parts" => r.val1 = Len(head.parts) /\ r.val1 <= Len(Drive.parts)
  /\ r.state \notin {"begin", "parts"} => Len(head.parts) = Len(Drive.parts)
  /\ r.state = "mfsparts" => r.val1 <= Drive.mfs
  /\ r.state = "zones" => r.val1 <= Drive.zones
  /\ r.state = "extra" => r.val1 <= Sum(Drive.extra)
  /\ r.state = "partitions" =>
       r.val1 < Len(head.parts) /\ r.val2 <= head.parts[r.val1 + 1][3]

\* A record among recs gives inode i as much data as there is.
Whole(i, data, recs) == \E rec \in recs : rec[1] = i /\ Len(data[i]) = rec[3] * SECTOR

\* The target before its inodes, between two of them or in the middle of one, and behind them.
TargetInv ==
  /\ DOMAIN target = {"boot", "disk", "regions", "logged", "committed", "data", "fixed"}
  /\ IsList(target.data)
  /\ r.state \notin {"inodes", "complete", "max"} => target.data = <<>>
  /\ r.state \notin {"complete", "max"} => ~target.fixed
  /\ r.state = "inodes" =>
       /\ r.val1 < Len(Drive.files)
       /\ \A i \in 1..r.val1 : Whole(i, target.data, target.logged \cup target.committed)
       /\ r.ptr = 0 => Len(target.data) = r.val1
       /\ r.ptr # 0 =>
            /\ Len(target.data) = r.val1 + 1 /\ r.val2 < r.ptr
            /\ Len(target.data[r.val1 + 1]) = r.val2 * SECTOR
            /\ \E rec \in target.logged \cup target.committed :
                 rec[1] = r.val1 + 1 /\ rec[3] = r.ptr
  /\ r.state \in {"complete", "max"} =>
       /\ target.logged = {}
       /\ \A i \in 1..Len(Drive.files) : Whole(i, target.data, target.committed)

StreamInv ==
  /\ BackupTyped /\ BackupWithin
  /\ RestoreTyped /\ RestoreWithin /\ TargetInv
  /\ job.buf \in Nat \ {0} /\ SentList(file) /\ SentList(chunk)

\* The quotient and the remainder of a division by c.
LEMMA DivFacts ==
  ASSUME NEW c \in Nat \ {0}, NEW n \in Nat
  PROVE  /\ n \div c \in Nat /\ (n \div c) * c <= n /\ n < ((n \div c) + 1) * c
         /\ n % c \in 0..(c - 1) /\ n = (n \div c) * c + (n % c)
OBVIOUS

\* As many times the same is as much.
LEMMA TimesOrder ==
  ASSUME NEW m \in Nat, NEW n \in Nat, NEW c \in Nat \ {0}
  PROVE  m * c \in Nat /\ n * c \in Nat /\ (m * c <= n * c <=> m <= n)
<1>1. \A i, j \in Nat : i <= j => i * c <= j * c
  <2> SUFFICES ASSUME NEW i \in Nat, NEW j \in Nat, i <= j PROVE i * c <= j * c
    OBVIOUS
  <2>1. PICK d \in Nat : j = i + d
    <3>1. j - i \in Nat /\ j = i + (j - i)
      OBVIOUS
    <3> QED BY <3>1
  <2>2. j * c = i * c + d * c /\ d * c \in Nat /\ i * c \in Nat
    BY <2>1
  <2> QED BY <2>2
<1>2. \A i, j \in Nat : i < j => i * c < j * c
  <2> SUFFICES ASSUME NEW i \in Nat, NEW j \in Nat, i < j PROVE i * c < j * c
    OBVIOUS
  <2>1. (i + 1) * c <= j * c
    BY <1>1
  <2>2. (i + 1) * c = i * c + c /\ i * c \in Nat /\ j * c \in Nat
    OBVIOUS
  <2> QED BY <2>1, <2>2
<1>3. m * c \in Nat /\ n * c \in Nat
  OBVIOUS
<1> QED BY <1>1, <1>2, <1>3

-----------------------------------------------------------------------------
(* Lists of units.                                                         *)

\* A list is a sequence over its own elements.
LEMMA ListIsSeq == \A s : IsList(s) => s \in Seq({s[i] : i \in 1..Len(s)}) /\ DOMAIN s = 1..Len(s)
<1> SUFFICES ASSUME NEW s, IsList(s)
             PROVE  s \in Seq({s[i] : i \in 1..Len(s)}) /\ DOMAIN s = 1..Len(s)
  OBVIOUS
<1>1. PICK n \in Nat : n = Len(s) /\ s = [i \in 1..n |-> s[i]]
  BY DEF IsList
<1>2. s \in [1..n -> {s[i] : i \in 1..n}]
  BY <1>1
<1>3. s \in Seq({s[i] : i \in 1..n})
  BY <1>2
<1> QED BY <1>1, <1>3

\* A function on the numbers from 1 on is a list.
LEMMA FunctionIsList ==
  ASSUME NEW n \in Nat, NEW s, DOMAIN s = 1..n, s = [i \in 1..n |-> s[i]]
  PROVE  IsList(s) /\ Len(s) = n
<1>1. s \in [1..n -> {s[i] : i \in 1..n}]
  OBVIOUS
<1>2. s \in Seq({s[i] : i \in 1..n})
  BY <1>1
<1>3. Len(s) = n
  BY <1>1, <1>2
<1> QED BY <1>3 DEF IsList

\* A part of a list, and two lists one behind the other.
LEMMA PartOfList ==
  ASSUME NEW s, IsList(s), NEW m \in 1..(Len(s) + 1), NEW n \in 0..Len(s), m <= n + 1
  PROVE  /\ IsList(SubSeq(s, m, n)) /\ Len(SubSeq(s, m, n)) = n - m + 1
         /\ \A i \in 1..(n - m + 1) : SubSeq(s, m, n)[i] = s[m + i - 1] /\ m + i - 1 \in 1..Len(s)
<1>1. Len(s) \in Nat /\ s \in Seq({s[i] : i \in 1..Len(s)})
  BY ListIsSeq DEF IsList
<1>2. PICK t : t = SubSeq(s, m, n)
  OBVIOUS
<1>3. PICK k \in Nat : k = n - m + 1
  BY <1>1
<1>4. DOMAIN t = 1..k /\ t = [i \in 1..k |-> t[i]]
  <2>1. PICK S : S = {s[i] : i \in 1..Len(s)}
    OBVIOUS
  <2>2. s \in Seq(S)
    BY <1>1, <2>1
  <2>3. t \in Seq(S)
    BY <1>1, <1>2, <2>2
  <2>4. Len(t) = k
    BY <1>1, <1>2, <1>3, <2>2
  <2> QED BY <2>3, <2>4
<1>5. \A i \in 1..k : t[i] = s[m + i - 1] /\ m + i - 1 \in 1..Len(s)
  BY <1>1, <1>2, <1>3
<1>6. IsList(t) /\ Len(t) = k
  BY <1>4, FunctionIsList
<1> QED BY <1>2, <1>3, <1>5, <1>6

LEMMA ListsJoined ==
  ASSUME NEW s, NEW t, IsList(s), IsList(t)
  PROVE  /\ IsList(s \o t) /\ Len(s \o t) = Len(s) + Len(t)
         /\ \A i \in 1..Len(s) : (s \o t)[i] = s[i]
         /\ \A i \in 1..Len(t) : (s \o t)[Len(s) + i] = t[i]
         /\ \A i \in 1..(Len(s) + Len(t)) :
              \/ i \in 1..Len(s) /\ (s \o t)[i] = s[i]
              \/ \E j \in 1..Len(t) : (s \o t)[i] = t[j]
<1>1. Len(s) \in Nat /\ s \in Seq({s[i] : i \in 1..Len(s)})
  BY ListIsSeq DEF IsList
<1>2. Len(t) \in Nat /\ t \in Seq({t[i] : i \in 1..Len(t)})
  BY ListIsSeq DEF IsList
<1>3. PICK S : s \in Seq(S) /\ t \in Seq(S)
  <2> DEFINE S == {s[i] : i \in 1..Len(s)} \cup {t[i] : i \in 1..Len(t)}
  <2>1. s \in Seq(S) /\ t \in Seq(S)
    BY <1>1, <1>2
  <2> QED BY <2>1
<1>4. PICK u : u = s \o t
  OBVIOUS
<1>5. PICK k \in Nat : k = Len(s) + Len(t)
  BY <1>1, <1>2
<1>6. u \in Seq(S) /\ Len(u) = k
  BY <1>1, <1>2, <1>3, <1>4, <1>5
<1>7. DOMAIN u = 1..k /\ u = [i \in 1..k |-> u[i]]
  BY <1>6
<1>8. \A i \in 1..k : u[i] = IF i <= Len(s) THEN s[i] ELSE t[i - Len(s)]
  BY <1>1, <1>2, <1>3, <1>4, <1>5
<1>9. \A i \in 1..k : ~(i <= Len(s)) => i - Len(s) \in 1..Len(t)
  BY <1>1, <1>2, <1>5
<1>10. /\ \A i \in 1..Len(s) : i \in 1..k /\ i <= Len(s)
       /\ \A i \in 1..Len(t) : Len(s) + i \in 1..k /\ ~(Len(s) + i <= Len(s)) /\ Len(s) + i - Len(s) = i
       /\ \A i \in 1..k : i <= Len(s) => i \in 1..Len(s)
  BY <1>1, <1>2, <1>5
<1>11. IsList(u) /\ Len(u) = k
  BY <1>7, FunctionIsList
<1> QED BY <1>4, <1>5, <1>8, <1>9, <1>10, <1>11

\* The empty list and a list of one.
LEMMA ShortLists ==
  /\ IsList(<<>>) /\ Len(<<>>) = 0 /\ PlainList(<<>>) /\ SentList(<<>>)
  /\ \A u : IsList(<<u>>) /\ Len(<<u>>) = 1 /\ <<u>>[1] = u
  /\ \A s : IsList(s) /\ Len(s) = 0 => s = <<>>
<1>1. IsList(<<>>) /\ Len(<<>>) = 0
  BY DEF IsList
<1>2. ASSUME NEW u PROVE IsList(<<u>>) /\ Len(<<u>>) = 1 /\ <<u>>[1] = u
  <2>1. Len(<<u>>) = 1 /\ <<u>>[1] = u /\ <<u>> = [i \in 1..1 |-> <<u>>[i]]
    OBVIOUS
  <2> QED BY <2>1 DEF IsList
<1>3. ASSUME NEW s, IsList(s), Len(s) = 0 PROVE s = <<>>
  BY <1>3, ListIsSeq
<1> QED BY <1>1, <1>2, <1>3 DEF PlainList, SentList

\* Plain units can be sent.
LEMMA PlainIsSent == /\ \A u : Plain(u) => Sent(u)
                     /\ \A s : PlainList(s) => SentList(s)
BY DEF Plain, Sent, PlainList, SentList

\* Parts of lists of units, and such lists joined, are lists of units.
LEMMA PartOfUnits ==
  ASSUME NEW s, NEW m, NEW n, IsList(s), m \in 1..(Len(s) + 1), n \in 0..Len(s), m <= n + 1
  PROVE  /\ PlainList(s) => PlainList(SubSeq(s, m, n))
         /\ SentList(s) => SentList(SubSeq(s, m, n))
<1>1. PICK t : t = SubSeq(s, m, n)
  OBVIOUS
<1>2. /\ IsList(t) /\ Len(t) = n - m + 1
      /\ \A i \in 1..(n - m + 1) : t[i] = s[m + i - 1] /\ m + i - 1 \in 1..Len(s)
  BY <1>1, PartOfList
<1>3. /\ PlainList(s) => PlainList(t)
      /\ SentList(s) => SentList(t)
  BY <1>2 DEF PlainList, SentList
<1> QED BY <1>1, <1>3

LEMMA UnitsJoined ==
  ASSUME NEW s, NEW t
  PROVE  /\ PlainList(s) /\ PlainList(t) => PlainList(s \o t)
         /\ SentList(s) /\ SentList(t) => SentList(s \o t)
<1>1. CASE IsList(s) /\ IsList(t)
  <2>1. PICK u : u = s \o t
    OBVIOUS
  <2>2. /\ IsList(u) /\ Len(u) = Len(s) + Len(t)
        /\ \A i \in 1..(Len(s) + Len(t)) :
             \/ i \in 1..Len(s) /\ u[i] = s[i]
             \/ \E j \in 1..Len(t) : u[i] = t[j]
    BY <1>1, <2>1, ListsJoined
  <2>3. PlainList(s) /\ PlainList(t) => PlainList(u)
    BY <2>2 DEF PlainList
  <2>4. SentList(s) /\ SentList(t) => SentList(u)
    BY <2>2 DEF SentList
  <2> QED BY <2>1, <2>3, <2>4
<1>2. CASE ~(IsList(s) /\ IsList(t))
  BY <1>2 DEF PlainList, SentList
<1> QED BY <1>1, <1>2

\* memcpy into a buffer of units.
LEMMA PutUnits ==
  ASSUME NEW s, NEW off \in Nat, NEW t, IsList(s), IsList(t)
  PROVE  LET u == Put(s, off, t)
         IN  /\ IsList(u)
             /\ Len(u) = IF Len(s) > off + Len(t) THEN Len(s) ELSE off + Len(t)
             /\ PlainList(s) /\ PlainList(t) => PlainList(u)
             /\ SentList(s) /\ SentList(t) => SentList(u)
<1>1. Len(s) \in Nat /\ Len(t) \in Nat
  BY DEF IsList
<1>2. PICK last \in Nat : last = off + Len(t)
  BY <1>1
<1>3. PICK n \in Nat : n = IF Len(s) > last THEN Len(s) ELSE last
  BY <1>1
<1>4. PICK u : u = Put(s, off, t)
  OBVIOUS
<1>5. u = [k \in 1..n |-> IF k > off /\ k <= last THEN t[k - off]
                          ELSE IF k <= Len(s) THEN s[k] ELSE <<"junk", 0, 0>>]
  BY <1>2, <1>3, <1>4 DEF Put
<1>6. IsList(u) /\ Len(u) = n
  BY <1>5, FunctionIsList
<1>7. \A k \in 1..n : /\ k > off /\ k <= last => k - off \in 1..Len(t) /\ u[k] = t[k - off]
                      /\ ~(k > off /\ k <= last) /\ k <= Len(s) => k \in 1..Len(s) /\ u[k] = s[k]
                      /\ ~(k > off /\ k <= last) /\ ~(k <= Len(s)) => u[k] = <<"junk", 0, 0>>
  BY <1>1, <1>2, <1>3, <1>5
<1>8. Plain(<<"junk", 0, 0>>) /\ Sent(<<"junk", 0, 0>>)
  BY DEF Plain, Sent
<1>9. ASSUME PlainList(s), PlainList(t) PROVE PlainList(u)
  BY <1>6, <1>7, <1>8, <1>9 DEF PlainList
<1>10. ASSUME SentList(s), SentList(t) PROVE SentList(u)
  BY <1>6, <1>7, <1>8, <1>10 DEF SentList
<1> QED BY <1>2, <1>3, <1>4, <1>6, <1>9, <1>10

-----------------------------------------------------------------------------
(* Smallest numbers and functions defined by recursion.                    *)

\* Numbers of which there are any have a smallest one.
LEMMA SmallestThereIs ==
  ASSUME NEW S, S \subseteq Nat, S # {}
  PROVE  \E m \in S : \A n \in S : m <= n
<1>1. PICK m \in S : \A n \in S : ~(<<n, m>> \in OpToRel(<, Nat))
  BY NatLessThanWellFounded, WFMin
<1>2. \A n \in S : ~(n < m)
  BY <1>1 DEF OpToRel
<1> QED BY <1>2

\* A function on 0..N that begins with z and goes on with G.
Follows(f, N, z, G) == \A n \in 0..N : f[n] = IF n = 0 THEN z ELSE G[<<n, f[n - 1]>>]

\* There is such a function.
LEMMA Recursion ==
  ASSUME NEW T, NEW z \in T, NEW G \in [Nat \X T -> T], NEW N \in Nat
  PROVE  \E f \in [0..N -> T] : Follows(f, N, z, G)
<1> DEFINE Without == {n \in Nat : ~\E f \in [0..n -> T] : Follows(f, n, z, G)}
<1> SUFFICES ASSUME Without # {} PROVE FALSE
  OBVIOUS
<1>1. PICK n \in Without : \A m \in Without : n <= m
  BY SmallestThereIs
<1>2. CASE n = 0
  <2> DEFINE f == [m \in 0..0 |-> z]
  <2>1. f \in [0..0 -> T] /\ Follows(f, 0, z, G)
    BY DEF Follows
  <2> QED BY <1>2, <2>1
<1>3. CASE n # 0
  <2>1. n - 1 \in Nat /\ n - 1 \notin Without
    BY <1>1, <1>3
  <2>2. PICK f \in [0..(n - 1) -> T] : Follows(f, n - 1, z, G)
    BY <2>1
  <2> DEFINE g == [m \in 0..n |-> IF m = n THEN G[<<n, f[n - 1]>>] ELSE f[m]]
  <2>3. G[<<n, f[n - 1]>>] \in T
    BY <2>1, <2>2
  <2>4. \A m \in 0..n : m # n => m \in 0..(n - 1)
    BY <2>1
  <2>5. g \in [0..n -> T]
    BY <2>2, <2>3, <2>4
  <2>6. ASSUME NEW m \in 0..n PROVE g[m] = IF m = 0 THEN z ELSE G[<<m, g[m - 1]>>]
    <3>1. CASE m = n
      <4>1. n - 1 \in 0..n /\ n - 1 # n
        BY <2>1
      <4> QED BY <1>3, <3>1, <4>1
    <3>2. CASE m # n
      <4>1. m \in 0..(n - 1)
        BY <2>4, <3>2
      <4>2. m # 0 => m - 1 \in 0..n /\ m - 1 # n
        BY <4>1, <2>1
      <4>3. f[m] = IF m = 0 THEN z ELSE G[<<m, f[m - 1]>>]
        BY <2>2, <4>1 DEF Follows
      <4> QED BY <3>2, <4>2, <4>3
    <3> QED BY <3>1, <3>2
  <2>7. Follows(g, n, z, G)
    BY <2>6 DEF Follows
  <2> QED BY <1>1, <2>5, <2>7
<1> QED BY <1>2, <1>3

\* A sum of numbers is a number.
LEMMA SumIsNat == ASSUME NEW s, s \in Seq(Nat) PROVE Sum(s) \in Nat
<1>1. PICK N \in Nat : N = Len(s) /\ \A i \in 1..N : s[i] \in Nat
  OBVIOUS
<1> DEFINE G == [p \in Nat \X Nat |-> IF p[1] \in 1..N THEN p[2] + s[p[1]] ELSE 0]
           Upto(f) == f = [i \in 0..N |-> IF i = 0 THEN 0 ELSE f[i - 1] + s[i]]
<1>2. G \in [Nat \X Nat -> Nat]
  BY <1>1
<1>3. PICK f \in [0..N -> Nat] : Follows(f, N, 0, G)
  <2> HIDE DEF G
  <2> QED BY <1>2, Recursion
<1>4. \A i \in 0..N : i # 0 => i - 1 \in 0..N /\ i - 1 \in Nat /\ i \in 1..N
  OBVIOUS
<1>5. ASSUME NEW i \in 0..N PROVE f[i] = IF i = 0 THEN 0 ELSE f[i - 1] + s[i]
  <2>1. f[i] = IF i = 0 THEN 0 ELSE G[<<i, f[i - 1]>>]
    BY <1>3 DEF Follows
  <2>2. CASE i # 0
    <3>1. i - 1 \in 0..N /\ i \in 1..N /\ f[i - 1] \in Nat
      BY <1>3, <1>4, <2>2
    <3> QED BY <2>1, <2>2, <3>1
  <2> QED BY <2>1, <2>2
<1>6. Upto(f)
  BY <1>5
<1>7. PICK h : h = CHOOSE g : Upto(g)
  OBVIOUS
<1>8. Upto(h)
  BY <1>6, <1>7
<1>9. \A i \in 0..N : h[i] = IF i = 0 THEN 0 ELSE h[i - 1] + s[i]
  BY <1>8
<1>10. ASSUME {i \in 0..N : h[i] \notin Nat} # {} PROVE FALSE
  <2>1. PICK i \in {i \in 0..N : h[i] \notin Nat} : \A j \in {j \in 0..N : h[j] \notin Nat} : i <= j
    <3>1. {i \in 0..N : h[i] \notin Nat} \subseteq Nat
      OBVIOUS
    <3> QED BY <1>10, <3>1, SmallestThereIs
  <2>2. i # 0
    BY <1>9, <2>1
  <2>3. i - 1 \in 0..N /\ i \in 1..N /\ ~(i <= i - 1)
    BY <1>4, <2>1, <2>2
  <2>4. h[i - 1] \in Nat /\ s[i] \in Nat
    BY <1>1, <2>1, <2>3
  <2> QED BY <1>9, <2>1, <2>2, <2>4, SMTT(40)
<1>11. Sum(s) = h[N]
  BY <1>1, <1>7 DEF Sum
<1> QED BY <1>10, <1>11

\* Lists of plain units one behind the other are one.
LEMMA FlattenedIsPlain ==
  ASSUME NEW ss, IsList(ss), \A i \in 1..Len(ss) : PlainList(ss[i])
  PROVE  PlainList(FlattenSeq(ss))
<1>1. PICK N \in Nat : N = Len(ss) /\ \A i \in 1..N : PlainList(ss[i])
  BY DEF IsList
<1>2. CASE N = 0
  BY <1>1, <1>2, ShortLists DEF FlattenSeq
<1>3. CASE N # 0
  <2>1. PICK U : U = UNION {{ss[i][j] : j \in 1..Len(ss[i])} : i \in 1..N}
    OBVIOUS
  <2>2. \A u \in U : Plain(u)
    BY <1>1, <2>1 DEF PlainList
  <2>3. \A i \in 1..N : ss[i] \in Seq(U)
    <3> SUFFICES ASSUME NEW i \in 1..N PROVE ss[i] \in Seq(U)
      OBVIOUS
    <3>1. ss[i] \in Seq({ss[i][j] : j \in 1..Len(ss[i])})
      BY <1>1, ListIsSeq DEF PlainList
    <3>2. {ss[i][j] : j \in 1..Len(ss[i])} \subseteq U
      BY <2>1
    <3> QED BY <3>1, <3>2
  <2> DEFINE G == [p \in Nat \X Seq(U) |-> IF p[1] + 1 \in 1..N THEN p[2] \o ss[p[1] + 1] ELSE p[2]]
             Flat(f) == f = [i \in 1..N |-> IF i = 1 THEN ss[i] ELSE f[i - 1] \o ss[i]]
  <2>4. G \in [Nat \X Seq(U) -> Seq(U)]
    BY <2>3
  <2>5. PICK K \in Nat : K = N - 1
    BY <1>3
  <2>6. ss[1] \in Seq(U)
    BY <1>3, <2>3
  <2>7. PICK f \in [0..K -> Seq(U)] : Follows(f, K, ss[1], G)
    <3> HIDE DEF G
    <3> QED BY <2>4, <2>6, Recursion
  <2>8. PICK g : g = [i \in 1..N |-> f[i - 1]]
    OBVIOUS
  <2>9. ASSUME NEW i \in 1..N PROVE g[i] = IF i = 1 THEN ss[i] ELSE g[i - 1] \o ss[i]
    <3>1. i - 1 \in 0..K /\ g[i] = f[i - 1]
      BY <2>5, <2>8
    <3>2. f[i - 1] = IF i - 1 = 0 THEN ss[1] ELSE G[<<i - 1, f[(i - 1) - 1]>>]
      BY <2>7, <3>1 DEF Follows
    <3>3. CASE i = 1
      BY <3>1, <3>2, <3>3
    <3>4. CASE i # 1
      <4>1. i - 1 \in 1..N /\ i - 1 \in Nat /\ i - 1 # 0 /\ (i - 1) - 1 \in 0..K /\ (i - 1) + 1 = i
        BY <2>5, <3>4
      <4>2. g[i - 1] = f[(i - 1) - 1] /\ f[(i - 1) - 1] \in Seq(U)
        BY <2>7, <2>8, <4>1
      <4>3. G[<<i - 1, g[i - 1]>>] = g[i - 1] \o ss[i]
        BY <4>1, <4>2
      <4> HIDE DEF G
      <4> QED BY <3>1, <3>2, <3>4, <4>1, <4>2, <4>3
    <3> QED BY <3>3, <3>4
  <2>10. Flat(g)
    BY <2>8, <2>9
  <2>11. PICK h : h = CHOOSE f2 : Flat(f2)
    OBVIOUS
  <2>12. Flat(h)
    BY <2>10, <2>11
  <2>13. \A i \in 1..N : h[i] = IF i = 1 THEN ss[i] ELSE h[i - 1] \o ss[i]
    BY <2>12
  <2> DEFINE Bad == {i \in 1..N : h[i] \notin Seq(U)}
  <2>14. ASSUME Bad # {} PROVE FALSE
    <3>1. PICK i \in Bad : \A j \in Bad : i <= j
      <4>1. Bad \subseteq Nat
        OBVIOUS
      <4> HIDE DEF Bad
      <4> QED BY <2>14, <4>1, SmallestThereIs
    <3>2. i # 1
      BY <2>3, <2>13, <3>1
    <3>3. i - 1 \in 1..N /\ ~(i <= i - 1)
      BY <3>1, <3>2
    <3>4. h[i - 1] \in Seq(U) /\ ss[i] \in Seq(U)
      BY <2>3, <3>1, <3>3
    <3>5. h[i - 1] \o ss[i] \in Seq(U)
      BY <3>4
    <3> QED BY <2>13, <3>1, <3>2, <3>5
  <2>15. h[N] \in Seq(U)
    BY <1>3, <2>14, SMTT(40)
  <2>16. FlattenSeq(ss) = h[N]
    BY <1>1, <1>3, <2>11 DEF FlattenSeq
  <2>17. PICK t : t = h[N]
    OBVIOUS
  <2>18. t \in Seq(U)
    BY <2>15, <2>17
  <2>19. Len(t) \in Nat /\ t = [i \in 1..Len(t) |-> t[i]] /\ \A i \in 1..Len(t) : t[i] \in U
    BY <2>18
  <2> QED BY <2>2, <2>16, <2>17, <2>19 DEF PlainList, IsList
<1> QED BY <1>2, <1>3

-----------------------------------------------------------------------------
(* The two tables of states.                                               *)

\* A state that is in the table once is followed by the one behind it.
LEMMA NextIs ==
  ASSUME NEW table, NEW s, NEW i \in Int, NEW j \in Int, j = i + 1, i \in DOMAIN table,
         \A m \in DOMAIN table : table[m] = s <=> m = i
  PROVE  NextState(table, s) = table[j]
<1>1. (CHOOSE m \in DOMAIN table : table[m] = s) = i
  OBVIOUS
<1> QED BY <1>1 DEF NextState

\* The states of the backup, and which follows which.
LEMMA BackupGoesOn ==
  /\ States(BackupTable) = {"begin", "parts", "mfsparts", "zones", "extra", "infoend",
                         "boot", "partitions", "volhdr", "inodes", "complete", "max"}
  /\ NextState(BackupTable, "begin") = "parts"
  /\ NextState(BackupTable, "parts") = "mfsparts"
  /\ NextState(BackupTable, "mfsparts") = "zones"
  /\ NextState(BackupTable, "zones") = "extra"
  /\ NextState(BackupTable, "extra") = "infoend"
  /\ NextState(BackupTable, "infoend") = "boot"
  /\ NextState(BackupTable, "boot") = "partitions"
  /\ NextState(BackupTable, "partitions") = "volhdr"
  /\ NextState(BackupTable, "volhdr") = "inodes"
  /\ NextState(BackupTable, "inodes") = "complete"
  /\ NextState(BackupTable, "complete") = "max"
<1>1. DOMAIN BackupTable = 1..12
  BY DEF BackupTable
<1>2. States(BackupTable) = {"begin", "parts", "mfsparts", "zones", "extra", "infoend",
                         "boot", "partitions", "volhdr", "inodes", "complete", "max"}
  <2>1. \A i \in 1..12 : i = 1 \/ i = 2 \/ i = 3 \/ i = 4 \/ i = 5 \/ i = 6 \/ i = 7 \/ i = 8
                        \/ i = 9 \/ i = 10 \/ i = 11 \/ i = 12
    OBVIOUS
  <2> QED BY <1>1, <2>1, SMTT(40) DEF BackupTable, States
<1>3. NextState(BackupTable, "begin") = "parts"
  <2>1. \A m \in DOMAIN BackupTable : BackupTable[m] = "begin" <=> m = 1
    BY SMTT(30) DEF BackupTable
  <2>2. BackupTable[2] = "parts" /\ 1 + 1 = 2
    BY DEF BackupTable
  <2>3. NextState(BackupTable, "begin") = BackupTable[2]
    BY <1>1, <2>1, <2>2, NextIs
  <2> QED BY <2>2, <2>3
<1>4. NextState(BackupTable, "parts") = "mfsparts"
  <2>1. \A m \in DOMAIN BackupTable : BackupTable[m] = "parts" <=> m = 2
    BY SMTT(30) DEF BackupTable
  <2>2. BackupTable[3] = "mfsparts" /\ 2 + 1 = 3
    BY DEF BackupTable
  <2>3. NextState(BackupTable, "parts") = BackupTable[3]
    BY <1>1, <2>1, <2>2, NextIs
  <2> QED BY <2>2, <2>3
<1>5. NextState(BackupTable, "mfsparts") = "zones"
  <2>1. \A m \in DOMAIN BackupTable : BackupTable[m] = "mfsparts" <=> m = 3
    BY SMTT(30) DEF BackupTable
  <2>2. BackupTable[4] = "zones" /\ 3 + 1 = 4
    BY DEF BackupTable
  <2>3. NextState(BackupTable, "mfsparts") = BackupTable[4]
    BY <1>1, <2>1, <2>2, NextIs
  <2> QED BY <2>2, <2>3
<1>6. NextState(BackupTable, "zones") = "extra"
  <2>1. \A m \in DOMAIN BackupTable : BackupTable[m] = "zones" <=> m = 4
    BY SMTT(30) DEF BackupTable
  <2>2. BackupTable[5] = "extra" /\ 4 + 1 = 5
    BY DEF BackupTable
  <2>3. NextState(BackupTable, "zones") = BackupTable[5]
    BY <1>1, <2>1, <2>2, NextIs
  <2> QED BY <2>2, <2>3
<1>7. NextState(BackupTable, "extra") = "infoend"
  <2>1. \A m \in DOMAIN BackupTable : BackupTable[m] = "extra" <=> m = 5
    BY SMTT(30) DEF BackupTable
  <2>2. BackupTable[6] = "infoend" /\ 5 + 1 = 6
    BY DEF BackupTable
  <2>3. NextState(BackupTable, "extra") = BackupTable[6]
    BY <1>1, <2>1, <2>2, NextIs
  <2> QED BY <2>2, <2>3
<1>8. NextState(BackupTable, "infoend") = "boot"
  <2>1. \A m \in DOMAIN BackupTable : BackupTable[m] = "infoend" <=> m = 6
    BY SMTT(30) DEF BackupTable
  <2>2. BackupTable[7] = "boot" /\ 6 + 1 = 7
    BY DEF BackupTable
  <2>3. NextState(BackupTable, "infoend") = BackupTable[7]
    BY <1>1, <2>1, <2>2, NextIs
  <2> QED BY <2>2, <2>3
<1>9. NextState(BackupTable, "boot") = "partitions"
  <2>1. \A m \in DOMAIN BackupTable : BackupTable[m] = "boot" <=> m = 7
    BY SMTT(30) DEF BackupTable
  <2>2. BackupTable[8] = "partitions" /\ 7 + 1 = 8
    BY DEF BackupTable
  <2>3. NextState(BackupTable, "boot") = BackupTable[8]
    BY <1>1, <2>1, <2>2, NextIs
  <2> QED BY <2>2, <2>3
<1>10. NextState(BackupTable, "partitions") = "volhdr"
  <2>1. \A m \in DOMAIN BackupTable : BackupTable[m] = "partitions" <=> m = 8
    BY SMTT(30) DEF BackupTable
  <2>2. BackupTable[9] = "volhdr" /\ 8 + 1 = 9
    BY DEF BackupTable
  <2>3. NextState(BackupTable, "partitions") = BackupTable[9]
    BY <1>1, <2>1, <2>2, NextIs
  <2> QED BY <2>2, <2>3
<1>11. NextState(BackupTable, "volhdr") = "inodes"
  <2>1. \A m \in DOMAIN BackupTable : BackupTable[m] = "volhdr" <=> m = 9
    BY SMTT(30) DEF BackupTable
  <2>2. BackupTable[10] = "inodes" /\ 9 + 1 = 10
    BY DEF BackupTable
  <2>3. NextState(BackupTable, "volhdr") = BackupTable[10]
    BY <1>1, <2>1, <2>2, NextIs
  <2> QED BY <2>2, <2>3
<1>12. NextState(BackupTable, "inodes") = "complete"
  <2>1. \A m \in DOMAIN BackupTable : BackupTable[m] = "inodes" <=> m = 10
    BY SMTT(30) DEF BackupTable
  <2>2. BackupTable[11] = "complete" /\ 10 + 1 = 11
    BY DEF BackupTable
  <2>3. NextState(BackupTable, "inodes") = BackupTable[11]
    BY <1>1, <2>1, <2>2, NextIs
  <2> QED BY <2>2, <2>3
<1>13. NextState(BackupTable, "complete") = "max"
  <2>1. \A m \in DOMAIN BackupTable : BackupTable[m] = "complete" <=> m = 11
    BY SMTT(30) DEF BackupTable
  <2>2. BackupTable[12] = "max" /\ 11 + 1 = 12
    BY DEF BackupTable
  <2>3. NextState(BackupTable, "complete") = BackupTable[12]
    BY <1>1, <2>1, <2>2, NextIs
  <2> QED BY <2>2, <2>3
<1> QED BY <1>2, <1>3, <1>4, <1>5, <1>6, <1>7, <1>8, <1>9, <1>10, <1>11, <1>12, <1>13

\* The states of the restore, and which follows which.
LEMMA RestoreGoesOn ==
  /\ States(RestoreTable) = {"begin", "parts", "mfsparts", "zones", "extra", "infoend",
                          "boot", "partitions", "mfsinit", "volhdr", "translog", "unkregion", "reinit", "inodes", "complete", "max"}
  /\ NextState(RestoreTable, "begin") = "parts"
  /\ NextState(RestoreTable, "parts") = "mfsparts"
  /\ NextState(RestoreTable, "mfsparts") = "zones"
  /\ NextState(RestoreTable, "zones") = "extra"
  /\ NextState(RestoreTable, "extra") = "infoend"
  /\ NextState(RestoreTable, "infoend") = "boot"
  /\ NextState(RestoreTable, "boot") = "partitions"
  /\ NextState(RestoreTable, "partitions") = "mfsinit"
  /\ NextState(RestoreTable, "mfsinit") = "volhdr"
  /\ NextState(RestoreTable, "volhdr") = "translog"
  /\ NextState(RestoreTable, "translog") = "unkregion"
  /\ NextState(RestoreTable, "unkregion") = "reinit"
  /\ NextState(RestoreTable, "reinit") = "inodes"
  /\ NextState(RestoreTable, "inodes") = "complete"
  /\ NextState(RestoreTable, "complete") = "max"
<1>1. DOMAIN RestoreTable = 1..16
  BY DEF RestoreTable
<1>2. States(RestoreTable) = {"begin", "parts", "mfsparts", "zones", "extra", "infoend",
                          "boot", "partitions", "mfsinit", "volhdr", "translog", "unkregion", "reinit", "inodes", "complete", "max"}
  <2>1. \A i \in 1..16 : i = 1 \/ i = 2 \/ i = 3 \/ i = 4 \/ i = 5 \/ i = 6 \/ i = 7 \/ i = 8
                        \/ i = 9 \/ i = 10 \/ i = 11 \/ i = 12 \/ i = 13 \/ i = 14 \/ i = 15 \/ i = 16
    OBVIOUS
  <2> QED BY <1>1, <2>1, SMTT(40) DEF RestoreTable, States
<1>3. NextState(RestoreTable, "begin") = "parts"
  <2>1. \A m \in DOMAIN RestoreTable : RestoreTable[m] = "begin" <=> m = 1
    BY SMTT(30) DEF RestoreTable
  <2>2. RestoreTable[2] = "parts" /\ 1 + 1 = 2
    BY DEF RestoreTable
  <2>3. NextState(RestoreTable, "begin") = RestoreTable[2]
    BY <1>1, <2>1, <2>2, NextIs
  <2> QED BY <2>2, <2>3
<1>4. NextState(RestoreTable, "parts") = "mfsparts"
  <2>1. \A m \in DOMAIN RestoreTable : RestoreTable[m] = "parts" <=> m = 2
    BY SMTT(30) DEF RestoreTable
  <2>2. RestoreTable[3] = "mfsparts" /\ 2 + 1 = 3
    BY DEF RestoreTable
  <2>3. NextState(RestoreTable, "parts") = RestoreTable[3]
    BY <1>1, <2>1, <2>2, NextIs
  <2> QED BY <2>2, <2>3
<1>5. NextState(RestoreTable, "mfsparts") = "zones"
  <2>1. \A m \in DOMAIN RestoreTable : RestoreTable[m] = "mfsparts" <=> m = 3
    BY SMTT(30) DEF RestoreTable
  <2>2. RestoreTable[4] = "zones" /\ 3 + 1 = 4
    BY DEF RestoreTable
  <2>3. NextState(RestoreTable, "mfsparts") = RestoreTable[4]
    BY <1>1, <2>1, <2>2, NextIs
  <2> QED BY <2>2, <2>3
<1>6. NextState(RestoreTable, "zones") = "extra"
  <2>1. \A m \in DOMAIN RestoreTable : RestoreTable[m] = "zones" <=> m = 4
    BY SMTT(30) DEF RestoreTable
  <2>2. RestoreTable[5] = "extra" /\ 4 + 1 = 5
    BY DEF RestoreTable
  <2>3. NextState(RestoreTable, "zones") = RestoreTable[5]
    BY <1>1, <2>1, <2>2, NextIs
  <2> QED BY <2>2, <2>3
<1>7. NextState(RestoreTable, "extra") = "infoend"
  <2>1. \A m \in DOMAIN RestoreTable : RestoreTable[m] = "extra" <=> m = 5
    BY SMTT(30) DEF RestoreTable
  <2>2. RestoreTable[6] = "infoend" /\ 5 + 1 = 6
    BY DEF RestoreTable
  <2>3. NextState(RestoreTable, "extra") = RestoreTable[6]
    BY <1>1, <2>1, <2>2, NextIs
  <2> QED BY <2>2, <2>3
<1>8. NextState(RestoreTable, "infoend") = "boot"
  <2>1. \A m \in DOMAIN RestoreTable : RestoreTable[m] = "infoend" <=> m = 6
    BY SMTT(30) DEF RestoreTable
  <2>2. RestoreTable[7] = "boot" /\ 6 + 1 = 7
    BY DEF RestoreTable
  <2>3. NextState(RestoreTable, "infoend") = RestoreTable[7]
    BY <1>1, <2>1, <2>2, NextIs
  <2> QED BY <2>2, <2>3
<1>9. NextState(RestoreTable, "boot") = "partitions"
  <2>1. \A m \in DOMAIN RestoreTable : RestoreTable[m] = "boot" <=> m = 7
    BY SMTT(30) DEF RestoreTable
  <2>2. RestoreTable[8] = "partitions" /\ 7 + 1 = 8
    BY DEF RestoreTable
  <2>3. NextState(RestoreTable, "boot") = RestoreTable[8]
    BY <1>1, <2>1, <2>2, NextIs
  <2> QED BY <2>2, <2>3
<1>10. NextState(RestoreTable, "partitions") = "mfsinit"
  <2>1. \A m \in DOMAIN RestoreTable : RestoreTable[m] = "partitions" <=> m = 8
    BY SMTT(30) DEF RestoreTable
  <2>2. RestoreTable[9] = "mfsinit" /\ 8 + 1 = 9
    BY DEF RestoreTable
  <2>3. NextState(RestoreTable, "partitions") = RestoreTable[9]
    BY <1>1, <2>1, <2>2, NextIs
  <2> QED BY <2>2, <2>3
<1>11. NextState(RestoreTable, "mfsinit") = "volhdr"
  <2>1. \A m \in DOMAIN RestoreTable : RestoreTable[m] = "mfsinit" <=> m = 9
    BY SMTT(30) DEF RestoreTable
  <2>2. RestoreTable[10] = "volhdr" /\ 9 + 1 = 10
    BY DEF RestoreTable
  <2>3. NextState(RestoreTable, "mfsinit") = RestoreTable[10]
    BY <1>1, <2>1, <2>2, NextIs
  <2> QED BY <2>2, <2>3
<1>12. NextState(RestoreTable, "volhdr") = "translog"
  <2>1. \A m \in DOMAIN RestoreTable : RestoreTable[m] = "volhdr" <=> m = 10
    BY SMTT(30) DEF RestoreTable
  <2>2. RestoreTable[11] = "translog" /\ 10 + 1 = 11
    BY DEF RestoreTable
  <2>3. NextState(RestoreTable, "volhdr") = RestoreTable[11]
    BY <1>1, <2>1, <2>2, NextIs
  <2> QED BY <2>2, <2>3
<1>13. NextState(RestoreTable, "translog") = "unkregion"
  <2>1. \A m \in DOMAIN RestoreTable : RestoreTable[m] = "translog" <=> m = 11
    BY SMTT(30) DEF RestoreTable
  <2>2. RestoreTable[12] = "unkregion" /\ 11 + 1 = 12
    BY DEF RestoreTable
  <2>3. NextState(RestoreTable, "translog") = RestoreTable[12]
    BY <1>1, <2>1, <2>2, NextIs
  <2> QED BY <2>2, <2>3
<1>14. NextState(RestoreTable, "unkregion") = "reinit"
  <2>1. \A m \in DOMAIN RestoreTable : RestoreTable[m] = "unkregion" <=> m = 12
    BY SMTT(30) DEF RestoreTable
  <2>2. RestoreTable[13] = "reinit" /\ 12 + 1 = 13
    BY DEF RestoreTable
  <2>3. NextState(RestoreTable, "unkregion") = RestoreTable[13]
    BY <1>1, <2>1, <2>2, NextIs
  <2> QED BY <2>2, <2>3
<1>15. NextState(RestoreTable, "reinit") = "inodes"
  <2>1. \A m \in DOMAIN RestoreTable : RestoreTable[m] = "reinit" <=> m = 13
    BY SMTT(30) DEF RestoreTable
  <2>2. RestoreTable[14] = "inodes" /\ 13 + 1 = 14
    BY DEF RestoreTable
  <2>3. NextState(RestoreTable, "reinit") = RestoreTable[14]
    BY <1>1, <2>1, <2>2, NextIs
  <2> QED BY <2>2, <2>3
<1>16. NextState(RestoreTable, "inodes") = "complete"
  <2>1. \A m \in DOMAIN RestoreTable : RestoreTable[m] = "inodes" <=> m = 14
    BY SMTT(30) DEF RestoreTable
  <2>2. RestoreTable[15] = "complete" /\ 14 + 1 = 15
    BY DEF RestoreTable
  <2>3. NextState(RestoreTable, "inodes") = RestoreTable[15]
    BY <1>1, <2>1, <2>2, NextIs
  <2> QED BY <2>2, <2>3
<1>17. NextState(RestoreTable, "complete") = "max"
  <2>1. \A m \in DOMAIN RestoreTable : RestoreTable[m] = "complete" <=> m = 15
    BY SMTT(30) DEF RestoreTable
  <2>2. RestoreTable[16] = "max" /\ 15 + 1 = 16
    BY DEF RestoreTable
  <2>3. NextState(RestoreTable, "complete") = RestoreTable[16]
    BY <1>1, <2>1, <2>2, NextIs
  <2> QED BY <2>2, <2>3
<1> QED BY <1>2, <1>3, <1>4, <1>5, <1>6, <1>7, <1>8, <1>9, <1>10, <1>11, <1>12, <1>13, <1>14, <1>15, <1>16, <1>17

-----------------------------------------------------------------------------
(* The writer.                                                             *)

\* What a handler may leave of the info structure.
Leaves(info) ==
  /\ DOMAIN info = DOMAIN b /\ info.state = b.state /\ info.shared \in 0..(SECTOR - 1)
  /\ info.val1 \in Nat /\ info.val2 \in Nat /\ info.ptr \in BOOLEAN
  /\ info.ratio = b.ratio /\ info.compressed = b.compressed

\* What backup_next_sectors does with a handler's answer.
LEMMA AnswerKeeps ==
  ASSUME BackupTyped, NEW ret, NEW info, NEW page, NEW consumed,
         Answer(ret, info, page, consumed),
         consumed \in 0..bcall.room, PlainList(page), consumed * SECTOR <= Len(page),
         Leaves(info), b.state # "max"
  PROVE  /\ BackupTyped'
         /\ ret = "more" => /\ b'.state = b.state /\ b'.val1 = info.val1
                            /\ b'.val2 = info.val2 /\ b'.ptr = info.ptr
         /\ ret # "more" => /\ b'.state = NextState(BackupTable, b.state) /\ b'.val1 = 0
                            /\ b'.val2 = 0 /\ b'.ptr = FALSE
<1>1. PICK n \in Nat : n = consumed * SECTOR /\ n <= Len(page)
  BY DriveAssumption DEF BackupTyped
<1>2. PICK sent : sent = SubSeq(page, 1, n)
  OBVIOUS
<1>3. PlainList(sent)
  <2>1. IsList(page) /\ 1 \in 1..(Len(page) + 1) /\ n \in 0..Len(page) /\ 1 <= n + 1
    BY <1>1 DEF PlainList, IsList
  <2> QED BY <1>2, <2>1, PartOfUnits
<1>4. PlainList(SubSeq(page, n + 1, Len(page)))
  <2>1. IsList(page) /\ n + 1 \in 1..(Len(page) + 1) /\ Len(page) \in 0..Len(page) /\ n + 1 <= Len(page) + 1
    BY <1>1 DEF PlainList, IsList
  <2> QED BY <2>1, PartOfUnits
<1>5. PlainList(bcall.out \o sent)
  BY <1>3, UnitsJoined DEF BackupTyped
<1>6. /\ DOMAIN bcall' = DOMAIN bcall /\ bcall'.room = bcall.room - consumed
      /\ bcall'.out = bcall.out \o sent /\ bcall'.size = bcall.size
      /\ bcall'.page = SubSeq(page, n + 1, Len(page))
  BY <1>1, <1>2 DEF Answer, BackupTyped
<1>7. /\ UNCHANGED <<bpc, zip, bout>>
      /\ DOMAIN b' = DOMAIN b /\ b'.shared = info.shared /\ b'.ratio = b.ratio
      /\ b'.compressed = b.compressed
      /\ ret = "more" => /\ b'.state = b.state /\ b'.val1 = info.val1
                         /\ b'.val2 = info.val2 /\ b'.ptr = info.ptr
      /\ ret # "more" => /\ b'.state = NextState(BackupTable, b.state) /\ b'.val1 = 0
                         /\ b'.val2 = 0 /\ b'.ptr = FALSE
  BY DEF Answer, BackupTyped, Leaves
<1>8. b'.state \in States(BackupTable)
  BY <1>7, BackupGoesOn DEF BackupTyped
<1>9. b'.val1 \in Nat /\ b'.val2 \in Nat /\ b'.ptr \in BOOLEAN
  <2>1. CASE ret = "more"
    BY <1>7, <2>1 DEF Leaves
  <2>2. CASE ret # "more"
    <3>1. b'.val1 = 0 /\ b'.val2 = 0
      BY <1>7, <2>2
    <3>2. b'.ptr = FALSE
      BY <1>7, <2>2, Zenon
    <3>3. b'.ptr \in BOOLEAN
      BY <3>2, Zenon
    <3> QED BY <3>1, <3>3
  <2> QED BY <2>1, <2>2
<1>10. bcall'.room \in Nat
  BY <1>6 DEF BackupTyped
<1>11. BackupTyped'
  <2>1. b'.shared \in 0..(SECTOR - 1)
    BY <1>7 DEF Leaves
  <2> QED BY <1>4, <1>5, <1>6, <1>7, <1>8, <1>9, <1>10, <2>1 DEF BackupTyped
<1> QED BY <1>7, <1>11

\* A list of plain units, made by position.
LEMMA UnitsMade ==
  ASSUME NEW n \in Nat, NEW t, DOMAIN t = 1..n, t = [j \in 1..n |-> t[j]],
         \A j \in 1..n : Plain(t[j])
  PROVE  PlainList(t) /\ Len(t) = n
BY FunctionIsList DEF PlainList

\* What the writer knows of its source.
LEMMA SourceIs ==
  /\ PlainList(PartUnits) /\ Len(PartUnits) = Len(Drive.parts)
  /\ PlainList(MfsUnits) /\ Len(MfsUnits) = Drive.mfs
  /\ PlainList(ZoneUnits) /\ Len(ZoneUnits) = Drive.zones
  /\ \A i \in 1..Len(Drive.extra) :
       PlainList(ExtraUnits(i)) /\ Len(ExtraUnits(i)) = Drive.extra[i] /\ Drive.extra[i] \in Nat
  /\ Len(Drive.parts) \in Nat \ {0} /\ Len(Drive.files) \in Nat \ {0} /\ Len(Drive.extra) \in Nat
  /\ DOMAIN Drive.files = 1..Len(Drive.files)
  /\ \A i \in 1..Len(Drive.parts) : Drive.parts[i] \in Nat
  /\ \A i \in 1..Len(Drive.files) : Drive.files[i] \in Nat
  /\ Sum(Drive.extra) \in Nat /\ NSectors \in Nat
<1>1. /\ Len(Drive.parts) \in Nat \ {0} /\ DOMAIN Drive.parts = 1..Len(Drive.parts)
      /\ \A i \in 1..Len(Drive.parts) : Drive.parts[i] \in Nat
      /\ Drive.parts \in Seq(Nat)
  BY DriveAssumption
<1>2. Len(Drive.extra) \in Nat /\ \A i \in 1..Len(Drive.extra) : Drive.extra[i] \in Nat
  BY DriveAssumption, SMTT(40)
<1>3. /\ Len(Drive.files) \in Nat \ {0} /\ DOMAIN Drive.files = 1..Len(Drive.files)
      /\ \A i \in 1..Len(Drive.files) : Drive.files[i] \in Nat
      /\ Drive.files \in Seq(Nat)
  BY DriveAssumption
<1>4. PlainList(PartUnits) /\ Len(PartUnits) = Len(Drive.parts)
  <2>1. /\ DOMAIN PartUnits = 1..Len(Drive.parts)
        /\ PartUnits = [j \in 1..Len(Drive.parts) |-> PartUnits[j]]
        /\ \A j \in 1..Len(Drive.parts) : Plain(PartUnits[j])
    BY <1>1 DEF PartUnits, Plain
  <2> QED BY <1>1, <2>1, UnitsMade
<1>5. PlainList(MfsUnits) /\ Len(MfsUnits) = Drive.mfs
  <2>1. /\ DOMAIN MfsUnits = 1..Drive.mfs
        /\ MfsUnits = [j \in 1..Drive.mfs |-> MfsUnits[j]]
        /\ \A j \in 1..Drive.mfs : Plain(MfsUnits[j])
    BY DriveAssumption DEF MfsUnits, Plain
  <2> QED BY <2>1, DriveAssumption, UnitsMade
<1>6. PlainList(ZoneUnits) /\ Len(ZoneUnits) = Drive.zones
  <2>1. /\ DOMAIN ZoneUnits = 1..Drive.zones
        /\ ZoneUnits = [j \in 1..Drive.zones |-> ZoneUnits[j]]
        /\ \A j \in 1..Drive.zones : Plain(ZoneUnits[j])
    BY DriveAssumption DEF ZoneUnits, Plain
  <2> QED BY <2>1, DriveAssumption, UnitsMade
<1>7. ASSUME NEW i \in 1..Len(Drive.extra)
      PROVE  PlainList(ExtraUnits(i)) /\ Len(ExtraUnits(i)) = Drive.extra[i]
  <2>1. PICK n \in Nat : n = Drive.extra[i]
    BY <1>2
  <2>2. PICK t : t = ExtraUnits(i)
    OBVIOUS
  <2>3. t = [j \in 1..n |-> <<"extra", i, j>>]
    BY <2>1, <2>2 DEF ExtraUnits
  <2>4. DOMAIN t = 1..n /\ t = [j \in 1..n |-> t[j]] /\ \A j \in 1..n : Plain(t[j])
    BY <2>3 DEF Plain
  <2> QED BY <2>1, <2>2, <2>4, UnitsMade
<1>8. Sum(Drive.extra) \in Nat /\ Sum(Drive.parts) \in Nat /\ Sum(Drive.files) \in Nat
  BY <1>1, <1>3, DriveAssumption, SumIsNat
<1>9. NSectors \in Nat
  <2>1. HeaderLen \in Nat
    <3>1. HeadLen \in Nat /\ Drive.mfs \in Nat /\ Drive.zones \in Nat /\ Len(PartUnits) \in Nat
      BY <1>1, <1>4, DriveAssumption
    <3> QED BY <1>8, <3>1 DEF HeaderLen
  <2>2. PICK n \in Nat : n = HeaderLen + SECTOR - 1
    BY <2>1, DriveAssumption
  <2>3. n \div SECTOR \in Nat
    BY DriveAssumption, DivFacts
  <2> QED BY <1>1, <1>3, <1>8, <2>2, <2>3, SMTT(40) DEF NSectors, HeaderSectors
<1> QED BY <1>1, <1>2, <1>3, <1>4, <1>5, <1>6, <1>7, <1>8, <1>9

\* The fixed header is in the buffer.
LEMMA BeginKeeps == ASSUME BackupTyped, BackupBegin PROVE BackupTyped' /\ BackupWithin'
<1>1. HeadLen \in Nat /\ SECTOR \in Nat /\ HeadLen \in 0..(SECTOR - 1)
  BY DriveAssumption
<1>2. PICK t : t = [j \in 1..HeadLen |-> <<"head", b.compressed, NSectors>>]
  OBVIOUS
<1>3. PICK page : page = Put(bcall.page, 0, t)
  OBVIOUS
<1>4. PICK info, none, ret : info = [b EXCEPT !.shared = HeadLen] /\ none = 0 /\ ret = "next"
  OBVIOUS
<1>5. Answer(ret, info, page, none)
  BY <1>2, <1>3, <1>4 DEF BackupBegin, Answer
<1>6. PlainList(t)
  <2>1. DOMAIN t = 1..HeadLen /\ t = [j \in 1..HeadLen |-> t[j]] /\ \A j \in 1..HeadLen : Plain(t[j])
    BY <1>2, SourceIs DEF Plain
  <2> QED BY <1>1, <2>1, UnitsMade
<1>7. PlainList(page) /\ none * SECTOR <= Len(page)
  <2>1. IsList(t) /\ PlainList(bcall.page) /\ IsList(bcall.page)
    BY <1>6 DEF BackupTyped, PlainList
  <2>2. PlainList(page) /\ Len(page) \in Nat
    BY <1>3, <1>6, <2>1, PutUnits DEF IsList
  <2> QED BY <1>1, <1>4, <2>2
<1>8. Leaves(info)
  BY <1>1, <1>4 DEF BackupTyped, Leaves
<1>9. none \in 0..bcall.room /\ b.state = "begin" /\ b.state # "max"
  BY <1>4 DEF BackupTyped, BackupBegin
<1>10. /\ BackupTyped'
       /\ ret # "more" => /\ b'.state = NextState(BackupTable, b.state) /\ b'.val1 = 0
                          /\ b'.val2 = 0
  BY <1>5, <1>7, <1>8, <1>9, AnswerKeeps
<1>11. b'.state = "parts" /\ b'.val1 = 0
  BY <1>4, <1>9, <1>10, BackupGoesOn
<1> QED BY <1>10, <1>11, SourceIs DEF BackupWithin

\* How much of a list of the header is written or read at once.
LEMMA HeaderCountIs ==
  ASSUME NEW len \in Nat, NEW done \in 0..len, NEW shared \in 0..(SECTOR - 1), NEW room \in Nat \ {0}
  PROVE  LET count == HeaderCount(len, done, shared, room)
             end   == shared + count
         IN  /\ count \in 0..(len - done) /\ end \in Nat
             /\ end <= room * SECTOR /\ end % SECTOR \in 0..(SECTOR - 1)
             /\ end \div SECTOR \in 0..room /\ (end \div SECTOR) * SECTOR <= end
<1>1. PICK c : c = HeaderCount(len, done, shared, room)
  OBVIOUS
<1>2. PICK all \in Nat : all = room * SECTOR /\ SECTOR <= all
  <2>1. SECTOR \in Nat \ {0}
    BY DriveAssumption
  <2>2. room * SECTOR \in Nat /\ SECTOR <= room * SECTOR
    BY <2>1
  <2> QED BY <2>2
<1>3. c \in 0..(len - done) /\ shared + c \in Nat /\ shared + c <= all
  <2>1. PICK rest \in Nat : rest = len - done
    OBVIOUS
  <2>2. shared \in Nat /\ shared < SECTOR /\ SECTOR \in Nat
    BY DriveAssumption
  <2>3. c = IF rest + shared > all THEN all - shared ELSE rest
    BY <1>1, <1>2, <2>1 DEF HeaderCount
  <2>4. CASE rest + shared > all
    BY <1>2, <2>1, <2>2, <2>3, <2>4
  <2>5. CASE ~(rest + shared > all)
    BY <1>2, <2>1, <2>2, <2>3, <2>5
  <2> QED BY <2>4, <2>5
<1>4. PICK end \in Nat : end = shared + c
  BY <1>3
<1>5. PICK q \in Nat : q = end \div SECTOR /\ q * SECTOR <= end /\ end % SECTOR \in 0..(SECTOR - 1)
  BY DriveAssumption, DivFacts
<1>6. q <= room
  <2>1. q * SECTOR \in Nat /\ room * SECTOR \in Nat /\ SECTOR \in Nat \ {0}
    BY DriveAssumption
  <2>2. q * SECTOR <= room * SECTOR
    BY <1>2, <1>3, <1>4, <1>5, <2>1
  <2> QED BY <2>1, <2>2, TimesOrder
<1> QED BY <1>1, <1>2, <1>3, <1>4, <1>5, <1>6

\* backup_write_header goes on with its list, begins the next one or is over.
LEMMA HeaderKeeps ==
  ASSUME BackupTyped, NEW units, NEW last \in BOOLEAN, NEW info, WriteHeader(units, last, info),
         PlainList(units), b.val1 <= Len(units), Leaves(info), info.val1 = b.val1, b.state # "max"
  PROVE  /\ BackupTyped'
         /\ \/ b'.state = b.state /\ b'.val1 <= Len(units) /\ b'.val2 = b.val2
            \/ ~last /\ b'.state = b.state /\ b'.val1 = 0 /\ b'.val2 = info.val2
            \/ last /\ b'.state = NextState(BackupTable, b.state) /\ b'.val1 = 0 /\ b'.val2 = 0
<1>0. /\ bcall.room \in Nat \ {0} /\ b.shared \in 0..(SECTOR - 1) /\ b.val1 \in 0..Len(units)
      /\ Len(units) \in Nat /\ b.shared \in Nat /\ SECTOR \in Nat \ {0}
  BY DriveAssumption DEF BackupTyped, WriteHeader, Answer, PlainList, IsList
<1>1. PICK count, end :
        /\ count = HeaderCount(Len(units), b.val1, b.shared, bcall.room) /\ end = b.shared + count
        /\ count \in Nat /\ b.val1 + count \in Nat /\ b.val1 + count <= Len(units)
        /\ count \in 0..(Len(units) - b.val1) /\ end \in Nat
        /\ end % SECTOR \in 0..(SECTOR - 1)
        /\ end \div SECTOR \in 0..bcall.room /\ (end \div SECTOR) * SECTOR <= end
  <2>1. PICK count : count = HeaderCount(Len(units), b.val1, b.shared, bcall.room)
    OBVIOUS
  <2>2. PICK end : end = b.shared + count
    OBVIOUS
  <2>3. /\ count \in 0..(Len(units) - b.val1) /\ end \in Nat
        /\ end % SECTOR \in 0..(SECTOR - 1)
        /\ end \div SECTOR \in 0..bcall.room /\ (end \div SECTOR) * SECTOR <= end
    BY <1>0, <2>1, <2>2, HeaderCountIs
  <2>4. b.val1 \in Nat
    BY DEF BackupTyped
  <2>5. count \in Nat /\ b.val1 + count \in Nat /\ b.val1 + count <= Len(units)
    BY <1>0, <2>3, <2>4
  <2> QED BY <2>1, <2>2, <2>3, <2>5
<1>2. PICK all \in BOOLEAN : all = (b.val1 + count = Len(units))
  OBVIOUS
<1>3. PICK t : t = SubSeq(units, b.val1 + 1, b.val1 + count)
  OBVIOUS
<1>4. PICK page : page = Put(bcall.page, b.shared, t)
  OBVIOUS
<1>5. PICK left : left = IF all /\ ~last THEN [info EXCEPT !.shared = end % SECTOR, !.val1 = 0]
                         ELSE [info EXCEPT !.shared = end % SECTOR, !.val1 = @ + count,
                                           !.val2 = IF all THEN @ ELSE b.val2]
  OBVIOUS
<1>6. PICK ret : ret = IF all /\ last THEN "next" ELSE "more"
  OBVIOUS
<1>7. PICK consumed : consumed = end \div SECTOR
  OBVIOUS
<1>8. Answer(ret, left, page, consumed)
  BY <1>1, <1>2, <1>3, <1>4, <1>5, <1>6, <1>7, ZenonT(60) DEF WriteHeader, Answer
<1>9. PlainList(t) /\ Len(t) = count
  <2>0. PICK v \in Nat : v = b.val1
    BY DEF BackupTyped
  <2>1. PICK m, n \in Nat : m = v + 1 /\ n = v + count
    BY <1>1, <2>0
  <2>2. PICK len \in Nat : len = Len(units) /\ n <= len
    BY <1>0, <1>1, <2>0, <2>1
  <2>3. /\ IsList(units) /\ m \in 1..(Len(units) + 1) /\ n \in 0..Len(units) /\ m <= n + 1
        /\ n - m + 1 = count
    BY <1>1, <2>1, <2>2 DEF PlainList
  <2> QED BY <1>3, <2>0, <2>1, <2>3, PartOfList, PartOfUnits
<1>10. PlainList(page) /\ end <= Len(page)
  <2>1. IsList(bcall.page) /\ IsList(t) /\ PlainList(bcall.page)
    BY <1>9 DEF BackupTyped, PlainList
  <2>2. /\ PlainList(page)
        /\ Len(page) = IF Len(bcall.page) > b.shared + Len(t) THEN Len(bcall.page) ELSE b.shared + Len(t)
    BY <1>0, <1>4, <1>9, <2>1, PutUnits
  <2>3. Len(bcall.page) \in Nat
    BY <2>1 DEF IsList
  <2> QED BY <1>1, <1>9, <2>2, <2>3
<1>11. consumed \in 0..bcall.room /\ consumed * SECTOR <= Len(page)
  <2>1. Len(page) \in Nat
    BY <1>10 DEF PlainList, IsList
  <2>2. consumed \in Nat /\ consumed \in 0..bcall.room /\ consumed * SECTOR <= end
    BY <1>0, <1>1, <1>7
  <2>3. consumed * SECTOR \in Nat
    BY <1>0, <2>2
  <2> QED BY <1>1, <1>10, <2>1, <2>2, <2>3
<1>12. /\ DOMAIN left = DOMAIN info /\ left.state = info.state /\ left.shared = end % SECTOR
       /\ left.ptr = info.ptr /\ left.ratio = info.ratio /\ left.compressed = info.compressed
       /\ all /\ ~last => left.val1 = 0 /\ left.val2 = info.val2
       /\ ~(all /\ ~last) => left.val1 = info.val1 + count
       /\ ~all => left.val2 = b.val2
       /\ all => left.val2 = info.val2
  <2>1. DOMAIN info = {"state", "val1", "val2", "ptr", "shared", "cursector", "crc",
                       "compressed", "ratio"}
    BY DEF Leaves, BackupTyped
  <2>2. CASE all /\ ~last
    BY <1>5, <2>1, <2>2
  <2>3. CASE ~(all /\ ~last)
    BY <1>5, <2>1, <2>3
  <2> QED BY <2>2, <2>3
<1>13. left.val1 \in Nat /\ left.val2 \in Nat
  <2>1. b.val2 \in Nat /\ info.val2 \in Nat
    BY DEF Leaves, BackupTyped
  <2>2. CASE all /\ ~last
    BY <1>12, <2>1, <2>2
  <2>3. CASE ~(all /\ ~last)
    BY <1>1, <1>12, <2>1, <2>3
  <2> QED BY <2>2, <2>3
<1>14. /\ BackupTyped'
       /\ ret = "more" => b'.state = b.state /\ b'.val1 = left.val1 /\ b'.val2 = left.val2
       /\ ret # "more" => /\ b'.state = NextState(BackupTable, b.state) /\ b'.val1 = 0
                          /\ b'.val2 = 0
  <2>1. Leaves(left)
    BY <1>1, <1>12, <1>13 DEF Leaves
  <2> QED BY <1>8, <1>10, <1>11, <2>1, AnswerKeeps
<1>15. left.val1 <= Len(units)
  BY <1>0, <1>1, <1>12
<1> QED BY <1>6, <1>12, <1>14, <1>15

\* The three lists of the header ...
LEMMA ListsKeep == ASSUME BackupTyped, BackupWithin, BackupHeader PROVE BackupTyped' /\ BackupWithin'
<1>1. Leaves(b)
  BY DEF Leaves, BackupTyped
<1>2. PICK info : info = b
  OBVIOUS
<1>3. CASE b.state = "parts" /\ WriteHeader(PartUnits, TRUE, b)
  <2>1. PICK units : units = PartUnits
    OBVIOUS
  <2>2. WriteHeader(units, TRUE, info)
    BY <1>2, <1>3, <2>1 DEF WriteHeader, Answer
  <2>3. /\ PlainList(units) /\ b.val1 <= Len(units) /\ Leaves(info) /\ info.val1 = b.val1
        /\ b.state # "max" /\ Len(units) = Len(Drive.parts)
    BY <1>1, <1>2, <1>3, <2>1, SourceIs DEF BackupWithin
  <2>4. /\ BackupTyped'
        /\ \/ b'.state = "parts" /\ b'.val1 <= Len(units)
           \/ b'.state = "mfsparts" /\ b'.val1 = 0
    BY <1>3, <2>2, <2>3, HeaderKeeps, BackupGoesOn
  <2> QED BY <2>3, <2>4, DriveAssumption, SMTT(40) DEF BackupWithin
<1>4. CASE b.state = "mfsparts" /\ WriteHeader(MfsUnits, TRUE, b)
  <2>1. PICK units : units = MfsUnits
    OBVIOUS
  <2>2. WriteHeader(units, TRUE, info)
    BY <1>2, <1>4, <2>1 DEF WriteHeader, Answer
  <2>3. /\ PlainList(units) /\ b.val1 <= Len(units) /\ Leaves(info) /\ info.val1 = b.val1
        /\ b.state # "max" /\ Len(units) = Drive.mfs
    BY <1>1, <1>2, <1>4, <2>1, SourceIs DEF BackupWithin
  <2>4. /\ BackupTyped'
        /\ \/ b'.state = "mfsparts" /\ b'.val1 <= Len(units)
           \/ b'.state = "zones" /\ b'.val1 = 0
    BY <1>4, <2>2, <2>3, HeaderKeeps, BackupGoesOn
  <2> QED BY <2>3, <2>4, DriveAssumption DEF BackupWithin
<1>5. CASE b.state = "zones" /\ WriteHeader(ZoneUnits, TRUE, b)
  <2>1. PICK units : units = ZoneUnits
    OBVIOUS
  <2>2. WriteHeader(units, TRUE, info)
    BY <1>2, <1>5, <2>1 DEF WriteHeader, Answer
  <2>3. /\ PlainList(units) /\ b.val1 <= Len(units) /\ Leaves(info) /\ info.val1 = b.val1
        /\ b.state # "max" /\ Len(units) = Drive.zones
    BY <1>1, <1>2, <1>5, <2>1, SourceIs DEF BackupWithin
  <2>4. /\ BackupTyped'
        /\ \/ b'.state = "zones" /\ b'.val1 <= Len(units)
           \/ b'.state = "extra" /\ b'.val1 = 0 /\ b'.val2 = 0
    BY <1>5, <2>2, <2>3, HeaderKeeps, BackupGoesOn
  <2>5. 0 < Len(Drive.extra) => 0 <= Drive.extra[0 + 1]
    BY SourceIs
  <2> QED BY <2>3, <2>4, <2>5 DEF BackupWithin
<1> QED BY <1>3, <1>4, <1>5 DEF BackupHeader

\* ... and the named strings, one after another.
LEMMA ExtraKeeps == ASSUME BackupTyped, BackupWithin, BackupExtra PROVE BackupTyped' /\ BackupWithin'
<1>1. CASE b.val2 < Len(Drive.extra)
  <2>1. PICK n \in 1..Len(Drive.extra) : n = b.val2 + 1
    BY <1>1, SourceIs DEF BackupTyped
  <2>2. PICK units : units = ExtraUnits(n)
    OBVIOUS
  <2>3. PICK info : info = [b EXCEPT !.val2 = @ + 1]
    OBVIOUS
  <2>4. /\ b.state = "extra"
        /\ WriteHeader(ExtraUnits(b.val2 + 1), b.val2 + 1 = Len(Drive.extra),
                       [b EXCEPT !.val2 = @ + 1])
    BY <1>1 DEF BackupExtra, WriteHeader, Answer
  <2>5. \E last \in BOOLEAN : b.state = "extra" /\ WriteHeader(units, last, info)
    <3>1. CASE b.val2 + 1 = Len(Drive.extra)
      <4>1. WriteHeader(units, TRUE, info)
        BY <2>1, <2>2, <2>3, <2>4, <3>1 DEF WriteHeader, Answer
      <4> QED BY <2>4, <4>1
    <3>2. CASE b.val2 + 1 # Len(Drive.extra)
      <4>1. WriteHeader(units, FALSE, info)
        BY <2>1, <2>2, <2>3, <2>4, <3>2 DEF WriteHeader, Answer
      <4> QED BY <2>4, <4>1
    <3> QED BY <3>1, <3>2
  <2>6. /\ PlainList(units) /\ b.val1 <= Len(units) /\ Leaves(info) /\ info.val1 = b.val1
        /\ info.val2 = n /\ Len(units) = Drive.extra[n]
    <3>1. Leaves(info) /\ info.val1 = b.val1 /\ info.val2 = n
      BY <2>1, <2>3 DEF Leaves, BackupTyped
    <3>2. b.val1 <= Drive.extra[n]
      BY <1>1, <2>1, <2>5 DEF BackupWithin
    <3> QED BY <2>2, <3>1, <3>2, SourceIs
  <2>7. /\ BackupTyped'
        /\ \/ b'.state = "extra" /\ b'.val1 <= Len(units) /\ b'.val2 = b.val2
           \/ b'.state = "extra" /\ b'.val1 = 0
           \/ b'.state = "infoend"
    BY <2>5, <2>6, HeaderKeeps, BackupGoesOn
  <2>8. b'.val2 = b.val2 => b'.val2 + 1 = n
    BY <2>1
  <2>9. b'.state = "extra" /\ b'.val2 < Len(Drive.extra) => b'.val1 <= Drive.extra[b'.val2 + 1]
    <3>1. CASE b'.val1 <= Len(units) /\ b'.val2 = b.val2
      BY <2>6, <2>8, <3>1
    <3>2. CASE b'.val1 = 0
      <4>1. b'.val2 \in Nat
        BY <2>7 DEF BackupTyped
      <4>2. b'.val2 < Len(Drive.extra) => b'.val2 + 1 \in 1..Len(Drive.extra)
        BY <4>1, SourceIs
      <4>3. b'.val2 < Len(Drive.extra) => 0 <= Drive.extra[b'.val2 + 1]
        BY <4>2, SourceIs
      <4> QED BY <3>2, <4>3
    <3> QED BY <2>7, <3>1, <3>2
  <2> QED BY <2>7, <2>9 DEF BackupWithin
<1>2. CASE ~(b.val2 < Len(Drive.extra))
  <2>1. PICK info, page, none, ret : info = b /\ page = bcall.page /\ none = 0 /\ ret = "next"
    OBVIOUS
  <2>2. b.state = "extra" /\ Answer(ret, info, page, none)
    BY <1>2, <2>1 DEF BackupExtra, Answer
  <2>3. Leaves(info) /\ none \in 0..bcall.room /\ PlainList(page) /\ none * SECTOR <= Len(page)
    BY <2>1, DriveAssumption DEF Leaves, BackupTyped, PlainList, IsList
  <2>4. /\ BackupTyped'
        /\ ret # "more" => b'.state = NextState(BackupTable, b.state)
    BY <2>2, <2>3, AnswerKeeps
  <2>5. b'.state = "infoend"
    BY <2>1, <2>2, <2>4, BackupGoesOn
  <2> QED BY <2>4, <2>5 DEF BackupWithin
<1> QED BY <1>1, <1>2

\* Zeros up to the end of the header's last sector.
LEMMA InfoEndKeeps == ASSUME BackupTyped, BackupInfoEnd PROVE BackupTyped' /\ BackupWithin'
<1>1. CASE b.shared > 0
  <2>1. PICK n \in Nat : n = SECTOR - b.shared /\ b.shared + n = SECTOR
    <3>1. SECTOR \in Nat /\ b.shared \in Nat /\ b.shared <= SECTOR
      BY DriveAssumption DEF BackupTyped
    <3> QED BY <3>1
  <2>2. PICK t : t = Zeros(n)
    OBVIOUS
  <2>3. PICK page : page = Put(bcall.page, b.shared, t)
    OBVIOUS
  <2>4. PICK info, one, ret : info = [b EXCEPT !.shared = 0] /\ one = 1 /\ ret = "next"
    OBVIOUS
  <2>5. b.state = "infoend" /\ Answer(ret, info, page, one)
    BY <1>1, <2>1, <2>2, <2>3, <2>4 DEF BackupInfoEnd, Answer
  <2>6. PlainList(t) /\ Len(t) = n
    <3>1. DOMAIN t = 1..n /\ t = [j \in 1..n |-> t[j]] /\ \A j \in 1..n : Plain(t[j])
      BY <2>2 DEF Zeros, Plain
    <3> QED BY <3>1, UnitsMade
  <2>7. PlainList(page) /\ one * SECTOR <= Len(page)
    <3>1. b.shared \in Nat /\ IsList(bcall.page) /\ IsList(t) /\ PlainList(bcall.page)
      BY <2>6, DriveAssumption DEF BackupTyped, PlainList
    <3>2. /\ PlainList(page)
          /\ Len(page) = IF Len(bcall.page) > SECTOR THEN Len(bcall.page) ELSE SECTOR
      BY <2>1, <2>3, <2>6, <3>1, PutUnits
    <3>3. Len(bcall.page) \in Nat /\ SECTOR \in Nat
      BY <3>1, DriveAssumption DEF IsList
    <3> QED BY <2>4, <3>2, <3>3
  <2>8. Leaves(info) /\ one \in 0..bcall.room
    <3>1. bcall.room \in Nat /\ bcall.room > 0
      BY <2>5 DEF Answer, BackupTyped
    <3>2. Leaves(info)
      BY <2>4, DriveAssumption DEF Leaves, BackupTyped
    <3> QED BY <2>4, <3>1, <3>2
  <2>9. /\ BackupTyped'
        /\ ret # "more" => b'.state = NextState(BackupTable, b.state)
    BY <2>5, <2>7, <2>8, AnswerKeeps
  <2>10. b'.state = "boot"
    BY <2>4, <2>5, <2>9, BackupGoesOn
  <2> QED BY <2>9, <2>10 DEF BackupWithin
<1>2. CASE ~(b.shared > 0)
  <2>1. PICK info, page, none, ret : info = b /\ page = bcall.page /\ none = 0 /\ ret = "next"
    OBVIOUS
  <2>2. b.state = "infoend" /\ Answer(ret, info, page, none)
    BY <1>2, <2>1 DEF BackupInfoEnd, Answer
  <2>3. Leaves(info) /\ none \in 0..bcall.room /\ PlainList(page) /\ none * SECTOR <= Len(page)
    BY <2>1, DriveAssumption DEF Leaves, BackupTyped, PlainList, IsList
  <2>4. /\ BackupTyped'
        /\ ret # "more" => b'.state = NextState(BackupTable, b.state)
    BY <2>2, <2>3, AnswerKeeps
  <2>5. b'.state = "boot"
    BY <2>1, <2>2, <2>4, BackupGoesOn
  <2> QED BY <2>4, <2>5 DEF BackupWithin
<1> QED BY <1>1, <1>2

\* Sectors of raw data are plain units, SECTOR of them each.
LEMMA DataIsPlain ==
  ASSUME NEW sort, sort # "zip", NEW n, NEW from \in Nat, NEW count \in Nat
  PROVE  /\ PlainList(DataSectors(sort, n, from, count))
         /\ Len(DataSectors(sort, n, from, count)) = count * SECTOR
<1>1. PICK m \in Nat : m = count * SECTOR
  BY DriveAssumption
<1>2. PICK k \in Nat : k = from * SECTOR
  BY DriveAssumption
<1>3. PICK t : t = DataSectors(sort, n, from, count)
  OBVIOUS
<1>4. t = [j \in 1..m |-> <<sort, n, k + j>>]
  BY <1>1, <1>2, <1>3 DEF DataSectors
<1>5. DOMAIN t = 1..m /\ t = [j \in 1..m |-> t[j]] /\ \A j \in 1..m : Plain(t[j])
  BY <1>4 DEF Plain
<1>6. PlainList(t) /\ Len(t) = m
  BY <1>5, UnitsMade
<1> QED BY <1>1, <1>3, <1>6

\* A sector whose first or last unit says something.
LEMMA OneOfZeros ==
  ASSUME NEW u, Plain(u)
  PROVE  /\ PlainList(<<u>> \o Zeros(SECTOR - 1)) /\ Len(<<u>> \o Zeros(SECTOR - 1)) = SECTOR
         /\ PlainList(Zeros(SECTOR - 1) \o <<u>>) /\ Len(Zeros(SECTOR - 1) \o <<u>>) = SECTOR
<1>1. PICK n \in Nat : n = SECTOR - 1 /\ n + 1 = SECTOR /\ 1 + n = SECTOR
  BY DriveAssumption
<1>2. PICK t : t = Zeros(n)
  OBVIOUS
<1>3. PlainList(t) /\ Len(t) = n
  <2>1. DOMAIN t = 1..n /\ t = [j \in 1..n |-> t[j]] /\ \A j \in 1..n : Plain(t[j])
    BY <1>2 DEF Zeros, Plain
  <2> QED BY <2>1, UnitsMade
<1>4. PICK s : s = <<u>>
  OBVIOUS
<1>5. PlainList(s) /\ Len(s) = 1
  <2>1. IsList(s) /\ Len(s) = 1 /\ s[1] = u
    BY <1>4, ShortLists
  <2> QED BY <2>1 DEF PlainList
<1>6. PlainList(s \o t) /\ PlainList(t \o s)
  BY <1>3, <1>5, UnitsJoined
<1>7. Len(s \o t) = SECTOR /\ Len(t \o s) = SECTOR
  <2>1. IsList(s) /\ IsList(t)
    BY <1>3, <1>5 DEF PlainList
  <2>2. Len(s \o t) = Len(s) + Len(t) /\ Len(t \o s) = Len(t) + Len(s)
    BY <2>1, ListsJoined
  <2> QED BY <1>1, <1>3, <1>5, <2>2
<1> QED BY <1>1, <1>2, <1>4, <1>6, <1>7

\* The boot block and the volume header.
LEMMA OneSectorKeeps == ASSUME BackupTyped, BackupOneSector PROVE BackupTyped' /\ BackupWithin'
<1>1. PICK info, page, one, ret :
        info = b /\ page = DataSector(b.state, 0, 0) /\ one = 1 /\ ret = "next"
  OBVIOUS
<1>2. b.state \in {"boot", "volhdr"} /\ Answer(ret, info, page, one)
  BY <1>1 DEF BackupOneSector, Answer
<1>3. Leaves(info) /\ one \in 0..bcall.room
  BY <1>1, <1>2 DEF Answer, Leaves, BackupTyped
<1>4. PlainList(page) /\ one * SECTOR <= Len(page)
  <2>1. b.state # "zip"
    BY <1>2
  <2>2. PlainList(page) /\ Len(page) = 1 * SECTOR
    BY <1>1, <2>1, DataIsPlain DEF DataSector
  <2> QED BY <1>1, <2>2, DriveAssumption
<1>5. /\ BackupTyped'
      /\ ret # "more" => /\ b'.state = NextState(BackupTable, b.state) /\ b'.val1 = 0
                         /\ b'.val2 = 0 /\ b'.ptr = FALSE
  BY <1>2, <1>3, <1>4, AnswerKeeps
<1>6. /\ b'.state = "partitions" \/ b'.state = "inodes"
      /\ b'.val1 = 0 /\ b'.val2 = 0 /\ ~b'.ptr
  BY <1>1, <1>2, <1>5, BackupGoesOn
<1>7. 0 < Len(Drive.parts) /\ 0 <= Drive.parts[0 + 1] /\ 0 < Len(Drive.files)
  BY SourceIs
<1> QED BY <1>5, <1>6, <1>7 DEF BackupWithin

\* The sectors of a list of things that are copied, as many as there is room for.
LEMMA ToCopy ==
  ASSUME NEW size \in Nat, NEW done \in 0..size, NEW room \in Nat
  PROVE  LET tocopy == SmallerOf(size - done, room)
         IN  /\ tocopy \in Nat /\ tocopy \in 0..room /\ done + tocopy \in 0..size
             /\ room > 0 /\ done < size => tocopy > 0
BY DEF SmallerOf

\* The raw partitions.
LEMMA PartitionsKeep ==
  ASSUME BackupTyped, BackupWithin, BackupPartitions PROVE BackupTyped' /\ BackupWithin'
<1>1. b.state = "partitions"
  BY DEF BackupPartitions
<1>2. PICK p \in 1..Len(Drive.parts) : p = b.val1 + 1 /\ b.val2 <= Drive.parts[p]
  BY <1>1, SourceIs DEF BackupTyped, BackupWithin
<1>3. PICK size \in Nat : size = Drive.parts[p]
  BY SourceIs
<1>4. PICK tocopy \in Nat : /\ tocopy = SmallerOf(size - b.val2, bcall.room)
                           /\ tocopy \in 0..bcall.room /\ b.val2 + tocopy \in 0..size
  <2>1. b.val2 \in 0..size /\ bcall.room \in Nat
    BY <1>2, <1>3 DEF BackupTyped
  <2> QED BY <2>1, ToCopy
<1>5. PICK info : info = IF b.val2 + tocopy >= size THEN [b EXCEPT !.val1 = @ + 1, !.val2 = 0]
                         ELSE [b EXCEPT !.val2 = @ + tocopy]
  OBVIOUS
<1>6. PICK ret : ret = IF info.val1 < Len(Drive.parts) THEN "more" ELSE "next"
  OBVIOUS
<1>7. PICK page : page = DataSectors("disk", p, b.val2, tocopy)
  OBVIOUS
<1>8. Answer(ret, info, page, tocopy)
  BY <1>2, <1>3, <1>4, <1>5, <1>6, <1>7 DEF BackupPartitions, ReadFrom, Answer
<1>9. /\ Leaves(info)
      /\ (info.val1 = b.val1 /\ info.val2 \in 0..size) \/ (info.val1 = p /\ info.val2 = 0)
  <2>1. CASE b.val2 + tocopy >= size
    BY <1>2, <1>5, <2>1 DEF Leaves, BackupTyped
  <2>2. CASE ~(b.val2 + tocopy >= size)
    <3>1. b.val2 + tocopy \in Nat /\ b.val2 + tocopy \in 0..size
      BY <1>4 DEF BackupTyped
    <3> QED BY <1>5, <2>2, <3>1 DEF Leaves, BackupTyped
  <2> QED BY <2>1, <2>2
<1>10. PlainList(page) /\ tocopy * SECTOR <= Len(page)
  <2>1. b.val2 \in Nat
    BY DEF BackupTyped
  <2>2. PlainList(page) /\ Len(page) = tocopy * SECTOR
    BY <1>7, <2>1, DataIsPlain
  <2> QED BY <2>2, DriveAssumption
<1>11. /\ BackupTyped'
       /\ ret = "more" => b'.state = b.state /\ b'.val1 = info.val1 /\ b'.val2 = info.val2
       /\ ret # "more" => b'.state = NextState(BackupTable, b.state)
  BY <1>1, <1>4, <1>8, <1>9, <1>10, AnswerKeeps
<1>12. CASE ret = "more"
  <2>1. info.val1 < Len(Drive.parts)
    BY <1>6, <1>12
  <2>2. info.val2 <= Drive.parts[info.val1 + 1]
    <3>1. CASE info.val1 = b.val1 /\ info.val2 \in 0..size
      BY <1>2, <1>3, <3>1
    <3>2. CASE info.val1 = p /\ info.val2 = 0
      <4>1. p + 1 \in 1..Len(Drive.parts)
        BY <2>1, <3>2, SourceIs
      <4> QED BY <3>2, <4>1, SourceIs
    <3> QED BY <1>9, <3>1, <3>2
  <2> QED BY <1>1, <1>11, <1>12, <2>1, <2>2 DEF BackupWithin
<1>13. CASE ret # "more"
  <2>1. b'.state = "volhdr"
    BY <1>1, <1>11, <1>13, BackupGoesOn
  <2> QED BY <1>11, <2>1 DEF BackupWithin
<1> QED BY <1>12, <1>13

\* An inode.
LEMMA InodeKeeps ==
  ASSUME BackupTyped, BackupWithin, BackupInode PROVE BackupTyped' /\ BackupWithin'
<1>1. b.state = "inodes" /\ b.val1 < Len(Drive.files)
  BY DEF BackupInode
<1>2. PICK n \in 1..Len(Drive.files) : n = b.val1 + 1
  BY <1>1, SourceIs DEF BackupTyped
<1>3. PICK size \in Nat : size = Drive.files[n]
  BY SourceIs
<1>4. PICK info : info = IF size = 0 THEN [b EXCEPT !.val1 = @ + 1]
                         ELSE [b EXCEPT !.ptr = TRUE, !.val2 = 0]
  OBVIOUS
<1>5. PICK ret, one : ret = (IF info.val1 < Len(Drive.files) THEN "more" ELSE "next") /\ one = 1
  OBVIOUS
<1>6. PICK u, page : u = <<"inode", n, size>> /\ page = <<u>> \o Zeros(SECTOR - 1)
  OBVIOUS
<1>7. Answer(ret, info, page, one)
  BY <1>2, <1>3, <1>4, <1>5, <1>6 DEF BackupInode, Answer
<1>8. /\ Leaves(info)
      /\ (info.val1 = b.val1 /\ info.val2 = 0) \/ (info.val1 = n /\ info.ptr = b.ptr)
  <2>1. CASE size = 0
    BY <1>2, <1>4, <2>1 DEF Leaves, BackupTyped
  <2>2. CASE size # 0
    BY <1>4, <2>2 DEF Leaves, BackupTyped
  <2> QED BY <2>1, <2>2
<1>9. PlainList(page) /\ one * SECTOR <= Len(page)
  <2>1. Plain(u)
    BY <1>6 DEF Plain
  <2>2. PlainList(page) /\ Len(page) = SECTOR
    BY <1>6, <2>1, OneOfZeros
  <2> QED BY <1>5, <2>2, DriveAssumption
<1>10. one \in 0..bcall.room
  BY <1>5, <1>7 DEF Answer, BackupTyped
<1>11. /\ BackupTyped'
       /\ ret = "more" => /\ b'.state = b.state /\ b'.val1 = info.val1
                          /\ b'.val2 = info.val2 /\ b'.ptr = info.ptr
       /\ ret # "more" => b'.state = NextState(BackupTable, b.state)
  BY <1>1, <1>7, <1>8, <1>9, <1>10, AnswerKeeps
<1>12. CASE ret = "more"
  <2>1. info.val1 < Len(Drive.files)
    BY <1>5, <1>12
  <2>2. info.ptr => info.val2 <= Drive.files[info.val1 + 1]
    <3>1. CASE info.val1 = b.val1 /\ info.val2 = 0
      BY <1>2, <1>3, <3>1
    <3>2. CASE info.val1 = n /\ info.ptr = b.ptr
      BY <3>2 DEF BackupInode
    <3> QED BY <1>8, <3>1, <3>2
  <2> QED BY <1>1, <1>11, <1>12, <2>1, <2>2 DEF BackupWithin
<1>13. CASE ret # "more"
  <2>1. b'.state = "complete"
    BY <1>1, <1>11, <1>13, BackupGoesOn
  <2> QED BY <1>11, <2>1 DEF BackupWithin
<1> QED BY <1>12, <1>13

\* The data of an inode.
LEMMA InodeDataKeeps ==
  ASSUME BackupTyped, BackupWithin, BackupInodeData PROVE BackupTyped' /\ BackupWithin'
<1>1. b.state = "inodes" /\ b.ptr /\ b.val1 < Len(Drive.files)
  BY DEF BackupInodeData, BackupWithin
<1>2. PICK n \in 1..Len(Drive.files) : n = b.val1 + 1 /\ b.val2 <= Drive.files[n]
  BY <1>1, SourceIs DEF BackupTyped, BackupWithin
<1>3. PICK size \in Nat : size = Drive.files[n]
  BY SourceIs
<1>4. PICK tocopy \in Nat : /\ tocopy = SmallerOf(size - b.val2, bcall.room)
                           /\ tocopy \in 0..bcall.room /\ b.val2 + tocopy \in 0..size
  <2>1. b.val2 \in 0..size /\ bcall.room \in Nat
    BY <1>2, <1>3 DEF BackupTyped
  <2> QED BY <2>1, ToCopy
<1>5. PICK info : info = IF b.val2 + tocopy = size
                         THEN [b EXCEPT !.ptr = FALSE, !.val1 = @ + 1, !.val2 = 0]
                         ELSE [b EXCEPT !.val2 = @ + tocopy]
  OBVIOUS
<1>6. PICK ret : ret = IF info.val1 < Len(Drive.files) THEN "more" ELSE "next"
  OBVIOUS
<1>7. PICK page : page = DataSectors("data", n, b.val2, tocopy)
  OBVIOUS
<1>8. Answer(ret, info, page, tocopy)
  BY <1>2, <1>3, <1>4, <1>5, <1>6, <1>7 DEF BackupInodeData, ReadFrom, Answer
<1>9. /\ Leaves(info)
      /\ (info.val1 = b.val1 /\ info.val2 \in 0..size) \/ (info.val1 = n /\ ~info.ptr)
  <2>1. CASE b.val2 + tocopy = size
    BY <1>2, <1>5, <2>1 DEF Leaves, BackupTyped
  <2>2. CASE ~(b.val2 + tocopy = size)
    <3>1. b.val2 + tocopy \in Nat /\ b.val2 + tocopy \in 0..size
      BY <1>4 DEF BackupTyped
    <3> QED BY <1>5, <2>2, <3>1 DEF Leaves, BackupTyped
  <2> QED BY <2>1, <2>2
<1>10. PlainList(page) /\ tocopy * SECTOR <= Len(page)
  <2>1. b.val2 \in Nat
    BY DEF BackupTyped
  <2>2. PlainList(page) /\ Len(page) = tocopy * SECTOR
    BY <1>7, <2>1, DataIsPlain
  <2> QED BY <2>2, DriveAssumption
<1>11. /\ BackupTyped'
       /\ ret = "more" => /\ b'.state = b.state /\ b'.val1 = info.val1
                          /\ b'.val2 = info.val2 /\ b'.ptr = info.ptr
       /\ ret # "more" => b'.state = NextState(BackupTable, b.state)
  BY <1>1, <1>4, <1>8, <1>9, <1>10, AnswerKeeps
<1>12. CASE ret = "more"
  <2>1. info.val1 < Len(Drive.files)
    BY <1>6, <1>12
  <2>2. info.ptr => info.val2 <= Drive.files[info.val1 + 1]
    BY <1>2, <1>3, <1>9
  <2> QED BY <1>1, <1>11, <1>12, <2>1, <2>2 DEF BackupWithin
<1>13. CASE ret # "more"
  <2>1. b'.state = "complete"
    BY <1>1, <1>11, <1>13, BackupGoesOn
  <2> QED BY <1>11, <2>1 DEF BackupWithin
<1> QED BY <1>12, <1>13

\* The last sector.
LEMMA CompleteKeeps == ASSUME BackupTyped, BackupComplete PROVE BackupTyped' /\ BackupWithin'
<1>1. PICK info, one, ret, u : info = b /\ one = 1 /\ ret = "next" /\ u = <<"crc", b.crc, 0>>
  OBVIOUS
<1>2. PICK page : page = Zeros(SECTOR - 1) \o <<u>>
  OBVIOUS
<1>3. b.state = "complete" /\ Answer(ret, info, page, one)
  BY <1>1, <1>2 DEF BackupComplete, Answer
<1>4. Leaves(info) /\ one \in 0..bcall.room
  BY <1>1, <1>3 DEF Answer, Leaves, BackupTyped
<1>5. PlainList(page) /\ one * SECTOR <= Len(page)
  <2>1. Plain(u)
    BY <1>1 DEF Plain
  <2>2. PlainList(page) /\ Len(page) = SECTOR
    BY <1>2, <2>1, OneOfZeros
  <2> QED BY <1>1, <2>2, DriveAssumption
<1>6. /\ BackupTyped'
      /\ ret # "more" => b'.state = NextState(BackupTable, b.state)
  BY <1>3, <1>4, <1>5, AnswerKeeps
<1>7. b'.state = "max"
  BY <1>1, <1>3, <1>6, BackupGoesOn
<1> QED BY <1>6, <1>7 DEF BackupWithin

\* backup_read starts with a buffer of any size.
LEMMA ReadStartsKeeps ==
  ASSUME BackupTyped, NEW size \in Nat, ReadStarts(size)
  PROVE  BackupTyped' /\ UNCHANGED b
<1>1. UNCHANGED <<b, zip>> /\ bout' = <<>>
  BY DEF ReadStarts
<1>2. PlainList(bcall'.page) /\ PlainList(bcall'.out) /\ DOMAIN bcall' = DOMAIN bcall
      /\ bcall'.room \in Nat /\ bcall'.size \in Nat
  <2>1. CASE b.compressed /\ b.cursector > 0
    <3>1. bcall' = [bcall EXCEPT !.size = size]
      BY <2>1 DEF ReadStarts
    <3> QED BY <3>1 DEF BackupTyped
  <2>2. CASE ~(b.compressed /\ b.cursector > 0)
    <3>1. PICK room : room = IF b.compressed THEN 1 ELSE size \div SECTOR
      OBVIOUS
    <3>2. bcall' = [room |-> room, page |-> <<>>, out |-> <<>>, size |-> size]
      BY <2>2, <3>1 DEF ReadStarts
    <3>3. room \in Nat
      BY <3>1, DivFacts, DriveAssumption
    <3> QED BY <3>2, <3>3, ShortLists DEF BackupTyped
  <2> QED BY <2>1, <2>2
<1> QED BY <1>1, <1>2, ShortLists DEF BackupTyped

\* What the state machine made goes to the caller, or to zlib.
LEMMA GoesOnKeeps == ASSUME BackupTyped, ReadGoesOn PROVE BackupTyped' /\ UNCHANGED b
<1>1. UNCHANGED <<b, bcall>>
  BY DEF ReadGoesOn
<1>2. CASE ~b.compressed
  <2>1. bout' = bcall.out /\ UNCHANGED zip
    BY <1>2 DEF ReadGoesOn
  <2> QED BY <1>1, <2>1, PlainIsSent DEF BackupTyped
<1>3. CASE b.compressed /\ ~zip.open
  <2>1. bout' = bcall.out /\ zip' = [NoZip EXCEPT !.open = TRUE, !.buf = TRUE]
    BY <1>3 DEF ReadGoesOn
  <2>2. /\ DOMAIN zip' = {"open", "buf", "in", "held"} /\ zip'.open = TRUE
        /\ zip'.in = <<>> /\ zip'.held = <<>>
    BY <2>1 DEF NoZip
  <2>3. Len(<<>>) = 0 /\ 0 < b.ratio
    BY <1>3, ShortLists DEF BackupTyped
  <2> QED BY <1>1, <1>3, <2>1, <2>2, <2>3, ShortLists, PlainIsSent DEF BackupTyped
<1>4. CASE b.compressed /\ zip.open
  <2>1. UNCHANGED bout /\ (zip' = [zip EXCEPT !.buf = FALSE] \/ zip' = [zip EXCEPT !.in = bcall.out])
    BY <1>4 DEF ReadGoesOn
  <2>2. /\ DOMAIN zip' = DOMAIN zip /\ zip'.open = zip.open /\ zip'.held = zip.held
        /\ PlainList(zip'.in)
    BY <2>1 DEF BackupTyped
  <2> QED BY <1>1, <2>1, <2>2 DEF BackupTyped
<1> QED BY <1>2, <1>3, <1>4 DEF BackupTyped

\* Units of output that hold plain units can be sent.
LEMMA PackedCanBeSent ==
  ASSUME BackupTyped, NEW units, PlainList(units), NEW count \in Nat, b.ratio # 0,
         \A i \in 1..count : (i - 1) * b.ratio < Len(units)
  PROVE  SentList(Pack(units, count))
<1>1. PICK ratio \in Nat \ {0} : ratio = b.ratio
  BY DEF BackupTyped
<1>2. PICK len \in Nat : len = Len(units) /\ IsList(units)
  BY DEF PlainList, IsList
<1>3. PICK t : t = Pack(units, count)
  OBVIOUS
<1>4. t = [i \in 1..count |-> <<"zip", SubSeq(units, (i - 1) * ratio + 1, SmallerOf(i * ratio, len)), 0>>]
  BY <1>1, <1>2, <1>3 DEF Pack
<1>5. ASSUME NEW i \in 1..count PROVE Sent(t[i])
  <2>1. PICK k \in Nat : k = (i - 1) * ratio /\ k < len /\ i * ratio = k + ratio
    <3>1. PICK j \in Nat : i = j + 1 /\ i - 1 = j
      BY <1>5
    <3>2. (j + 1) * ratio = j * ratio + ratio /\ j * ratio \in Nat
      BY <3>1
    <3>3. (i - 1) * b.ratio < Len(units)
      BY <1>5
    <3> QED BY <1>1, <1>2, <3>1, <3>2, <3>3
  <2>2. PICK m, n \in Nat : m = k + 1 /\ n = SmallerOf(k + ratio, len)
    <3>1. k + 1 \in Nat /\ SmallerOf(k + ratio, len) \in Nat
      BY DEF SmallerOf
    <3> QED BY <3>1
  <2>3. m \in 1..(len + 1) /\ n \in 0..len /\ m <= n + 1
    BY <2>1, <2>2 DEF SmallerOf
  <2>4. PlainList(SubSeq(units, m, n))
    BY <1>2, <2>3, PartOfUnits
  <2>5. t[i] = <<"zip", SubSeq(units, m, n), 0>>
    BY <1>4, <2>1, <2>2
  <2> QED BY <2>4, <2>5 DEF Sent
<1>6. IsList(t) /\ Len(t) = count
  <2>1. DOMAIN t = 1..count /\ t = [i \in 1..count |-> t[i]]
    BY <1>4
  <2> QED BY <2>1, FunctionIsList
<1>7. \A i \in 1..Len(t) : Sent(t[i])
  BY <1>5, <1>6
<1> QED BY <1>3, <1>6, <1>7 DEF SentList

\* deflate takes input, and what it cannot put out yet stays inside.
LEMMA ZipInputKeeps == ASSUME BackupTyped, ZipInput PROVE BackupTyped' /\ UNCHANGED b
<1>1. UNCHANGED <<b, bpc, bcall>> /\ zip.open /\ b.ratio # 0
  BY DEF ZipInput, BackupTyped
<1>2. PICK ratio \in Nat \ {0} : ratio = b.ratio
  BY <1>1 DEF BackupTyped
<1>3. PICK nin, nheld \in Nat : nin = Len(zip.in) /\ nheld = Len(zip.held) /\ nheld < ratio
  BY <1>1, <1>2 DEF BackupTyped, PlainList, IsList
<1>4. PICK space \in Nat \ {0} : space = Space
  <2>1. Len(bout) \in Nat /\ bcall.size \in Nat /\ bcall.size - Len(bout) > 0
    BY DEF ZipInput, Space, BackupTyped, SentList, IsList
  <2> QED BY <2>1 DEF Space
<1>5. PICK take : take = SmallerOf(Len(zip.in), Space * b.ratio - Len(zip.held))
  OBVIOUS
<1>6. take \in Nat /\ take <= nin
  <2>1. PICK all \in Nat : all = space * ratio
    OBVIOUS
  <2>2. ratio <= all
    <3>1. 1 * ratio <= space * ratio
      BY TimesOrder
    <3> QED BY <2>1, <3>1
  <2>3. take = SmallerOf(nin, all - nheld)
    BY <1>2, <1>3, <1>4, <1>5, <2>1
  <2> QED BY <1>3, <2>2, <2>3 DEF SmallerOf
<1>7. PICK held : held = zip.held \o SubSeq(zip.in, 1, take)
  OBVIOUS
<1>8. PlainList(held)
  <2>1. IsList(zip.in) /\ 1 \in 1..(Len(zip.in) + 1) /\ take \in 0..Len(zip.in) /\ 1 <= take + 1
    BY <1>3, <1>6 DEF BackupTyped, PlainList
  <2>2. PlainList(SubSeq(zip.in, 1, take))
    BY <2>1, PartOfUnits DEF BackupTyped
  <2> QED BY <1>7, <2>2, UnitsJoined DEF BackupTyped
<1>9. PICK len \in Nat : len = Len(held)
  BY <1>8 DEF PlainList, IsList
<1>10. PICK full \in Nat : full = len \div ratio /\ full * ratio <= len /\ len < (full + 1) * ratio
  BY DivFacts
<1>11. bout' = bout \o Pack(held, full)
  BY <1>2, <1>5, <1>7, <1>9, <1>10 DEF ZipInput
<1>12. zip' = [zip EXCEPT !.in = SubSeq(zip.in, take + 1, nin),
                          !.held = SubSeq(held, full * ratio + 1, len)]
  BY <1>2, <1>3, <1>5, <1>7, <1>9, <1>10 DEF ZipInput
<1>13. SentList(bout')
  <2>1. ASSUME NEW i \in 1..full PROVE (i - 1) * b.ratio < Len(held)
    <3>1. PICK j \in Nat : i = j + 1 /\ i - 1 = j /\ j < full
      BY <2>1
    <3>2. (j + 1) * ratio <= full * ratio /\ full * ratio \in Nat /\ (j + 1) * ratio \in Nat
      BY <3>1, TimesOrder
    <3>3. (j + 1) * ratio = j * ratio + ratio /\ j * ratio \in Nat
      OBVIOUS
    <3>4. PICK k, all \in Nat : k = j * ratio /\ all = full * ratio
      OBVIOUS
    <3>5. k + ratio <= all /\ all <= len
      BY <1>10, <3>2, <3>3, <3>4
    <3>6. (i - 1) * b.ratio = k
      BY <1>2, <3>1, <3>4
    <3> QED BY <1>9, <3>5, <3>6
  <2>2. SentList(Pack(held, full))
    BY <1>1, <1>8, <2>1, PackedCanBeSent
  <2> QED BY <1>11, <2>2, UnitsJoined DEF BackupTyped
<1>14. PlainList(SubSeq(zip.in, take + 1, nin))
  <2>1. IsList(zip.in) /\ take + 1 \in 1..(Len(zip.in) + 1) /\ nin \in 0..Len(zip.in) /\ take + 1 <= nin + 1
    BY <1>3, <1>6 DEF BackupTyped, PlainList
  <2> QED BY <2>1, PartOfUnits DEF BackupTyped
<1>15. PlainList(SubSeq(held, full * ratio + 1, len)) /\ Len(SubSeq(held, full * ratio + 1, len)) < ratio
  <2>1. PICK k \in Nat : k = full * ratio /\ (full + 1) * ratio = k + ratio
    <3>1. full * ratio \in Nat /\ (full + 1) * ratio = full * ratio + ratio
      OBVIOUS
    <3> QED BY <3>1
  <2>2. IsList(held) /\ k + 1 \in 1..(Len(held) + 1) /\ len \in 0..Len(held) /\ k + 1 <= len + 1
    BY <1>8, <1>9, <1>10, <2>1 DEF PlainList
  <2>3. Len(SubSeq(held, k + 1, len)) = len - (k + 1) + 1
    BY <2>2, PartOfList
  <2>4. len - (k + 1) + 1 < ratio
    BY <1>10, <2>1
  <2> QED BY <1>8, <2>1, <2>2, <2>3, <2>4, PartOfUnits
<1>16. /\ DOMAIN zip' = DOMAIN zip /\ zip'.open = zip.open
       /\ PlainList(zip'.in) /\ PlainList(zip'.held) /\ Len(zip'.held) < b.ratio
  BY <1>2, <1>12, <1>14, <1>15 DEF BackupTyped
<1> QED BY <1>1, <1>13, <1>16 DEF BackupTyped

\* deflate puts out the rest.
LEMMA ZipFinishKeeps == ASSUME BackupTyped, ZipFinish PROVE BackupTyped' /\ UNCHANGED b
<1>1. UNCHANGED <<b, bpc, bcall>> /\ zip.open /\ b.ratio # 0
  BY DEF ZipFinish, BackupTyped
<1>2. PICK rest : rest = IF zip.held = <<>> THEN <<>> ELSE Pack(zip.held, 1)
  OBVIOUS
<1>3. SentList(rest)
  <2>1. CASE zip.held = <<>>
    BY <1>2, <2>1, ShortLists
  <2>2. CASE zip.held # <<>>
    <3>1. Len(zip.held) \in Nat /\ Len(zip.held) # 0 /\ PlainList(zip.held)
      BY <2>2, ShortLists DEF BackupTyped, PlainList, IsList
    <3>2. PICK ratio \in Nat : ratio = b.ratio
      BY DEF BackupTyped
    <3>3. \A i \in 1..1 : (i - 1) * b.ratio < Len(zip.held)
      BY <3>1, <3>2
    <3>4. SentList(Pack(zip.held, 1))
      <4>1. PICK held : held = zip.held
        OBVIOUS
      <4> QED BY <1>1, <3>1, <3>3, <4>1, PackedCanBeSent
    <3> QED BY <1>2, <2>2, <3>4
  <2> QED BY <2>1, <2>2
<1>4. PICK mark : mark = IF Len(rest) < Space THEN <<EndMark>> ELSE <<>>
  OBVIOUS
<1>5. SentList(mark)
  <2>1. CASE mark = <<>>
    BY <2>1, ShortLists
  <2>2. CASE mark = <<EndMark>>
    <3>1. PICK u : u = EndMark
      OBVIOUS
    <3>2. Sent(u)
      BY <3>1 DEF EndMark, Sent
    <3>3. IsList(mark) /\ Len(mark) = 1 /\ mark[1] = u
      BY <2>2, <3>1, ShortLists
    <3> QED BY <3>2, <3>3 DEF SentList
  <2> QED BY <1>4, <2>1, <2>2
<1>6. bout' = bout \o rest \o mark
  BY <1>2, <1>4 DEF ZipFinish
<1>7. SentList(bout')
  <2>1. SentList(bout \o rest)
    BY <1>3, UnitsJoined DEF BackupTyped
  <2> QED BY <1>5, <1>6, <2>1, UnitsJoined
<1>8. zip' = NoZip \/ zip' = [zip EXCEPT !.held = <<>>]
  BY DEF ZipFinish
<1>9. /\ DOMAIN zip' = {"open", "buf", "in", "held"} /\ zip'.held = <<>> /\ PlainList(zip'.in)
      /\ zip'.open \in BOOLEAN
  <2>1. CASE zip' = NoZip
    BY <2>1, ShortLists DEF NoZip
  <2>2. CASE zip' = [zip EXCEPT !.held = <<>>]
    BY <2>2 DEF BackupTyped
  <2> QED BY <1>8, <2>1, <2>2
<1>10. b.compressed /\ 0 < b.ratio
  BY <1>1 DEF BackupTyped
<1> QED BY <1>1, <1>7, <1>9, <1>10, ShortLists DEF BackupTyped

\* No step of the writer makes anything but units, or goes further than its lists.
LEMMA BackupStepKeeps ==
  ASSUME BackupTyped, BackupWithin, BackupStep PROVE BackupTyped' /\ BackupWithin'
<1>1. ASSUME UNCHANGED b PROVE BackupWithin'
  BY <1>1 DEF BackupWithin
<1>2. CASE ReadGoesOn
  BY <1>1, <1>2, GoesOnKeeps
<1>3. CASE ZipInput
  BY <1>1, <1>3, ZipInputKeeps
<1>4. CASE ZipRefill
  <2>1. UNCHANGED <<b, zip, bout>> /\ bcall' = [bcall EXCEPT !.room = CompBuf, !.page = <<>>, !.out = <<>>]
    BY <1>4 DEF ZipRefill, Call
  <2>2. BackupTyped'
    BY <2>1, ShortLists, DriveAssumption DEF BackupTyped
  <2>3. BackupWithin'
    BY <2>1 DEF BackupWithin
  <2> QED BY <2>2, <2>3
<1>5. CASE ZipFinish
  BY <1>1, <1>5, ZipFinishKeeps
<1>6. CASE ZipReturn
  BY <1>6 DEF ZipReturn, BackupTyped, BackupWithin
<1> QED BY <1>2, <1>3, <1>4, <1>5, <1>6, BeginKeeps, ListsKeep, ExtraKeeps, InfoEndKeeps,
           OneSectorKeeps, PartitionsKeep, InodeKeeps, InodeDataKeeps, CompleteKeeps DEF BackupStep

-----------------------------------------------------------------------------
(* The reader.                                                             *)

\* What a handler of the restore may leave of the info structure.
Keeps(info) ==
  /\ DOMAIN info = DOMAIN r /\ info.state = r.state /\ info.shared \in 0..(SECTOR - 1)
  /\ info.val1 \in Nat /\ info.val2 \in Nat /\ info.ptr \in Nat /\ info.since \in Nat

\* What restore_next_sectors does with a handler's answer.
LEMMA AnsweredKeeps ==
  ASSUME RestoreTyped, NEW ret, NEW info, NEW consumed, Answered(ret, info, consumed),
         rpc \in {"first", "next", "unzipped"},
         consumed \in 0..rcall.room, Keeps(info), r.state # "max"
  PROVE  /\ RestoreTyped'
         /\ ret = "more" => /\ r'.state = r.state /\ r'.val1 = info.val1
                            /\ r'.val2 = info.val2 /\ r'.ptr = info.ptr
         /\ ret # "more" => /\ r'.state = NextState(RestoreTable, r.state) /\ r'.val1 = 0
                            /\ r'.val2 = 0 /\ r'.ptr = 0
<1>1. PICK len, room, done \in Nat :
        len = Len(rcall.page) /\ room = rcall.room /\ done = rcall.done /\ IsList(rcall.page)
  BY DEF RestoreTyped, SentList, IsList
<1>2. PICK n, all, past \in Nat :
        /\ n = consumed * SECTOR /\ all = room * SECTOR /\ past = done * SECTOR
        /\ n <= all /\ all <= len
        /\ (room - consumed) * SECTOR = all - n /\ (done + consumed) * SECTOR = past + n
        /\ room - consumed \in Nat /\ done + consumed \in Nat
  <2>1. PICK rest \in Nat : rest = room - consumed /\ room = rest + consumed /\ consumed \in Nat
    BY <1>1
  <2>2. SECTOR \in Nat
    BY DriveAssumption
  <2>3. /\ consumed * SECTOR \in Nat /\ rest * SECTOR \in Nat /\ done * SECTOR \in Nat
        /\ (rest + consumed) * SECTOR = rest * SECTOR + consumed * SECTOR
        /\ (done + consumed) * SECTOR = done * SECTOR + consumed * SECTOR
    BY <2>1, <2>2
  <2>4. room * SECTOR = rest * SECTOR + consumed * SECTOR
    BY <2>1, <2>3
  <2>5. room * SECTOR <= len
    BY <1>1 DEF RestoreTyped
  <2> QED BY <2>1, <2>3, <2>4, <2>5
<1>3. PICK page : page = SubSeq(rcall.page, n + 1, len)
  OBVIOUS
<1>4. SentList(page) /\ Len(page) = len - n
  <2>0. /\ n + 1 \in 1..(len + 1) /\ len \in 0..len /\ n + 1 <= len + 1
        /\ len - (n + 1) + 1 = len - n
    <3>1. n <= len
      BY <1>2
    <3> QED BY <3>1
  <2>1. /\ IsList(rcall.page) /\ n + 1 \in 1..(Len(rcall.page) + 1) /\ len \in 0..Len(rcall.page)
        /\ n + 1 <= len + 1 /\ len - (n + 1) + 1 = len - n
    BY <1>1, <2>0
  <2>2. Len(page) = len - n
    BY <1>3, <2>1, PartOfList
  <2>3. SentList(page)
    BY <1>3, <2>1, PartOfUnits DEF RestoreTyped
  <2> QED BY <2>2, <2>3
<1>5. /\ DOMAIN rcall' = DOMAIN rcall /\ rcall'.size = rcall.size /\ rcall'.in = rcall.in
      /\ rcall'.got = rcall.got /\ rcall'.room = room - consumed /\ rcall'.done = done + consumed
      /\ rcall'.page = page
  BY <1>1, <1>2, <1>3 DEF Answered, RestoreTyped
<1>6. /\ UNCHANGED <<rpc, unzip>>
      /\ DOMAIN r' = DOMAIN r /\ r'.shared = info.shared /\ r'.since = info.since
      /\ ret = "more" => /\ r'.state = r.state /\ r'.val1 = info.val1
                         /\ r'.val2 = info.val2 /\ r'.ptr = info.ptr
      /\ ret # "more" => /\ r'.state = NextState(RestoreTable, r.state) /\ r'.val1 = 0
                         /\ r'.val2 = 0 /\ r'.ptr = 0
  BY DEF Answered, RestoreTyped, Keeps
<1>7. r'.state \in States(RestoreTable)
  BY <1>6, RestoreGoesOn DEF RestoreTyped
<1>8. /\ r'.shared \in 0..(SECTOR - 1) /\ r'.since \in Nat
      /\ r'.val1 \in Nat /\ r'.val2 \in Nat /\ r'.ptr \in Nat
  BY <1>6 DEF Keeps
<1>9. rcall'.room * SECTOR <= Len(rcall'.page)
  BY <1>2, <1>4, <1>5, SMTT(40)
<1>10. rpc' = "first" => Len(rcall'.page) <= rcall'.size
  <2>1. rpc = "first" => len <= rcall.size
    BY <1>1 DEF RestoreTyped
  <2>2. rcall.size \in Nat
    BY DEF RestoreTyped
  <2> QED BY <1>4, <1>5, <1>6, <2>1, <2>2
<1>11. rpc' = "unzipped" => rcall'.done * SECTOR + Len(rcall'.page) = Len(unzip'.out)
  <2>1. rpc = "unzipped" => past + len = Len(unzip.out)
    BY <1>1, <1>2 DEF RestoreTyped
  <2>2. (past + n) + (len - n) = past + len
    BY <1>2
  <2> QED BY <1>2, <1>4, <1>5, <1>6, <2>1, <2>2
<1>12. RestoreTyped'
  BY <1>2, <1>4, <1>5, <1>6, <1>7, <1>8, <1>9, <1>10, <1>11 DEF RestoreTyped
<1> QED BY <1>6, <1>12

RestoreInv == RestoreTyped /\ RestoreWithin /\ TargetInv

\* What a handler that does its work reads.
LEMMA HandlesIs ==
  ASSUME NEW s, Handles(s)
  PROVE  /\ rpc \in {"first", "next", "unzipped"} /\ rcall.room > 0 /\ r.state = s
BY DEF Handles

\* The target is not looked at before the inodes come.
LEMMA EarlyTarget ==
  ASSUME TargetInv, r.state \notin {"inodes", "complete", "max"},
         r'.state \notin {"inodes", "complete", "max"},
         DOMAIN target' = DOMAIN target, target'.data = target.data, target'.fixed = target.fixed
  PROVE  TargetInv'
BY DEF TargetInv

\* The first handler.
LEMMA RestoreBeginKeeps == ASSUME RestoreInv, RestoreBegin PROVE RestoreInv'
<1>1. /\ rpc \in {"first", "next", "unzipped"} /\ rcall.room > 0 /\ r.state = "begin"
  BY HandlesIs DEF RestoreBegin
<1>2. PICK h : h = rcall.page[1]
  OBVIOUS
<1>3. PICK info, none, ret :
        /\ info = [r EXCEPT !.compressed = h[2], !.nsectors = h[3], !.shared = HeadLen]
        /\ none = 0 /\ ret = "next"
  OBVIOUS
<1>4. Answered(ret, info, none)
  BY <1>2, <1>3 DEF RestoreBegin, Answered
<1>5. Keeps(info) /\ none \in 0..rcall.room /\ r.state # "max"
  <2>1. HeadLen \in 0..(SECTOR - 1)
    BY DriveAssumption
  <2>2. Keeps(info)
    BY <1>3, <2>1 DEF Keeps, RestoreInv, RestoreTyped
  <2> QED BY <1>1, <1>3, <2>2 DEF RestoreInv, RestoreTyped
<1>6. /\ RestoreTyped'
      /\ ret # "more" => r'.state = NextState(RestoreTable, r.state) /\ r'.val1 = 0
  BY <1>1, <1>4, <1>5, AnsweredKeeps DEF RestoreInv
<1>7. r'.state = "parts" /\ r'.val1 = 0 /\ UNCHANGED <<head, target>>
  BY <1>1, <1>3, <1>6, RestoreGoesOn DEF RestoreBegin
<1>8. RestoreWithin'
  <2>1. head.parts = <<>> /\ Len(<<>>) = 0 /\ Len(Drive.parts) \in Nat
    BY <1>1, SourceIs, ShortLists DEF RestoreInv, RestoreWithin
  <2> QED BY <1>7, <2>1 DEF RestoreInv, RestoreWithin
<1>9. TargetInv'
  BY <1>1, <1>7, EarlyTarget DEF RestoreInv
<1> QED BY <1>6, <1>8, <1>9 DEF RestoreInv

\* restore_read_header puts behind what it has of a list what there is of the rest.
LEMMA ReadHeaderDoes ==
  ASSUME RestoreTyped, NEW list, NEW len \in Nat, ReadHeader(list, len), r.val1 <= len,
         list # "max"
  PROVE  /\ RestoreTyped' /\ UNCHANGED target
         /\ \E count, t :
              /\ count \in Nat
              /\ SentList(t) /\ Len(t) = count
              /\ head' = [head EXCEPT ![list] = Put(@, r.val1, t)]
              /\ r.val1 + count <= len
              /\ r.val1 + count < len => r'.state = list /\ r'.val1 = r.val1 + count
              /\ r.val1 + count = len => /\ r'.state = NextState(RestoreTable, list)
                                         /\ r'.val1 = 0 /\ r'.val2 = 0
<1>1. /\ rpc \in {"first", "next", "unzipped"} /\ rcall.room > 0 /\ r.state = list
  BY HandlesIs DEF ReadHeader
<1>2. PICK val1, shared \in Nat : val1 = r.val1 /\ shared = r.shared /\ shared \in 0..(SECTOR - 1)
  BY DriveAssumption, SMTT(40) DEF RestoreTyped
<1>3. rcall.room \in Nat \ {0} /\ val1 \in 0..len
  BY <1>1, <1>2 DEF RestoreTyped
<1>4. PICK count, end \in Nat :
        /\ count = HeaderCount(len, r.val1, r.shared, rcall.room) /\ end = shared + count
        /\ val1 + count \in Nat /\ val1 + count <= len
        /\ end <= rcall.room * SECTOR
        /\ end % SECTOR \in 0..(SECTOR - 1) /\ end \div SECTOR \in 0..rcall.room
  <2>1. PICK count : count = HeaderCount(len, r.val1, r.shared, rcall.room)
    OBVIOUS
  <2>2. PICK end : end = shared + count
    OBVIOUS
  <2>3. /\ count \in 0..(len - val1) /\ end \in Nat /\ end <= rcall.room * SECTOR
        /\ end % SECTOR \in 0..(SECTOR - 1) /\ end \div SECTOR \in 0..rcall.room
    BY <1>2, <1>3, <2>1, <2>2, HeaderCountIs
  <2>4. count \in Nat /\ val1 + count \in Nat /\ val1 + count <= len
    BY <1>3, <2>3
  <2> QED BY <2>1, <2>2, <2>3, <2>4
<1>5. PICK t : t = SubSeq(rcall.page, shared + 1, end)
  OBVIOUS
<1>6. SentList(t) /\ Len(t) = count
  <2>1. PICK n \in Nat : n = Len(rcall.page) /\ rcall.room * SECTOR <= n
    BY DEF RestoreTyped, SentList, IsList
  <2>2. end <= n
    <3>1. rcall.room * SECTOR \in Nat
      BY <1>3, DriveAssumption, SMTT(40)
    <3> QED BY <1>4, <2>1, <3>1, SMTT(40)
  <2>3. /\ shared + 1 \in 1..(n + 1) /\ end \in 0..n
        /\ shared + 1 <= end + 1 /\ end - (shared + 1) + 1 = count
    BY <1>4, <2>2
  <2>4. IsList(rcall.page) /\ shared + 1 \in 1..(Len(rcall.page) + 1) /\ end \in 0..Len(rcall.page)
    BY <2>1, <2>3 DEF RestoreTyped, SentList
  <2>5. Len(t) = count
    BY <1>5, <2>3, <2>4, PartOfList
  <2>6. SentList(t)
    BY <1>5, <2>3, <2>4, PartOfUnits DEF RestoreTyped
  <2> QED BY <2>5, <2>6
<1>7. head' = [head EXCEPT ![list] = Put(@, r.val1, t)] /\ UNCHANGED target
  BY <1>2, <1>4, <1>5 DEF ReadHeader
<1>8. PICK ret, info, consumed :
        /\ ret = (IF val1 + count < len THEN "more" ELSE "next")
        /\ info = [r EXCEPT !.val1 = @ + count, !.shared = end % SECTOR]
        /\ consumed = end \div SECTOR
  OBVIOUS
<1>9. Answered(ret, info, consumed)
  BY <1>2, <1>4, <1>8 DEF ReadHeader, Answered
<1>10. Keeps(info) /\ info.val1 = val1 + count /\ consumed \in 0..rcall.room /\ r.state # "max"
  BY <1>1, <1>2, <1>4, <1>8 DEF Keeps, RestoreTyped
<1>11. /\ RestoreTyped'
       /\ ret = "more" => r'.state = r.state /\ r'.val1 = info.val1
       /\ ret # "more" => /\ r'.state = NextState(RestoreTable, r.state) /\ r'.val1 = 0
                          /\ r'.val2 = 0
  BY <1>1, <1>9, <1>10, AnsweredKeeps
<1>12. /\ val1 + count < len => r'.state = list /\ r'.val1 = val1 + count
       /\ val1 + count = len => /\ r'.state = NextState(RestoreTable, list) /\ r'.val1 = 0
                                /\ r'.val2 = 0
  BY <1>1, <1>8, <1>10, <1>11
<1> QED BY <1>2, <1>4, <1>6, <1>7, <1>11, <1>12

\* The lists of the header.
LEMMA RestoreHeaderKeeps == ASSUME RestoreInv, RestoreHeader PROVE RestoreInv'
<1>1. PICK nparts \in Nat : nparts = Len(Drive.parts)
  BY SourceIs
<1>2. PICK nextra \in Nat : nextra = Sum(Drive.extra)
  BY SourceIs
<1>3. Drive.mfs \in Nat /\ Drive.zones \in Nat
  BY DriveAssumption
<1>4. PICK parts : parts = head.parts /\ SentList(parts) /\ IsList(parts) /\ Len(parts) \in Nat
  BY DEF RestoreInv, RestoreWithin, SentList, IsList
<1>5. CASE ReadHeader("parts", Len(Drive.parts))
  <2>1. r.state = "parts" /\ r.val1 = Len(parts) /\ r.val1 <= nparts /\ ReadHeader("parts", nparts)
    BY <1>1, <1>4, <1>5 DEF ReadHeader, Handles, RestoreInv, RestoreWithin, Answered
  <2>2. /\ RestoreTyped' /\ UNCHANGED target
        /\ \E count, t :
             /\ count \in Nat
             /\ SentList(t) /\ Len(t) = count
             /\ head' = [head EXCEPT !["parts"] = Put(@, r.val1, t)]
             /\ r.val1 + count <= nparts
             /\ r.val1 + count < nparts => r'.state = "parts" /\ r'.val1 = r.val1 + count
             /\ r.val1 + count = nparts => /\ r'.state = NextState(RestoreTable, "parts")
                                           /\ r'.val1 = 0 /\ r'.val2 = 0
    BY <2>1, ReadHeaderDoes DEF RestoreInv
  <2>3. PICK count, t :
             /\ count \in Nat
             /\ SentList(t) /\ Len(t) = count
             /\ head' = [head EXCEPT !["parts"] = Put(@, r.val1, t)]
             /\ r.val1 + count <= nparts
             /\ r.val1 + count < nparts => r'.state = "parts" /\ r'.val1 = r.val1 + count
             /\ r.val1 + count = nparts => /\ r'.state = NextState(RestoreTable, "parts")
                                           /\ r'.val1 = 0 /\ r'.val2 = 0
    BY <2>2
  <2>4. PICK val1, now \in Nat : val1 = r.val1 /\ now = val1 + count
    BY <2>1, <2>3, <1>4
  <2>5. PICK put : put = Put(parts, val1, t)
    OBVIOUS
  <2>6. SentList(put) /\ Len(put) = now
    <3>1. IsList(t)
      BY <2>3 DEF SentList
    <3>2. SentList(put)
      BY <1>4, <2>3, <2>5, <3>1, PutUnits
    <3>3. Len(put) = IF Len(parts) > val1 + Len(t) THEN Len(parts) ELSE val1 + Len(t)
      BY <1>4, <2>5, <3>1, PutUnits
    <3>4. Len(parts) = val1 /\ Len(t) = count
      BY <2>1, <2>3, <2>4
    <3> QED BY <2>4, <3>2, <3>3, <3>4
  <2>7. DOMAIN head' = DOMAIN head /\ head'.parts = put
    BY <1>4, <2>3, <2>4, <2>5 DEF RestoreInv, RestoreWithin
  <2>8. \/ r'.state = "parts" /\ r'.val1 = now /\ now <= nparts
        \/ r'.state = "mfsparts" /\ r'.val1 = 0 /\ now = nparts
    <3>1. now < nparts \/ now = nparts
      BY <2>3, <2>4
    <3> QED BY <2>3, <2>4, <3>1, RestoreGoesOn
  <2>9. RestoreWithin'
    BY <1>1, <1>3, <2>6, <2>7, <2>8 DEF RestoreInv, RestoreWithin
  <2>10. TargetInv'
    BY <2>1, <2>2, <2>8, EarlyTarget DEF RestoreInv
  <2> QED BY <2>2, <2>9, <2>10 DEF RestoreInv
<1>6. CASE ReadHeader("mfsparts", Drive.mfs)
  <2>1. PICK len \in Nat : len = Drive.mfs
    BY <1>3
  <2>2. r.state = "mfsparts" /\ r.val1 <= len /\ ReadHeader("mfsparts", len)
    BY <1>6, <2>1 DEF ReadHeader, Handles, RestoreInv, RestoreWithin, Answered
  <2>3. /\ RestoreTyped' /\ UNCHANGED target
        /\ \E count, t :
             /\ count \in Nat /\ SentList(t) /\ Len(t) = count
             /\ head' = [head EXCEPT !["mfsparts"] = Put(@, r.val1, t)]
             /\ r.val1 + count <= len
             /\ r.val1 + count < len => r'.state = "mfsparts" /\ r'.val1 = r.val1 + count
             /\ r.val1 + count = len => /\ r'.state = NextState(RestoreTable, "mfsparts")
                                        /\ r'.val1 = 0 /\ r'.val2 = 0
    BY <2>2, ReadHeaderDoes DEF RestoreInv
  <2>4. DOMAIN head' = DOMAIN head /\ head'.parts = head.parts
    BY <2>3 DEF RestoreInv, RestoreWithin
  <2>5. \/ r'.state = "mfsparts" /\ r'.val1 <= len
        \/ r'.state = "zones" /\ r'.val1 = 0
    <3>1. r.val1 \in Nat
      BY DEF RestoreInv, RestoreTyped
    <3> QED BY <2>3, <3>1, RestoreGoesOn
  <2>6. RestoreWithin'
    BY <1>3, <2>1, <2>2, <2>4, <2>5 DEF RestoreInv, RestoreWithin
  <2>7. TargetInv'
    BY <2>2, <2>3, <2>5, EarlyTarget DEF RestoreInv
  <2> QED BY <2>3, <2>6, <2>7 DEF RestoreInv
<1>7. CASE ReadHeader("zones", Drive.zones)
  <2>1. PICK len \in Nat : len = Drive.zones
    BY <1>3
  <2>2. r.state = "zones" /\ r.val1 <= len /\ ReadHeader("zones", len)
    BY <1>7, <2>1 DEF ReadHeader, Handles, RestoreInv, RestoreWithin, Answered
  <2>3. /\ RestoreTyped' /\ UNCHANGED target
        /\ \E count, t :
             /\ count \in Nat /\ SentList(t) /\ Len(t) = count
             /\ head' = [head EXCEPT !["zones"] = Put(@, r.val1, t)]
             /\ r.val1 + count <= len
             /\ r.val1 + count < len => r'.state = "zones" /\ r'.val1 = r.val1 + count
             /\ r.val1 + count = len => /\ r'.state = NextState(RestoreTable, "zones")
                                        /\ r'.val1 = 0 /\ r'.val2 = 0
    BY <2>2, ReadHeaderDoes DEF RestoreInv
  <2>4. DOMAIN head' = DOMAIN head /\ head'.parts = head.parts
    BY <2>3 DEF RestoreInv, RestoreWithin
  <2>5. \/ r'.state = "zones" /\ r'.val1 <= len
        \/ r'.state = "extra" /\ r'.val1 = 0
    <3>1. r.val1 \in Nat
      BY DEF RestoreInv, RestoreTyped
    <3> QED BY <2>3, <3>1, RestoreGoesOn
  <2>6. RestoreWithin'
    BY <1>2, <2>1, <2>2, <2>4, <2>5 DEF RestoreInv, RestoreWithin
  <2>7. TargetInv'
    BY <2>2, <2>3, <2>5, EarlyTarget DEF RestoreInv
  <2> QED BY <2>3, <2>6, <2>7 DEF RestoreInv
<1>8. CASE ReadHeader("extra", Sum(Drive.extra))
  <2>2. r.state = "extra" /\ r.val1 <= nextra /\ ReadHeader("extra", nextra)
    BY <1>2, <1>8 DEF ReadHeader, Handles, RestoreInv, RestoreWithin, Answered
  <2>3. /\ RestoreTyped' /\ UNCHANGED target
        /\ \E count, t :
             /\ count \in Nat /\ SentList(t) /\ Len(t) = count
             /\ head' = [head EXCEPT !["extra"] = Put(@, r.val1, t)]
             /\ r.val1 + count <= nextra
             /\ r.val1 + count < nextra => r'.state = "extra" /\ r'.val1 = r.val1 + count
             /\ r.val1 + count = nextra => /\ r'.state = NextState(RestoreTable, "extra")
                                           /\ r'.val1 = 0 /\ r'.val2 = 0
    BY <2>2, ReadHeaderDoes DEF RestoreInv
  <2>4. DOMAIN head' = DOMAIN head /\ head'.parts = head.parts
    BY <2>3 DEF RestoreInv, RestoreWithin
  <2>5. \/ r'.state = "extra" /\ r'.val1 <= nextra
        \/ r'.state = "infoend" /\ r'.val1 = 0
    <3>1. r.val1 \in Nat
      BY DEF RestoreInv, RestoreTyped
    <3> QED BY <2>3, <3>1, RestoreGoesOn
  <2>6. RestoreWithin'
    BY <1>2, <2>2, <2>4, <2>5 DEF RestoreInv, RestoreWithin
  <2>7. TargetInv'
    BY <2>2, <2>3, <2>5, EarlyTarget DEF RestoreInv
  <2> QED BY <2>3, <2>6, <2>7 DEF RestoreInv
<1> QED BY <1>5, <1>6, <1>7, <1>8 DEF RestoreHeader

\* Behind the header.
LEMMA RestoreInfoEndKeeps == ASSUME RestoreInv, RestoreInfoEnd PROVE RestoreInv'
<1>1. /\ rpc \in {"first", "next", "unzipped"} /\ rcall.room > 0 /\ r.state = "infoend"
  BY HandlesIs DEF RestoreInfoEnd
<1>2. PICK info, ret, consumed :
        info = [r EXCEPT !.shared = 0] /\ ret = "next" /\ consumed = Padding
  OBVIOUS
<1>3. Answered(ret, info, consumed)
  BY <1>2 DEF RestoreInfoEnd, Answered
<1>4. Keeps(info) /\ consumed \in 0..rcall.room /\ r.state # "max"
  <2>1. 0 \in 0..(SECTOR - 1)
    BY DriveAssumption
  <2>2. Keeps(info)
    BY <1>2, <2>1 DEF Keeps, RestoreInv, RestoreTyped
  <2>3. rcall.room \in Nat
    BY DEF RestoreInv, RestoreTyped
  <2>4. consumed = 0 \/ consumed = 1
    BY <1>2 DEF Padding
  <2>5. consumed \in 0..rcall.room
    BY <1>1, <2>3, <2>4
  <2> QED BY <1>1, <2>2, <2>5
<1>5. /\ RestoreTyped'
      /\ ret # "more" => r'.state = NextState(RestoreTable, r.state)
  BY <1>1, <1>3, <1>4, AnsweredKeeps DEF RestoreInv
<1>6. r'.state = "boot" /\ UNCHANGED <<head, target>>
  BY <1>1, <1>2, <1>5, RestoreGoesOn DEF RestoreInfoEnd
<1>7. RestoreWithin'
  BY <1>1, <1>6 DEF RestoreInv, RestoreWithin
<1>8. TargetInv'
  BY <1>1, <1>6, EarlyTarget DEF RestoreInv
<1> QED BY <1>5, <1>7, <1>8 DEF RestoreInv

\* The boot block.
LEMMA RestoreBootKeeps == ASSUME RestoreInv, RestoreBoot PROVE RestoreInv'
<1>1. /\ rpc \in {"first", "next", "unzipped"} /\ rcall.room > 0 /\ r.state = "boot"
  BY HandlesIs DEF RestoreBoot
<1>2. PICK info, ret, one : info = r /\ ret = "next" /\ one = 1
  OBVIOUS
<1>3. Answered(ret, info, one)
  BY <1>2 DEF RestoreBoot, Answered
<1>4. Keeps(info) /\ one \in 0..rcall.room /\ r.state # "max"
  BY <1>1, <1>2 DEF Keeps, RestoreInv, RestoreTyped
<1>5. /\ RestoreTyped'
      /\ ret # "more" => /\ r'.state = NextState(RestoreTable, r.state) /\ r'.val1 = 0
                         /\ r'.val2 = 0
  BY <1>1, <1>3, <1>4, AnsweredKeeps DEF RestoreInv
<1>6. r'.state = "partitions" /\ r'.val1 = 0 /\ r'.val2 = 0 /\ UNCHANGED head
  BY <1>1, <1>2, <1>5, RestoreGoesOn DEF RestoreBoot
<1>7. RestoreWithin'
  <2>1. Len(head.parts) = Len(Drive.parts) /\ SentList(head.parts)
    BY <1>1 DEF RestoreInv, RestoreWithin
  <2>2. 0 < Len(head.parts) /\ 0 + 1 \in 1..Len(head.parts)
    BY <2>1, SourceIs
  <2>3. head.parts[0 + 1][3] \in Nat
    BY <2>1, <2>2 DEF SentList, Sent
  <2>4. 0 <= head.parts[0 + 1][3]
    BY <2>3
  <2> QED BY <1>6, <2>1, <2>2, <2>4 DEF RestoreInv, RestoreWithin
<1>8. DOMAIN target' = DOMAIN target /\ target'.data = target.data /\ target'.fixed = target.fixed
  BY DEF RestoreBoot, RestoreInv, TargetInv
<1>9. TargetInv'
  BY <1>1, <1>6, <1>8, EarlyTarget DEF RestoreInv
<1> QED BY <1>5, <1>7, <1>9 DEF RestoreInv

\* The raw partitions.
LEMMA RestorePartitionsKeep == ASSUME RestoreInv, RestorePartitions PROVE RestoreInv'
<1>1. /\ rpc \in {"first", "next", "unzipped"} /\ rcall.room > 0 /\ r.state = "partitions"
  BY HandlesIs DEF RestorePartitions
<1>2. PICK len \in Nat : len = Len(head.parts) /\ len = Len(Drive.parts)
  BY <1>1, SourceIs DEF RestoreInv, RestoreWithin
<1>3. PICK p \in 1..len : p = r.val1 + 1 /\ r.val2 <= head.parts[p][3]
  BY <1>1, <1>2 DEF RestoreInv, RestoreTyped, RestoreWithin
<1>4. \A i \in 1..len : head.parts[i][3] \in Nat
  BY <1>2 DEF RestoreInv, RestoreWithin, SentList, Sent
<1>5. PICK size, val2 \in Nat : size = head.parts[p][3] /\ val2 = r.val2 /\ val2 <= size
  BY <1>3, <1>4 DEF RestoreInv, RestoreTyped
<1>6. PICK tocopy \in Nat : /\ tocopy = SmallerOf(size - val2, rcall.room)
                           /\ tocopy \in 0..rcall.room /\ val2 + tocopy \in 0..size
  <2>1. val2 \in 0..size /\ rcall.room \in Nat
    BY <1>5 DEF RestoreInv, RestoreTyped
  <2> QED BY <2>1, ToCopy
<1>7. PICK info : info = IF val2 + tocopy >= size THEN [r EXCEPT !.val1 = @ + 1, !.val2 = 0]
                         ELSE [r EXCEPT !.val2 = @ + tocopy]
  OBVIOUS
<1>8. PICK ret : ret = IF info.val1 < len THEN "more" ELSE "next"
  OBVIOUS
<1>9. Answered(ret, info, tocopy)
  BY <1>2, <1>3, <1>5, <1>6, <1>7, <1>8 DEF RestorePartitions, Answered
<1>10. /\ Keeps(info)
       /\ (info.val1 = r.val1 /\ info.val2 \in 0..size) \/ (info.val1 = p /\ info.val2 = 0)
  <2>1. CASE val2 + tocopy >= size
    BY <1>3, <1>7, <2>1 DEF Keeps, RestoreInv, RestoreTyped
  <2>2. CASE ~(val2 + tocopy >= size)
    <3>1. r.val2 + tocopy \in Nat /\ r.val2 + tocopy \in 0..size
      BY <1>5, <1>6
    <3> QED BY <1>7, <2>2, <3>1 DEF Keeps, RestoreInv, RestoreTyped
  <2> QED BY <2>1, <2>2
<1>11. /\ RestoreTyped'
       /\ ret = "more" => /\ r'.state = r.state /\ r'.val1 = info.val1 /\ r'.val2 = info.val2
       /\ ret # "more" => /\ r'.state = NextState(RestoreTable, r.state)
  BY <1>1, <1>6, <1>9, <1>10, AnsweredKeeps DEF RestoreInv
<1>12. UNCHANGED head
  BY DEF RestorePartitions
<1>13. r'.state \notin {"inodes", "complete", "max"} /\ RestoreWithin'
  <2>1. CASE ret = "more"
    <3>1. info.val1 < len
      BY <1>8, <2>1
    <3>2. info.val2 <= head.parts[info.val1 + 1][3]
      <4>1. CASE info.val1 = r.val1 /\ info.val2 \in 0..size
        BY <1>3, <1>5, <4>1
      <4>2. CASE info.val1 = p /\ info.val2 = 0
        <5>1. p + 1 \in 1..len
          BY <3>1, <4>2
        <5>2. head.parts[p + 1][3] \in Nat
          BY <1>4, <5>1
        <5> QED BY <4>2, <5>2
      <4> QED BY <1>10, <4>1, <4>2
    <3>3. r'.state = "partitions" /\ r'.val1 = info.val1 /\ r'.val2 = info.val2
      BY <1>1, <1>11, <2>1
    <3> QED BY <1>2, <1>12, <3>1, <3>2, <3>3 DEF RestoreInv, RestoreWithin
  <2>2. CASE ret # "more"
    <3>1. r'.state = "mfsinit"
      BY <1>1, <1>11, <2>2, RestoreGoesOn
    <3> QED BY <1>2, <1>12, <3>1 DEF RestoreInv, RestoreWithin
  <2> QED BY <2>1, <2>2
<1>14. DOMAIN target' = DOMAIN target /\ target'.data = target.data /\ target'.fixed = target.fixed
  BY DEF RestorePartitions, RestoreInv, TargetInv
<1>15. TargetInv'
  BY <1>1, <1>13, <1>14, EarlyTarget DEF RestoreInv
<1> QED BY <1>11, <1>13, <1>15 DEF RestoreInv

\* The states that write the file system of the target.
LEMMA RestoreRegionKeeps == ASSUME RestoreInv, RestoreRegion PROVE RestoreInv'
<1>1. PICK s \in {"mfsinit", "volhdr", "translog", "unkregion", "reinit"} :
        /\ Handles(s)
        /\ target' = [target EXCEPT !.regions = @ \cup {s}]
        /\ Answered("next", r, IF s = "volhdr" THEN 1 ELSE 0)
        /\ UNCHANGED head
  BY DEF RestoreRegion
<1>2. rpc \in {"first", "next", "unzipped"} /\ rcall.room > 0 /\ r.state = s
  BY <1>1, HandlesIs
<1>3. PICK info, ret, consumed :
        info = r /\ ret = "next" /\ consumed = IF s = "volhdr" THEN 1 ELSE 0
  OBVIOUS
<1>4. Answered(ret, info, consumed)
  BY <1>1, <1>3 DEF Answered
<1>5. Keeps(info) /\ consumed \in 0..rcall.room /\ r.state # "max"
  <2>1. Keeps(info)
    BY <1>3 DEF Keeps, RestoreInv, RestoreTyped
  <2>2. rcall.room \in Nat /\ (consumed = 0 \/ consumed = 1)
    BY <1>3 DEF RestoreInv, RestoreTyped
  <2> QED BY <1>1, <1>2, <2>1, <2>2
<1>6. /\ RestoreTyped'
      /\ ret # "more" => /\ r'.state = NextState(RestoreTable, r.state) /\ r'.val1 = 0
                         /\ r'.val2 = 0 /\ r'.ptr = 0
  BY <1>2, <1>4, <1>5, AnsweredKeeps DEF RestoreInv
<1>7. /\ r'.state \in {"volhdr", "translog", "unkregion", "reinit", "inodes"}
      /\ r'.val1 = 0 /\ r'.ptr = 0 /\ UNCHANGED head
  BY <1>1, <1>2, <1>3, <1>6, RestoreGoesOn
<1>8. RestoreWithin'
  BY <1>1, <1>2, <1>7 DEF RestoreInv, RestoreWithin
<1>9. /\ DOMAIN target' = DOMAIN target /\ target'.data = target.data
      /\ target'.fixed = target.fixed
  BY <1>1 DEF RestoreInv, TargetInv
<1>10. target.data = <<>> /\ ~target.fixed
  BY <1>1, <1>2 DEF RestoreInv, TargetInv
<1>11. TargetInv'
  <2>1. CASE r'.state = "inodes"
    <3>1. Len(target'.data) = 0 /\ IsList(target'.data) /\ 0 < Len(Drive.files)
      BY <1>9, <1>10, ShortLists, SourceIs
    <3>2. \A i \in 1..0 : Whole(i, target'.data, target'.logged \cup target'.committed)
      OBVIOUS
    <3>3. ~target'.fixed
      BY <1>9, <1>10
    <3> QED BY <1>7, <1>9, <2>1, <3>1, <3>2, <3>3 DEF RestoreInv, TargetInv
  <2>2. CASE r'.state # "inodes"
    BY <1>1, <1>2, <1>7, <1>9, <2>2, EarlyTarget DEF RestoreInv
  <2> QED BY <2>1, <2>2
<1> QED BY <1>6, <1>8, <1>11 DEF RestoreInv

\* What a turn of the inode loop leaves of the info structure and of the target.
Turned(info, t) ==
  /\ Keeps(info) /\ DOMAIN t = DOMAIN target /\ IsList(t.data) /\ ~t.fixed
  /\ info.val1 <= Len(Drive.files)
  /\ \A i \in 1..info.val1 : Whole(i, t.data, t.logged \cup t.committed)
  /\ info.ptr = 0 => Len(t.data) = info.val1
  /\ info.ptr # 0 =>
       /\ info.val1 < Len(Drive.files)
       /\ Len(t.data) = info.val1 + 1 /\ info.val2 < info.ptr
       /\ Len(t.data[info.val1 + 1]) = info.val2 * SECTOR
       /\ \E rec \in t.logged \cup t.committed : rec[1] = info.val1 + 1 /\ rec[3] = info.ptr
  /\ info.val1 = Len(Drive.files) => info.since > 0

\* The end of a turn: with the last inode done, all that is logged is committed.
LEMMA InodeTurnKeeps ==
  ASSUME RestoreInv, NEW info, NEW t, NEW consumed, InodeTurn(info, t, consumed), Turned(info, t),
         rpc \in {"first", "next", "unzipped"}, r.state = "inodes", consumed \in 0..rcall.room
  PROVE  RestoreInv'
<1> DEFINE listed  == info.val1 = Len(Drive.files)
           returns == listed \/ rcall.room = consumed
<1>1. PICK ret, info2 : /\ ret = (IF listed THEN "next" ELSE "more")
                        /\ info2 = IF returns THEN [info EXCEPT !.since = 0] ELSE info
  OBVIOUS
<1>2. Answered(ret, info2, consumed) /\ UNCHANGED head
  BY <1>1 DEF InodeTurn, Answered
<1>3. target' = IF returns /\ CommitDue(info) THEN Commit(t) ELSE t
  BY DEF InodeTurn
<1>4. DOMAIN info = DOMAIN r /\ DOMAIN r = {"state", "val1", "val2", "ptr", "shared", "since",
        "cursector", "crc", "nsectors", "compressed", "initialized"}
  BY DEF Turned, Keeps, RestoreInv, RestoreTyped
<1>5. /\ Keeps(info2) /\ info2.val1 = info.val1 /\ info2.val2 = info.val2 /\ info2.ptr = info.ptr
  <2>1. CASE returns
    <3>1. info2 = [info EXCEPT !.since = 0]
      BY <1>1, <2>1
    <3> HIDE DEF returns
    <3>2. 0 \in Nat
      OBVIOUS
    <3> QED BY <1>4, <3>1, <3>2 DEF Turned, Keeps
  <2>2. CASE ~returns
    <3>1. info2 = info
      BY <1>1, <2>2
    <3> QED BY <3>1 DEF Turned
  <2> QED BY <2>1, <2>2
<1>6. /\ RestoreTyped'
      /\ ret = "more" => /\ r'.state = r.state /\ r'.val1 = info2.val1
                         /\ r'.val2 = info2.val2 /\ r'.ptr = info2.ptr
      /\ ret # "more" => r'.state = NextState(RestoreTable, r.state)
  BY <1>2, <1>5, AnsweredKeeps DEF RestoreInv
<1>7. PICK all : all = t.logged \cup t.committed
  OBVIOUS
<1>8. /\ DOMAIN target' = DOMAIN t /\ target'.data = t.data /\ target'.fixed = t.fixed
      /\ target'.logged \cup target'.committed = all
      /\ returns /\ CommitDue(info) => target'.logged = {} /\ target'.committed = all
  <2>0. DOMAIN t = {"boot", "disk", "regions", "logged", "committed", "data", "fixed"}
    BY DEF Turned, RestoreInv, TargetInv
  <2>1. CASE returns /\ CommitDue(info)
    <3>1. target' = [t EXCEPT !.committed = @ \cup t.logged, !.logged = {}]
      BY <1>3, <2>1 DEF Commit
    <3>2. target'.logged = {} /\ target'.committed = t.committed \cup t.logged
      BY <2>0, <3>1
    <3>3. DOMAIN target' = DOMAIN t /\ target'.data = t.data /\ target'.fixed = t.fixed
      BY <2>0, <3>1
    <3>4. target'.committed = all /\ target'.logged \cup target'.committed = all
      BY <1>7, <3>2
    <3> QED BY <3>2, <3>3, <3>4
  <2>2. CASE ~(returns /\ CommitDue(info))
    <3>1. target' = t
      BY <1>3, <2>2
    <3> QED BY <1>7, <2>2, <3>1
  <2> QED BY <2>1, <2>2
<1>9. CASE listed
  <2>1. r'.state = "complete"
    BY <1>1, <1>6, <1>9, RestoreGoesOn
  <2>2. CommitDue(info)
    BY <1>9 DEF Turned, CommitDue
  <2>3. target'.logged = {} /\ target'.committed = all
    BY <1>8, <1>9, <2>2
  <2>4. \A i \in 1..Len(Drive.files) : Whole(i, target'.data, target'.committed)
    BY <1>7, <1>8, <1>9, <2>3 DEF Turned
  <2>5. DOMAIN target' = DOMAIN target /\ IsList(target'.data)
    BY <1>8 DEF Turned
  <2> HIDE DEF listed, returns
  <2>6. TargetInv'
    BY <2>1, <2>3, <2>4, <2>5 DEF RestoreInv, TargetInv
  <2>7. RestoreWithin'
    BY <1>2, <2>1 DEF RestoreInv, RestoreWithin
  <2> QED BY <1>6, <2>6, <2>7 DEF RestoreInv
<1>10. CASE ~listed
  <2>1. /\ r'.state = "inodes" /\ r'.val1 = info.val1 /\ r'.val2 = info.val2
        /\ r'.ptr = info.ptr
    BY <1>1, <1>5, <1>6, <1>10
  <2>2. r'.val1 < Len(Drive.files)
    <3>1. info.val1 \in Nat /\ info.val1 <= Len(Drive.files) /\ info.val1 # Len(Drive.files)
      BY <1>10 DEF Turned, Keeps
    <3>2. Len(Drive.files) \in Nat
      BY SourceIs
    <3> QED BY <2>1, <3>1, <3>2
  <2> HIDE DEF listed, returns
  <2>3. /\ DOMAIN target' = DOMAIN target /\ IsList(target'.data) /\ ~target'.fixed
    BY <1>8 DEF Turned
  <2>4. \A i \in 1..r'.val1 : Whole(i, target'.data, target'.logged \cup target'.committed)
    BY <1>7, <1>8, <2>1 DEF Turned
  <2>5. r'.ptr = 0 => Len(target'.data) = r'.val1
    BY <1>8, <2>1 DEF Turned
  <2>6. r'.ptr # 0 =>
            /\ Len(target'.data) = r'.val1 + 1 /\ r'.val2 < r'.ptr
            /\ Len(target'.data[r'.val1 + 1]) = r'.val2 * SECTOR
            /\ \E rec \in target'.logged \cup target'.committed :
                 rec[1] = r'.val1 + 1 /\ rec[3] = r'.ptr
    BY <1>7, <1>8, <2>1 DEF Turned
  <2>7. TargetInv'
    BY <2>1, <2>2, <2>3, <2>4, <2>5, <2>6 DEF RestoreInv, TargetInv
  <2>8. RestoreWithin'
    BY <1>2, <2>1 DEF RestoreInv, RestoreWithin
  <2> QED BY <1>6, <2>7, <2>8 DEF RestoreInv
<1> QED BY <1>9, <1>10

\* A list with one more element.
LEMMA OneMore ==
  ASSUME NEW s, NEW x, IsList(s)
  PROVE  /\ IsList(Append(s, x)) /\ Len(Append(s, x)) = Len(s) + 1
         /\ \A i \in 1..Len(s) : Append(s, x)[i] = s[i]
         /\ Append(s, x)[Len(s) + 1] = x
<1>1. Len(s) \in Nat /\ s \in Seq({s[i] : i \in 1..Len(s)})
  BY ListIsSeq DEF IsList
<1>2. PICK S : s \in Seq(S) /\ x \in S
  <2> DEFINE S == {s[i] : i \in 1..Len(s)} \cup {x}
  <2>1. s \in Seq(S) /\ x \in S
    BY <1>1
  <2> QED BY <2>1
<1>3. PICK t : t = Append(s, x)
  OBVIOUS
<1>4. t \in Seq(S) /\ Len(t) = Len(s) + 1
  BY <1>2, <1>3
<1>5. PICK n \in Nat : n = Len(s) + 1
  BY <1>1
<1>6. DOMAIN t = 1..n /\ t = [i \in 1..n |-> t[i]]
  BY <1>4, <1>5
<1>7. IsList(t) /\ Len(t) = n
  BY <1>6, FunctionIsList
<1>8. (\A i \in 1..Len(s) : t[i] = s[i]) /\ t[Len(s) + 1] = x
  BY <1>1, <1>2, <1>3
<1> QED BY <1>3, <1>5, <1>7, <1>8

\* The next inode: its record is in the log, its data still to come.
LEMMA RestoreInodeKeeps ==
  ASSUME RestoreInv, NEW size \in 0..MaxData, RestoreInode(size) PROVE RestoreInv'
<1>1. /\ rpc \in {"first", "next", "unzipped"} /\ rcall.room > 0 /\ r.state = "inodes"
      /\ r.ptr = 0
  BY HandlesIs DEF RestoreInode
<1>2. PICK val1, nfiles \in Nat : /\ val1 = r.val1 /\ nfiles = Len(Drive.files) /\ val1 < nfiles
                                 /\ Len(target.data) = val1
  BY <1>1, SourceIs DEF RestoreInv, RestoreTyped, TargetInv
<1>3. PICK many : many = (r.since > CommitEvery)
  OBVIOUS
<1>4. PICK t : t = IF many THEN Commit(target) ELSE target
  OBVIOUS
<1>5. PICK rec : rec = <<val1 + 1, rcall.page[1], size>>
  OBVIOUS
<1>6. PICK made : made = [t EXCEPT !.logged = @ \cup {rec}, !.data = Append(@, <<>>)]
  OBVIOUS
<1>7. PICK info : info = [r EXCEPT !.since = IF many THEN 0 ELSE @]
  OBVIOUS
<1>8. PICK info2, one : /\ info2 = (IF size = 0 THEN [info EXCEPT !.val1 = @ + 1, !.since = @ + 1]
                                    ELSE [info EXCEPT !.ptr = size, !.val2 = 0])
                        /\ one = 1
  OBVIOUS
<1>9. InodeTurn(info2, made, one)
  BY <1>2, <1>3, <1>4, <1>5, <1>6, <1>7, <1>8 DEF RestoreInode, InodeTurn
<1>10. PICK since \in Nat : /\ info = [r EXCEPT !.since = since]
  <2>1. r.since \in Nat
    BY DEF RestoreInv, RestoreTyped
  <2>2. CASE many
    BY <1>7, <2>2
  <2>3. CASE ~many
    BY <1>7, <2>1, <2>3
  <2> QED BY <2>2, <2>3
<1>11. DOMAIN r = {"state", "val1", "val2", "ptr", "shared", "since",
        "cursector", "crc", "nsectors", "compressed", "initialized"}
  BY DEF RestoreInv, RestoreTyped
<1>12. size \in Nat
  BY DriveAssumption
<1>13. /\ Keeps(info2)
       /\ \/ size = 0 /\ info2.val1 = val1 + 1 /\ info2.since = since + 1 /\ info2.ptr = 0
          \/ size # 0 /\ info2.val1 = val1 /\ info2.ptr = size /\ info2.val2 = 0
  <2>1. CASE size = 0
    <3>1. info2 = [info EXCEPT !.val1 = @ + 1, !.since = @ + 1]
      BY <1>8, <2>1
    <3>2. info.val1 = val1 /\ info.since = since
      BY <1>2, <1>10, <1>11
    <3>3. info2.val1 = val1 + 1 /\ info2.since = since + 1 /\ info2.ptr = 0
      BY <1>1, <1>10, <1>11, <3>1, <3>2
    <3>4. Keeps(info2)
      BY <1>10, <1>11, <3>1, <3>3 DEF Keeps, RestoreInv, RestoreTyped
    <3> QED BY <2>1, <3>3, <3>4
  <2>2. CASE size # 0
    <3>1. info2 = [info EXCEPT !.ptr = size, !.val2 = 0]
      BY <1>8, <2>2
    <3>2. Keeps(info2)
      BY <1>10, <1>11, <1>12, <3>1 DEF Keeps, RestoreInv, RestoreTyped
    <3>3. info2.val1 = val1 /\ info2.ptr = size /\ info2.val2 = 0
      BY <1>2, <1>10, <1>11, <3>1
    <3> QED BY <2>2, <3>2, <3>3
  <2> QED BY <2>1, <2>2
<1>14. PICK all : all = target.logged \cup target.committed
  OBVIOUS
<1>15. DOMAIN target = {"boot", "disk", "regions", "logged", "committed", "data", "fixed"}
  BY DEF RestoreInv, TargetInv
<1>16. /\ DOMAIN t = DOMAIN target /\ t.data = target.data /\ t.fixed = target.fixed
       /\ t.logged \cup t.committed = all
  <2>1. CASE many
    <3>1. t = [target EXCEPT !.committed = @ \cup target.logged, !.logged = {}]
      BY <1>4, <2>1 DEF Commit
    <3>2. t.committed = target.committed \cup target.logged /\ t.logged = {}
      BY <1>15, <3>1
    <3>3. DOMAIN t = DOMAIN target /\ t.data = target.data /\ t.fixed = target.fixed
      BY <1>15, <3>1
    <3> QED BY <1>14, <3>2, <3>3
  <2>2. CASE ~many
    <3>1. t = target
      BY <1>4, <2>2
    <3> QED BY <1>14, <3>1
  <2> QED BY <2>1, <2>2
<1>17. PICK data : data = Append(target.data, <<>>)
  OBVIOUS
<1>18. /\ DOMAIN made = DOMAIN target /\ made.data = data /\ made.fixed = target.fixed
       /\ made.logged \cup made.committed = all \cup {rec}
  <2>1. made.logged = t.logged \cup {rec} /\ made.committed = t.committed
    BY <1>6, <1>15, <1>16
  <2>2. DOMAIN made = DOMAIN target /\ made.data = data /\ made.fixed = target.fixed
    BY <1>6, <1>15, <1>16, <1>17
  <2> QED BY <1>16, <2>1, <2>2
<1>19. /\ IsList(data) /\ Len(data) = val1 + 1
       /\ \A i \in 1..val1 : data[i] = target.data[i]
       /\ data[val1 + 1] = <<>>
  <2>1. IsList(target.data)
    BY DEF RestoreInv, TargetInv
  <2> QED BY <1>2, <1>17, <2>1, OneMore
<1>20. Len(data[val1 + 1]) = 0 /\ 0 * SECTOR = 0
  BY <1>19, ShortLists, DriveAssumption
<1>21. rec[1] = val1 + 1 /\ rec[3] = size
  BY <1>5
<1>22. \A i \in 1..val1 : Whole(i, data, all \cup {rec})
  <2>1. \A i \in 1..val1 : Whole(i, target.data, all)
    BY <1>1, <1>2, <1>14 DEF RestoreInv, TargetInv
  <2> QED BY <1>19, <2>1 DEF Whole
<1>23. ~made.fixed
  BY <1>1, <1>18 DEF RestoreInv, TargetInv
<1>24. Turned(info2, made)
  <2>1. CASE size = 0
    <3>1. Whole(val1 + 1, data, all \cup {rec})
      BY <1>20, <1>21, <2>1 DEF Whole
    <3>2. \A i \in 1..(val1 + 1) : i \in 1..val1 \/ i = val1 + 1
      OBVIOUS
    <3>3. \A i \in 1..(val1 + 1) : Whole(i, data, all \cup {rec})
      BY <1>22, <3>1, <3>2
    <3>4. info2.val1 = val1 + 1 /\ info2.ptr = 0 /\ info2.since > 0 /\ val1 + 1 <= nfiles
      BY <1>2, <1>13, <2>1
    <3> QED BY <1>2, <1>13, <1>18, <1>19, <1>23, <3>3, <3>4 DEF Turned
  <2>2. CASE size # 0
    <3>1. info2.val1 = val1 /\ info2.ptr = size /\ info2.val2 = 0 /\ size > 0
      BY <1>12, <1>13, <2>2
    <3>2. \E q \in all \cup {rec} : q[1] = val1 + 1 /\ q[3] = size
      BY <1>21
    <3>3. PICK past : past = val1 + 1 /\ Len(data) = past /\ Len(data[past]) = 0 * SECTOR
      BY <1>19, <1>20
    <3>4. /\ info2.val1 < Len(Drive.files) /\ Len(made.data) = info2.val1 + 1
          /\ info2.val2 < info2.ptr /\ Len(made.data[info2.val1 + 1]) = info2.val2 * SECTOR
      BY <1>2, <1>18, <3>1, <3>3
    <3>5. \E q \in made.logged \cup made.committed : q[1] = info2.val1 + 1 /\ q[3] = info2.ptr
      BY <1>18, <3>1, <3>2
    <3>6. \A i \in 1..info2.val1 : Whole(i, made.data, made.logged \cup made.committed)
      BY <1>18, <1>22, <3>1
    <3>7. /\ info2.val1 <= Len(Drive.files) /\ info2.val1 # Len(Drive.files) /\ info2.ptr # 0
      BY <1>2, <1>12, <2>2, <3>1
    <3> QED BY <1>13, <1>18, <1>19, <1>23, <3>4, <3>5, <3>6, <3>7 DEF Turned
  <2> QED BY <2>1, <2>2
<1>25. one \in 0..rcall.room
  BY <1>1, <1>8 DEF RestoreInv, RestoreTyped
<1> QED BY <1>1, <1>9, <1>24, <1>25, InodeTurnKeeps

\* How long a buffer is after memcpy.
LEMMA PutLength ==
  ASSUME NEW s, NEW off \in Nat, NEW t, Len(s) \in Nat, IsList(t)
  PROVE  /\ IsList(Put(s, off, t))
         /\ Len(Put(s, off, t)) = IF Len(s) > off + Len(t) THEN Len(s) ELSE off + Len(t)
<1>1. PICK last \in Nat : last = off + Len(t)
  BY DEF IsList
<1>2. PICK n \in Nat : n = IF Len(s) > last THEN Len(s) ELSE last
  BY <1>1
<1>3. PICK u : u = Put(s, off, t)
  OBVIOUS
<1>4. u = [k \in 1..n |-> IF k > off /\ k <= last THEN t[k - off]
                          ELSE IF k <= Len(s) THEN s[k] ELSE <<"junk", 0, 0>>]
  BY <1>1, <1>2, <1>3 DEF Put
<1>5. IsList(u) /\ Len(u) = n
  BY <1>4, FunctionIsList
<1> QED BY <1>1, <1>2, <1>3, <1>5

\* More of the data of an inode.
LEMMA RestoreInodeDataKeeps == ASSUME RestoreInv, RestoreInodeData PROVE RestoreInv'
<1>1. /\ rpc \in {"first", "next", "unzipped"} /\ rcall.room > 0 /\ r.state = "inodes"
      /\ r.ptr # 0
  <2>1. r.ptr > 0 /\ r.ptr \in Nat
    BY DEF RestoreInodeData, RestoreInv, RestoreTyped
  <2> QED BY <2>1, HandlesIs DEF RestoreInodeData
<1>2. PICK val1, nfiles, val2, ptr, since, room \in Nat :
        /\ val1 = r.val1 /\ nfiles = Len(Drive.files) /\ val1 < nfiles
        /\ val2 = r.val2 /\ ptr = r.ptr /\ val2 < ptr /\ since = r.since /\ room = rcall.room
        /\ Len(target.data) = val1 + 1 /\ Len(target.data[val1 + 1]) = val2 * SECTOR
        /\ \E rec \in target.logged \cup target.committed : rec[1] = val1 + 1 /\ rec[3] = ptr
  <2>1. /\ r.val1 \in Nat /\ r.val2 \in Nat /\ r.ptr \in Nat /\ r.since \in Nat
        /\ rcall.room \in Nat /\ Len(Drive.files) \in Nat
    BY SourceIs DEF RestoreInv, RestoreTyped
  <2>2. /\ r.val1 < Len(Drive.files) /\ r.val2 < r.ptr /\ Len(target.data) = r.val1 + 1
        /\ Len(target.data[r.val1 + 1]) = r.val2 * SECTOR
        /\ \E rec \in target.logged \cup target.committed : rec[1] = r.val1 + 1 /\ rec[3] = r.ptr
    BY <1>1 DEF RestoreInv, TargetInv
  <2> QED BY <2>1, <2>2
<1>3. PICK towrite \in Nat :
        /\ towrite = SmallerOf(ptr - val2, room)
        /\ towrite \in 0..room /\ val2 + towrite \in 0..ptr /\ val2 + towrite \in Nat
  <2>1. val2 \in 0..ptr
    BY <1>2
  <2>2. PICK n : n = SmallerOf(ptr - val2, room)
    OBVIOUS
  <2>3. n \in Nat /\ n \in 0..room /\ val2 + n \in 0..ptr
    BY <2>1, <2>2, ToCopy
  <2> QED BY <2>2, <2>3
<1> DEFINE done == val2 + towrite >= ptr
<1>4. PICK units : units = SubSeq(rcall.page, 1, towrite * SECTOR)
  OBVIOUS
<1>5. PICK put : put = Put(target.data[val1 + 1], val2 * SECTOR, units)
  OBVIOUS
<1>6. PICK info, t :
        /\ info = (IF done THEN [r EXCEPT !.ptr = 0, !.val1 = @ + 1, !.since = @ + 1, !.val2 = 0]
                   ELSE [r EXCEPT !.val2 = @ + towrite])
        /\ t = [target EXCEPT !.data[val1 + 1] = put]
  OBVIOUS
<1>7. InodeTurn(info, t, towrite)
  BY <1>2, <1>3, <1>4, <1>5, <1>6 DEF RestoreInodeData, InodeTurn
<1>8. PICK n, off : n = towrite * SECTOR /\ off = val2 * SECTOR
  OBVIOUS
<1>9. /\ n \in Nat /\ off \in Nat /\ off + n = (val2 + towrite) * SECTOR
      /\ n <= Len(rcall.page) /\ IsList(rcall.page) /\ Len(rcall.page) \in Nat
  <2>1. SECTOR \in Nat \ {0}
    BY DriveAssumption
  <2>2. n \in Nat /\ off \in Nat /\ off + n = (val2 + towrite) * SECTOR
    BY <1>8, <2>1
  <2>3. n <= room * SECTOR /\ room * SECTOR \in Nat
    <3>1. towrite <= room
      BY <1>3
    <3> QED BY <1>8, <2>1, <3>1, TimesOrder
  <2>4. room * SECTOR <= Len(rcall.page) /\ IsList(rcall.page) /\ Len(rcall.page) \in Nat
    BY <1>2 DEF RestoreInv, RestoreTyped, SentList, IsList
  <2> QED BY <2>2, <2>3, <2>4
<1>10. IsList(units) /\ Len(units) = n
  <2>1. 1 \in 1..(Len(rcall.page) + 1) /\ n \in 0..Len(rcall.page) /\ 1 <= n + 1 /\ n - 1 + 1 = n
    BY <1>9
  <2> QED BY <1>4, <1>8, <1>9, <2>1, PartOfList
<1>11. Len(put) = off + n
  <2>1. Len(target.data[val1 + 1]) = off /\ off \in Nat
    BY <1>2, <1>8, <1>9
  <2>2. Len(put) = IF off > off + Len(units) THEN off ELSE off + Len(units)
    BY <1>5, <1>8, <1>10, <2>1, PutLength, SMTT(40)
  <2>3. ~(off > off + n)
    BY <1>9
  <2> QED BY <1>10, <2>2, <2>3
<1>12. PICK all : all = target.logged \cup target.committed
  OBVIOUS
<1>13. PICK data : data = [target.data EXCEPT ![val1 + 1] = put]
  OBVIOUS
<1>14. /\ DOMAIN t = DOMAIN target /\ t.data = data /\ t.fixed = target.fixed
       /\ t.logged \cup t.committed = all
  BY <1>6, <1>12, <1>13 DEF RestoreInv, TargetInv
<1>15. /\ IsList(data) /\ Len(data) = val1 + 1 /\ data[val1 + 1] = put
       /\ \A i \in 1..val1 : data[i] = target.data[i]
  <2>1. /\ DOMAIN target.data = 1..(val1 + 1)
        /\ target.data = [i \in 1..(val1 + 1) |-> target.data[i]]
    <3>1. IsList(target.data)
      BY DEF RestoreInv, TargetInv
    <3> QED BY <1>2, <3>1, ListIsSeq DEF IsList
  <2>2. DOMAIN data = 1..(val1 + 1) /\ data = [i \in 1..(val1 + 1) |-> data[i]]
    BY <1>13, <2>1
  <2>3. val1 + 1 \in Nat
    OBVIOUS
  <2>4. IsList(data) /\ Len(data) = val1 + 1
    BY <2>2, <2>3, FunctionIsList
  <2>5. data[val1 + 1] = put /\ \A i \in 1..val1 : data[i] = target.data[i]
    BY <1>13, <2>1
  <2> QED BY <2>4, <2>5
<1>16. \A i \in 1..val1 : Whole(i, data, all)
  <2>1. \A i \in 1..val1 : Whole(i, target.data, all)
    BY <1>1, <1>2, <1>12 DEF RestoreInv, TargetInv
  <2> QED BY <1>15, <2>1 DEF Whole
<1>17. ~t.fixed
  BY <1>1, <1>14 DEF RestoreInv, TargetInv
<1>18. Turned(info, t)
  <2>1. CASE done
    <3>1. info = [r EXCEPT !.ptr = 0, !.val1 = @ + 1, !.since = @ + 1, !.val2 = 0]
      BY <1>6, <2>1
    <3>2. /\ info.val1 = val1 + 1 /\ info.ptr = 0 /\ info.since = since + 1 /\ info.since > 0
          /\ val1 + 1 <= nfiles
      BY <1>2, <3>1, SMTT(40) DEF RestoreInv, RestoreTyped
    <3>3. Keeps(info)
      BY <3>1, SMTT(40) DEF Keeps, RestoreInv, RestoreTyped
    <3>4. PICK rec \in all : rec[1] = val1 + 1 /\ rec[3] = ptr
      BY <1>2, <1>12
    <3>5. Len(data[val1 + 1]) = ptr * SECTOR
      <4>1. val2 + towrite = ptr
        BY <1>3, <2>1
      <4> QED BY <1>9, <1>11, <1>15, <4>1
    <3>6. Whole(val1 + 1, data, all)
      BY <3>4, <3>5 DEF Whole
    <3>7. \A i \in 1..(val1 + 1) : i \in 1..val1 \/ i = val1 + 1
      OBVIOUS
    <3>8. \A i \in 1..(val1 + 1) : Whole(i, data, all)
      BY <1>16, <3>6, <3>7
    <3> HIDE DEF done
    <3> QED BY <1>2, <1>14, <1>15, <1>17, <3>2, <3>3, <3>8 DEF Turned
  <2>2. CASE ~done
    <3>1. info = [r EXCEPT !.val2 = @ + towrite]
      BY <1>6, <2>2
    <3>2. PICK now \in Nat : now = val2 + towrite /\ now < ptr
      BY <1>3, <2>2
    <3>3. info.val1 = val1 /\ info.ptr = ptr /\ info.val2 = now
      BY <1>2, <3>1, <3>2 DEF RestoreInv, RestoreTyped
    <3>4. Keeps(info)
      BY <3>1, <3>2, <3>3 DEF Keeps, RestoreInv, RestoreTyped
    <3>5. PICK past : past = val1 + 1 /\ Len(data) = past /\ Len(data[past]) = now * SECTOR
      BY <1>9, <1>11, <1>15, <3>2
    <3>6. /\ info.val1 < Len(Drive.files) /\ Len(t.data) = info.val1 + 1
          /\ info.val2 < info.ptr /\ Len(t.data[info.val1 + 1]) = info.val2 * SECTOR
      BY <1>2, <1>14, <3>2, <3>3, <3>5
    <3>7. \E q \in t.logged \cup t.committed : q[1] = info.val1 + 1 /\ q[3] = info.ptr
      BY <1>2, <1>12, <1>14, <3>3
    <3>8. \A i \in 1..info.val1 : Whole(i, t.data, t.logged \cup t.committed)
      BY <1>14, <1>16, <3>3
    <3>9. info.val1 <= Len(Drive.files) /\ info.val1 # Len(Drive.files) /\ info.ptr # 0
      BY <1>1, <1>2, <3>3
    <3> HIDE DEF done
    <3> QED BY <1>14, <1>15, <1>17, <3>4, <3>6, <3>7, <3>8, <3>9 DEF Turned
  <2> QED BY <2>1, <2>2
<1>19. towrite \in 0..rcall.room
  BY <1>2, <1>3
<1> QED BY <1>1, <1>7, <1>18, <1>19, InodeTurnKeeps

\* The last state.
LEMMA RestoreCompleteKeeps == ASSUME RestoreInv, RestoreComplete PROVE RestoreInv'
<1>1. /\ rpc \in {"first", "next", "unzipped"} /\ rcall.room > 0 /\ r.state = "complete"
      /\ target' = [target EXCEPT !.fixed = TRUE]
  BY HandlesIs DEF RestoreComplete
<1>2. /\ DOMAIN target' = DOMAIN target /\ target'.data = target.data
      /\ target'.logged = target.logged /\ target'.committed = target.committed
  BY <1>1 DEF RestoreInv, TargetInv
<1>3. ASSUME r'.state \in {"complete", "max"} PROVE TargetInv'
  BY <1>1, <1>2, <1>3 DEF RestoreInv, TargetInv
<1>4. CASE CrcRight
  <2>1. PICK info, ret, one : info = r /\ ret = "next" /\ one = 1
    OBVIOUS
  <2>2. Answered(ret, info, one) /\ UNCHANGED head
    BY <1>4, <2>1 DEF RestoreComplete, Answered
  <2>3. Keeps(info) /\ one \in 0..rcall.room /\ r.state # "max"
    BY <1>1, <2>1 DEF Keeps, RestoreInv, RestoreTyped
  <2>4. /\ RestoreTyped'
        /\ ret # "more" => r'.state = NextState(RestoreTable, r.state)
    BY <1>1, <2>2, <2>3, AnsweredKeeps DEF RestoreInv
  <2>5. r'.state = "max"
    BY <1>1, <2>1, <2>4, RestoreGoesOn
  <2>6. RestoreWithin'
    BY <1>1, <2>2, <2>5 DEF RestoreInv, RestoreWithin
  <2> QED BY <1>3, <2>4, <2>5, <2>6 DEF RestoreInv
<1>5. CASE ~CrcRight
  <2>1. rpc' = "error" /\ UNCHANGED <<r, rcall, unzip, head>>
    BY <1>5 DEF RestoreComplete, HandlerFails
  <2>2. RestoreTyped'
    BY <2>1 DEF RestoreInv, RestoreTyped
  <2>3. RestoreWithin'
    BY <2>1 DEF RestoreInv, RestoreWithin
  <2> QED BY <1>1, <1>3, <2>1, <2>2, <2>3 DEF RestoreInv
<1> QED BY <1>4, <1>5

-----------------------------------------------------------------------------
(* restore_write around the state machine.                                 *)

\* What does not run the state machine leaves its state and the target alone.
LEMMA OnlyBuffers ==
  ASSUME RestoreInv, UNCHANGED <<r, head, target>>, RestoreTyped' PROVE RestoreInv'
BY ZenonT(60) DEF RestoreInv, RestoreWithin, TargetInv

\* The sectors that there are of so many units.
LEMMA SectorsOf ==
  ASSUME NEW units, SentList(units)
  PROVE  /\ Len(units) \in Nat /\ Len(units) \div SECTOR \in Nat
         /\ (Len(units) \div SECTOR) * SECTOR <= Len(units)
<1>1. PICK n \in Nat : n = Len(units)
  BY DEF SentList, IsList
<1>2. SECTOR \in Nat \ {0}
  BY DriveAssumption
<1>3. n \div SECTOR \in Nat /\ (n \div SECTOR) * SECTOR <= n
  BY <1>2, DivFacts
<1> QED BY <1>1, <1>3

\* A call of restore_write.
LEMMA WriteStartsKeeps ==
  ASSUME RestoreInv, NEW units, SentList(units), WriteStarts(units)
  PROVE  RestoreInv'
<1>1. UNCHANGED <<r, unzip, head, target>>
  BY DEF WriteStarts
<1>2. PICK len \in Nat : len = Len(units)
  BY SectorsOf
<1>3. SECTOR \in Nat \ {0} /\ 1 * SECTOR = SECTOR
  BY DriveAssumption
<1>4. CASE r.compressed /\ r.cursector > 0
  <2>1. rpc' = "unzip" /\ rcall' = [rcall EXCEPT !.size = len, !.in = units, !.got = 0]
    BY <1>2, <1>4 DEF WriteStarts
  <2>2. /\ DOMAIN rcall' = DOMAIN rcall /\ rcall'.size = len /\ rcall'.in = units /\ rcall'.got = 0
        /\ rcall'.room = rcall.room /\ rcall'.page = rcall.page /\ rcall'.done = rcall.done
    BY <2>1 DEF RestoreInv, RestoreTyped
  <2>3. RestoreTyped'
    BY <1>1, <1>2, <2>1, <2>2 DEF RestoreInv, RestoreTyped
  <2> QED BY <1>1, <2>3, OnlyBuffers
<1>5. CASE ~(r.compressed /\ r.cursector > 0)
  <2>1. CASE rpc' = "error" /\ UNCHANGED rcall
    <3>1. RestoreTyped'
      BY <1>1, <2>1 DEF RestoreInv, RestoreTyped
    <3> QED BY <1>1, <3>1, OnlyBuffers
  <2>2. ASSUME NEW room \in Nat, room * SECTOR <= len, rpc' \in {"first", "next"},
               rcall' = [rcall EXCEPT !.size = len, !.in = <<>>, !.got = 0, !.page = units,
                                      !.room = room, !.done = 0]
        PROVE  RestoreInv'
    <3>1. /\ DOMAIN rcall' = DOMAIN rcall /\ rcall'.size = len /\ rcall'.in = <<>>
          /\ rcall'.got = 0 /\ rcall'.room = room /\ rcall'.page = units /\ rcall'.done = 0
      BY <2>2 DEF RestoreInv, RestoreTyped
    <3>2. RestoreTyped'
      BY <1>1, <1>2, <2>2, <3>1, ShortLists DEF RestoreInv, RestoreTyped
    <3> QED BY <1>1, <3>2, OnlyBuffers
  <2>3. CASE len >= SECTOR /\ rpc' = "first" /\ rcall' = [Process([rcall EXCEPT !.size = len, !.in = <<>>, !.got = 0], units) EXCEPT !.room = 1]
    <3>1. rcall' = [rcall EXCEPT !.size = len, !.in = <<>>, !.got = 0, !.page = units,
                                      !.room = 1, !.done = 0]
      BY <2>3 DEF Process, RestoreInv, RestoreTyped
    <3>2. 1 * SECTOR <= len /\ 1 \in Nat
      BY <1>3, <2>3
    <3> QED BY <2>2, <2>3, <3>1, <3>2
  <2>4. CASE rpc' = "next" /\ rcall' = Process([rcall EXCEPT !.size = len, !.in = <<>>, !.got = 0], units)
    <3>1. PICK room \in Nat : room = len \div SECTOR /\ room * SECTOR <= len
      BY <1>2, SectorsOf
    <3>2. rcall' = [rcall EXCEPT !.size = len, !.in = <<>>, !.got = 0, !.page = units,
                                      !.room = room, !.done = 0]
      BY <1>2, <2>4, <3>1 DEF Process, RestoreInv, RestoreTyped
    <3> QED BY <2>2, <2>4, <3>1, <3>2
  <2> QED BY <1>2, <1>5, <2>1, <2>3, <2>4 DEF WriteStarts
<1> QED BY <1>4, <1>5

\* Behind the first sector.
LEMMA FirstSectorKeeps == ASSUME RestoreInv, FirstSectorDone PROVE RestoreInv'
<1>1. rpc = "first" /\ UNCHANGED <<r, head, target>>
  BY DEF FirstSectorDone
<1>2. PICK rest : rest = rcall.page /\ SentList(rest) /\ Len(rest) <= rcall.size
  BY <1>1 DEF RestoreInv, RestoreTyped
<1>3. SECTOR \in Nat
  BY DriveAssumption
<1>4. CASE r.compressed
  <2>1. /\ unzip' = [NoUnzip EXCEPT !.open = TRUE]
        /\ rcall' = [rcall EXCEPT !.in = rest, !.got = SECTOR]
        /\ rpc' \in {"return", "unzip"}
    BY <1>2, <1>4 DEF FirstSectorDone
  <2>2. /\ DOMAIN unzip' = {"open", "out", "held", "ended"} /\ PlainList(unzip'.out)
        /\ PlainList(unzip'.held)
    BY <2>1, ShortLists DEF NoUnzip
  <2>3. RestoreTyped'
    BY <1>1, <1>2, <1>3, <2>1, <2>2 DEF RestoreInv, RestoreTyped
  <2> QED BY <1>1, <2>3, OnlyBuffers
<1>5. CASE ~r.compressed
  <2>1. /\ rcall' = [Process(rcall, rest) EXCEPT !.got = SECTOR]
        /\ rpc' \in {"return", "next"} /\ UNCHANGED unzip
    BY <1>2, <1>5 DEF FirstSectorDone
  <2>2. PICK room \in Nat : room = Len(rest) \div SECTOR /\ room * SECTOR <= Len(rest)
    BY <1>2, SectorsOf
  <2>3. /\ DOMAIN rcall' = DOMAIN rcall /\ rcall'.size = rcall.size /\ rcall'.in = rcall.in
        /\ rcall'.room = room /\ rcall'.page = rest /\ rcall'.done = 0 /\ rcall'.got = SECTOR
    BY <2>1, <2>2 DEF Process, RestoreInv, RestoreTyped
  <2>4. RestoreTyped'
    BY <1>1, <1>2, <1>3, <2>1, <2>2, <2>3, SMTT(40) DEF RestoreInv, RestoreTyped
  <2> QED BY <1>1, <2>4, OnlyBuffers
<1> QED BY <1>4, <1>5

\* Behind an uncompressed buffer.
LEMMA BufferDoneKeeps == ASSUME RestoreInv, BufferDone PROVE RestoreInv'
<1>1. /\ UNCHANGED <<r, unzip, head, target>> /\ rpc' = "return"
      /\ rcall' = [rcall EXCEPT !.got = @ + rcall.done * SECTOR]
  BY DEF BufferDone
<1>2. PICK got, done \in Nat : got = rcall.got /\ done = rcall.done
  BY DEF RestoreInv, RestoreTyped
<1>3. got + done * SECTOR \in Nat
  <2>1. SECTOR \in Nat
    BY DriveAssumption
  <2>2. done * SECTOR \in Nat
    BY <2>1
  <2> QED BY <2>2
<1>4. RestoreTyped'
  BY <1>1, <1>2, <1>3 DEF RestoreInv, RestoreTyped
<1> QED BY <1>1, <1>4, OnlyBuffers

\* The end of a call on compressed input.
LEMMA UnzipReturnKeeps ==
  ASSUME RestoreInv, UnzipReturn, rpc \in {"unzip", "unzipped"} PROVE RestoreInv'
<1>1. /\ UNCHANGED <<r, unzip, head, target>> /\ rpc' = "return"
      /\ rcall' = [rcall EXCEPT !.got = rcall.size - Len(rcall.in)]
  BY DEF UnzipReturn
<1>2. PICK size, len \in Nat : size = rcall.size /\ len = Len(rcall.in) /\ len <= size
  BY DEF RestoreInv, RestoreTyped, SentList, IsList
<1>3. size - len \in Nat
  BY <1>2
<1>4. RestoreTyped'
  BY <1>1, <1>2, <1>3 DEF RestoreInv, RestoreTyped
<1> QED BY <1>1, <1>4, OnlyBuffers

\* What zlib gave goes through the state machine.
LEMMA UnzipProcessKeeps == ASSUME RestoreInv, UnzipProcess PROVE RestoreInv'
<1>1. /\ UNCHANGED <<r, unzip, head, target>> /\ rpc = "unzip" /\ rpc' = "unzipped"
      /\ rcall' = Process(rcall, unzip.out)
  BY DEF UnzipProcess
<1>2. PICK out : out = unzip.out /\ SentList(out)
  BY PlainIsSent DEF RestoreInv, RestoreTyped
<1>3. PICK room, len \in Nat : room = len \div SECTOR /\ len = Len(out) /\ room * SECTOR <= len
  BY <1>2, SectorsOf
<1>4. /\ DOMAIN rcall' = DOMAIN rcall /\ rcall'.size = rcall.size /\ rcall'.in = rcall.in
      /\ rcall'.room = room /\ rcall'.page = out /\ rcall'.done = 0 /\ rcall'.got = rcall.got
  BY <1>1, <1>2, <1>3 DEF Process, RestoreInv, RestoreTyped
<1>5. 0 * SECTOR + len = len
  BY DriveAssumption
<1>6. RestoreTyped'
  BY <1>1, <1>2, <1>3, <1>4, <1>5 DEF RestoreInv, RestoreTyped
<1> QED BY <1>1, <1>6, OnlyBuffers

\* What the state machine left moves to the front.
LEMMA UnzipProcessedKeeps == ASSUME RestoreInv, UnzipProcessed PROVE RestoreInv'
<1>1. CASE UnzipReturn
  BY <1>1, UnzipReturnKeeps DEF UnzipProcessed
<1>2. CASE MovedUp
  <2>1. /\ UNCHANGED <<r, rcall, head, target>> /\ rpc' = "unzip" /\ rpc = "unzipped"
        /\ unzip' = [unzip EXCEPT !.out = SubSeq(@, rcall.done * SECTOR + 1, Len(@))]
    BY <1>2 DEF UnzipProcessed, MovedUp
  <2>2. PICK len, n, left \in Nat :
          len = Len(unzip.out) /\ n = rcall.done * SECTOR /\ left = Len(rcall.page) /\ n + left = len
    <3>1. PICK done \in Nat : done = rcall.done
      BY DEF RestoreInv, RestoreTyped
    <3>2. SECTOR \in Nat
      BY DriveAssumption
    <3>3. done * SECTOR \in Nat
      BY <3>2
    <3>4. Len(unzip.out) \in Nat /\ Len(rcall.page) \in Nat
      BY DEF RestoreInv, RestoreTyped, PlainList, SentList, IsList
    <3>5. done * SECTOR + Len(rcall.page) = Len(unzip.out)
      BY <2>1, <3>1 DEF RestoreInv, RestoreTyped
    <3> QED BY <3>1, <3>3, <3>4, <3>5
  <2>3. PICK out : out = SubSeq(unzip.out, n + 1, len)
    OBVIOUS
  <2>4. PlainList(out)
    <3>1. n + 1 \in 1..(len + 1) /\ len \in 0..len /\ n + 1 <= len + 1
      BY <2>2
    <3>2. IsList(unzip.out) /\ PlainList(unzip.out)
      BY DEF RestoreInv, RestoreTyped, PlainList
    <3> QED BY <2>2, <2>3, <3>1, <3>2, PartOfUnits
  <2>5. /\ DOMAIN unzip' = DOMAIN unzip /\ unzip'.out = out /\ unzip'.held = unzip.held
    BY <2>1, <2>2, <2>3 DEF RestoreInv, RestoreTyped
  <2>6. RestoreTyped'
    BY <2>1, <2>4, <2>5 DEF RestoreInv, RestoreTyped
  <2> QED BY <2>1, <2>6, OnlyBuffers
<1> QED BY <1>1, <1>2 DEF UnzipProcessed

\* The compressed units in front.
LEMMA ZipUnitsAre ==
  ASSUME NEW units, SentList(units)
  PROVE  /\ ZipUnits(units) \in 0..Len(units)
         /\ \A i \in 1..ZipUnits(units) : units[i][1] = "zip"
<1>1. PICK len \in Nat : len = Len(units)
  BY SectorsOf
<1> DEFINE Others == {n \in 0..len : n < len => units[n + 1][1] # "zip"}
           Fits(n) == /\ \A i \in 1..n : units[i][1] = "zip"
                      /\ n < len => units[n + 1][1] # "zip"
<1>2. \E n \in 0..len : Fits(n)
  <2>1. len \in Others /\ Others \subseteq Nat
    OBVIOUS
  <2>2. PICK n \in Others : \A m \in Others : n <= m
    <3> HIDE DEF Others
    <3> QED BY <2>1, SmallestThereIs
  <2>3. ASSUME NEW i \in 1..n PROVE units[i][1] = "zip"
    <3>1. PICK j \in 0..len : i = j + 1 /\ j < n /\ j < len
      <4>1. i - 1 \in 0..len /\ i = (i - 1) + 1 /\ i - 1 < n /\ i - 1 < len
        OBVIOUS
      <4> QED BY <4>1
    <3>2. j \notin Others
      BY <2>2, <3>1
    <3> QED BY <3>1, <3>2
  <2> QED BY <2>2, <2>3
<1>3. ZipUnits(units) = CHOOSE n \in 0..len : Fits(n)
  BY <1>1 DEF ZipUnits
<1>4. PICK k : k = CHOOSE n \in 0..len : Fits(n)
  OBVIOUS
<1>5. k \in 0..len /\ Fits(k)
  <2> HIDE DEF Fits
  <2> QED BY <1>2, <1>4
<1> QED BY <1>1, <1>3, <1>4, <1>5

\* What zlib makes of plain units that were compressed is plain.
LEMMA UncompressedIsPlain ==
  ASSUME NEW held, NEW in, PlainList(held), SentList(in), NEW n \in 0..ZipUnits(in)
  PROVE  PlainList(Uncompressed(held, in, n))
<1>1. PICK len \in Nat : len = Len(in)
  BY SectorsOf
<1>2. ZipUnits(in) \in 0..len /\ \A i \in 1..ZipUnits(in) : in[i][1] = "zip"
  BY <1>1, ZipUnitsAre
<1>3. PICK part : part = SubSeq(in, 1, n)
  OBVIOUS
<1>4. n \in 0..len /\ \A i \in 1..n : i \in 1..ZipUnits(in) /\ i \in 1..len /\ 1 + i - 1 = i
  BY <1>1, <1>2
<1>5. IsList(in) /\ 1 \in 1..(Len(in) + 1) /\ n \in 0..Len(in) /\ 1 <= n + 1 /\ n - 1 + 1 = n
  BY <1>1, <1>4 DEF SentList
<1>6. /\ IsList(part) /\ Len(part) = n
      /\ \A i \in 1..n : part[i] = in[i] /\ in[i][1] = "zip" /\ Sent(in[i])
  BY <1>1, <1>2, <1>3, <1>4, <1>5, PartOfList DEF SentList
<1>7. PICK ss : ss = [i \in 1..n |-> part[i][2]]
  OBVIOUS
<1>8. IsList(ss) /\ Len(ss) = n /\ \A i \in 1..Len(ss) : PlainList(ss[i])
  <2>1. DOMAIN ss = 1..n /\ ss = [i \in 1..n |-> ss[i]] /\ n \in Nat
    BY <1>4, <1>7
  <2>2. IsList(ss) /\ Len(ss) = n
    BY <2>1, FunctionIsList
  <2>3. \A i \in 1..n : PlainList(part[i][2])
    BY <1>6 DEF Sent
  <2> QED BY <1>7, <2>2, <2>3
<1>9. Contents(part) = FlattenSeq(ss)
  <2>1. DOMAIN part = 1..n
    BY <1>6, ListIsSeq
  <2> QED BY <1>7, <2>1 DEF Contents
<1>10. PlainList(Contents(part))
  BY <1>8, <1>9, FlattenedIsPlain
<1> QED BY <1>3, <1>10, UnitsJoined DEF Uncompressed

\* It takes no more than there is.
LEMMA UnitsTakenAre ==
  ASSUME NEW held, NEW in, PlainList(held), SentList(in), NEW space \in Nat
  PROVE  UnitsTaken(held, in, space) \in 0..ZipUnits(in)
<1>1. PICK units \in Nat : units = ZipUnits(in)
  BY SectorsOf, ZipUnitsAre
<1> DEFINE Fills(n) == Len(Uncompressed(held, in, n)) >= space
           First(n) == Fills(n) /\ \A m \in 0..(n - 1) : ~Fills(m)
<1>2. UnitsTaken(held, in, space) = IF \E n \in 0..units : Fills(n)
                                    THEN CHOOSE n \in 0..units : First(n) ELSE units
  BY <1>1 DEF UnitsTaken
<1> HIDE DEF Fills
<1>3. CASE \E n \in 0..units : Fills(n)
  <2> DEFINE Enough == {n \in 0..units : Fills(n)}
  <2>1. Enough \subseteq Nat /\ Enough # {}
    BY <1>3
  <2>2. PICK n \in Enough : \A m \in Enough : n <= m
    <3> HIDE DEF Enough
    <3> QED BY <2>1, SmallestThereIs
  <2>3. n \in 0..units /\ First(n)
    BY <2>2
  <2> HIDE DEF First
  <2>4. (CHOOSE m \in 0..units : First(m)) \in 0..units
    BY <2>3
  <2> QED BY <1>1, <1>2, <1>3, <2>4
<1>4. CASE ~\E n \in 0..units : Fills(n)
  BY <1>1, <1>2, <1>4
<1> QED BY <1>3, <1>4

\* inflate.
LEMMA InflateKeeps == ASSUME RestoreInv, Inflate PROVE RestoreInv'
<1>1. UNCHANGED <<r, rpc, head, target>> /\ rpc = "unzip" /\ ~Pending
  BY DEF Inflate
<1>2. PICK in, out, held : /\ in = rcall.in /\ out = unzip.out /\ held = unzip.held
                           /\ SentList(in) /\ PlainList(out) /\ PlainList(held)
  BY DEF RestoreInv, RestoreTyped
<1>3. PICK len \in Nat : len = Len(in)
  BY <1>2, SectorsOf
<1>4. PICK units \in 0..len : units = ZipUnits(in)
  BY <1>2, <1>3, ZipUnitsAre
<1>5. PICK space \in Nat : space = OutSpace
  <2>1. PICK nout \in Nat : nout = Len(out) /\ ~(nout > SECTOR)
    BY <1>1, <1>2 DEF PlainList, IsList, Pending
  <2>2. PICK all \in Nat : all = CompBuf * SECTOR /\ SECTOR <= all
    <3>1. SECTOR \in Nat \ {0} /\ CompBuf \in Nat \ {0}
      BY DriveAssumption
    <3>2. 1 * SECTOR <= CompBuf * SECTOR /\ 1 * SECTOR = SECTOR /\ CompBuf * SECTOR \in Nat
      BY <3>1, TimesOrder
    <3> QED BY <3>2
  <2>3. SECTOR \in Nat
    BY DriveAssumption
  <2>4. all - nout \in Nat
    BY <2>1, <2>2, <2>3
  <2> QED BY <1>2, <2>1, <2>2, <2>4 DEF OutSpace
<1>6. PICK n \in 0..units : n = UnitsTaken(held, in, space)
  BY <1>2, <1>4, UnitsTakenAre
<1>7. PICK all : all = Uncompressed(held, in, n) /\ PlainList(all)
  BY <1>2, <1>4, UncompressedIsPlain
<1>8. PICK nall, give \in Nat : nall = Len(all) /\ give = SmallerOf(space, Len(all)) /\ give <= nall
  BY <1>7 DEF PlainList, IsList, SmallerOf
<1>9. PICK end : end = (Len(all) = give /\ n < Len(in) /\ n = ZipUnits(in))
  OBVIOUS
<1>10. PICK from \in Nat : from = (IF end THEN n + 1 ELSE n) /\ from <= len
  <2>1. CASE end
    <3>1. n < len
      BY <1>3, <1>9, <2>1
    <3>2. n + 1 \in Nat /\ n + 1 <= len
      BY <1>6, <3>1
    <3> QED BY <2>1, <3>2
  <2>2. CASE ~end
    BY <1>6, <2>2
  <2> QED BY <2>1, <2>2
<1>11. PICK given, left, rest : /\ given = SubSeq(all, 1, give)
                                /\ left = SubSeq(all, give + 1, nall)
                                /\ rest = SubSeq(in, from + 1, len)
  OBVIOUS
<1>12. /\ unzip' = [unzip EXCEPT !.out = @ \o given, !.held = left, !.ended = end]
       /\ rcall' = [rcall EXCEPT !.in = rest]
  BY <1>2, <1>3, <1>5, <1>6, <1>7, <1>8, <1>9, <1>10, <1>11 DEF Inflate
<1>13. PlainList(given) /\ PlainList(left)
  <2>1. /\ IsList(all) /\ 1 \in 1..(Len(all) + 1) /\ give \in 0..Len(all) /\ 1 <= give + 1
        /\ give + 1 \in 1..(Len(all) + 1) /\ Len(all) \in 0..Len(all) /\ give + 1 <= Len(all) + 1
    BY <1>7, <1>8 DEF PlainList
  <2> QED BY <1>7, <1>8, <1>11, <2>1, PartOfUnits
<1>14. SentList(rest) /\ Len(rest) <= len
  <2>0. from <= len
    BY <1>10
  <2>1. /\ IsList(in) /\ from + 1 \in 1..(Len(in) + 1) /\ len \in 0..Len(in) /\ from + 1 <= len + 1
        /\ len - (from + 1) + 1 <= len
    <3>1. from + 1 \in 1..(len + 1) /\ from + 1 <= len + 1 /\ len - (from + 1) + 1 <= len
      BY <2>0
    <3> QED BY <1>2, <1>3, <3>1 DEF SentList
  <2>2. Len(rest) = len - (from + 1) + 1
    BY <1>3, <1>11, <2>1, PartOfList
  <2>3. SentList(rest)
    BY <1>2, <1>3, <1>11, <2>1, PartOfUnits
  <2> QED BY <2>1, <2>2, <2>3
<1>15. PlainList(out \o given)
  BY <1>2, <1>13, UnitsJoined
<1>16. /\ DOMAIN unzip' = DOMAIN unzip /\ unzip'.out = out \o given /\ unzip'.held = left
       /\ DOMAIN rcall' = DOMAIN rcall /\ rcall'.size = rcall.size /\ rcall'.in = rest
       /\ rcall'.room = rcall.room /\ rcall'.page = rcall.page /\ rcall'.done = rcall.done
       /\ rcall'.got = rcall.got
  BY <1>2, <1>12 DEF RestoreInv, RestoreTyped
<1>17. Len(rcall'.in) <= rcall'.size
  <2>1. len <= rcall.size /\ rcall.size \in Nat
    BY <1>1, <1>2, <1>3 DEF RestoreInv, RestoreTyped
  <2>2. Len(rest) \in Nat
    BY <1>14, SectorsOf
  <2> QED BY <1>14, <1>16, <2>1, <2>2
<1>18. RestoreTyped'
  BY <1>1, <1>13, <1>14, <1>15, <1>16, <1>17 DEF RestoreInv, RestoreTyped
<1> QED BY <1>1, <1>18, OnlyBuffers

\* No step of the reader loses an inode, or makes the repairs too early.
LEMMA RestoreStepKeeps == ASSUME RestoreInv, RestoreStep PROVE RestoreInv'
<1>1. CASE UnzipOver
  BY <1>1, UnzipReturnKeeps DEF UnzipOver
<1> QED BY <1>1, RestoreBeginKeeps, RestoreHeaderKeeps, RestoreInfoEndKeeps, RestoreBootKeeps,
           RestorePartitionsKeep, RestoreRegionKeeps, RestoreInodeDataKeeps, RestoreCompleteKeeps,
           RestoreInodeKeeps, FirstSectorKeeps, BufferDoneKeeps, UnzipProcessKeeps,
           UnzipProcessedKeeps, InflateKeeps DEF RestoreStep

-----------------------------------------------------------------------------
(* The programs around the stream.                                         *)

\* The length of the programs' buffer.
LEMMA SizeIs == ASSUME StreamInv PROVE Size \in Nat /\ SECTOR \in Nat \ {0}
<1>1. SECTOR \in Nat \ {0} /\ job.buf \in Nat
  BY DriveAssumption DEF StreamInv
<1> QED BY <1>1 DEF Size

LEMMA RestoreStays == ASSUME RestoreInv, UNCHANGED rvars PROVE RestoreInv'
<1>1. UNCHANGED <<r, rpc, rcall, unzip, head, target>>
  BY DEF rvars
<1>2. RestoreTyped'
  BY <1>1 DEF RestoreInv, RestoreTyped
<1> QED BY <1>1, <1>2, OnlyBuffers

LEMMA BackupStays ==
  ASSUME BackupTyped, BackupWithin, UNCHANGED <<b, bcall, zip, bout>> PROVE BackupTyped' /\ BackupWithin'
BY DEF BackupTyped, BackupWithin

\* One of the programs' steps at a time: what it leaves, and what it makes of the rest.
LEMMA StreamInvIs ==
  ASSUME StreamInv, BackupTyped', BackupWithin', RestoreInv', UNCHANGED job,
         SentList(file'), SentList(chunk')
  PROVE  StreamInv'
BY DEF StreamInv, RestoreInv

\* What the state machines and the calls of them leave alone.
LEMMA BackupCallKeeps ==
  ASSUME StreamInv, NEW size \in Nat, BackupReads(size) PROVE StreamInv'
<1>1. ReadStarts(size) /\ UNCHANGED <<rvars, job, file, chunk>>
  BY DEF BackupReads
<1>2. BackupTyped' /\ UNCHANGED b
  BY <1>1, ReadStartsKeeps DEF StreamInv
<1>3. BackupWithin'
  BY <1>2 DEF StreamInv, BackupWithin
<1>4. RestoreInv'
  BY <1>1, RestoreStays DEF StreamInv, RestoreInv
<1>5. SentList(file') /\ SentList(chunk')
  BY <1>1 DEF StreamInv
<1> QED BY <1>1, <1>2, <1>3, <1>4, <1>5, StreamInvIs

\* The rest of a list of units, from anywhere on.
LEMMA RestOfUnits ==
  ASSUME NEW s, SentList(s), NEW n \in Nat
  PROVE  SentList(SubSeq(s, n + 1, Len(s)))
<1>1. PICK len \in Nat : len = Len(s) /\ IsList(s)
  BY DEF SentList, IsList
<1>2. CASE n <= len
  <2>1. n + 1 \in 1..(len + 1) /\ len \in 0..len /\ n + 1 <= len + 1
    BY <1>2
  <2> QED BY <1>1, <2>1, PartOfUnits
<1>3. CASE ~(n <= len)
  <2>1. PICK t : t = SubSeq(s, n + 1, len)
    OBVIOUS
  <2>2. s \in Seq({s[i] : i \in 1..len})
    BY <1>1, ListIsSeq
  <2>3. len \in Int /\ n + 1 \in Int /\ ~(n + 1 <= len)
    BY <1>3
  <2>4. t = <<>>
    BY <2>1, <2>2, <2>3
  <2> QED BY <1>1, <2>1, <2>4, ShortLists
<1> QED BY <1>2, <1>3

\* What is read of the file, and what is left of it.
LEMMA ReadsKeep ==
  ASSUME StreamInv, NEW n \in 0..Size, Reads(n) PROVE SentList(file') /\ SentList(chunk')
<1>1. PICK len \in Nat : len = Len(file) /\ IsList(file) /\ SentList(file)
  BY DEF StreamInv, SentList, IsList
<1>2. n \in 0..len
  <2>1. Size \in Nat /\ n <= SmallerOf(Size, len)
    BY <1>1, SizeIs DEF Reads
  <2> QED BY <2>1 DEF SmallerOf
<1>3. 1 \in 1..(len + 1) /\ 1 <= n + 1 /\ n \in Nat
  BY <1>2
<1>4. SentList(SubSeq(file, 1, n))
  BY <1>1, <1>2, <1>3, PartOfUnits
<1>5. SentList(SubSeq(file, n + 1, Len(file)))
  BY <1>1, <1>3, RestOfUnits
<1> QED BY <1>4, <1>5 DEF Reads

\* mfstool backup, and copy as far as it reads.
LEMMA BackmainKeeps == ASSUME StreamInv, BackmainWrites PROVE StreamInv'
<1>1. UNCHANGED <<b, bcall, zip, bout, rvars, job, chunk>> /\ file' = file \o bout
  BY DEF BackmainWrites, BackupTaken
<1>2. SentList(file \o bout)
  BY UnitsJoined DEF StreamInv, BackupTyped
<1>3. BackupTyped' /\ BackupWithin'
  BY <1>1, BackupStays DEF StreamInv
<1>4. RestoreInv'
  BY <1>1, RestoreStays DEF StreamInv, RestoreInv
<1>5. SentList(file') /\ SentList(chunk')
  BY <1>1, <1>2 DEF StreamInv
<1> QED BY <1>1, <1>3, <1>4, <1>5, StreamInvIs

LEMMA CopyFilledKeeps == ASSUME StreamInv, CopyFilled PROVE StreamInv'
<1>1. /\ UNCHANGED <<b, bcall, zip, bout, rvars, job, file>>
      /\ chunk' = IF chunk = <<>> THEN bout
                  ELSE [i \in 1..(Len(chunk) + Len(bout)) |->
                         IF i <= Len(bout) THEN bout[i]
                         ELSE IF i <= Len(chunk) THEN chunk[i] ELSE <<"junk", 0, 0>>]
  BY DEF CopyFilled, BackupTaken
<1>2. SentList(bout) /\ SentList(chunk) /\ Len(bout) \in Nat /\ Len(chunk) \in Nat
  BY DEF StreamInv, BackupTyped, SentList, IsList
<1>3. SentList(chunk')
  <2>1. CASE chunk = <<>>
    BY <1>1, <1>2, <2>1
  <2>2. CASE chunk # <<>>
    <3>0. PICK nb, nc \in Nat : nb = Len(bout) /\ nc = Len(chunk)
      BY <1>2
    <3>1. PICK n \in Nat : n = nc + nb
      OBVIOUS
    <3>2. PICK new : new = chunk'
      OBVIOUS
    <3>3. new = [i \in 1..n |-> IF i <= nb THEN bout[i]
                                ELSE IF i <= nc THEN chunk[i] ELSE <<"junk", 0, 0>>]
      BY <1>1, <2>2, <3>0, <3>1, <3>2
    <3>4. IsList(new) /\ Len(new) = n
      BY <3>3, FunctionIsList
    <3>5. Sent(<<"junk", 0, 0>>)
      BY DEF Sent
    <3>6. \A i \in 1..n : Sent(new[i])
      BY <1>2, <3>0, <3>1, <3>3, <3>5 DEF SentList
    <3> QED BY <3>2, <3>4, <3>6 DEF SentList
  <2> QED BY <2>1, <2>2
<1>4. BackupTyped' /\ BackupWithin'
  BY <1>1, BackupStays DEF StreamInv
<1>5. RestoreInv'
  BY <1>1, RestoreStays DEF StreamInv, RestoreInv
<1>6. SentList(file')
  BY <1>1 DEF StreamInv
<1> QED BY <1>1, <1>3, <1>4, <1>5, <1>6, StreamInvIs

\* What happens to the stored backup.
LEMMA CutShortKeeps == ASSUME StreamInv, CutShort PROVE StreamInv'
<1>1. PICK n \in 0..(Len(file) - 1) : file' = SubSeq(file, 1, n)
  BY DEF CutShort
<1>2. UNCHANGED <<b, bcall, zip, bout, rvars, job, chunk>>
  BY DEF CutShort, bvars
<1>3. PICK len \in Nat : len = Len(file) /\ IsList(file) /\ SentList(file)
  BY DEF StreamInv, SentList, IsList
<1>4. n \in 0..len /\ 1 \in 1..(len + 1) /\ 1 <= n + 1
  BY <1>1, <1>3
<1>5. SentList(SubSeq(file, 1, n))
  BY <1>3, <1>4, PartOfUnits
<1>6. BackupTyped' /\ BackupWithin'
  BY <1>2, BackupStays DEF StreamInv
<1>7. RestoreInv'
  BY <1>2, RestoreStays DEF StreamInv, RestoreInv
<1>8. SentList(file') /\ SentList(chunk')
  BY <1>1, <1>2, <1>5 DEF StreamInv
<1> QED BY <1>2, <1>6, <1>7, <1>8, StreamInvIs

LEMMA DamagedKeeps == ASSUME StreamInv, Damaged PROVE StreamInv'
<1>1. PICK i \in (HeaderSectors * SECTOR + 1)..Len(file) :
        \/ file' = [file EXCEPT ![i] = <<"bad", 0, 0>>]
        \/ /\ file[i][1] = "inode"
           /\ \E size \in (0..MaxData) \ {file[i][3]} : file' = [file EXCEPT ![i][3] = size]
  BY DEF Damaged
<1>2. UNCHANGED <<b, bcall, zip, bout, rvars, job, chunk>>
  BY DEF Damaged, bvars
<1>3. PICK len \in Nat : len = Len(file) /\ IsList(file) /\ \A j \in 1..len : Sent(file[j])
  BY DEF StreamInv, SentList, IsList
<1>4. DOMAIN file = 1..len /\ file = [j \in 1..len |-> file[j]]
  BY <1>3, ListIsSeq DEF IsList
<1>5. PICK u : file' = [file EXCEPT ![i] = u] /\ (i \in 1..len => Sent(u))
  <2>1. CASE file' = [file EXCEPT ![i] = <<"bad", 0, 0>>]
    <3>1. Sent(<<"bad", 0, 0>>)
      BY DEF Sent
    <3> QED BY <2>1, <3>1
  <2>2. CASE /\ file[i][1] = "inode"
             /\ \E size \in (0..MaxData) \ {file[i][3]} : file' = [file EXCEPT ![i][3] = size]
    <3>1. PICK size \in 0..MaxData : file' = [file EXCEPT ![i][3] = size]
      BY <2>2
    <3>2. PICK u : u = [file[i] EXCEPT ![3] = size]
      OBVIOUS
    <3>3. file' = [file EXCEPT ![i] = u]
      BY <3>1, <3>2
    <3>4. ASSUME i \in 1..len PROVE Sent(u)
      <4>1. PICK p, q, v : file[i] = <<p, q, v>> /\ p = "inode"
        BY <1>3, <2>2, <3>4 DEF Sent
      <4>2. u = <<p, q, size>>
        BY <3>2, <4>1
      <4>3. size \in Nat
        BY DriveAssumption
      <4> QED BY <4>1, <4>2, <4>3 DEF Sent
    <3> QED BY <3>3, <3>4
  <2> QED BY <1>1, <2>1, <2>2
<1>6. PICK new : new = file'
  OBVIOUS
<1>7. SentList(new)
  <2>1. DOMAIN new = 1..len /\ new = [j \in 1..len |-> new[j]]
    BY <1>4, <1>5, <1>6
  <2>2. IsList(new) /\ Len(new) = len
    BY <2>1, FunctionIsList
  <2>3. \A j \in 1..len : new[j] = file[j] \/ (j = i /\ new[j] = u)
    BY <1>4, <1>5, <1>6
  <2>4. \A j \in 1..len : Sent(new[j])
    BY <1>3, <1>5, <2>3
  <2> QED BY <2>2, <2>4 DEF SentList
<1>8. BackupTyped' /\ BackupWithin'
  BY <1>2, BackupStays DEF StreamInv
<1>9. RestoreInv'
  BY <1>2, RestoreStays DEF StreamInv, RestoreInv
<1>10. SentList(file') /\ SentList(chunk')
  BY <1>2, <1>6, <1>7 DEF StreamInv
<1> QED BY <1>2, <1>8, <1>9, <1>10, StreamInvIs

\* restore and copy, with a buffer for restore_write.
LEMMA FirstWriteKeeps == ASSUME StreamInv, FirstWrite PROVE StreamInv'
<1>1. UNCHANGED <<b, bcall, zip, bout, job>>
  BY DEF FirstWrite, bvars
<1>2. SentList(file') /\ SentList(chunk')
  <2>1. CASE UNCHANGED <<file, chunk>>
    BY <2>1 DEF StreamInv
  <2>2. CASE \E n \in 0..Size : Reads(n)
    BY <2>2, ReadsKeep
  <2> QED BY <2>1, <2>2 DEF FirstWrite
<1>3. PICK units : units = chunk' /\ SentList(units)
  BY <1>2
<1>4. WriteStarts(units) \/ UNCHANGED rvars
  <2>1. ASSUME chunk' = chunk, WriteStarts(chunk) PROVE WriteStarts(units)
    BY <1>3, <2>1 DEF WriteStarts
  <2>2. ASSUME WriteStarts(chunk') PROVE WriteStarts(units)
    BY <1>3, <2>2 DEF WriteStarts
  <2> QED BY <2>1, <2>2 DEF FirstWrite
<1>5. RestoreInv'
  BY <1>3, <1>4, WriteStartsKeeps, RestoreStays DEF StreamInv, RestoreInv
<1>6. BackupTyped' /\ BackupWithin'
  BY <1>1, BackupStays DEF StreamInv
<1> QED BY <1>1, <1>2, <1>5, <1>6, StreamInvIs

\* restore_start
LEMMA FirstWrittenKeeps == ASSUME StreamInv, FirstWritten PROVE StreamInv'
<1>1. UNCHANGED <<b, bcall, zip, bout, job, file>>
  BY DEF FirstWritten, bvars
<1>2. BackupTyped' /\ BackupWithin'
  BY <1>1, BackupStays DEF StreamInv
<1>3. CASE UNCHANGED <<rvars, chunk>>
  <2>1. RestoreInv'
    BY <1>3, RestoreStays DEF StreamInv, RestoreInv
  <2>2. SentList(file') /\ SentList(chunk')
    BY <1>1, <1>3 DEF StreamInv
  <2> QED BY <1>1, <1>2, <2>1, <2>2, StreamInvIs
<1>4. CASE ~UNCHANGED <<rvars, chunk>>
  <2>1. /\ r' = [r EXCEPT !.initialized = TRUE] /\ rpc' = "idle"
        /\ chunk' = SubSeq(chunk, rcall.got + 1, Len(chunk))
        /\ UNCHANGED <<rcall, unzip, head, target>>
    BY <1>4 DEF FirstWritten
  <2>2. /\ DOMAIN r' = DOMAIN r /\ r'.state = r.state /\ r'.shared = r.shared
        /\ r'.val1 = r.val1 /\ r'.val2 = r.val2 /\ r'.ptr = r.ptr /\ r'.since = r.since
    BY <2>1 DEF StreamInv, RestoreTyped
  <2>3. RestoreTyped'
    BY <2>1, <2>2 DEF StreamInv, RestoreTyped
  <2>4. RestoreWithin'
    BY <2>1, <2>2 DEF StreamInv, RestoreWithin
  <2>5. TargetInv'
    BY <2>1, <2>2 DEF StreamInv, TargetInv
  <2>6. SentList(chunk')
    <3>1. rcall.got \in Nat /\ SentList(chunk)
      BY DEF StreamInv, RestoreTyped
    <3> QED BY <2>1, <3>1, RestOfUnits
  <2>7. SentList(file')
    BY <1>1 DEF StreamInv
  <2> QED BY <1>1, <1>2, <2>3, <2>4, <2>5, <2>6, <2>7, StreamInvIs DEF RestoreInv
<1> QED BY <1>3, <1>4

LEMMA RestWriteKeeps == ASSUME StreamInv, RestWrite PROVE StreamInv'
<1>1. UNCHANGED <<b, bcall, zip, bout, job, file, chunk>>
  BY DEF RestWrite, bvars
<1>2. PICK units : units = chunk /\ SentList(units)
  BY DEF StreamInv
<1>3. WriteStarts(units)
  BY <1>2 DEF RestWrite, WriteStarts
<1>4. RestoreInv'
  BY <1>2, <1>3, WriteStartsKeeps DEF StreamInv, RestoreInv
<1>5. BackupTyped' /\ BackupWithin'
  BY <1>1, BackupStays DEF StreamInv
<1>6. SentList(file') /\ SentList(chunk')
  BY <1>1 DEF StreamInv
<1> QED BY <1>1, <1>4, <1>5, <1>6, StreamInvIs

LEMMA WrittenKeeps == ASSUME StreamInv, Written PROVE StreamInv'
<1>1. UNCHANGED <<b, bcall, zip, bout, job, file, chunk>>
  BY DEF Written, bvars
<1>2. UNCHANGED <<r, rcall, unzip, head, target>> /\ (rpc' = "idle" \/ UNCHANGED rpc)
  BY DEF Written, rvars
<1>3. RestoreTyped'
  BY <1>2 DEF StreamInv, RestoreTyped
<1>4. RestoreInv'
  BY <1>2, <1>3, OnlyBuffers DEF StreamInv, RestoreInv
<1>5. BackupTyped' /\ BackupWithin'
  BY <1>1, BackupStays DEF StreamInv
<1>6. SentList(file') /\ SentList(chunk')
  BY <1>1 DEF StreamInv
<1> QED BY <1>1, <1>4, <1>5, <1>6, StreamInvIs

LEMMA RestmainKeeps == ASSUME StreamInv, RestmainLoop PROVE StreamInv'
<1>1. UNCHANGED <<b, bcall, zip, bout, job>>
  BY DEF RestmainLoop, bvars
<1>2. PICK n \in 0..Size : Reads(n) /\ (UNCHANGED rvars \/ WriteStarts(chunk'))
  BY DEF RestmainLoop
<1>3. SentList(file') /\ SentList(chunk')
  BY <1>2, ReadsKeep
<1>4. PICK units : units = chunk' /\ SentList(units)
  BY <1>3
<1>5. WriteStarts(units) \/ UNCHANGED rvars
  <2>1. ASSUME WriteStarts(chunk') PROVE WriteStarts(units)
    BY <1>4, <2>1 DEF WriteStarts
  <2> QED BY <1>2, <2>1
<1>6. RestoreInv'
  BY <1>4, <1>5, WriteStartsKeeps, RestoreStays DEF StreamInv, RestoreInv
<1>7. BackupTyped' /\ BackupWithin'
  BY <1>1, BackupStays DEF StreamInv
<1> QED BY <1>1, <1>3, <1>6, <1>7, StreamInvIs

LEMMA CopyWritesKeeps == ASSUME StreamInv, CopyWrites PROVE StreamInv'
<1>1. UNCHANGED <<b, bcall, zip, bout, job, file>> /\ chunk' = bout
  BY DEF CopyWrites, BackupTaken
<1>2. PICK units : units = bout /\ SentList(units)
  BY DEF StreamInv, BackupTyped
<1>3. WriteStarts(units) \/ UNCHANGED rvars
  <2>1. ASSUME WriteStarts(bout) PROVE WriteStarts(units)
    BY <1>2, <2>1 DEF WriteStarts
  <2> QED BY <2>1 DEF CopyWrites
<1>4. RestoreInv'
  BY <1>2, <1>3, WriteStartsKeeps, RestoreStays DEF StreamInv, RestoreInv
<1>5. BackupTyped' /\ BackupWithin'
  BY <1>1, BackupStays DEF StreamInv
<1>6. SentList(file') /\ SentList(chunk')
  BY <1>1, <1>2 DEF StreamInv
<1> QED BY <1>1, <1>4, <1>5, <1>6, StreamInvIs

\* The invariant of a run of the programs.
LEMMA StreamInvInit == Init => StreamInv
<1> SUFFICES ASSUME Init PROVE StreamInv
  OBVIOUS
<1>1. PICK mode \in Modes, buf \in Bufs, ratio \in Ratios :
        job = [mode |-> mode, buf |-> buf] /\ BackupInit(ratio > 0, ratio)
  BY DEF Init
<1>2. RestoreInit /\ file = <<>> /\ chunk = <<>>
  BY DEF Init
<1>3. buf \in Nat \ {0} /\ ratio \in Nat /\ (ratio > 0 <=> ratio # 0) /\ (ratio > 0) \in BOOLEAN
  BY JobsOK
<1>4. 0 \in 0..(SECTOR - 1)
  BY DriveAssumption
<1>5. BackupTyped /\ BackupWithin
  <2>1. /\ b.state = "begin" /\ "begin" \in States(BackupTable)
        /\ b.shared = 0 /\ b.val1 = 0 /\ b.val2 = 0 /\ b.ratio = ratio
        /\ DOMAIN b = {"state", "val1", "val2", "ptr", "shared", "cursector", "crc", "compressed",
                 "ratio"}
    BY <1>1, BackupGoesOn DEF BackupInit
  <2>2. b.ptr \in BOOLEAN /\ b.compressed \in BOOLEAN /\ (b.compressed <=> ratio # 0)
    BY <1>1, <1>3 DEF BackupInit
  <2>3. /\ DOMAIN bcall = {"room", "page", "out", "size"}
        /\ bcall.room = 0 /\ bcall.size = 0 /\ bcall.page = <<>> /\ bcall.out = <<>>
    BY <1>1 DEF BackupInit
  <2>4. zip = NoZip /\ bout = <<>>
    BY <1>1 DEF BackupInit
  <2>5. /\ DOMAIN zip = {"open", "buf", "in", "held"} /\ zip.open \in BOOLEAN /\ ~zip.open
        /\ zip.in = <<>> /\ zip.held = <<>>
    BY <2>4 DEF NoZip
  <2>6. BackupTyped
    BY <1>3, <1>4, <2>1, <2>2, <2>3, <2>4, <2>5, ShortLists DEF BackupTyped
  <2>7. BackupWithin
    BY <2>1 DEF BackupWithin
  <2> QED BY <2>6, <2>7
<1>6. /\ r.state = "begin" /\ "begin" \in States(RestoreTable)
      /\ r.shared = 0 /\ r.val1 = 0 /\ r.val2 = 0 /\ r.ptr = 0 /\ r.since = 0
      /\ DOMAIN r = {"state", "val1", "val2", "ptr", "shared", "since", "cursector", "crc",
                     "nsectors", "compressed", "initialized"}
  BY <1>2, RestoreGoesOn DEF RestoreInit
<1>7. /\ DOMAIN rcall = {"size", "in", "room", "page", "done", "got"}
      /\ rcall.size = 0 /\ rcall.room = 0 /\ rcall.done = 0 /\ rcall.got = 0
      /\ rcall.page = <<>> /\ rcall.in = <<>> /\ rpc = "idle" /\ unzip = NoUnzip
      /\ target = NoTarget
  BY <1>2 DEF RestoreInit
<1>8. 0 * SECTOR <= Len(<<>>)
  <2>1. 0 * SECTOR = 0
    BY DriveAssumption
  <2> QED BY <2>1, ShortLists
<1>9. DOMAIN unzip = {"open", "out", "held", "ended"} /\ unzip.out = <<>> /\ unzip.held = <<>>
  BY <1>7 DEF NoUnzip
<1>10. RestoreTyped
  BY <1>4, <1>6, <1>7, <1>8, <1>9, ShortLists DEF RestoreTyped
<1>11. RestoreWithin
  <2>1. DOMAIN head = {"parts", "mfsparts", "zones", "extra"} /\ head.parts = <<>>
    BY <1>2 DEF RestoreInit
  <2> QED BY <1>6, <2>1, ShortLists DEF RestoreWithin
<1>12. TargetInv
  <2>1. /\ DOMAIN target = {"boot", "disk", "regions", "logged", "committed", "data", "fixed"}
        /\ target.data = <<>> /\ ~target.fixed
    BY <1>7 DEF NoTarget
  <2> QED BY <1>6, <2>1, ShortLists DEF TargetInv
<1>13. job.buf \in Nat \ {0} /\ SentList(file) /\ SentList(chunk)
  BY <1>1, <1>2, <1>3, ShortLists
<1> QED BY <1>5, <1>10, <1>11, <1>12, <1>13 DEF StreamInv

LEMMA StreamInvNext == StreamInv /\ [Next]_vars => StreamInv'
<1> SUFFICES ASSUME StreamInv, [Next]_vars PROVE StreamInv'
  OBVIOUS
<1>1. Size \in Nat
  BY SizeIs
<1>2. CASE Backup
  <2>1. BackupStep /\ UNCHANGED <<rvars, job, file, chunk>>
    BY <1>2 DEF Backup
  <2>2. BackupTyped' /\ BackupWithin'
    BY <2>1, BackupStepKeeps DEF StreamInv
  <2>3. RestoreInv'
    BY <2>1, RestoreStays DEF StreamInv, RestoreInv
  <2>4. SentList(file') /\ SentList(chunk')
    BY <2>1 DEF StreamInv
  <2> QED BY <2>1, <2>2, <2>3, <2>4, StreamInvIs
<1>3. CASE Restore
  <2>1. RestoreStep /\ UNCHANGED <<b, bcall, zip, bout, job, file, chunk>>
    BY <1>3 DEF Restore, bvars
  <2>2. RestoreInv'
    BY <2>1, RestoreStepKeeps DEF StreamInv, RestoreInv
  <2>3. BackupTyped' /\ BackupWithin'
    BY <2>1, BackupStays DEF StreamInv
  <2>4. SentList(file') /\ SentList(chunk')
    BY <2>1 DEF StreamInv
  <2> QED BY <2>1, <2>2, <2>3, <2>4, StreamInvIs
<1>4. CASE BackmainReads \/ CopyFills \/ CopyReads
  <2>1. PICK size \in Nat : BackupReads(size)
    <3>1. CASE CopyFills
      <4>1. BackupReads(Size - Len(chunk)) /\ Len(chunk) < Size
        BY <3>1 DEF CopyFills
      <4>2. Len(chunk) \in Nat
        BY DEF StreamInv, SentList, IsList
      <4>3. PICK size \in Nat : size = Size - Len(chunk)
        BY <1>1, <4>1, <4>2
      <4> QED BY <4>1, <4>3 DEF BackupReads, ReadStarts
    <3>2. CASE BackmainReads \/ CopyReads
      <4>1. PICK size \in Nat : size = Size
        BY <1>1
      <4> QED BY <3>2, <4>1 DEF BackmainReads, CopyReads, BackupReads, ReadStarts
    <3> QED BY <1>4, <3>1, <3>2
  <2> QED BY <2>1, BackupCallKeeps
<1>5. CASE Exited \/ UNCHANGED vars
  <2>1. UNCHANGED <<b, bcall, zip, bout, rvars, job, file, chunk>>
    BY <1>5 DEF Exited, vars, bvars
  <2>2. BackupTyped' /\ BackupWithin'
    BY <2>1, BackupStays DEF StreamInv
  <2>3. RestoreInv'
    BY <2>1, RestoreStays DEF StreamInv, RestoreInv
  <2>4. SentList(file') /\ SentList(chunk')
    BY <2>1 DEF StreamInv
  <2> QED BY <2>1, <2>2, <2>3, <2>4, StreamInvIs
<1> QED BY <1>2, <1>3, <1>4, <1>5, BackmainKeeps, CopyFilledKeeps, CutShortKeeps, DamagedKeeps,
           FirstWriteKeeps, FirstWrittenKeeps, RestWriteKeeps, WrittenKeeps, RestmainKeeps,
           CopyWritesKeeps DEF Next

-----------------------------------------------------------------------------
\* When a restore or a copy makes its last repairs, which it does before it
\* compares the checksum, all that the stream said of inodes is committed and
\* every one has the data its record asks for (restore_state_complete_v3).
THEOREM RepairsComeLast == Spec => []RepairsLast
<1>1. StreamInv => RepairsLast
  <2> SUFFICES ASSUME StreamInv, target.fixed PROVE RepairsLast
    BY DEF RepairsLast
  <2>1. r.state \in {"complete", "max"}
    BY DEF StreamInv, TargetInv
  <2>2. DOMAIN Drive.files = 1..Len(Drive.files)
    BY SourceIs
  <2> QED BY <2>1, <2>2 DEF StreamInv, TargetInv, Whole, RepairsLast
<1> QED BY <1>1, StreamInvInit, StreamInvNext, PTL DEF Spec
=============================================================================
