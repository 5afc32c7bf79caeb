-------------------------- MODULE ReplicationProofs --------------------------
(***************************************************************************)
(* Proofs about Replication, for any keys, values, batch sizes and         *)
(* mishaps: what a follower shows is what the primary's log meant up to    *)
(* the follower's offset.                                                  *)
(***************************************************************************)
EXTENDS Replication, SequenceTheorems, FiniteSetTheorems, TLAPS

-----------------------------------------------------------------------------
(* The least of some numbers, and induction over a set of numbers *)

LEMMA Least ==
    ASSUME NEW S \in SUBSET Nat, S # {}
    PROVE  \E m \in S : \A n \in S : m <= n
<1> DEFINE T == {0..(n - 1) : n \in S}
           R == StrictSubsetOrdering(Nat)
           F == FiniteSubsetsOf(Nat)
<1>1. IsWellFoundedOn(R, F)
  BY FS_StrictSubsetOrderingWellFounded
<1>2. T \subseteq F /\ T # {}
  <2>1. \A n \in S : IsFiniteSet(0..(n - 1)) /\ 0..(n - 1) \in SUBSET Nat
    BY FS_Interval
  <2> QED BY <2>1 DEF FiniteSubsetsOf
<1>3. PICK x \in T : \A y \in T : <<y, x>> \notin R
  <2> HIDE DEF R, F, T
  <2> QED BY <1>1, <1>2, WFMin
<1>4. PICK m \in S : x = 0..(m - 1)
  OBVIOUS
<1>5. ASSUME NEW n \in S, n < m PROVE FALSE
  <2>1. 0..(n - 1) \subseteq x /\ n \in x /\ n \notin 0..(n - 1)
    BY <1>4, <1>5
  <2>2. x \in SUBSET Nat /\ 0..(n - 1) \in SUBSET Nat
    BY <1>4
  <2>3. <<0..(n - 1), x>> \in R
    BY <2>1, <2>2 DEF StrictSubsetOrdering
  <2> QED BY <1>3, <2>3
<1> QED BY <1>5

LEMMA Induction ==
    ASSUME NEW S, 0 \in S, \A n \in Nat : n \in S => n + 1 \in S
    PROVE  Nat \subseteq S
<1> SUFFICES ASSUME Nat \ S # {} PROVE FALSE
  OBVIOUS
<1>1. PICK m \in Nat \ S : \A n \in Nat \ S : m <= n
  BY Least
<1>2. m # 0 /\ m - 1 \in Nat /\ (m - 1) + 1 = m
  BY <1>1
<1>3. m - 1 \in S
  BY <1>1, <1>2
<1> QED BY <1>1, <1>2, <1>3

LEMMA Greatest ==
    ASSUME NEW S, NEW n \in Nat, S \subseteq 0..n, S # {}
    PROVE  Max(S) \in S /\ \A m \in S : m <= Max(S)
<1> DEFINE T == {n - m : m \in S}
<1>1. T \in SUBSET Nat /\ T # {}
  <2>1. \A m \in S : n - m \in Nat
    OBVIOUS
  <2> QED BY <2>1
<1>2. PICK l \in T : \A x \in T : l <= x
  <2> HIDE DEF T
  <2> QED BY <1>1, Least
<1>3. PICK g \in S : l = n - g
  OBVIOUS
<1>4. \A m \in S : g >= m
  <2> SUFFICES ASSUME NEW m \in S PROVE g >= m
    OBVIOUS
  <2>1. l <= n - m
    BY <1>2
  <2> QED BY <1>3, <2>1
<1>5. \A m \in S : m \in Int
  OBVIOUS
<1> QED BY <1>3, <1>4, <1>5 DEF Max

-----------------------------------------------------------------------------
(* Bytes *)

Adds(s, f) == f = [n \in 0..Len(s) |-> IF n = 0 THEN 0 ELSE f[n - 1] + Width(s[n])]

LEMMA AddsExists ==
    ASSUME NEW s, Len(s) \in Nat
    PROVE  \E f : Adds(s, f)
<1> DEFINE Sum(m, f) == f = [n \in 0..m |-> IF n = 0 THEN 0 ELSE f[n - 1] + Width(s[n])]
           S == {m \in Nat : \E f : Sum(m, f)}
<1>1. 0 \in S
  <2>1. Sum(0, [n \in 0..0 |-> 0])
    OBVIOUS
  <2> QED BY <2>1
<1>2. ASSUME NEW m \in Nat, m \in S PROVE m + 1 \in S
  <2>1. PICK f : Sum(m, f)
    BY <1>2
  <2>2. PICK g : g = [n \in 0..(m + 1) |-> IF n = m + 1 THEN f[m] + Width(s[m + 1]) ELSE f[n]]
    OBVIOUS
  <2>3. \A n \in 0..(m + 1) : g[n] = IF n = 0 THEN 0 ELSE g[n - 1] + Width(s[n])
    <3> SUFFICES ASSUME NEW n \in 0..(m + 1)
                 PROVE  g[n] = IF n = 0 THEN 0 ELSE g[n - 1] + Width(s[n])
      OBVIOUS
    <3>1. CASE n = m + 1
      <4>1. g[n] = f[m] + Width(s[n]) /\ n # 0 /\ n - 1 = m /\ m \in 0..(m + 1) /\ m # m + 1
        BY <2>2, <3>1
      <4>2. g[m] = f[m]
        BY <2>2, <4>1
      <4> QED BY <4>1, <4>2
    <3>2. CASE n # m + 1 /\ n # 0
      <4>1. n \in 0..m /\ n - 1 \in 0..m /\ n - 1 # m + 1 /\ n - 1 \in 0..(m + 1)
        BY <3>2
      <4>2. g[n] = f[n] /\ g[n - 1] = f[n - 1]
        BY <2>2, <3>2, <4>1
      <4>3. f[n] = f[n - 1] + Width(s[n])
        BY <2>1, <3>2, <4>1
      <4> QED BY <3>2, <4>2, <4>3
    <3>3. CASE n = 0
      BY <2>1, <2>2, <3>3
    <3> QED BY <3>1, <3>2, <3>3
  <2>4. Sum(m + 1, g)
    BY <2>2, <2>3
  <2> QED BY <2>4
<1>3. Nat \subseteq S
  <2> HIDE DEF S
  <2> QED BY <1>1, <1>2, Induction
<1> QED BY <1>3 DEF Adds

LEMMA BytesIsSum ==
    ASSUME NEW s, Len(s) \in Nat
    PROVE  \E f : /\ Adds(s, f) /\ Bytes(s) = f[Len(s)]
<1>1. PICK g : g = CHOOSE f : Adds(s, f)
  OBVIOUS
<1>2. Adds(s, g)
  BY <1>1, AddsExists
<1>3. Bytes(s) = g[Len(s)]
  BY <1>1 DEF Bytes, Adds
<1> QED BY <1>2, <1>3

(***************************************************************************)
(* The bytes of the first n records of s.                                  *)
(***************************************************************************)
LEMMA RecordWidth ==
    ASSUME NEW r \in Record
    PROVE  Width(r) \in Nat /\ Width(r) > 0
BY LenProperties DEF Width, Record, Values

LEMMA PrefixIs ==
    ASSUME NEW s \in Seq(Record), NEW n \in 0..Len(s)
    PROVE  /\ Prefix(s, n) \in Seq(Record) /\ Len(Prefix(s, n)) = n
           /\ \A i \in 1..n : Prefix(s, n)[i] = s[i]
<1>1. Len(s) \in Nat
  BY LenProperties
<1> QED BY <1>1, SubSeqProperties DEF Prefix

LEMMA BytesOf ==
    ASSUME NEW s \in Seq(Record), NEW f, Adds(s, f), NEW n \in 0..Len(s)
    PROVE  Bytes(Prefix(s, n)) = f[n]
<1>1. Len(s) \in Nat
  BY LenProperties
<1>2. PICK p : p = Prefix(s, n)
  OBVIOUS
<1>3. Len(p) = n /\ n \in Nat /\ \A i \in 1..n : p[i] = s[i]
  BY <1>1, <1>2, PrefixIs
<1>4. PICK g : Adds(p, g) /\ Bytes(p) = g[n]
  BY <1>3, BytesIsSum
<1> DEFINE S == {m \in Nat : m <= n => g[m] = f[m]}
<1>5. 0 \in S
  <2>1. g[0] = 0 /\ f[0] = 0
    BY <1>1, <1>3, <1>4 DEF Adds
  <2> QED BY <2>1
<1>6. ASSUME NEW m \in Nat, m \in S PROVE m + 1 \in S
  <2> SUFFICES ASSUME m + 1 <= n PROVE g[m + 1] = f[m + 1]
    OBVIOUS
  <2>1. g[m] = f[m] /\ (m + 1) - 1 = m /\ m + 1 # 0 /\ m + 1 \in 1..n
    BY <1>3, <1>6
  <2>2. m + 1 \in 0..Len(p) /\ m + 1 \in 0..Len(s)
    BY <1>1, <1>3, <2>1
  <2>3. g[m + 1] = g[m] + Width(p[m + 1])
    BY <1>4, <2>1, <2>2 DEF Adds
  <2>4. f[m + 1] = f[m] + Width(s[m + 1])
    BY <2>1, <2>2 DEF Adds
  <2> QED BY <1>3, <2>1, <2>3, <2>4
<1>7. Nat \subseteq S
  <2> HIDE DEF S
  <2> QED BY <1>5, <1>6, Induction
<1> QED BY <1>2, <1>3, <1>4, <1>7

LEMMA BytesGrow ==
    ASSUME NEW s \in Seq(Record)
    PROVE  /\ Bytes(Prefix(s, 0)) = 0
           /\ \A n \in 0..(Len(s) - 1) :
                  Bytes(Prefix(s, n + 1)) = Bytes(Prefix(s, n)) + Width(s[n + 1])
           /\ \A n \in 0..Len(s) : Bytes(Prefix(s, n)) \in Nat
<1>1. Len(s) \in Nat
  BY LenProperties
<1>2. PICK f : Adds(s, f)
  BY <1>1, AddsExists
<1>3. \A n \in 0..Len(s) : Bytes(Prefix(s, n)) = f[n]
  BY <1>2, BytesOf
<1>4. f[0] = 0
  BY <1>1, <1>2 DEF Adds
<1>5. \A n \in 0..(Len(s) - 1) : f[n + 1] = f[n] + Width(s[n + 1])
  <2> SUFFICES ASSUME NEW n \in 0..(Len(s) - 1) PROVE f[n + 1] = f[n] + Width(s[n + 1])
    OBVIOUS
  <2>1. n + 1 \in 0..Len(s) /\ (n + 1) - 1 = n /\ n + 1 # 0
    BY <1>1
  <2> QED BY <1>2, <2>1 DEF Adds
<1> DEFINE S == {n \in Nat : n <= Len(s) => f[n] \in Nat}
<1>6. 0 \in S
  BY <1>4
<1>7. ASSUME NEW n \in Nat, n \in S PROVE n + 1 \in S
  <2> SUFFICES ASSUME n + 1 <= Len(s) PROVE f[n + 1] \in Nat
    OBVIOUS
  <2>1. f[n] \in Nat /\ n \in 0..(Len(s) - 1) /\ n + 1 \in 1..Len(s)
    BY <1>1, <1>7
  <2>2. s[n + 1] \in Record
    BY <2>1, ElementOfSeq
  <2>3. Width(s[n + 1]) \in Nat
    BY <2>2, RecordWidth
  <2> QED BY <1>5, <2>1, <2>3
<1>8. Nat \subseteq S
  <2> HIDE DEF S
  <2> QED BY <1>6, <1>7, Induction
<1>9. \A n \in 0..Len(s) : f[n] \in Nat
  BY <1>1, <1>8
<1>10. \A n \in 0..(Len(s) - 1) : n \in 0..Len(s) /\ n + 1 \in 0..Len(s)
  BY <1>1
<1>11. Bytes(Prefix(s, 0)) = 0
  <2>1. 0 \in 0..Len(s)
    BY <1>1
  <2> QED BY <1>3, <1>4, <2>1
<1>12. ASSUME NEW n \in 0..(Len(s) - 1)
       PROVE  Bytes(Prefix(s, n + 1)) = Bytes(Prefix(s, n)) + Width(s[n + 1])
  <2>1. n \in 0..Len(s) /\ n + 1 \in 0..Len(s)
    BY <1>10
  <2>2. Bytes(Prefix(s, n)) = f[n] /\ Bytes(Prefix(s, n + 1)) = f[n + 1]
    BY <1>3, <2>1
  <2> QED BY <1>5, <2>2
<1>13. \A n \in 0..Len(s) : Bytes(Prefix(s, n)) \in Nat
  BY <1>3, <1>9
<1> QED BY <1>11, <1>12, <1>13

LEMMA BytesMonotonic ==
    ASSUME NEW s \in Seq(Record), NEW m \in 0..Len(s), NEW n \in 0..Len(s), m < n
    PROVE  Bytes(Prefix(s, m)) < Bytes(Prefix(s, n))
<1>1. Len(s) \in Nat
  BY LenProperties
<1> DEFINE S == {d \in Nat : m + d + 1 <= Len(s) =>
                                 Bytes(Prefix(s, m)) < Bytes(Prefix(s, m + d + 1))}
<1>2. \A l \in 0..(Len(s) - 1) : Bytes(Prefix(s, l)) < Bytes(Prefix(s, l + 1))
  <2> SUFFICES ASSUME NEW l \in 0..(Len(s) - 1)
               PROVE  Bytes(Prefix(s, l)) < Bytes(Prefix(s, l + 1))
    OBVIOUS
  <2>1. l \in 0..Len(s) /\ l + 1 \in 1..Len(s)
    BY <1>1
  <2>2. Width(s[l + 1]) \in Nat /\ Width(s[l + 1]) > 0
    BY <2>1, ElementOfSeq, RecordWidth
  <2>3. Bytes(Prefix(s, l)) \in Nat
        /\ Bytes(Prefix(s, l + 1)) = Bytes(Prefix(s, l)) + Width(s[l + 1])
    BY <2>1, BytesGrow
  <2> QED BY <2>2, <2>3
<1>3. \A l \in 0..Len(s) : Bytes(Prefix(s, l)) \in Nat
  BY BytesGrow
<1>4. 0 \in S
  <2> SUFFICES ASSUME m + 0 + 1 <= Len(s)
               PROVE  Bytes(Prefix(s, m)) < Bytes(Prefix(s, m + 0 + 1))
    OBVIOUS
  <2>1. m + 0 + 1 = m + 1 /\ m \in 0..(Len(s) - 1)
    BY <1>1
  <2> QED BY <1>2, <2>1
<1>5. ASSUME NEW d \in Nat, d \in S PROVE d + 1 \in S
  <2> SUFFICES ASSUME m + (d + 1) + 1 <= Len(s)
               PROVE  Bytes(Prefix(s, m)) < Bytes(Prefix(s, m + (d + 1) + 1))
    OBVIOUS
  <2>1. PICK l : l = m + d + 1
    OBVIOUS
  <2>2. /\ m + (d + 1) + 1 = l + 1 /\ l \in 0..(Len(s) - 1) /\ l <= Len(s)
        /\ l \in 0..Len(s) /\ l + 1 \in 0..Len(s)
    BY <1>1, <2>1
  <2>3. Bytes(Prefix(s, m)) < Bytes(Prefix(s, l)) /\ Bytes(Prefix(s, l)) < Bytes(Prefix(s, l + 1))
    BY <1>2, <1>5, <2>1, <2>2
  <2>4. /\ Bytes(Prefix(s, m)) \in Nat /\ Bytes(Prefix(s, l)) \in Nat
        /\ Bytes(Prefix(s, l + 1)) \in Nat
    BY <1>3, <2>2
  <2>5. Bytes(Prefix(s, m)) < Bytes(Prefix(s, l + 1))
    BY <2>3, <2>4
  <2> QED BY <2>2, <2>5
<1>6. Nat \subseteq S
  <2> HIDE DEF S
  <2> QED BY <1>4, <1>5, Induction
<1>7. PICK d : d = n - m - 1
  OBVIOUS
<1>8. d \in Nat /\ m + d + 1 = n /\ n <= Len(s)
  BY <1>1, <1>7
<1> QED BY <1>6, <1>8

LEMMA BeforeBoundary ==
    ASSUME NEW s \in Seq(Record), NEW n \in 0..Len(s)
    PROVE  Before(s, Bytes(Prefix(s, n))) = n
<1>1. Len(s) \in Nat
  BY LenProperties
<1>2. \A m \in 0..Len(s) : Bytes(Prefix(s, m)) \in Nat
  BY BytesGrow
<1>3. {m \in 1..Len(s) : Bytes(Prefix(s, m)) <= Bytes(Prefix(s, n))} = 1..n
  <2>1. ASSUME NEW m \in 1..Len(s)
        PROVE  Bytes(Prefix(s, m)) <= Bytes(Prefix(s, n)) <=> m <= n
    <3>1. m \in 0..Len(s)
      BY <1>1
    <3>2. Bytes(Prefix(s, m)) \in Nat /\ Bytes(Prefix(s, n)) \in Nat
      BY <1>2, <3>1
    <3>3. CASE m < n
      BY <3>1, <3>2, <3>3, BytesMonotonic
    <3>4. CASE m = n
      BY <3>2, <3>4
    <3>5. CASE n < m
      <4>1. Bytes(Prefix(s, n)) < Bytes(Prefix(s, m))
        BY <3>1, <3>5, BytesMonotonic
      <4> QED BY <3>2, <3>5, <4>1
    <3> QED BY <1>1, <3>3, <3>4, <3>5
  <2> QED BY <1>1, <2>1
<1>4. Cardinality(1..n) = n
  <2>1. n \in Nat
    BY <1>1
  <2> QED BY <2>1, FS_Interval
<1> QED BY <1>3, <1>4 DEF Before

LEMMA WholeLog ==
    ASSUME NEW s \in Seq(Record)
    PROVE  Bytes(s) = Bytes(Prefix(s, Len(s))) /\ Len(s) \in Nat
<1>1. Len(s) \in Nat
  BY LenProperties
<1>2. Prefix(s, Len(s)) = s
  BY <1>1, SubSeqFull DEF Prefix
<1> QED BY <1>1, <1>2

-----------------------------------------------------------------------------
(* What logs mean *)

Counts(rec, t) == rec.kind = "put" /\ ~ExpiredAt(ExpiresAt(rec.ts, rec.ttl), t)

(***************************************************************************)
(* Log u goes on after n records of s with rec.                            *)
(***************************************************************************)
GoesOn(u, s, n, rec) == u[n + 1] = rec /\ \A i \in 1..n : u[i] = s[i]

LEMMA LatestAlone ==
    ASSUME NEW s, NEW n \in Nat, NEW k, NEW i, NEW j, Latest(k, i, s, n), Latest(k, j, s, n)
    PROVE  i = j
<1>1. i \in 1..n /\ j \in 1..n /\ s[i].key = k /\ s[j].key = k
  BY DEF Latest
<1>2. ~(i < j) /\ ~(j < i)
  BY <1>1 DEF Latest
<1> QED BY <1>1, <1>2

LEMMA CellsOfLatest ==
    ASSUME NEW s, NEW n \in Nat, NEW t, NEW k \in Keys, NEW i, Latest(k, i, s, n)
    PROVE  View(s, n, t)[k] = IF Counts(s[i], t) THEN {CellOf(s[i])} ELSE {}
<1>1. \A j \in 1..n : Latest(k, j, s, n) <=> j = i
  BY LatestAlone
<1>2. i \in 1..n
  BY DEF Latest
<1> QED BY <1>1, <1>2 DEF View, Counts

LEMMA CellsOfNone ==
    ASSUME NEW s, NEW n \in Nat, NEW t, NEW k \in Keys,
           \A i \in 1..n : Latest(k, i, s, n) => ~Counts(s[i], t)
    PROVE  View(s, n, t)[k] = {}
BY DEF View, Counts

LEMMA CellsUnmentioned ==
    ASSUME NEW s, NEW n \in Nat, NEW t, NEW k \in Keys, ~Mentions(k, s, n)
    PROVE  View(s, n, t)[k] = {}
BY CellsOfNone DEF Mentions, Latest

LEMMA CellsSame ==
    ASSUME NEW s, NEW u, NEW n \in Nat, \A i \in 1..n : u[i] = s[i]
    PROVE  \A t : View(u, n, t) = View(s, n, t)
<1>1. \A k, i : Latest(k, i, u, n) <=> Latest(k, i, s, n)
  BY DEF Latest
<1> QED BY <1>1 DEF View

LEMMA CellsOwn ==
    ASSUME NEW s, NEW u, NEW n \in Nat, NEW rec, GoesOn(u, s, n, rec), rec.key \in Keys, NEW t
    PROVE  /\ View(u, n + 1, t)[rec.key] = IF Counts(rec, t) THEN {CellOf(rec)} ELSE {}
           /\ Mentions(rec.key, u, n + 1)
<1>0. PICK k, m : k = rec.key /\ m = n + 1
  OBVIOUS
<1>1. k \in Keys /\ m \in Nat /\ Latest(k, m, u, m) /\ u[m] = rec
  BY <1>0 DEF Latest, GoesOn
<1>2. View(u, m, t)[k] = IF Counts(u[m], t) THEN {CellOf(u[m])} ELSE {}
  BY <1>1, CellsOfLatest
<1>3. Mentions(k, u, m)
  BY <1>1 DEF Mentions, Latest
<1> QED BY <1>0, <1>1, <1>2, <1>3

LEMMA CellsOther ==
    ASSUME NEW s, NEW u, NEW n \in Nat, NEW rec, GoesOn(u, s, n, rec),
           NEW k \in Keys, k # rec.key
    PROVE  \A m, t : m = n + 1 => View(u, m, t)[k] = View(s, n, t)[k]
<1> SUFFICES ASSUME NEW t PROVE View(u, n + 1, t)[k] = View(s, n, t)[k]
  OBVIOUS
<1>1. \A i : Latest(k, i, u, n + 1) <=> Latest(k, i, s, n)
  <2> SUFFICES ASSUME NEW i PROVE Latest(k, i, u, n + 1) <=> Latest(k, i, s, n)
    OBVIOUS
  <2>1. CASE i \in 1..n
    BY <2>1 DEF Latest, GoesOn
  <2>2. CASE i \notin 1..n
    <3>1. ~Latest(k, i, s, n)
      BY <2>2 DEF Latest
    <3>2. i \in 1..(n + 1) => i = n + 1
      BY <2>2
    <3>3. i = n + 1 => u[i].key # k
      BY DEF GoesOn
    <3> QED BY <3>1, <3>2, <3>3 DEF Latest
  <2> QED BY <2>1, <2>2
<1>3. {j \in 1..(n + 1) : Latest(k, j, u, n + 1) /\ Counts(u[j], t)}
        = {j \in 1..n : Latest(k, j, s, n) /\ Counts(s[j], t)}
  BY <1>1 DEF Latest, GoesOn
<1>4. \A j \in 1..n : u[j] = s[j]
  BY DEF GoesOn
<1>5. View(u, n + 1, t)[k] = {CellOf(u[j]) : j \in {i \in 1..(n + 1) :
                                  Latest(k, i, u, n + 1) /\ Counts(u[i], t)}}
  BY DEF View, Counts
<1>6. View(s, n, t)[k] = {CellOf(s[j]) : j \in {i \in 1..n :
                                  Latest(k, i, s, n) /\ Counts(s[i], t)}}
  BY DEF View, Counts
<1> QED BY <1>3, <1>4, <1>5, <1>6

(***************************************************************************)
(* Once expired, expired for good.                                         *)
(***************************************************************************)
LEMMA ExpiryLasts ==
    ASSUME NEW r \in Record, NEW t \in Int, NEW u \in Int, t <= u, Counts(r, u)
    PROVE  Counts(r, t)
BY DEF Counts, ExpiredAt, ExpiresAt, Record

(***************************************************************************)
(* A compaction changes nothing for its readers, now or later.             *)
(***************************************************************************)
LEMMA CompactedMeans ==
    ASSUME NEW s \in Seq(Record), NEW t \in Int, NEW c, c \in Compacted(s, t)
    PROVE  /\ c \in Seq(Record) /\ Len(c) \in Nat
           /\ \A k \in Keys, u \in Int : t <= u =>
                  View(c, Len(c), u)[k] = View(s, Len(s), u)[k]
<1>1. Len(s) \in Nat /\ \A i \in 1..Len(s) : s[i] \in Record
  BY LenProperties, ElementOfSeq
<1>2. PICK L, m : L = Live(s, t) /\ m = Cardinality(L)
  OBVIOUS
<1>3. L \subseteq 1..Len(s) /\ IsFiniteSet(L) /\ m \in Nat
  <2>1. L \subseteq 1..Len(s)
    BY <1>2 DEF Live
  <2>2. IsFiniteSet(1..Len(s))
    BY <1>1, FS_Interval
  <2> QED BY <1>2, <2>1, <2>2, FS_Subset, FS_CardinalityType
<1>4. PICK p \in SetToSeqs(L) : c = [i \in 1..Len(p) |-> s[p[i]]]
  BY <1>2 DEF Compacted
<1>5. p \in [1..m -> L] /\ \A i, j \in 1..m : i # j => p[i] # p[j]
  BY <1>2, <1>4 DEF SetToSeqs
<1>6. p \in Seq(L) /\ Len(p) = m
  BY <1>3, <1>5, IsASeq, LenProperties
<1>7. /\ c = [i \in 1..m |-> s[p[i]]]
      /\ \A i \in 1..m : p[i] \in L /\ c[i] = s[p[i]] /\ c[i] \in Record
  BY <1>1, <1>3, <1>4, <1>5, <1>6
<1>8. c \in Seq(Record) /\ Len(c) = m
  <2>1. c \in [1..m -> Record]
    BY <1>7
  <2>2. c \in Seq(Record)
    BY <1>3, <2>1, IsASeq
  <2> QED BY <1>3, <1>7, <2>2, LenProperties
<1>9. \A l \in L : \E i \in 1..m : p[i] = l
  <2>1. p \in Injection(1..m, L)
    BY <1>5 DEF Injection, IsInjective
  <2>2. Cardinality(1..m) = m
    BY <1>3, FS_Interval
  <2>3. p \in Surjection(1..m, L)
    BY <1>2, <1>3, <2>1, <2>2, FS_Injection
  <2> QED BY <2>3 DEF Surjection
<1>10. ASSUME NEW k \in Keys, NEW u \in Int, t <= u
       PROVE  View(c, Len(c), u)[k] = View(s, Len(s), u)[k]
  <2>1. CASE \E l \in L : s[l].key = k
    <3>1. PICK l \in L : s[l].key = k
      BY <2>1
    <3>2. Latest(k, l, s, Len(s))
      BY <1>2, <3>1 DEF Live
    <3>3. PICK i \in 1..m : p[i] = l
      BY <1>9
    <3>4. \A j \in 1..m : c[j].key = k => j = i
      <4> SUFFICES ASSUME NEW j \in 1..m, c[j].key = k PROVE j = i
        OBVIOUS
      <4>1. p[j] \in L /\ s[p[j]].key = k
        BY <1>7
      <4>2. Latest(k, p[j], s, Len(s))
        BY <1>2, <4>1 DEF Live
      <4>3. p[j] = l
        BY <1>1, <3>2, <4>2, LatestAlone
      <4> QED BY <1>5, <3>3, <4>3
    <3>5. Latest(k, i, c, m) /\ c[i] = s[l]
      BY <1>3, <1>7, <3>1, <3>3, <3>4 DEF Latest
    <3>6. View(c, m, u)[k] = IF Counts(c[i], u) THEN {CellOf(c[i])} ELSE {}
      BY <1>3, <3>5, CellsOfLatest
    <3>7. View(s, Len(s), u)[k] = IF Counts(s[l], u) THEN {CellOf(s[l])} ELSE {}
      BY <1>1, <3>2, CellsOfLatest
    <3> QED BY <1>8, <3>5, <3>6, <3>7
  <2>2. CASE \A l \in L : s[l].key # k
    <3>1. ~Mentions(k, c, m)
      BY <1>7, <2>2 DEF Mentions
    <3>2. \A l \in 1..Len(s) : Latest(k, l, s, Len(s)) => ~Counts(s[l], u)
      <4> SUFFICES ASSUME NEW l \in 1..Len(s), Latest(k, l, s, Len(s)), Counts(s[l], u)
                   PROVE  FALSE
        OBVIOUS
      <4>1. s[l].key = k /\ s[l] \in Record
        BY <1>1 DEF Latest
      <4>2. Counts(s[l], t)
        BY <1>10, <4>1, ExpiryLasts
      <4>3. l \in L
        BY <1>2, <4>1, <4>2 DEF Live, Counts
      <4> QED BY <2>2, <4>1, <4>3
    <3> QED BY <1>1, <1>3, <1>8, <3>1, <3>2, CellsOfNone, CellsUnmentioned
  <2> QED BY <2>1, <2>2
<1> QED BY <1>3, <1>8, <1>10

-----------------------------------------------------------------------------
(* The invariant *)

LogsOK ==
    /\ plog \in Seq(Record) /\ Len(plog) \in Nat
    /\ psynced \in 0..Len(plog) /\ now \in Nat

(***************************************************************************)
(* The follower has the first n records of the primary's log, and the      *)
(* batch the next ones.  A key of these records has the same cells in both *)
(* logs, now and later; a key of no record of the primary has none.  A key *)
(* of later records alone has none either, unless the follower's process   *)
(* ended and it goes over what it has.                                     *)
(***************************************************************************)
SameCells(k, n, t) == View(flog, Len(flog), t)[k] = View(plog, n, t)[k]
NoCells(k, t) == View(flog, Len(flog), t)[k] = {}

CopyOf(n) ==
    /\ flog \in Seq(Record) /\ Len(flog) \in Nat
    /\ batch \in Seq(Record) /\ Len(batch) \in Nat
    /\ repl_from = Bytes(Prefix(plog, n))
    /\ n + Len(batch) <= Len(plog)
    /\ \A i \in 1..Len(batch) : batch[i] = plog[n + i]
    /\ \A k \in Keys, t \in Int : now <= t =>
        /\ Mentions(k, plog, n) => SameCells(k, n, t)
        /\ ~Mentions(k, plog, n) /\ ~recopying => NoCells(k, t)
        /\ ~Mentions(k, plog, Len(plog)) => NoCells(k, t)

CopyInv == LogsOK /\ (fresh => \E n \in 0..Len(plog) : CopyOf(n))

(***************************************************************************)
(* A copy that has not begun.                                              *)
(***************************************************************************)
LEMMA Unbegun ==
    ASSUME LogsOK, flog = <<>>, repl_from = 0, batch = <<>>
    PROVE  CopyOf(0)
<1>1. Len(flog) = 0 /\ Len(batch) = 0 /\ flog \in Seq(Record) /\ batch \in Seq(Record)
  BY EmptySeq
<1>2. repl_from = Bytes(Prefix(plog, 0))
  BY BytesGrow DEF LogsOK
<1>3. \A k, n, t : ~Mentions(k, plog, 0)
  BY DEF Mentions
<1>4. \A k \in Keys, t \in Int : NoCells(k, t)
  BY <1>1 DEF NoCells, View
<1> QED BY <1>1, <1>2, <1>3, <1>4 DEF CopyOf, LogsOK

LEMMA UnbegunNext ==
    ASSUME LogsOK', flog' = <<>>, repl_from' = 0, batch' = <<>>
    PROVE  CopyOf(0)' /\ CopyInv'
<1>1. CopyOf(0)'
  <2>1. Len(flog') = 0 /\ Len(batch') = 0 /\ flog' \in Seq(Record) /\ batch' \in Seq(Record)
    BY EmptySeq
  <2>2. repl_from' = Bytes(Prefix(plog', 0))
    BY BytesGrow DEF LogsOK
  <2>3. \A k : ~Mentions(k, plog', 0)
    BY DEF Mentions
  <2>4. \A k \in Keys, t \in Int : View(flog', Len(flog'), t)[k] = {}
    BY <2>1 DEF View
  <2> QED BY <2>1, <2>2, <2>3, <2>4 DEF CopyOf, LogsOK, NoCells
<1>2. 0 \in 0..Len(plog')
  BY DEF LogsOK
<1> QED BY <1>1, <1>2 DEF CopyInv

LEMMA ResyncKeeps ==
    ASSUME CopyInv, Resync, UNCHANGED <<primary, now>>
    PROVE  CopyInv'
<1>1. LogsOK'
  BY DEF CopyInv, LogsOK, primary
<1> QED BY <1>1, UnbegunNext DEF Resync

(***************************************************************************)
(* The primary's log moved.                                                *)
(***************************************************************************)
LEMMA RewrittenKeeps ==
    ASSUME CopyInv, Rewritten, LogsOK', UNCHANGED <<follower, now>>
    PROVE  CopyInv'
<1>1. CASE fresh'
  BY <1>1, UnbegunNext DEF Rewritten, follower
<1>2. CASE ~fresh'
  BY <1>2 DEF CopyInv
<1> QED BY <1>1, <1>2

(***************************************************************************)
(* The primary's log grows.                                                *)
(***************************************************************************)
LEMMA GrowKeeps ==
    ASSUME CopyInv, NEW rec \in Record, plog' = Append(plog, rec),
           UNCHANGED <<psynced, follower, now, history>>
    PROVE  CopyInv'
<1>1. /\ plog' \in Seq(Record) /\ Len(plog') = Len(plog) + 1
      /\ plog'[Len(plog) + 1] = rec /\ \A i \in 1..Len(plog) : plog'[i] = plog[i]
  BY AppendProperties DEF CopyInv, LogsOK
<1>2. LogsOK'
  BY <1>1 DEF CopyInv, LogsOK
<1>3. ASSUME NEW n \in 0..Len(plog), fresh, CopyOf(n) PROVE CopyOf(n)'
  <2>1. UNCHANGED <<flog, batch, repl_from, now, recopying>>
    BY DEF follower, history
  <2>2. /\ n \in Nat /\ n <= Len(plog) /\ Len(plog) \in Nat /\ n \in 0..Len(plog')
        /\ \A i \in 1..n : plog'[i] = plog[i]
    BY <1>1 DEF CopyInv, LogsOK
  <2>3. Prefix(plog', n) = Prefix(plog, n)
    <3>1. PICK p, q : p = Prefix(plog', n) /\ q = Prefix(plog, n)
      OBVIOUS
    <3>2. /\ p \in Seq(Record) /\ Len(p) = n /\ \A i \in 1..n : p[i] = plog'[i]
          /\ q \in Seq(Record) /\ Len(q) = n /\ \A i \in 1..n : q[i] = plog[i]
      BY <1>1, <2>2, <3>1, PrefixIs DEF CopyInv, LogsOK
    <3>3. p = q
      BY <2>2, <3>2, SeqEqual
    <3> QED BY <3>1, <3>3
  <2>4. /\ \A t : View(plog', n, t) = View(plog, n, t)
        /\ \A k : Mentions(k, plog', n) <=> Mentions(k, plog, n)
    <3>1. PICK u, s, m : u = plog' /\ s = plog /\ m = n /\ m \in Nat
      BY <2>2
    <3>2. \A i \in 1..m : u[i] = s[i]
      BY <2>2, <3>1
    <3>3. \A t : View(u, m, t) = View(s, m, t)
      <4>1. SUFFICES ASSUME NEW t PROVE View(u, m, t) = View(s, m, t)
        OBVIOUS
      <4>2. m \in Nat
        BY <3>1
      <4>3. \A x : View(u, m, x) = View(s, m, x)
        BY <4>2, <3>2, CellsSame
      <4> QED BY <4>3
    <3>4. \A k : Mentions(k, u, m) <=> Mentions(k, s, m)
      BY <3>2 DEF Mentions
    <3> QED BY <3>1, <3>3, <3>4
  <2>5. \A k : Mentions(k, plog, Len(plog)) => Mentions(k, plog', Len(plog'))
    BY <1>1, <2>2 DEF Mentions
  <2>6. \A i \in 1..Len(batch) : n + i \in 1..Len(plog)
    BY <1>3, <2>2 DEF CopyOf
  <2> QED BY <1>1, <1>3, <2>1, <2>2, <2>3, <2>4, <2>5, <2>6
          DEF CopyOf, SameCells, NoCells
<1>4. \A n \in 0..Len(plog) : n \in 0..Len(plog')
  BY <1>1 DEF CopyInv, LogsOK
<1> QED BY <1>2, <1>3, <1>4 DEF CopyInv, history

-----------------------------------------------------------------------------
(* The steps *)

LEMMA PrimaryRecordIs ==
    ASSUME LogsOK, NEW rec \in PrimaryRecords
    PROVE  rec \in Record
<1>1. CASE rec \in {TombRec(k) : k \in Keys}
  <2>1. PICK k \in Keys : rec = [kind |-> "tomb", key |-> k, val |-> <<>>, ts |-> 0, ttl |-> 0]
    BY <1>1 DEF TombRec
  <2>2. <<>> \in Values
    BY EmptySeq DEF Values
  <2> QED BY <2>1, <2>2 DEF Record
<1>2. CASE rec \notin {TombRec(k) : k \in Keys}
  <2>1. PICK k \in Keys, v \in UNION {[1..n -> Chunks] : n \in 1..MaxVal}, ttl \in TTLs :
            rec = [kind |-> "put", key |-> k, val |-> v, ts |-> now, ttl |-> ttl]
    BY <1>2 DEF PrimaryRecords, PutRec
  <2>2. v \in Values
    BY <2>1, IsASeq, LogAssumption DEF Values
  <2>3. ttl \in Nat
    BY LogAssumption
  <2> QED BY <2>1, <2>2, <2>3 DEF Record, LogsOK
<1> QED BY <1>1, <1>2

LEMMA PrimaryWriteKeeps ==
    ASSUME CopyInv, NEW rec \in PrimaryRecords, PrimaryWrite(rec)
    PROVE  CopyInv'
<1>1. rec \in Record
  BY PrimaryRecordIs DEF CopyInv
<1>2. PICK s : s = Append(plog, rec)
  OBVIOUS
<1>3. CASE plog' = s /\ UNCHANGED <<psynced, history>>
  BY <1>1, <1>2, <1>3, GrowKeeps DEF PrimaryWrite
<1>4. CASE plog' \in Compacted(s, now) /\ psynced' = Len(plog') /\ Rewritten
  <2>1. s \in Seq(Record) /\ now \in Int
    BY <1>1, <1>2, AppendProperties DEF CopyInv, LogsOK
  <2>2. plog' \in Seq(Record) /\ Len(plog') \in Nat
    BY <1>4, <2>1, CompactedMeans
  <2>3. UNCHANGED <<follower, now>>
    BY DEF PrimaryWrite
  <2>4. LogsOK'
    BY <1>4, <2>2, <2>3 DEF LogsOK, CopyInv
  <2> QED BY <1>4, <2>3, <2>4, RewrittenKeeps
<1> QED BY <1>2, <1>3, <1>4 DEF PrimaryWrite

LEMMA PowerLossKeeps ==
    ASSUME CopyInv, PrimaryPowerLoss
    PROVE  CopyInv'
<1>1. PICK n \in psynced..(Len(plog) - 1) : plog' = Prefix(plog, n) /\ psynced' = n
  BY DEF PrimaryPowerLoss
<1>2. n \in 0..Len(plog) /\ n \in Nat
  BY DEF CopyInv, LogsOK
<1>3. plog' \in Seq(Record) /\ Len(plog') = n
  BY <1>1, <1>2, PrefixIs DEF CopyInv, LogsOK
<1>4. LogsOK' /\ Rewritten /\ UNCHANGED <<follower, now>>
  BY <1>1, <1>2, <1>3 DEF CopyInv, LogsOK, PrimaryPowerLoss
<1> QED BY <1>4, RewrittenKeeps

LEMMA RestoreKeeps ==
    ASSUME CopyInv, NEW rec \in RestoreRecords, PrimaryRestore(rec)
    PROVE  CopyInv'
<1>1. PICK k \in Keys, c \in Chunks :
          rec = [kind |-> "put", key |-> k, val |-> <<c>>, ts |-> now, ttl |-> 0]
  BY DEF RestoreRecords, PutRec
<1>2. rec \in Record
  BY <1>1 DEF Record, Values, CopyInv, LogsOK
<1>3. plog' \in Seq(Record) /\ Len(plog') = 1
  BY <1>2 DEF PrimaryRestore
<1>4. LogsOK' /\ Rewritten /\ UNCHANGED <<follower, now>>
  BY <1>3 DEF CopyInv, LogsOK, PrimaryRestore
<1> QED BY <1>4, RewrittenKeeps

LEMMA FetchBatchKeeps ==
    ASSUME CopyInv, FetchBatch
    PROVE  CopyInv'
<1>1. UNCHANGED <<plog, psynced, flog, repl_from, now, fresh, recopying>>
  BY DEF FetchBatch, primary, history
<1>2. LogsOK'
  BY <1>1 DEF CopyInv, LogsOK
<1>3. ASSUME NEW n \in 0..Len(plog), fresh, CopyOf(n) PROVE CopyOf(n)'
  <2>1. n \in Nat /\ Len(plog) \in Nat /\ n <= Len(plog) /\ plog \in Seq(Record)
    BY DEF CopyInv, LogsOK
  <2>2. Before(plog, repl_from) = n
    BY <1>3, <2>1, BeforeBoundary DEF CopyOf
  <2>3. PICK b : b = BatchAt(repl_from)
    OBVIOUS
  <2>4. PICK m \in 0..Len(plog) : n + m <= Len(plog) /\ b = SubSeq(plog, n + 1, n + m)
    <3> DEFINE Sendable(i) ==
                 /\ n + i <= Len(plog)
                 /\ i <= BatchRecs
                 /\ \A j \in 1..i :
                     /\ Fits(plog[n + j])
                     /\ Bytes(SubSeq(plog, n + 1, n + j - 1)) < BatchBytes
               S == {i \in 0..Len(plog) : Sendable(i)}
    <3>1. b = SubSeq(plog, n + 1, n + Max(S))
      BY <2>2, <2>3 DEF BatchAt
    <3>2. 0 \in S
      BY <2>1, ReplicationAssumption
    <3>3. \A i \in S : i \in 0..Len(plog) /\ n + i <= Len(plog)
      OBVIOUS
    <3>4. Max(S) \in S
      <4> HIDE DEF S
      <4>1. S \subseteq 0..Len(plog) /\ S # {}
        BY <3>2, <3>3
      <4> QED BY <2>1, <4>1, Greatest
    <3> HIDE DEF S
    <3> QED BY <3>1, <3>3, <3>4
  <2>5. b \in Seq(Record) /\ Len(b) = m /\ \A i \in 1..m : b[i] = plog[n + i]
    <3>1. n + 1 \in 1..(Len(plog) + 1) /\ n + m \in 0..Len(plog) /\ (n + m) - (n + 1) + 1 = m
      BY <2>1, <2>4
    <3>2. \A i \in 1..Len(plog) : plog[i] \in Record
      BY <2>1, ElementOfSeq
    <3>3. b = [i \in 1..m |-> plog[n + i]]
      BY <2>1, <2>4
    <3>4. \A i \in 1..m : plog[n + i] \in Record
      BY <2>1, <2>4, <3>2
    <3>5. b \in [1..m -> Record]
      BY <3>3, <3>4
    <3>6. m \in Nat
      BY <2>1, <2>4
    <3>7. b \in Seq(Record)
      BY <3>5, <3>6, IsASeq
    <3> QED BY <3>3, <3>5, <3>6, <3>7, LenProperties
  <2>6. \E l \in 0..m : /\ batch' \in Seq(Record) /\ Len(batch') = l
                        /\ \A i \in 1..l : batch'[i] = b[i]
    <3>1. CASE batch' = b
      <4>1. m \in 0..m
        BY <2>1, <2>4
      <4> QED BY <2>5, <3>1, <4>1
    <3>2. CASE \E l \in 0..(Len(b) - 1) : batch' = Prefix(b, l)
      <4>1. PICK l \in 0..(Len(b) - 1) : batch' = Prefix(b, l)
        BY <3>2
      <4>2. l \in 0..Len(b) /\ l \in 0..m
        BY <2>4, <2>5
      <4> QED BY <2>5, <4>1, <4>2, PrefixIs
    <3> QED BY <2>3, <3>1, <3>2 DEF FetchBatch
  <2>7. PICK l \in 0..m : /\ batch' \in Seq(Record) /\ Len(batch') = l
                          /\ \A i \in 1..l : batch'[i] = b[i]
    BY <2>6
  <2>8. /\ Len(batch') \in Nat /\ n + Len(batch') <= Len(plog)
        /\ \A i \in 1..Len(batch') : batch'[i] = plog[n + i]
    BY <2>1, <2>4, <2>5, <2>7
  <2> QED BY <1>1, <1>3, <2>7, <2>8 DEF CopyOf, SameCells, NoCells
<1> QED BY <1>1, <1>2, <1>3 DEF CopyInv

LEMMA ImportKeeps ==
    ASSUME CopyInv, ImportRecord
    PROVE  CopyInv'
<1>1. UNCHANGED <<plog, psynced, now, fresh, recopying>> /\ batch # <<>>
  BY DEF ImportRecord, primary, history
<1>2. LogsOK'
  BY <1>1 DEF CopyInv, LogsOK
<1>3. ASSUME NEW n \in 0..Len(plog), fresh, CopyOf(n)
      PROVE  n + 1 \in 0..Len(plog) /\ CopyOf(n + 1)'
  <2>1. n \in Nat /\ Len(plog) \in Nat /\ plog \in Seq(Record) /\ now \in Int
    BY DEF CopyInv, LogsOK
  <2>2. /\ flog \in Seq(Record) /\ Len(flog) \in Nat /\ batch \in Seq(Record)
        /\ Len(batch) \in Nat /\ n + Len(batch) <= Len(plog)
        /\ \A i \in 1..Len(batch) : batch[i] = plog[n + i]
    BY <1>3 DEF CopyOf
  <2>3. PICK r : r = Head(batch)
    OBVIOUS
  <2>4. /\ r = batch[1] /\ r \in Record /\ Len(batch) > 0 /\ Tail(batch) \in Seq(Record)
        /\ Len(Tail(batch)) = Len(batch) - 1
        /\ \A i \in 1..(Len(batch) - 1) : Tail(batch)[i] = batch[i + 1]
    BY <1>1, <2>2, <2>3, HeadTailProperties, ElementOfSeq
  <2>5. n + 1 \in 1..Len(plog) /\ n \in 0..(Len(plog) - 1) /\ plog[n + 1] = r
    BY <2>1, <2>2, <2>4
  <2>6. repl_from' = Bytes(Prefix(plog, n + 1))
    BY <1>3, <2>1, <2>3, <2>5, BytesGrow DEF CopyOf, ImportRecord
  <2>7. /\ batch' \in Seq(Record) /\ Len(batch') \in Nat
        /\ (n + 1) + Len(batch') <= Len(plog)
        /\ \A i \in 1..Len(batch') : batch'[i] = plog[(n + 1) + i]
    <3>1. batch' = Tail(batch)
      BY DEF ImportRecord
    <3>2. \A i \in 1..(Len(batch) - 1) : i + 1 \in 1..Len(batch) /\ n + (i + 1) = (n + 1) + i
      BY <2>1, <2>2
    <3>3. \A i \in 1..(Len(batch) - 1) : batch[i + 1] = plog[n + (i + 1)]
      BY <2>2, <3>2
    <3> QED BY <2>1, <2>2, <2>4, <3>1, <3>2, <3>3
  <2>8. PICK s : s = Append(flog, r)
    OBVIOUS
  <2>9. /\ s \in Seq(Record) /\ Len(s) = Len(flog) + 1 /\ GoesOn(s, flog, Len(flog), r)
    BY <2>2, <2>4, <2>8, AppendProperties DEF GoesOn
  <2>10. /\ flog' \in Seq(Record) /\ Len(flog') \in Nat
         /\ \A k \in Keys, t \in Int : now <= t =>
                View(flog', Len(flog'), t)[k] = View(s, Len(s), t)[k]
    <3>1. CASE flog' = s
      BY <2>2, <2>9, <3>1
    <3>2. CASE flog' \in Compacted(s, now)
      BY <2>1, <2>9, <3>2, CompactedMeans
    <3> QED BY <2>3, <2>8, <3>1, <3>2 DEF ImportRecord
  <2>11. GoesOn(plog, plog, n, r) /\ r.key \in Keys
    BY <2>4, <2>5 DEF GoesOn, Record
  <2>12. ASSUME NEW k \in Keys, NEW t \in Int, now <= t
         PROVE  /\ Mentions(k, plog, n + 1) =>
                       View(flog', Len(flog'), t)[k] = View(plog, n + 1, t)[k]
                /\ ~Mentions(k, plog, n + 1) /\ ~recopying => View(flog', Len(flog'), t)[k] = {}
                /\ ~Mentions(k, plog, Len(plog)) => View(flog', Len(flog'), t)[k] = {}
    <3>1. View(flog', Len(flog'), t)[k] = View(s, Len(flog) + 1, t)[k]
      BY <2>9, <2>10, <2>12
    <3>2. CASE k = r.key
      <4>1. /\ View(s, Len(flog) + 1, t)[k] = View(plog, n + 1, t)[k]
            /\ Mentions(k, plog, n + 1)
        <5>1. View(s, Len(flog) + 1, t)[r.key] = IF Counts(r, t) THEN {CellOf(r)} ELSE {}
          BY <2>2, <2>9, <2>11, CellsOwn
        <5>2. /\ View(plog, n + 1, t)[r.key] = IF Counts(r, t) THEN {CellOf(r)} ELSE {}
              /\ Mentions(r.key, plog, n + 1)
          BY <2>1, <2>11, CellsOwn
        <5> QED BY <3>2, <5>1, <5>2
      <4>2. Mentions(k, plog, Len(plog))
        BY <2>1, <2>5, <4>1 DEF Mentions
      <4> QED BY <3>1, <4>1, <4>2
    <3>3. CASE k # r.key
      <4>1. View(s, Len(flog) + 1, t)[k] = View(flog, Len(flog), t)[k]
        <5>1. PICK m, e : /\ m = Len(flog) /\ e = m + 1
                          /\ m \in Nat /\ GoesOn(s, flog, m, r)
          BY <2>2, <2>9
        <5>2. View(s, e, t)[k] = View(flog, m, t)[k]
          BY <3>3, <5>1, CellsOther
        <5> QED BY <5>1, <5>2
      <4>2. /\ View(plog, n + 1, t)[k] = View(plog, n, t)[k]
            /\ Mentions(k, plog, n + 1) <=> Mentions(k, plog, n)
        <5>1. View(plog, n + 1, t)[k] = View(plog, n, t)[k]
          <6>1. PICK e : e = n + 1 /\ n \in Nat
            BY <2>1
          <6>2. View(plog, e, t)[k] = View(plog, n, t)[k]
            BY <2>11, <3>3, <6>1, CellsOther
          <6> QED BY <6>1, <6>2
        <5>2. Mentions(k, plog, n + 1) <=> Mentions(k, plog, n)
          BY <2>1, <2>5, <3>3 DEF Mentions
        <5> QED BY <5>1, <5>2
      <4>3. /\ Mentions(k, plog, n) => View(flog, Len(flog), t)[k] = View(plog, n, t)[k]
            /\ ~Mentions(k, plog, n) /\ ~recopying => View(flog, Len(flog), t)[k] = {}
            /\ ~Mentions(k, plog, Len(plog)) => View(flog, Len(flog), t)[k] = {}
        BY <1>3, <2>12 DEF CopyOf, SameCells, NoCells
      <4> QED BY <3>1, <4>1, <4>2, <4>3
    <3> QED BY <3>2, <3>3
  <2> QED BY <1>1, <2>1, <2>5, <2>6, <2>7, <2>10, <2>12 DEF CopyOf, SameCells, NoCells
<1> QED BY <1>1, <1>2, <1>3 DEF CopyInv

(***************************************************************************)
(* The follower's process restarts: it goes over a log it already has.     *)
(***************************************************************************)
LEMMA RestartKeeps ==
    ASSUME CopyInv, Restart
    PROVE  CopyInv'
<1>1. /\ UNCHANGED <<plog, psynced, now, flog, fresh>> /\ repl_from' = 0 /\ batch' = <<>>
      /\ recopying' = (flog # <<>>)
  BY DEF Restart, primary
<1>2. LogsOK'
  BY <1>1 DEF CopyInv, LogsOK
<1>3. ASSUME NEW n \in 0..Len(plog), fresh, CopyOf(n) PROVE CopyOf(0)'
  <2>1. Len(batch') = 0 /\ batch' \in Seq(Record)
    BY <1>1, EmptySeq
  <2>2. repl_from' = Bytes(Prefix(plog, 0))
    BY <1>1, BytesGrow DEF CopyInv, LogsOK
  <2>3. \A k : ~Mentions(k, plog, 0)
    BY DEF Mentions
  <2>4. ~recopying' => \A k \in Keys, t \in Int : NoCells(k, t)
    <3> SUFFICES ASSUME flog = <<>>, NEW k \in Keys, NEW t \in Int PROVE NoCells(k, t)
      BY <1>1
    <3>1. Len(flog) = 0
      OBVIOUS
    <3> QED BY <3>1 DEF NoCells, View
  <2>5. Len(plog) \in Nat
    BY DEF CopyInv, LogsOK
  <2> QED BY <1>1, <1>3, <2>1, <2>2, <2>3, <2>4, <2>5 DEF CopyOf, NoCells, SameCells
<1>4. 0 \in 0..Len(plog)
  BY DEF CopyInv, LogsOK
<1> QED BY <1>1, <1>2, <1>3, <1>4 DEF CopyInv

LEMMA TickKeeps ==
    ASSUME CopyInv, Tick
    PROVE  CopyInv'
<1>1. UNCHANGED <<plog, psynced, flog, repl_from, batch, fresh, recopying>> /\ now' = now + 1
  BY DEF Tick, primary, follower, history
<1>2. LogsOK'
  BY <1>1 DEF CopyInv, LogsOK
<1>3. ASSUME NEW n \in 0..Len(plog), fresh, CopyOf(n) PROVE CopyOf(n)'
  <2>1. \A t \in Int : now' <= t => now <= t
    BY <1>1 DEF CopyInv, LogsOK
  <2> QED BY <1>1, <1>3, <2>1 DEF CopyOf, NoCells, SameCells
<1> QED BY <1>1, <1>2, <1>3 DEF CopyInv

LEMMA CopyStep == CopyInv /\ [Next]_vars => CopyInv'
<1> SUFFICES ASSUME CopyInv, [Next]_vars PROVE CopyInv'
  OBVIOUS
<1>1. CASE \E rec \in PrimaryRecords : PrimaryWrite(rec)
  BY <1>1, PrimaryWriteKeeps
<1>2. CASE PrimarySync
  <2>1. psynced' = Len(plog) /\ UNCHANGED <<plog, flog, repl_from, batch, now, fresh, recopying>>
    BY <1>2 DEF PrimarySync, follower, history
  <2>2. LogsOK'
    BY <2>1 DEF CopyInv, LogsOK
  <2>3. ASSUME NEW n \in 0..Len(plog), CopyOf(n) PROVE CopyOf(n)'
    BY <2>1, <2>3 DEF CopyOf, SameCells, NoCells
  <2> QED BY <2>1, <2>2, <2>3 DEF CopyInv
<1>3. CASE PrimaryPowerLoss
  BY <1>3, PowerLossKeeps
<1>4. CASE \E rec \in RestoreRecords : PrimaryRestore(rec)
  BY <1>4, RestoreKeeps
<1>5. CASE FetchTorn \/ CutEnds \/ ImportFails
  BY <1>5, ResyncKeeps DEF FetchTorn, CutEnds, ImportFails
<1>6. CASE FetchBatch
  BY <1>6, FetchBatchKeeps
<1>7. CASE ImportRecord
  BY <1>7, ImportKeeps
<1>8. CASE Restart
  BY <1>8, RestartKeeps
<1>9. CASE Tick
  BY <1>9, TickKeeps
<1>10. CASE UNCHANGED vars
  <2>1. UNCHANGED <<plog, psynced, flog, repl_from, batch, fresh, recopying, now>>
    BY <1>10 DEF vars, primary, follower, history
  <2>2. LogsOK'
    BY <2>1 DEF CopyInv, LogsOK
  <2>3. \A n : CopyOf(n)' <=> CopyOf(n)
    BY <2>1 DEF CopyOf, SameCells, NoCells
  <2> QED BY <2>1, <2>2, <2>3 DEF CopyInv
<1> QED BY <1>1, <1>2, <1>3, <1>4, <1>5, <1>6, <1>7, <1>8, <1>9, <1>10 DEF Next

LEMMA CopyInvariant == Spec => []CopyInv
<1>1. Init => CopyInv
  <2> SUFFICES ASSUME Init PROVE CopyInv
    OBVIOUS
  <2>1. LogsOK /\ 0 \in 0..Len(plog)
    BY EmptySeq DEF Init, LogsOK
  <2> QED BY <2>1, Unbegun DEF Init, CopyInv
<1> QED BY <1>1, CopyStep, PTL DEF Spec

-----------------------------------------------------------------------------
(***************************************************************************)
(* main.c, repl_thread: as long as the primary's log was not rewritten     *)
(* during the copy and the follower did not restart, its readers see the   *)
(* records before its offset and no others.                                *)
(***************************************************************************)
THEOREM FollowerSeesPrefix == Spec => []PrefixConsistent
<1>1. CopyInv => PrefixConsistent
  <2> SUFFICES ASSUME CopyInv, fresh, ~recopying
               PROVE  SeenBy(flog) = SeenBy(Prefix(plog, Before(plog, repl_from)))
    BY DEF PrefixConsistent
  <2>1. PICK n \in 0..Len(plog) : CopyOf(n)
    BY DEF CopyInv
  <2>2. plog \in Seq(Record) /\ n \in Nat /\ now \in Int /\ now <= now
    BY DEF CopyInv, LogsOK
  <2>3. Before(plog, repl_from) = n
    BY <2>1, <2>2, BeforeBoundary DEF CopyOf
  <2>4. PICK p : p = Prefix(plog, n)
    OBVIOUS
  <2>5. Len(p) = n /\ \A i \in 1..n : p[i] = plog[i]
    BY <2>2, <2>4, PrefixIs
  <2>6. View(p, n, now) = View(plog, n, now)
    BY <2>2, <2>5, CellsSame
  <2>7. \A k \in Keys : View(flog, Len(flog), now)[k] = View(plog, n, now)[k]
    <3> SUFFICES ASSUME NEW k \in Keys
                 PROVE  View(flog, Len(flog), now)[k] = View(plog, n, now)[k]
      OBVIOUS
    <3>1. CASE Mentions(k, plog, n)
      BY <2>1, <2>2, <3>1 DEF CopyOf, SameCells
    <3>2. CASE ~Mentions(k, plog, n)
      <4>1. View(flog, Len(flog), now)[k] = {}
        BY <2>1, <2>2, <3>2 DEF CopyOf, NoCells
      <4> QED BY <2>2, <3>2, <4>1, CellsUnmentioned
    <3> QED BY <3>1, <3>2
  <2>8. View(flog, Len(flog), now) = View(plog, n, now)
    BY <2>7 DEF View
  <2> QED BY <2>3, <2>4, <2>5, <2>6, <2>8 DEF SeenBy
<1> QED BY <1>1, CopyInvariant, PTL

(***************************************************************************)
(* /stats, "lag": when it is 0 the follower shows what the primary shows,  *)
(* through cuts, failed imports, restarts and compactions of its own, for  *)
(* as long as the primary's log was not rewritten during the copy.         *)
(***************************************************************************)
THEOREM NoLagIsExact == Spec => []CaughtUpIsExact
<1>1. CopyInv => CaughtUpIsExact
  <2> SUFFICES ASSUME CopyInv, fresh, repl_from >= Bytes(plog)
               PROVE  SeenBy(flog) = SeenBy(plog)
    BY DEF CaughtUpIsExact
  <2>1. PICK n \in 0..Len(plog) : CopyOf(n)
    BY DEF CopyInv
  <2>2. plog \in Seq(Record) /\ n \in Nat /\ now \in Int /\ now <= now /\ Len(plog) \in Nat
    BY DEF CopyInv, LogsOK
  <2>3. n = Len(plog)
    <3> SUFFICES ASSUME n < Len(plog) PROVE FALSE
      BY <2>2
    <3>1. Len(plog) \in 0..Len(plog)
      BY <2>2
    <3>2. Bytes(Prefix(plog, n)) < Bytes(Prefix(plog, Len(plog)))
      BY <2>2, <3>1, BytesMonotonic
    <3>3. Bytes(Prefix(plog, n)) \in Nat /\ Bytes(Prefix(plog, Len(plog))) \in Nat
      BY <2>2, <3>1, BytesGrow
    <3>4. Bytes(plog) = Bytes(Prefix(plog, Len(plog))) /\ repl_from = Bytes(Prefix(plog, n))
      BY <2>1, <2>2, WholeLog DEF CopyOf
    <3> QED BY <3>2, <3>3, <3>4
  <2>4. \A k \in Keys : View(flog, Len(flog), now)[k] = View(plog, Len(plog), now)[k]
    <3> SUFFICES ASSUME NEW k \in Keys
                 PROVE  View(flog, Len(flog), now)[k] = View(plog, Len(plog), now)[k]
      OBVIOUS
    <3>1. CASE Mentions(k, plog, Len(plog))
      BY <2>1, <2>2, <2>3, <3>1 DEF CopyOf, SameCells
    <3>2. CASE ~Mentions(k, plog, Len(plog))
      <4>1. View(flog, Len(flog), now)[k] = {}
        BY <2>1, <2>2, <3>2 DEF CopyOf, NoCells
      <4> QED BY <2>2, <3>2, <4>1, CellsUnmentioned
    <3> QED BY <3>1, <3>2
  <2> QED BY <2>4 DEF SeenBy, View
<1> QED BY <1>1, CopyInvariant, PTL

=============================================================================
