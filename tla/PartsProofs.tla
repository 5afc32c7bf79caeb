----------------------------- MODULE PartsProofs -----------------------------
(***************************************************************************)
(* What holds of the parts of module Parts for every value of their        *)
(* constants.  Each part has its inductive invariant in its own module;    *)
(* here it is shown to be one, and what follows from it.                   *)
(***************************************************************************)
EXTENDS Parts, FiniteSetTheorems, SequenceTheorems, TLAPS

-----------------------------------------------------------------------------
(* Child *)

LEMMA NoChunks == <<>> \in Seq(Nat) /\ DOMAIN <<>> = {} /\ Len(<<>>) = 0
<1>1. <<>> \in Seq(Nat) /\ Len(<<>>) = 0
  BY EmptySeq
<1> QED
  BY <1>1, LenProperties

(* the child writes its next chunk *)
LEMMA ChildWrites ==
    ASSUME ChildPart!Inv, ChildPart!Write
    PROVE  ChildPart!Inv'
<1> USE DEF ChildPart!Inv, ChildPart!TypeOK, ChildPart!Write
<1>1. /\ v3' \in Nat
      /\ v3' <= OutCap => v3' = v3 + 1
  BY ChildAssumption DEF ChildPart!Least
<1>2. ChildPart!TypeOK'
  BY <1>1
<1>3. ChildPart!ResultIsEnding'
  BY DEF ChildPart!ResultIsEnding
<1>4. ChildPart!InOrder'
  <2> SUFFICES ASSUME v3' <= OutCap
               PROVE  /\ \A i \in DOMAIN v5' : v5'[i] = i
                      /\ \A i \in DOMAIN v4' : v4'[i] = Len(v5') + i
                      /\ v1' # "reaped" => v3' = Len(v5') + Len(v4')
    BY DEF ChildPart!InOrder
  <2>1. v3 <= OutCap /\ v3' = v3 + 1
    BY <1>1, ChildAssumption
  <2>2. v3 = Len(v5) + Len(v4)
    BY <2>1 DEF ChildPart!InOrder
  <2>3. /\ Len(v4') = Len(v4) + 1 /\ DOMAIN v4' = 1..Len(v4')
        /\ \A i \in 1..Len(v4) : v4'[i] = v4[i]
        /\ v4'[Len(v4) + 1] = v3'
    BY <1>1
  <2>4. \A i \in DOMAIN v4' : v4'[i] = Len(v5) + i
    <3> TAKE i \in DOMAIN v4'
    <3>1. CASE i = Len(v4) + 1
      BY <3>1, <2>1, <2>2, <2>3
    <3>2. CASE i \in 1..Len(v4)
      BY <3>2, <2>1, <2>3 DEF ChildPart!InOrder
    <3> QED
      BY <3>1, <3>2, <2>3
  <2> QED
    BY <2>1, <2>2, <2>3, <2>4 DEF ChildPart!InOrder
<1> QED
  BY <1>2, <1>3, <1>4

(* a sequence without its first n elements *)
LEMMA Dropped ==
    ASSUME NEW S, NEW s \in Seq(S), NEW n \in 0..Len(s),
           NEW r, r = SubSeq(s, n + 1, Len(s))
    PROVE  /\ r \in Seq(S) /\ Len(r) = Len(s) - n
           /\ \A i \in 1..Len(r) : r[i] = s[n + i]
<1>1. PICK l : l = Len(s)
  OBVIOUS
<1>2. l \in Nat /\ n \in 0..l /\ \A i \in 1..l : s[i] \in S
  BY <1>1, LenProperties, ElementOfSeq
<1>3. PICK m : m = n + 1
  OBVIOUS
<1>4. /\ m \in 1..(l + 1) /\ l - m + 1 = l - n
      /\ ~(m <= l) => l - n = 0
      /\ \A i \in 1..(l - n) : m + i - 1 = n + i
  BY <1>2, <1>3
<1>5. \A i \in m..l : s[i] \in S
  BY <1>2, <1>4
<1>6. /\ SubSeq(s, m, l) \in Seq(S)
      /\ Len(SubSeq(s, m, l)) = IF m <= l THEN l - m + 1 ELSE 0
      /\ \A i \in 1..(l - m + 1) : SubSeq(s, m, l)[i] = s[m + i - 1]
  BY <1>2, <1>4, <1>5, SubSeqProperties
<1> QED
  BY <1>1, <1>3, <1>4, <1>6

(* the parent takes what one read returns off the pipe *)
LEMMA ChildReads ==
    ASSUME ChildPart!Inv, ChildPart!Read
    PROVE  ChildPart!Inv'
<1> USE DEF ChildPart!Inv, ChildPart!TypeOK, ChildPart!Read
<1> DEFINE n == ChildPart!Least(Len(v4), PerRead)
<1>1. n \in 0..Len(v4)
  BY ChildAssumption DEF ChildPart!Least
<1>2. /\ SubSeq(v4, 1, n) \in Seq(Nat) /\ Len(SubSeq(v4, 1, n)) = n
      /\ \A i \in 1..n : SubSeq(v4, 1, n)[i] = v4[i]
  BY <1>1, SubSeqProperties
<1>3. /\ v4' \in Seq(Nat) /\ Len(v4') = Len(v4) - n
      /\ \A i \in 1..Len(v4') : v4'[i] = v4[n + i]
  <2>1. v4 \in Seq(Nat) /\ v4' = SubSeq(v4, n + 1, Len(v4))
    OBVIOUS
  <2> HIDE DEF n
  <2>2. PICK r : r = SubSeq(v4, n + 1, Len(v4))
    OBVIOUS
  <2>3. r \in Seq(Nat) /\ Len(r) = Len(v4) - n /\ \A i \in 1..Len(r) : r[i] = v4[n + i]
    BY <1>1, <2>1, <2>2, Dropped
  <2>4. v4' = r
    BY <2>1, <2>2
  <2> QED
    BY <2>3, <2>4
<1> DEFINE kept == v5 \o SubSeq(v4, 1, n)
<1>4. /\ kept \in Seq(Nat) /\ Len(kept) = Len(v5) + n
      /\ \A i \in 1..Len(v5) : kept[i] = v5[i]
      /\ \A i \in 1..n : kept[Len(v5) + i] = v4[i]
  BY <1>1, <1>2, ConcatProperties
<1>5. v5' = (IF Len(v5) + n <= OutCap THEN kept ELSE v5) /\ UNCHANGED <<v1, v3>>
  BY DEF ChildPart!Kept
<1>6. ChildPart!TypeOK'
  BY <1>3, <1>4, <1>5
<1>7. ChildPart!ResultIsEnding'
  BY DEF ChildPart!ResultIsEnding, ChildPart!AskNext
<1>8. Len(v4) \in Nat /\ Len(v5) \in Nat /\ v1 # "reaped" /\ v3 \in Nat
  BY LenProperties
<1> HIDE DEF n, kept, ChildPart!Read
<1>9. ChildPart!InOrder'
  <2> SUFFICES ASSUME v3 <= OutCap
               PROVE  /\ \A i \in DOMAIN v5' : v5'[i] = i
                      /\ \A i \in DOMAIN v4' : v4'[i] = Len(v5') + i
                      /\ v1 # "reaped" => v3 = Len(v5') + Len(v4')
    BY <1>5 DEF ChildPart!InOrder
  <2>1. /\ \A i \in 1..Len(v5) : v5[i] = i
        /\ \A i \in 1..Len(v4) : v4[i] = Len(v5) + i
        /\ v1 # "reaped" => v3 = Len(v5) + Len(v4)
    BY DEF ChildPart!InOrder
  <2>2. v5' = kept
    BY <2>1, <1>1, <1>5, <1>8, ChildAssumption
  <2>3. \A i \in 1..Len(kept) : kept[i] = i
    <3> TAKE i \in 1..Len(kept)
    <3>1. CASE i \in 1..Len(v5)
      BY <3>1, <2>1, <1>4
    <3>2. CASE i \in Len(v5) + 1 .. Len(v5) + n
      <4> DEFINE j == i - Len(v5)
      <4>1. j \in 1..n /\ i = Len(v5) + j /\ j \in 1..Len(v4)
        BY <3>2, <1>1, <1>8
      <4> QED
        BY <4>1, <2>1, <1>4
    <3> QED
      BY <3>1, <3>2, <1>1, <1>4, <1>8
  <2>4. \A i \in 1..Len(v4') : v4'[i] = Len(kept) + i
    <3> TAKE i \in 1..Len(v4')
    <3> DEFINE j == n + i
    <3>1. v4'[i] = v4[j]
      BY <1>3
    <3>2. Len(v4) \in Nat /\ Len(v4') = Len(v4) - n
      BY <1>3, <1>8
    <3>3. j \in 1..Len(v4)
      <4> HIDE DEF n
      <4> QED
        BY <1>1, <3>2
    <3> QED
      BY <3>1, <3>2, <3>3, <2>1, <1>1, <1>3, <1>4, <1>8
  <2>5. v3 = Len(kept) + Len(v4')
    BY <2>1, <1>1, <1>3, <1>4, <1>8
  <2>6. DOMAIN kept = 1..Len(kept) /\ DOMAIN v4' = 1..Len(v4')
    BY <1>3, <1>4, LenProperties
  <2> QED
    BY <2>2, <2>3, <2>4, <2>5, <2>6
<1> QED
  BY <1>6, <1>7, <1>9

(* the part's invariant is inductive *)
LEMMA ChildStep ==
    ASSUME ChildPart!Inv, [ChildPart!Next]_(ChildPart!vars)
    PROVE  ChildPart!Inv'
<1> USE DEF ChildPart!Inv, ChildPart!TypeOK, ChildPart!InOrder, ChildPart!ResultIsEnding
<1>1. CASE ChildPart!Write
  BY <1>1, ChildWrites
<1>2. CASE ChildPart!Exit
  BY <1>2 DEF ChildPart!Exit
<1>3. CASE ChildPart!Tick
  BY <1>3 DEF ChildPart!Tick
<1>4. CASE ChildPart!Read
  BY <1>4, ChildReads
<1>5. CASE ChildPart!Ask
  <2>1. CASE v1 = "exited"
    <3>1. /\ v1' = "reaped" /\ v6' = "returned" /\ v7' = v2 /\ v4' = <<>>
          /\ UNCHANGED <<v2, v3, v5, v8>>
      BY <1>5, <2>1 DEF ChildPart!Ask, ChildPart!Answered, ChildPart!Return
    <3> QED
      BY <3>1, <2>1, NoChunks
  <2>2. CASE v1 # "exited"
    BY <1>5, <2>2 DEF ChildPart!Ask, ChildPart!Answered
  <2> QED
    BY <2>1, <2>2
<1>6. CASE ChildPart!Clock
  <2>1. CASE v8 > Timeout
    <3>1. /\ v1' = "reaped" /\ v6' = "returned" /\ v7' = "timeout" /\ v4' = <<>>
          /\ UNCHANGED <<v3, v5, v8>>
      BY <1>6, <2>1 DEF ChildPart!Clock, ChildPart!Return
    <3> QED
      BY <3>1, NoChunks
  <2>2. CASE ~(v8 > Timeout)
    BY <1>6, <2>2 DEF ChildPart!Clock
  <2> QED
    BY <2>1, <2>2
<1>7. CASE ChildPart!Poll
  BY <1>7 DEF ChildPart!Poll
<1>8. CASE ChildPart!PollFails
  BY <1>8 DEF ChildPart!PollFails, ChildPart!Return
<1>9. CASE UNCHANGED ChildPart!vars
  BY <1>9 DEF ChildPart!vars
<1> QED
  BY <1>1, <1>2, <1>3, <1>4, <1>5, <1>6, <1>7, <1>8, <1>9
     DEF ChildPart!Next, ChildPart!Parent

(* run_child reports how the child ended, with the beginning of its output (checks.c:45-116) *)
THEOREM ChildReports == Spec => []ChildReported
<1> DEFINE I == part = "child" => ChildPart!Inv
<1>1. Init => I
  BY DEF Init, ChildPart!Init, ChildPart!Inv, ChildPart!TypeOK, ChildPart!InOrder,
         ChildPart!ResultIsEnding
<1>2. I /\ [Next]_vars => I'
  BY ChildStep DEF Next, vars, ChildPart!vars
<1>3. I => ChildReported
  BY ChildAssumption
     DEF ChildReported, ChildPart!Inv, ChildPart!InOrder, ChildPart!OutputIsPrefix
<1> QED
  BY <1>1, <1>2, <1>3, PTL DEF Spec

-----------------------------------------------------------------------------
(* Integer division, and the minimum of two *)

LEMMA DivBounds ==
    ASSUME NEW a \in Nat, NEW s \in Nat \ {0}
    PROVE  /\ a \div s \in Nat
           /\ s * (a \div s) <= a
           /\ a < s * (a \div s) + s
OBVIOUS

LEMMA TimesCancels ==
    ASSUME NEW q \in Int, NEW r \in Int, NEW s \in Nat \ {0}, s * q < s * r
    PROVE  q < r
OBVIOUS

LEMMA DivAtLeast ==
    ASSUME NEW q \in Nat, NEW a \in Nat, NEW s \in Nat \ {0}, s * q <= a
    PROVE  q <= a \div s
<1> DEFINE r == a \div s
<1>1. r \in Nat /\ a < s * r + s
  BY DivBounds
<1> HIDE DEF r
<1>2. s * q < s * (r + 1)
  BY <1>1
<1>3. q < r + 1
  BY <1>1, <1>2, TimesCancels
<1> QED
  BY <1>1, <1>3 DEF r

(* rounding each part down gives no more than rounding the whole *)
LEMMA DivSum ==
    ASSUME NEW a \in Nat, NEW b \in Nat, NEW s \in Nat \ {0}
    PROVE  a \div s + b \div s <= (a + b) \div s
<1> DEFINE q == a \div s
           r == b \div s
<1>1. q \in Nat /\ r \in Nat /\ s * q <= a /\ s * r <= b
  BY DivBounds
<1> HIDE DEF q, r
<1>2. s * (q + r) <= a + b
  BY <1>1
<1>3. q + r <= (a + b) \div s
  BY <1>1, <1>2, DivAtLeast
<1> QED
  BY <1>3 DEF q, r

LEMMA MinOfTwo ==
    ASSUME NEW a \in Int, NEW b \in Int
    PROVE  ServePart!Min({a, b}) = IF a <= b THEN a ELSE b
<1> DEFINE m == IF a <= b THEN a ELSE b
<1>1. m \in {a, b} /\ \A y \in {a, b} : m <= y
  OBVIOUS
<1>2. \A n \in {a, b} : (\A y \in {a, b} : n <= y) => n = m
  BY <1>1
<1> QED
  BY <1>1, <1>2 DEF ServePart!Min

-----------------------------------------------------------------------------
(* Serve *)

(* the instance counts as the module FiniteSets does *)
LEMMA ServeCardinality == \A S : ServePart!Cardinality(S) = Cardinality(S)
BY Zenon DEF ServePart!Cardinality, Cardinality

(* the tokens of two times add up to no more than those of their sum *)
LEMMA AllowanceGrows ==
    ASSUME NEW t \in Nat, NEW e \in Nat
    PROVE  /\ (PerSec * e) \div Second \in Nat
           /\ ServePart!Allowance(t) \in Nat
           /\ ServePart!Allowance(t) + (PerSec * e) \div Second <= ServePart!Allowance(t + e)
<1> DEFINE a == PerSec * t
           b == PerSec * e
<1>1. a \in Nat /\ b \in Nat /\ PerSec * (t + e) = a + b
  BY ServeAssumption
<1> HIDE DEF a, b
<1>2. a \div Second + b \div Second <= (a + b) \div Second
  BY <1>1, ServeAssumption, DivSum
<1>3. a \div Second \in Nat /\ b \div Second \in Nat /\ (a + b) \div Second \in Nat
  BY <1>1, ServeAssumption, DivBounds
<1>4. /\ ServePart!Allowance(t) = PerSec + a \div Second
      /\ ServePart!Allowance(t + e) = PerSec + (a + b) \div Second
      /\ (PerSec * e) \div Second = b \div Second
  BY <1>1 DEF ServePart!Allowance, a, b
<1> QED
  BY <1>2, <1>3, <1>4, ServeAssumption

(* what a refill stores lies between what it loaded and what was due *)
LEMMA RefillBounds ==
    ASSUME NEW n \in Int, NEW e \in Nat, n <= 2 * PerSec
    PROVE  LET r == ServePart!Refilled(n, e)
           IN  /\ r \in Int /\ n <= r /\ r <= 2 * PerSec
               /\ r <= n + (PerSec * e) \div Second
<1> DEFINE d == (PerSec * e) \div Second
<1>1. d \in Nat
  BY AllowanceGrows, 0 \in Nat
<1> HIDE DEF d
<1>2. ServePart!Refilled(n, e) = IF n + d <= 2 * PerSec THEN n + d ELSE 2 * PerSec
  BY <1>1, ServeAssumption, MinOfTwo DEF ServePart!Refilled, d
<1> QED
  BY <1>1, <1>2, ServeAssumption DEF d

LEMMA ServeTypes ==
    ASSUME ServePart!Inv, ServePart!Next
    PROVE  ServePart!TypeOK'
<1> USE DEF ServePart!Inv, ServePart!TypeOK, ServePart!Goto, ServePart!At,
            ServePart!limiter, ServePart!main, ServePart!Pcs
<1>1. CASE ServePart!Stop \/ ServePart!Close \/ ServePart!Tick
  BY <1>1, ServeAssumption DEF ServePart!Stop, ServePart!Close, ServePart!Tick
<1>2. ASSUME NEW c \in ServeConns,
             \/ ServePart!Accept(c) \/ ServePart!AcceptFails(c) \/ ServePart!Answer(c)
             \/ ServePart!Gather(c) \/ ServePart!Test(c) \/ ServePart!Load(c)
             \/ ServePart!Route(c) \/ ServePart!Finish(c) \/ ServePart!Store(c)
      PROVE  ServePart!TypeOK'
  BY <1>2 DEF ServePart!Accept, ServePart!Started, ServePart!AcceptFails, ServePart!Answer,
              ServePart!Gather, ServePart!Test, ServePart!Load, ServePart!Route,
              ServePart!Finish, ServePart!Store
<1>3. ASSUME NEW c \in ServeConns, ServePart!Look(c)
      PROVE  ServePart!TypeOK'
  <2>1. v9' \in BOOLEAN
    BY <1>3, Zenon DEF ServePart!Look
  <2>2. /\ v4' = [v4 EXCEPT ![c].pc = "age", ![c].now = v1]
        /\ UNCHANGED <<v1, v2, v3, v5, v7, v8>>
    BY <1>3 DEF ServePart!Look
  <2>3. v4' \in [ServeConns -> [pc : ServePart!Pcs, now : Nat, elapsed : Nat, tokens : Int]]
    <3> DEFINE l == [v4[c] EXCEPT !.pc = "age", !.now = v1]
    <3>1. v4' = [v4 EXCEPT ![c] = l]
      BY <2>2
    <3>2. l \in [pc : ServePart!Pcs, now : Nat, elapsed : Nat, tokens : Int]
      OBVIOUS
    <3> HIDE DEF l
    <3> QED
      BY <3>1, <3>2
  <2>4. \A d \in ServeConns : v4'[d].now <= v1'
    BY <2>2
  <2> QED
    BY <2>1, <2>2, <2>3, <2>4
<1>4. ASSUME NEW c \in ServeConns, ServePart!Age(c)
      PROVE  ServePart!TypeOK'
  BY <1>4 DEF ServePart!Age
<1>5. ASSUME NEW c \in ServeConns, ServePart!Refill(c)
      PROVE  ServePart!TypeOK'
  BY <1>5, RefillBounds DEF ServePart!Refill, ServePart!AllBounded, ServePart!Bounded
<1> QED
  BY <1>1, <1>2, <1>3, <1>4, <1>5 DEF ServePart!Next


(* who is at work, and who is past the limiter, when thread c goes on *)
LEMMA ServeSets ==
    ASSUME ServePart!Inv, NEW c \in ServeConns, NEW p,
           v4' \in [ServeConns -> [pc : ServePart!Pcs, now : Nat, elapsed : Nat, tokens : Int]],
           v4'[c].pc = p, \A d \in ServeConns \ {c} : v4'[d] = v4[d]
    PROVE  /\ IsFiniteSet(ServePart!Alive) /\ IsFiniteSet(ServePart!Through)
           /\ Cardinality(ServePart!Alive) \in Nat /\ Cardinality(ServePart!Through) \in Nat
           /\ Cardinality(ServePart!Alive') =
                Cardinality(ServePart!Alive)
                    + (IF p \in {"none", "gone"} THEN 0 ELSE 1)
                    - (IF v4[c].pc \in {"none", "gone"} THEN 0 ELSE 1)
           /\ Cardinality(ServePart!Through') =
                Cardinality(ServePart!Through)
                    + (IF p \in {"route", "reply", "gone"} THEN 1 ELSE 0)
                    - (IF v4[c].pc \in {"route", "reply", "gone"} THEN 1 ELSE 0)
<1> USE DEF ServePart!Alive, ServePart!Through
<1>1. IsFiniteSet(ServePart!Alive) /\ IsFiniteSet(ServePart!Through)
  BY ServeAssumption, FS_Subset
<1>2. Cardinality(ServePart!Alive) \in Nat /\ Cardinality(ServePart!Through) \in Nat
  BY <1>1, FS_CardinalityType
<1>3. ASSUME NEW S \in SUBSET ServeConns, NEW T \in SUBSET ServeConns, T \ {c} = S \ {c}
      PROVE  Cardinality(T) = Cardinality(S) + (IF c \in T THEN 1 ELSE 0)
                                             - (IF c \in S THEN 1 ELSE 0)
  <2>1. IsFiniteSet(S) /\ IsFiniteSet(T)
    BY ServeAssumption, FS_Subset
  <2>2. Cardinality(S) \in Nat /\ Cardinality(T) \in Nat
    BY <2>1, FS_CardinalityType
  <2>3. Cardinality(S \ {c}) = IF c \in S THEN Cardinality(S) - 1 ELSE Cardinality(S)
    BY <2>1, FS_RemoveElement
  <2>4. Cardinality(T \ {c}) = IF c \in T THEN Cardinality(T) - 1 ELSE Cardinality(T)
    BY <2>1, FS_RemoveElement
  <2>5. Cardinality(T \ {c}) = Cardinality(S \ {c})
    BY <1>3
  <2> QED
    BY <2>2, <2>3, <2>4, <2>5
<1>4. /\ ServePart!Alive' \ {c} = ServePart!Alive \ {c}
      /\ ServePart!Through' \ {c} = ServePart!Through \ {c}
      /\ c \in ServePart!Alive' <=> p \notin {"none", "gone"}
      /\ c \in ServePart!Through' <=> p \in {"route", "reply", "gone"}
  OBVIOUS
<1>5. ServePart!Alive' \subseteq ServeConns /\ ServePart!Through' \subseteq ServeConns
  OBVIOUS
<1> HIDE DEF ServePart!Alive, ServePart!Through
<1>6. /\ c \in ServePart!Alive <=> v4[c].pc \notin {"none", "gone"}
      /\ c \in ServePart!Through <=> v4[c].pc \in {"route", "reply", "gone"}
      /\ ServePart!Alive \subseteq ServeConns /\ ServePart!Through \subseteq ServeConns
  BY DEF ServePart!Alive, ServePart!Through
<1> QED
  BY <1>1, <1>2, <1>3, <1>4, <1>5, <1>6

(* the threads are counted, main has waited for them, and no token is taken twice too often *)
LEMMA ServeCounts ==
    ASSUME ServePart!Inv, ServePart!Next
    PROVE  ServePart!Counted' /\ ServePart!WaitedFor' /\ ServePart!AllBounded'
<1> USE DEF ServePart!Inv, ServePart!Counted, ServePart!WaitedFor, ServePart!AllBounded,
            ServePart!Bounded
<1>1. ServePart!TypeOK'
  BY ServeTypes
<1> USE ServeCardinality
<1>2. CASE ServePart!Stop \/ ServePart!Close \/ ServePart!Tick
  <2>1. UNCHANGED <<v2, v4, v5>> /\ ServePart!Alive' = ServePart!Alive
        /\ ServePart!Through' = ServePart!Through
    BY <1>2 DEF ServePart!Stop, ServePart!Close, ServePart!Tick, ServePart!limiter,
                ServePart!main, ServePart!Alive, ServePart!Through
  <2>2. v5 = 0 => ServePart!Alive = {}
    <3>1. IsFiniteSet(ServePart!Alive)
      BY ServeAssumption, FS_Subset DEF ServePart!Alive
    <3>2. v5 = Cardinality(ServePart!Alive)
      BY ServeCardinality
    <3> HIDE DEF ServePart!Inv
    <3> QED
      BY <3>1, <3>2, FS_EmptySet
  <2>3. ServePart!WaitedFor'
    BY <1>2, <2>1, <2>2, <1>1, ServeAssumption
       DEF ServePart!Stop, ServePart!Close, ServePart!Tick, ServePart!limiter,
           ServePart!main, ServePart!TypeOK
  <2> QED
    BY <2>1, <2>3
<1>3. ASSUME NEW c \in ServeConns,
             \/ ServePart!Accept(c) \/ ServePart!AcceptFails(c) \/ ServePart!Answer(c)
             \/ ServePart!Look(c) \/ ServePart!Age(c) \/ ServePart!Gather(c)
             \/ ServePart!Refill(c) \/ ServePart!Test(c) \/ ServePart!Load(c)
             \/ ServePart!Store(c) \/ ServePart!Route(c) \/ ServePart!Finish(c)
      PROVE  ServePart!Counted' /\ ServePart!WaitedFor' /\ ServePart!AllBounded'
  <2> DEFINE p == v4'[c].pc
             up == IF p \in {"none", "gone"} THEN 0 ELSE 1
             was == IF v4[c].pc \in {"none", "gone"} THEN 0 ELSE 1
             past == IF p \in {"route", "reply", "gone"} THEN 1 ELSE 0
             passed == IF v4[c].pc \in {"route", "reply", "gone"} THEN 1 ELSE 0
  <2> USE DEF ServePart!Goto, ServePart!At, ServePart!limiter, ServePart!main
  <2>1. /\ \A d \in ServeConns \ {c} : v4'[d] = v4[d]
        /\ UNCHANGED <<v6, v7, v10, v1>>
        /\ v5' = v5 + up - was
        /\ past >= passed
        /\ v4[c].pc = "store" => past = passed + 1
    BY <1>3
       DEF ServePart!Accept, ServePart!Started, ServePart!AcceptFails, ServePart!Answer,
           ServePart!Look, ServePart!Age, ServePart!Gather, ServePart!Refill,
           ServePart!Test, ServePart!Load, ServePart!Store, ServePart!Route,
           ServePart!Finish, ServePart!TypeOK, ServePart!Pcs
  <2>2. /\ Cardinality(ServePart!Alive') = Cardinality(ServePart!Alive) + up - was
        /\ Cardinality(ServePart!Through') = Cardinality(ServePart!Through) + past - passed
        /\ Cardinality(ServePart!Through) \in Nat
        /\ Cardinality(ServePart!Alive) \in Nat
    <3>1. v4' \in [ServeConns -> [pc : ServePart!Pcs, now : Nat, elapsed : Nat, tokens : Int]]
      BY <1>1 DEF ServePart!TypeOK
    <3>2. v4'[c].pc = p
      OBVIOUS
    <3> HIDE DEF p, ServePart!Inv
    <3> QED
      BY <2>1, <3>1, <3>2, ServeSets
  <2>3. ServePart!Counted' /\ ServePart!WaitedFor'
    BY <2>1, <2>2
  <2>4. /\ past \in 0..1 /\ passed \in 0..1
        /\ Cardinality(ServePart!Through') >= Cardinality(ServePart!Through)
        /\ v4[c].pc = "store" =>
             Cardinality(ServePart!Through') = Cardinality(ServePart!Through) + 1
    BY <2>1, <2>2
  <2> HIDE DEF past, passed, up, was
  <2>5. /\ v2 \in Int /\ 1 - Cardinality(ServePart!Through) <= v2 /\ v2 <= 2 * PerSec
        /\ \A d \in ServeConns : v4[d].pc \in {"refill", "store"} =>
             /\ v4[d].tokens \in Int
             /\ 1 - Cardinality(ServePart!Through) <= v4[d].tokens
             /\ v4[d].tokens <= 2 * PerSec
        /\ v4[c].elapsed \in Nat
    <3>1. v2 \in Int /\ v4[c].elapsed \in Nat /\ \A d \in ServeConns : v4[d].tokens \in Int
      BY DEF ServePart!TypeOK
    <3>2. /\ ServePart!Bounded(v2)
          /\ \A d \in ServeConns :
               v4[d].pc \in {"refill", "store"} => ServePart!Bounded(v4[d].tokens)
      BY Zenon
    <3> HIDE DEF ServePart!Inv
    <3> QED
      BY <3>1, <3>2
  <2>6. /\ v2' \in Int /\ 1 - Cardinality(ServePart!Through') <= v2' /\ v2' <= 2 * PerSec
    <3>1. CASE v4[c].pc = "refill"
      <4>1. v2' = ServePart!Refilled(v4[c].tokens, v4[c].elapsed)
        BY <3>1, <1>3
           DEF ServePart!Accept, ServePart!AcceptFails, ServePart!Answer,
               ServePart!Look, ServePart!Age, ServePart!Gather, ServePart!Refill,
               ServePart!Test, ServePart!Load, ServePart!Store, ServePart!Route,
               ServePart!Finish
      <4>2. /\ v2' \in Int /\ v4[c].tokens <= v2' /\ v2' <= 2 * PerSec
        BY <4>1, <3>1, <2>5, RefillBounds
      <4> QED
        BY <4>2, <3>1, <2>2, <2>4, <2>5, ServeAssumption
    <3>2. CASE v4[c].pc = "store"
      <4>1. v2' = v4[c].tokens - 1
        BY <3>2, <1>3
           DEF ServePart!Accept, ServePart!AcceptFails, ServePart!Answer,
               ServePart!Look, ServePart!Age, ServePart!Gather, ServePart!Refill,
               ServePart!Test, ServePart!Load, ServePart!Store, ServePart!Route,
               ServePart!Finish
      <4> QED
        BY <4>1, <3>2, <2>2, <2>4, <2>5, ServeAssumption
    <3>3. CASE v4[c].pc \notin {"refill", "store"}
      <4>1. v2' = v2
        BY <3>3, <1>3
           DEF ServePart!Accept, ServePart!AcceptFails, ServePart!Answer,
               ServePart!Look, ServePart!Age, ServePart!Gather, ServePart!Refill,
               ServePart!Test, ServePart!Load, ServePart!Store, ServePart!Route,
               ServePart!Finish
      <4> QED
        BY <4>1, <2>2, <2>4, <2>5, ServeAssumption
    <3> QED
      BY <3>1, <3>2, <3>3
  <2>7. v4'[c].pc \in {"refill", "store"} => v4'[c].tokens = v2
    BY <1>3
       DEF ServePart!Accept, ServePart!Started, ServePart!AcceptFails, ServePart!Answer,
           ServePart!Look, ServePart!Age, ServePart!Gather, ServePart!Refill,
           ServePart!Test, ServePart!Load, ServePart!Store, ServePart!Route,
           ServePart!Finish, ServePart!TypeOK, ServePart!Pcs
  <2>8. ASSUME NEW d \in ServeConns, v4'[d].pc \in {"refill", "store"}
        PROVE  /\ 1 - Cardinality(ServePart!Through') <= v4'[d].tokens
               /\ v4'[d].tokens <= 2 * PerSec
    <3>1. CASE d = c
      BY <3>1, <2>8, <2>7, <2>2, <2>4, <2>5
    <3>2. CASE d # c
      BY <3>2, <2>8, <2>1, <2>2, <2>4, <2>5
    <3> QED
      BY <3>1, <3>2
  <2>9. ServePart!AllBounded'
    BY <2>6, <2>8
  <2> QED
    BY <2>3, <2>9
<1> QED
  BY <1>2, <1>3 DEF ServePart!Next

(* a lone thread in the limiter gives no more than the seconds allow *)
LEMMA ServeRate ==
    ASSUME ServePart!Inv, ServePart!Next
    PROVE  ServePart!Unraced'
<1> USE DEF ServePart!Goto, ServePart!At, ServePart!limiter, ServePart!main
<1>1. ServePart!TypeOK /\ ServePart!TypeOK'
  BY ServeTypes DEF ServePart!Inv
<1> SUFFICES ASSUME ~v9'
             PROVE  ServePart!OneInside' /\ v2' >= 0 /\ v2' + v8' <= ServePart!Allowance(v3)'
  BY DEF ServePart!Unraced
<1>2. v9 => v9'
  BY DEF ServePart!Next, ServePart!Stop, ServePart!Close, ServePart!Tick,
         ServePart!Accept, ServePart!AcceptFails, ServePart!Answer,
         ServePart!Look, ServePart!Age, ServePart!Gather, ServePart!Refill,
         ServePart!Test, ServePart!Load, ServePart!Store, ServePart!Route,
         ServePart!Finish
<1>3. /\ ServePart!OneInside /\ v2 >= 0 /\ v2 + v8 <= ServePart!Allowance(v3)
  BY <1>2 DEF ServePart!Inv, ServePart!Unraced
<1>4. CASE ServePart!Stop \/ ServePart!Close \/ ServePart!Tick
  <2>1. UNCHANGED <<v2, v3, v4, v8>>
    BY <1>4 DEF ServePart!Stop, ServePart!Close, ServePart!Tick
  <2> QED
    BY <2>1, <1>3 DEF ServePart!OneInside, ServePart!InLimiter, ServePart!Due, ServePart!Allowance
<1> DEFINE Within == {"age", "gather", "refill", "test", "load", "store"}
<1>5. ASSUME NEW c \in ServeConns,
             \/ ServePart!Accept(c) \/ ServePart!AcceptFails(c) \/ ServePart!Answer(c)
             \/ ServePart!Route(c) \/ ServePart!Finish(c)
      PROVE  ServePart!OneInside' /\ v2' >= 0 /\ v2' + v8' <= ServePart!Allowance(v3)'
  <2>1. /\ UNCHANGED <<v2, v3, v8>>
        /\ v4[c].pc \notin Within /\ v4'[c].pc \notin Within
        /\ \A d \in ServeConns \ {c} : v4'[d] = v4[d]
    BY <1>5, <1>1
       DEF ServePart!Accept, ServePart!Started, ServePart!AcceptFails, ServePart!Answer,
           ServePart!Route, ServePart!Finish, ServePart!TypeOK
  <2>2. /\ ServePart!InLimiter' = ServePart!InLimiter
        /\ \A d \in ServePart!InLimiter : v4'[d] = v4[d]
    BY <2>1 DEF ServePart!InLimiter
  <2> QED
    BY <2>1, <2>2, <1>3 DEF ServePart!OneInside, ServePart!Due, ServePart!Allowance
<1>6. ASSUME NEW c \in ServeConns, ServePart!Look(c)
      PROVE  ServePart!OneInside' /\ v2' >= 0 /\ v2' + v8' <= ServePart!Allowance(v3)'
  <2>1. ServePart!InLimiter = {} /\ UNCHANGED <<v2, v3, v8>>
        /\ v4' = [v4 EXCEPT ![c].pc = "age", ![c].now = v1]
    BY <1>6 DEF ServePart!Look
  <2>2. ServePart!InLimiter' = {c} /\ v4'[c].pc = "age"
    BY <2>1, <1>1 DEF ServePart!InLimiter, ServePart!TypeOK
  <2>3. v2 \in Int /\ v8 \in Int
    BY <1>1 DEF ServePart!TypeOK
  <2> QED
    BY <2>1, <2>2, <2>3, <1>3 DEF ServePart!OneInside, ServePart!Due, ServePart!Allowance
<1>7. ASSUME NEW c \in ServeConns,
             \/ ServePart!Age(c) \/ ServePart!Gather(c) \/ ServePart!Refill(c)
             \/ ServePart!Test(c) \/ ServePart!Load(c) \/ ServePart!Store(c)
      PROVE  ServePart!OneInside' /\ v2' >= 0 /\ v2' + v8' <= ServePart!Allowance(v3)'
  <2>1. v4[c].pc \in Within
    BY <1>7 DEF ServePart!Age, ServePart!Gather, ServePart!Refill, ServePart!Test,
                ServePart!Load, ServePart!Store
  <2>2. /\ ServePart!InLimiter = {c}
        /\ v4[c].pc \in {"refill", "store"} => v4[c].tokens = v2
        /\ v4[c].pc \in {"load", "store"} => v2 > 0
        /\ v2 + ServePart!Due(c) + v8 <= ServePart!Allowance(v3)
    BY <2>1, <1>3 DEF ServePart!OneInside, ServePart!InLimiter
  <2>3. \A d \in ServeConns \ {c} : v4'[d] = v4[d]
    BY <1>7, <1>1
       DEF ServePart!Age, ServePart!Gather, ServePart!Refill, ServePart!Test,
           ServePart!Load, ServePart!Store, ServePart!TypeOK
  <2>4. ServePart!InLimiter' \subseteq {c}
    BY <2>2, <2>3 DEF ServePart!InLimiter
  <2>5. /\ v2 \in Int /\ v8 \in Nat /\ v3 \in Nat /\ v4[c].elapsed \in Nat
        /\ v4[c].now \in Nat /\ v2' \in Int
    BY <1>1 DEF ServePart!TypeOK
  <2>6. v2 <= 2 * PerSec
    BY DEF ServePart!Inv, ServePart!AllBounded, ServePart!Bounded
  <2> SUFFICES /\ v2' >= 0 /\ v2' + v8' <= ServePart!Allowance(v3')
               /\ v4'[c].pc \in {"refill", "store"} => v4'[c].tokens = v2'
               /\ v4'[c].pc \in {"load", "store"} => v2' > 0
               /\ v4'[c].pc \in Within =>
                    v2' + ServePart!Due(c)' + v8' <= ServePart!Allowance(v3')
    BY <2>4 DEF ServePart!OneInside, ServePart!InLimiter, ServePart!Allowance
  <2> DEFINE due == (PerSec * v4[c].elapsed) \div Second
  <2>7. due \in Nat /\ ServePart!Allowance(v3) \in Nat
    BY <2>5, AllowanceGrows
  <2> HIDE DEF due
  <2>8. CASE ServePart!Age(c)
    <3> DEFINE e == v4[c].now - v3
    <3>1. CASE e > 0
      <4>1. /\ v3' = v4[c].now /\ v4'[c].pc = "gather" /\ v4'[c].elapsed = e
            /\ UNCHANGED <<v2, v8>>
        BY <2>8, <3>1, <1>1 DEF ServePart!Age, ServePart!TypeOK
      <4>2. /\ (PerSec * e) \div Second \in Nat
            /\ ServePart!Allowance(v3) + (PerSec * e) \div Second <= ServePart!Allowance(v3 + e)
        <5>1. e \in Nat
          BY <3>1, <2>5
        <5> HIDE DEF e
        <5> QED
          BY <5>1, <2>5, AllowanceGrows
      <4>3. v3 + e = v3' /\ ServePart!Allowance(v3') \in Nat
        <5>1. v3' = v4[c].now
          BY <4>1
        <5>2. v3 + e = v3' /\ v3' \in Nat
          BY <5>1, <2>5
        <5> HIDE DEF e
        <5> QED
          BY <5>2, <2>5, AllowanceGrows
      <4>4. ServePart!Due(c)' = (PerSec * e) \div Second
        BY <4>1 DEF ServePart!Due
      <4> HIDE DEF e
      <4> QED
        BY <4>1, <4>2, <4>3, <4>4, <2>5, <2>7, <1>3
    <3>2. CASE ~(e > 0)
      <4>1. v4'[c].pc = "test" /\ UNCHANGED <<v2, v3, v8>>
        BY <2>8, <3>2, <1>1 DEF ServePart!Age, ServePart!TypeOK
      <4> QED
        BY <4>1, <1>3, <2>5, <2>7 DEF ServePart!Due
    <3> QED
      BY <3>1, <3>2
  <2>9. CASE ServePart!Gather(c)
    <3>1. /\ v4[c].pc = "gather" /\ v4'[c].pc = "refill" /\ v4'[c].tokens = v2
          /\ v4'[c].elapsed = v4[c].elapsed /\ UNCHANGED <<v2, v3, v8>>
      BY <2>9, <1>1 DEF ServePart!Gather, ServePart!TypeOK
    <3> QED
      BY <3>1, <1>3, <2>2 DEF ServePart!Due
  <2>10. CASE ServePart!Refill(c)
    <3>1. /\ v4[c].pc = "refill" /\ v4'[c].pc = "test"
          /\ v2' = ServePart!Refilled(v4[c].tokens, v4[c].elapsed) /\ UNCHANGED <<v3, v8>>
      BY <2>10, <1>1 DEF ServePart!Refill, ServePart!TypeOK
    <3>2. v4[c].tokens = v2 /\ ServePart!Due(c) = due /\ ServePart!Due(c)' = 0
      BY <3>1, <2>2 DEF ServePart!Due, due
    <3>3. v2' >= v2 /\ v2' <= v2 + due
      BY <3>1, <3>2, <2>5, <2>6, RefillBounds DEF due
    <3> QED
      BY <3>1, <3>2, <3>3, <2>2, <2>5, <2>7, <1>3
  <2>11. CASE ServePart!Test(c)
    <3>1. /\ v4[c].pc = "test" /\ v4'[c].pc = (IF v2 > 0 THEN "load" ELSE "reply")
          /\ UNCHANGED <<v2, v3, v8>>
      BY <2>11, <1>1 DEF ServePart!Test, ServePart!TypeOK
    <3> QED
      BY <3>1, <2>2, <1>3, <2>5 DEF ServePart!Due
  <2>12. CASE ServePart!Load(c)
    <3>1. /\ v4[c].pc = "load" /\ v4'[c].pc = "store" /\ v4'[c].tokens = v2
          /\ UNCHANGED <<v2, v3, v8>>
      BY <2>12, <1>1 DEF ServePart!Load, ServePart!TypeOK
    <3> QED
      BY <3>1, <2>2, <1>3, <2>5 DEF ServePart!Due
  <2>13. CASE ServePart!Store(c)
    <3>1. /\ v4[c].pc = "store" /\ v4'[c].pc = "route" /\ v2' = v4[c].tokens - 1
          /\ v8' = v8 + 1 /\ UNCHANGED v3
      BY <2>13, <1>1 DEF ServePart!Store, ServePart!TypeOK
    <3> QED
      BY <3>1, <2>2, <1>3, <2>5, <2>7
  <2> QED
    BY <1>7, <2>8, <2>9, <2>10, <2>11, <2>12, <2>13
<1> QED
  BY <1>4, <1>5, <1>6, <1>7 DEF ServePart!Next

LEMMA ServeStep ==
    ASSUME ServePart!Inv, [ServePart!Next]_(ServePart!vars)
    PROVE  ServePart!Inv'
<1>1. CASE ServePart!Next
  BY <1>1, ServeTypes, ServeCounts, ServeRate DEF ServePart!Inv
<1>2. CASE UNCHANGED ServePart!vars
  BY <1>2
     DEF ServePart!vars, ServePart!Inv, ServePart!TypeOK, ServePart!Counted, ServePart!Alive,
         ServePart!WaitedFor, ServePart!AllBounded, ServePart!Bounded, ServePart!Through,
         ServePart!Unraced, ServePart!OneInside, ServePart!InLimiter, ServePart!Due,
         ServePart!Allowance
<1> QED
  BY <1>1, <1>2

LEMMA ServeStart ==
    ASSUME ServePart!Init
    PROVE  ServePart!Inv
<1> USE DEF ServePart!Init, ServePart!Nobody
<1>1. ServePart!TypeOK
  <2>1. v9 \in BOOLEAN
    BY Zenon
  <2>2. /\ v4 \in [ServeConns -> [pc : ServePart!Pcs, now : Nat, elapsed : Nat, tokens : Int]]
        /\ \A c \in ServeConns : v4[c].now = 0
    BY DEF ServePart!Pcs
  <2> QED
    BY <2>1, <2>2, ServeAssumption DEF ServePart!TypeOK
<1>2. ServePart!Alive = {} /\ ServePart!Through = {} /\ ServePart!InLimiter = {}
  BY DEF ServePart!Alive, ServePart!Through, ServePart!InLimiter
<1>3. ServePart!Counted /\ ServePart!WaitedFor /\ ServePart!AllBounded
  BY <1>2, FS_EmptySet, ServeAssumption, ServeCardinality
     DEF ServePart!Counted, ServePart!WaitedFor, ServePart!AllBounded, ServePart!Bounded
<1>4. ServePart!Allowance(0) >= PerSec
  BY AllowanceGrows, ServeAssumption, DivBounds, PerSec * 0 = 0 DEF ServePart!Allowance
<1>5. ServePart!Unraced
  BY <1>2, <1>4, ServeAssumption DEF ServePart!Unraced, ServePart!OneInside
<1> QED
  BY <1>1, <1>3, <1>5 DEF ServePart!Inv

(* shutdown waits for the threads, and the limiter keeps its rate and its bounds *)
LEMMA ServeHolds ==
    ASSUME ServePart!Inv
    PROVE  ServePart!ShutdownWaits /\ ServePart!LimitHolds
<1>1. ServePart!TypeOK
  BY DEF ServePart!Inv
<1>2. ServePart!ShutdownWaits
  BY DEF ServePart!Inv, ServePart!WaitedFor, ServePart!ShutdownWaits
<1>3. ServePart!UnracedRate
  <2> SUFFICES ASSUME ~v9
               PROVE  v8 <= ServePart!Allowance(v1)
    BY DEF ServePart!UnracedRate, ServePart!Allowance
  <2>1. v2 >= 0 /\ v2 + v8 <= ServePart!Allowance(v3)
    BY DEF ServePart!Inv, ServePart!Unraced
  <2>2. v3 \in Nat /\ v1 - v3 \in Nat /\ v1 = v3 + (v1 - v3) /\ v2 \in Int /\ v8 \in Nat
    BY <1>1 DEF ServePart!TypeOK
  <2>3. /\ (PerSec * (v1 - v3)) \div Second \in Nat
        /\ ServePart!Allowance(v3) \in Nat
        /\ ServePart!Allowance(v3) + (PerSec * (v1 - v3)) \div Second <= ServePart!Allowance(v1)
    BY <2>2, AllowanceGrows
  <2>4. ServePart!Allowance(v1) \in Nat
    BY <2>2, <1>1, AllowanceGrows DEF ServePart!TypeOK
  <2> QED
    BY <2>1, <2>2, <2>3, <2>4
<1>4. ServePart!BucketBounds
  <2>1. /\ IsFiniteSet(ServePart!Through)
        /\ Cardinality(ServePart!Through) <= Cardinality(ServeConns)
        /\ Cardinality(ServeConns) \in Nat
    BY ServeAssumption, FS_Subset, FS_CardinalityType DEF ServePart!Through
  <2>2. Cardinality(ServePart!Through) \in Nat
    BY <2>1, FS_CardinalityType
  <2>3. 1 - Cardinality(ServePart!Through) <= v2 /\ v2 <= 2 * PerSec /\ v2 \in Int
    BY <1>1, ServeCardinality
       DEF ServePart!Inv, ServePart!AllBounded, ServePart!Bounded, ServePart!TypeOK
  <2> QED
    BY <2>1, <2>2, <2>3, ServeAssumption, ServeCardinality DEF ServePart!BucketBounds
<1> QED
  BY <1>2, <1>3, <1>4 DEF ServePart!LimitHolds

-----------------------------------------------------------------------------
(* Fetch *)

(* a slot is taken behind the last one, at its distance *)
LEMMA SlotTaken ==
    ASSUME FetchPart!Inv, NEW f \in Fetches, NEW min \in Nat, FetchPart!TakeSlot(f, min)
    PROVE  /\ v5' \in [Hosts -> Seq([time : Nat, min : Nat])]
           /\ \A h \in Hosts : \A i \in DOMAIN v5'[h] : i > 1 =>
                v5'[h][i].time >= v5'[h][i - 1].time + v5'[h][i].min
<1> DEFINE h == HostOf[f]
           Slots == [time : Nat, min : Nat]
           s == v5[h]
           n == Len(s)
           new == [time |-> FetchPart!Slot(h, min), min |-> min]
<1>1. h \in Hosts /\ v5 \in [Hosts -> Seq(Slots)] /\ v1 \in Nat /\ s \in Seq(Slots)
  BY FetchAssumption DEF FetchPart!Inv, FetchPart!TypeOK
<1>2. n \in Nat /\ DOMAIN s = 1..n
  BY <1>1, LenProperties
<1>3. n > 0 => s[n] \in Slots
  <2>1. n > 0 => n \in 1..n
    BY <1>2
  <2> HIDE DEF n
  <2> QED
    BY <1>1, <2>1, ElementOfSeq DEF n
<1>4. /\ FetchPart!Slot(h, min) \in Nat
      /\ n > 0 => FetchPart!Slot(h, min) >= s[n].time + min
  <2>1. CASE s = <<>>
    BY <2>1, <1>1, EmptySeq DEF FetchPart!Slot
  <2>2. CASE s # <<>>
    <3>1. n > 0
      BY <2>2, <1>1, <1>2, EmptySeq
    <3>2. s[n].time \in Nat
      BY <3>1, <1>3
    <3> QED
      BY <2>2, <3>1, <3>2, <1>1 DEF FetchPart!Slot
  <2> QED
    BY <2>1, <2>2
<1>5. new \in Slots
  BY <1>4
<1>6. v5' = [v5 EXCEPT ![h] = Append(s, new)]
  BY <1>1 DEF FetchPart!TakeSlot
<1> HIDE DEF h, s, n, new, Slots
<1>7. /\ Append(s, new) \in Seq(Slots) /\ Len(Append(s, new)) = n + 1
      /\ \A i \in 1..n : Append(s, new)[i] = s[i]
      /\ Append(s, new)[n + 1] = new
  BY <1>1, <1>5, AppendProperties DEF n
<1>8. DOMAIN Append(s, new) = 1..(n + 1)
  BY <1>7, LenProperties
<1>9. v5'[h] = Append(s, new) /\ \A g \in Hosts \ {h} : v5'[g] = v5[g]
  BY <1>1, <1>6
<1>10. v5' \in [Hosts -> Seq(Slots)]
  BY <1>1, <1>6, <1>7
<1>11. \A g \in Hosts : \A i \in DOMAIN v5[g] : i > 1 =>
         v5[g][i].time >= v5[g][i - 1].time + v5[g][i].min
  BY DEF FetchPart!Inv, FetchPart!SlotsApart
<1>12. ASSUME NEW i \in 1..(n + 1), i > 1
       PROVE  v5'[h][i].time >= v5'[h][i - 1].time + v5'[h][i].min
  <2>1. CASE i \in 1..n
    <3>1. i - 1 \in 1..n /\ i \in DOMAIN v5[h]
      BY <2>1, <1>12, <1>2 DEF s
    <3>2. v5'[h][i] = v5[h][i] /\ v5'[h][i - 1] = v5[h][i - 1]
      BY <2>1, <3>1, <1>7, <1>9 DEF s
    <3> QED
      BY <3>1, <3>2, <1>1, <1>11, <1>12
  <2>2. CASE i = n + 1
    <3>1. n > 0 /\ i - 1 = n /\ n \in 1..n
      BY <2>2, <1>2, <1>12
    <3>2. v5'[h][i] = new /\ v5'[h][i - 1] = s[n]
      BY <2>2, <3>1, <1>7, <1>9
    <3>3. new.time = FetchPart!Slot(h, min) /\ new.min = min
      BY DEF new
    <3> QED
      BY <3>1, <3>2, <3>3, <1>4
  <2> QED
    BY <2>1, <2>2, <1>2
<1> QED
  BY <1>1, <1>8, <1>9, <1>10, <1>11, <1>12 DEF Slots

(* where a fetch goes once it has, or has not, got the policy *)
LEMMA GoesOn ==
    ASSUME FetchPart!TypeOK, NEW f \in Fetches, NEW got \in BOOLEAN,
           v6[f] \in FetchPart!Asking, FetchPart!Go(f, got)
    PROVE  /\ v6' \in [Fetches -> {"policy", "rules", "disallowed"} \cup FetchPart!Fetching
                                                                     \cup FetchPart!Past]
           /\ v6' = [v6 EXCEPT ![f] = v6'[f]]
           /\ v6[f] = "policy" => v6'[f] = "rules" /\ v9' = v9
           /\ v6[f] = "pace" => v6'[f] = "slot" /\ v9' = v9
           /\ v6[f] = "rules" =>
                /\ v6'[f] \in {"disallowed", "pace"}
                /\ v9' = IF got THEN v9 \ {f} ELSE v9 \cup {f}
                /\ got /\ v3[HostOf[f]] = "rules" /\ f \in Forbidden => v6'[f] = "disallowed"
<1>1. /\ v6' = [v6 EXCEPT ![f] = FetchPart!After(f, got)]
      /\ v9' = IF v6[f] # "rules" THEN v9 ELSE IF got THEN v9 \ {f} ELSE v9 \cup {f}
  BY DEF FetchPart!Go
<1>2. /\ v6[f] = "policy" => FetchPart!After(f, got) = "rules"
      /\ v6[f] = "rules" => FetchPart!After(f, got) =
            IF got /\ v3[HostOf[f]] = "rules" /\ f \in Forbidden THEN "disallowed" ELSE "pace"
      /\ v6[f] = "pace" => FetchPart!After(f, got) = "slot"
  BY DEF FetchPart!After
<1>3. v6[f] \in {"policy", "rules", "pace"}
  BY DEF FetchPart!Asking
<1>4. FetchPart!After(f, got) \in {"rules", "disallowed", "pace", "slot"}
  BY <1>2, <1>3
<1>5. v6 \in [Fetches -> {"policy", "rules", "disallowed"} \cup FetchPart!Fetching
                                                            \cup FetchPart!Past]
  BY DEF FetchPart!TypeOK
<1> QED
  BY <1>1, <1>2, <1>3, <1>4, <1>5 DEF FetchPart!Past

LEMMA FetchTypes ==
    ASSUME FetchPart!Inv, FetchPart!Next
    PROVE  FetchPart!TypeOK' /\ FetchPart!SlotsApart'
<1> USE FetchAssumption
    DEF FetchPart!TypeOK
<1>1. FetchPart!TypeOK /\ FetchPart!SlotsApart
  BY DEF FetchPart!Inv
<1>2. UNCHANGED v5 => FetchPart!SlotsApart'
  BY <1>1 DEF FetchPart!SlotsApart
<1>3. ASSUME NEW f \in Fetches, FetchPart!Got(f) \/ FetchPart!LookAgain(f) \/ FetchPart!ReadDisk(f)
      PROVE  FetchPart!TypeOK' /\ FetchPart!SlotsApart'
  <2>1. /\ UNCHANGED <<v1, v5>>
        /\ v2' \in [Hosts -> {"unread", "reading", "read"}]
        /\ v3' \in [Hosts -> {"none", "rules", "failed"}]
    BY <1>1, <1>3 DEF FetchPart!Got, FetchPart!LookAgain, FetchPart!ReadDisk
  <2>2. v6' = v6 \/ (v6[f] \in FetchPart!Asking /\ \E got \in BOOLEAN : FetchPart!Go(f, got))
    BY <1>3 DEF FetchPart!Got, FetchPart!LookAgain, FetchPart!ReadDisk
  <2> QED
    BY <1>1, <1>2, <2>1, <2>2, GoesOn
<1>4. ASSUME NEW f \in Fetches, FetchPart!AskHost(f)
      PROVE  FetchPart!TypeOK' /\ FetchPart!SlotsApart'
  <2>1. FetchPart!TakeSlot(f, Pace)
    BY <1>4 DEF FetchPart!AskHost
  <2>2. /\ v5' \in [Hosts -> Seq([time : Nat, min : Nat])] /\ FetchPart!SlotsApart'
    BY <2>1, SlotTaken DEF FetchPart!SlotsApart
  <2> QED
    BY <1>1, <1>4, <2>2 DEF FetchPart!AskHost, FetchPart!Fetching
<1>5. ASSUME NEW f \in Fetches, FetchPart!WaitTurn(f)
      PROVE  FetchPart!TypeOK' /\ FetchPart!SlotsApart'
  <2>1. FetchPart!TakeSlot(f, FetchPart!PaceFor(f)) /\ FetchPart!PaceFor(f) \in Nat
    BY <1>5 DEF FetchPart!WaitTurn, FetchPart!PaceFor
  <2>2. /\ v5' \in [Hosts -> Seq([time : Nat, min : Nat])] /\ FetchPart!SlotsApart'
    BY <2>1, SlotTaken DEF FetchPart!SlotsApart
  <2> QED
    BY <1>1, <1>5, <2>2 DEF FetchPart!WaitTurn, FetchPart!Past
<1>6. ASSUME NEW f \in Fetches, FetchPart!HostAnswers(f)
      PROVE  FetchPart!TypeOK' /\ FetchPart!SlotsApart'
  <2>1. UNCHANGED <<v1, v5>>
    BY <1>6 DEF FetchPart!HostAnswers
  <2>2. v2' \in [Hosts -> {"unread", "reading", "read"}]
    BY <1>1, <1>6 DEF FetchPart!HostAnswers
  <2>3. v3' \in [Hosts -> {"none", "rules", "failed"}]
    BY <1>1, <1>6 DEF FetchPart!HostAnswers
  <2>4. PICK p \in {"rules", "disallowed", "pace"} : v6' = [v6 EXCEPT ![f] = p]
    BY <1>6 DEF FetchPart!HostAnswers
  <2> QED
    BY <1>1, <1>2, <2>1, <2>2, <2>3, <2>4 DEF FetchPart!Past
<1>7. ASSUME NEW f \in Fetches,
             FetchPart!FromCache(f) \/ FetchPart!Request(f) \/ FetchPart!Extract(f)
      PROVE  FetchPart!TypeOK' /\ FetchPart!SlotsApart'
  <2>1. UNCHANGED <<v1, v2, v3, v5>>
    BY <1>7 DEF FetchPart!FromCache, FetchPart!Request, FetchPart!Extract
  <2>2. PICK p \in {"cached", "requested", "fetched", "error"} : v6' = [v6 EXCEPT ![f] = p]
    BY <1>7 DEF FetchPart!FromCache, FetchPart!Request, FetchPart!Extract
  <2> QED
    BY <1>1, <1>2, <2>1, <2>2 DEF FetchPart!Past
<1>8. CASE FetchPart!Tick
  BY <1>1, <1>2, <1>8 DEF FetchPart!Tick
<1> QED
  BY <1>3, <1>4, <1>5, <1>6, <1>7, <1>8 DEF FetchPart!Next, FetchPart!Steps

(* nobody passes a rule that covers its page once the policy is there *)
LEMMA FetchHears ==
    ASSUME FetchPart!Inv, FetchPart!Next
    PROVE  FetchPart!OneReads' /\ FetchPart!RulePassed'
<1> USE FetchAssumption DEF FetchPart!OneReads, FetchPart!RulePassed
<1>1. FetchPart!TypeOK /\ FetchPart!OneReads /\ FetchPart!RulePassed
  BY DEF FetchPart!Inv
<1>2. ASSUME NEW f \in Fetches, FetchPart!Got(f)
      PROVE  FetchPart!OneReads' /\ FetchPart!RulePassed'
  <2>1. /\ v6[f] \in FetchPart!Asking /\ v2[HostOf[f]] = "read"
        /\ FetchPart!Go(f, TRUE) /\ UNCHANGED <<v2, v3>>
    BY <1>2 DEF FetchPart!Got, FetchPart!IsRead
  <2>2. v6' = [v6 EXCEPT ![f] = v6'[f]] /\ v6'[f] \notin FetchPart!Fetching
    BY <1>1, <2>1, GoesOn DEF FetchPart!Asking, FetchPart!Fetching
  <2>3. FetchPart!OneReads'
    <3>1. \A g \in Fetches : g # f => v6'[g] = v6[g]
      BY <1>1, <2>2 DEF FetchPart!TypeOK
    <3> QED
      BY <1>1, <2>1, <2>2, <3>1
  <2>4. /\ v6[f] = "policy" => v6'[f] = "rules" /\ v9' = v9
        /\ v6[f] = "rules" => v9' = v9 \ {f}
        /\ v6[f] = "rules" /\ v3[HostOf[f]] = "rules" /\ f \in Forbidden =>
             v6'[f] = "disallowed"
        /\ v6[f] = "pace" => v9' = v9
    BY <1>1, <2>1, GoesOn
  <2>5. FetchPart!RulePassed'
    BY <1>1, <2>1, <2>2, <2>4 DEF FetchPart!TypeOK, FetchPart!Asking, FetchPart!Past
  <2> QED
    BY <2>3, <2>5
<1>3. ASSUME NEW f \in Fetches, FetchPart!LookAgain(f)
      PROVE  FetchPart!OneReads' /\ FetchPart!RulePassed'
  <2>1. /\ v6[f] \in FetchPart!Asking /\ v2[HostOf[f]] = "reading" /\ UNCHANGED <<v2, v3>>
        /\ FetchPart!Go(f, FALSE) \/ UNCHANGED <<v6, v9>>
    BY <1>3 DEF FetchPart!LookAgain
  <2>2. CASE UNCHANGED <<v6, v9>>
    BY <1>1, <2>1, <2>2
  <2>3. CASE FetchPart!Go(f, FALSE)
    <3>1. v6' = [v6 EXCEPT ![f] = v6'[f]] /\ v6'[f] \notin FetchPart!Fetching
      BY <1>1, <2>1, <2>3, GoesOn DEF FetchPart!Asking, FetchPart!Fetching
    <3>2. FetchPart!OneReads'
      <4>1. \A g \in Fetches : g # f => v6'[g] = v6[g]
        BY <1>1, <3>1 DEF FetchPart!TypeOK
      <4> QED
        BY <1>1, <2>1, <3>1, <4>1
    <3>3. /\ v6[f] = "policy" => v6'[f] = "rules" /\ v9' = v9
          /\ v6[f] = "rules" => v9' = v9 \cup {f}
          /\ v6[f] = "pace" => v9' = v9
      BY <1>1, <2>1, <2>3, GoesOn
    <3>4. FetchPart!RulePassed'
      BY <1>1, <2>1, <3>1, <3>3 DEF FetchPart!TypeOK, FetchPart!Asking, FetchPart!Past
    <3> QED
      BY <3>2, <3>4
  <2> QED
    BY <2>1, <2>2, <2>3
<1>4. ASSUME NEW f \in Fetches, FetchPart!ReadDisk(f)
      PROVE  FetchPart!OneReads' /\ FetchPart!RulePassed'
  <2>1. /\ v6[f] \in FetchPart!Asking /\ v2[HostOf[f]] = "unread" /\ FetchPart!Go(f, TRUE)
        /\ v2' = [v2 EXCEPT ![HostOf[f]] = "read"]
        /\ \E a \in {"rules", "none"} : v3' = [v3 EXCEPT ![HostOf[f]] = a]
    BY <1>4 DEF FetchPart!ReadDisk
  <2>2. v6' = [v6 EXCEPT ![f] = v6'[f]] /\ v6'[f] \notin FetchPart!Fetching
    BY <1>1, <2>1, GoesOn DEF FetchPart!Asking, FetchPart!Fetching
  <2>3. f \in Bypassing \/ v6[f] = "policy"
    BY <1>1, <2>1
  <2>4. f \in Bypassing \/ v6'[f] = "rules"
    BY <1>1, <2>1, <2>3, GoesOn
  <2>5. v9' \in {v9, v9 \ {f}, v9 \cup {f}}
    BY <2>1 DEF FetchPart!Go
  <2>6. \A g \in Fetches : HostOf[g] = HostOf[f] => g \in Bypassing \/ v6[g] = "policy"
    BY <1>1, <2>1
  <2>7. FetchPart!OneReads'
    <3>1. \A g \in Fetches : g # f => v6'[g] = v6[g]
      BY <1>1, <2>2 DEF FetchPart!TypeOK
    <3>2. \A h \in Hosts : v2'[h] \in {v2[h], "read"} /\ (h # HostOf[f] => v2'[h] = v2[h])
      BY <1>1, <2>1 DEF FetchPart!TypeOK
    <3>3. v2'[HostOf[f]] = "read"
      BY <1>1, <2>1 DEF FetchPart!TypeOK
    <3> QED
      BY <1>1, <2>1, <2>2, <3>1, <3>2, <3>3
  <2>8. FetchPart!RulePassed'
    BY <1>1, <2>1, <2>2, <2>4, <2>5, <2>6 DEF FetchPart!TypeOK, FetchPart!Past
  <2> QED
    BY <2>7, <2>8
<1>5. ASSUME NEW f \in Fetches, FetchPart!AskHost(f)
      PROVE  FetchPart!OneReads' /\ FetchPart!RulePassed'
  <2>1. /\ v2[HostOf[f]] = "unread" /\ UNCHANGED <<v3, v9>>
        /\ v2' = [v2 EXCEPT ![HostOf[f]] = "reading"]
        /\ \E p \in FetchPart!Fetching : v6' = [v6 EXCEPT ![f] = p]
    BY <1>5 DEF FetchPart!AskHost, FetchPart!Fetching
  <2>2. \A g \in Fetches : HostOf[g] = HostOf[f] => v6[g] \notin FetchPart!Fetching
    BY <1>1, <2>1
  <2>3. /\ \A h \in Hosts : h # HostOf[f] => v2'[h] = v2[h]
        /\ v2'[HostOf[f]] = "reading" /\ v6'[f] \in FetchPart!Fetching
        /\ \A g \in Fetches : g # f => v6'[g] = v6[g]
    BY <1>1, <2>1 DEF FetchPart!TypeOK, FetchPart!Fetching
  <2>4. FetchPart!OneReads'
    BY <1>1, <2>1, <2>2, <2>3
  <2>5. FetchPart!RulePassed'
    BY <1>1, <2>1 DEF FetchPart!TypeOK, FetchPart!Fetching, FetchPart!Past
  <2> QED
    BY <2>4, <2>5
<1>6. ASSUME NEW f \in Fetches, FetchPart!HostAnswers(f)
      PROVE  FetchPart!OneReads' /\ FetchPart!RulePassed'
  <2>1. /\ v6[f] \in FetchPart!Fetching
        /\ v2' = [v2 EXCEPT ![HostOf[f]] = "read"] /\ v9' = v9 \ {f}
    BY <1>6 DEF FetchPart!HostAnswers, FetchPart!Fetching
  <2>2. PICK a \in {"rules", "failed"} :
           /\ v3' = [v3 EXCEPT ![HostOf[f]] = a]
           /\ \E p \in {"rules", "disallowed", "pace"} :
                /\ v6' = [v6 EXCEPT ![f] = p]
                /\ f \in Forbidden /\ a = "rules" => p # "pace"
    BY <1>6 DEF FetchPart!HostAnswers
  <2>3. v2[HostOf[f]] = "reading"
    BY <1>1, <2>1
  <2>4. \A g \in Fetches : HostOf[g] = HostOf[f] /\ g # f => v6[g] \notin FetchPart!Fetching
    BY <1>1, <2>1
  <2>5. FetchPart!OneReads'
    <3>1. /\ v6'[f] \notin FetchPart!Fetching /\ v2'[HostOf[f]] = "read"
          /\ \A g \in Fetches : g # f => v6'[g] = v6[g]
      BY <1>1, <2>1, <2>2 DEF FetchPart!TypeOK, FetchPart!Fetching
    <3>2. \A h \in Hosts : h # HostOf[f] => v2'[h] = v2[h]
      BY <1>1, <2>1 DEF FetchPart!TypeOK
    <3> QED
      BY <1>1, <2>4, <3>1, <3>2
  <2>6. FetchPart!RulePassed'
    BY <1>1, <2>1, <2>2, <2>3 DEF FetchPart!TypeOK, FetchPart!Past
  <2> QED
    BY <2>5, <2>6
<1>7. ASSUME NEW f \in Fetches,
             \/ FetchPart!WaitTurn(f) \/ FetchPart!FromCache(f)
             \/ FetchPart!Request(f) \/ FetchPart!Extract(f)
      PROVE  FetchPart!OneReads' /\ FetchPart!RulePassed'
  <2>1. /\ UNCHANGED <<v2, v3, v9>> /\ v6[f] \in FetchPart!Past
        /\ \E p \in FetchPart!Past : v6' = [v6 EXCEPT ![f] = p]
    BY <1>7
       DEF FetchPart!WaitTurn, FetchPart!FromCache, FetchPart!Request, FetchPart!Extract,
           FetchPart!Past
  <2>2. /\ v6[f] \notin FetchPart!Fetching /\ v6[f] # "policy"
        /\ v6'[f] \in FetchPart!Past /\ v6'[f] \notin FetchPart!Fetching
        /\ \A g \in Fetches : g # f => v6'[g] = v6[g]
    BY <1>1, <2>1 DEF FetchPart!TypeOK, FetchPart!Past, FetchPart!Fetching
  <2>3. FetchPart!OneReads'
    BY <1>1, <2>1, <2>2
  <2>4. FetchPart!RulePassed'
    BY <1>1, <2>1, <2>2
  <2> QED
    BY <2>3, <2>4
<1>8. CASE FetchPart!Tick
  BY <1>1, <1>8 DEF FetchPart!Tick
<1> QED
  BY <1>2, <1>3, <1>4, <1>5, <1>6, <1>7, <1>8 DEF FetchPart!Next, FetchPart!Steps

LEMMA FetchStep ==
    ASSUME FetchPart!Inv, [FetchPart!Next]_(FetchPart!vars)
    PROVE  FetchPart!Inv'
<1>1. CASE FetchPart!Next
  BY <1>1, FetchTypes, FetchHears DEF FetchPart!Inv
<1>2. CASE UNCHANGED FetchPart!vars
  BY <1>2
     DEF FetchPart!vars, FetchPart!Inv, FetchPart!TypeOK, FetchPart!OneReads,
         FetchPart!RulePassed, FetchPart!SlotsApart
<1> QED
  BY <1>1, <1>2

LEMMA FetchStart ==
    ASSUME FetchPart!Init
    PROVE  FetchPart!Inv
<1> USE FetchAssumption DEF FetchPart!Init
<1>1. FetchPart!TypeOK
  <2>1. <<>> \in Seq([time : Nat, min : Nat])
    BY EmptySeq
  <2> QED
    BY <2>1 DEF FetchPart!TypeOK, FetchPart!Past
<1>2. FetchPart!OneReads /\ FetchPart!RulePassed
  BY DEF FetchPart!OneReads, FetchPart!RulePassed, FetchPart!Fetching, FetchPart!Past
<1>3. FetchPart!SlotsApart
  BY DEF FetchPart!SlotsApart
<1> QED
  BY <1>1, <1>2, <1>3 DEF FetchPart!Inv

LEMMA FetchHolds ==
    ASSUME FetchPart!Inv
    PROVE  FetchPart!RulesHeard /\ FetchPart!SlotsApart
BY DEF FetchPart!Inv, FetchPart!RulePassed, FetchPart!SlotsApart, FetchPart!RulesHeard,
       FetchPart!Misses, FetchPart!Asked, FetchPart!Past

-----------------------------------------------------------------------------
(* Pool *)

LEMMA PoolCardinality == \A S : PoolPart!Cardinality(S) = Cardinality(S)
BY Zenon DEF PoolPart!Cardinality, Cardinality

(* sets that differ in one element *)
LEMMA OneApart ==
    ASSUME NEW U, IsFiniteSet(U), NEW S \in SUBSET U, NEW T \in SUBSET U, NEW c,
           T \ {c} = S \ {c}
    PROVE  /\ Cardinality(S) \in Nat /\ Cardinality(T) \in Nat
           /\ Cardinality(T) = Cardinality(S) + (IF c \in T THEN 1 ELSE 0)
                                              - (IF c \in S THEN 1 ELSE 0)
<1>1. IsFiniteSet(S) /\ IsFiniteSet(T)
  BY FS_Subset
<1>2. Cardinality(S) \in Nat /\ Cardinality(T) \in Nat
  BY <1>1, FS_CardinalityType
<1>3. Cardinality(S \ {c}) = IF c \in S THEN Cardinality(S) - 1 ELSE Cardinality(S)
  BY <1>1, FS_RemoveElement
<1>4. Cardinality(T \ {c}) = IF c \in T THEN Cardinality(T) - 1 ELSE Cardinality(T)
  BY <1>1, FS_RemoveElement
<1> QED
  BY <1>2, <1>3, <1>4

(* the places of an element in a sequence, when one is appended, and when the head is taken *)
Places(q, r) == {k \in DOMAIN q : q[k] = r}

LEMMA Appended ==
    ASSUME NEW S, NEW q \in Seq(S), NEW x \in S, NEW r
    PROVE  /\ Cardinality(Places(q, r)) \in Nat
           /\ Cardinality(Places(Append(q, x), r)) =
                Cardinality(Places(q, r)) + (IF x = r THEN 1 ELSE 0)
<1> DEFINE n == Len(q)
           A == Places(q, r)
           B == Places(Append(q, x), r)
<1> USE DEF Places
<1>1. n \in Nat /\ DOMAIN q = 1..n
  BY LenProperties
<1>2. /\ DOMAIN Append(q, x) = 1..(n + 1)
      /\ \A i \in 1..n : Append(q, x)[i] = q[i]
      /\ Append(q, x)[n + 1] = x
  BY AppendProperties, LenProperties
<1>3. IsFiniteSet(1..(n + 1))
  BY <1>1, FS_Interval
<1>4. A \subseteq 1..(n + 1) /\ B \subseteq 1..(n + 1)
  BY <1>1, <1>2
<1>5. /\ B \ {n + 1} = A \ {n + 1}
      /\ n + 1 \notin A
      /\ n + 1 \in B <=> x = r
  BY <1>1, <1>2
<1> DEFINE U == 1..(n + 1)
           m == n + 1
<1> HIDE DEF n, A, B, U, m
<1>6. /\ Cardinality(A) \in Nat /\ Cardinality(B) \in Nat
      /\ Cardinality(B) = Cardinality(A) + (IF m \in B THEN 1 ELSE 0)
                                         - (IF m \in A THEN 1 ELSE 0)
  <2>1. IsFiniteSet(U) /\ A \in SUBSET U /\ B \in SUBSET U /\ B \ {m} = A \ {m}
    BY <1>3, <1>4, <1>5 DEF U, m
  <2> QED
    BY <2>1, OneApart
<1>7. Cardinality(B) = Cardinality(A) + (IF x = r THEN 1 ELSE 0)
  BY <1>5, <1>6 DEF m
<1> HIDE DEF Places
<1> QED
  BY <1>6, <1>7 DEF A, B

LEMMA Taken ==
    ASSUME NEW S, NEW q \in Seq(S), q # <<>>, NEW r
    PROVE  /\ Cardinality(Places(q, r)) \in Nat
           /\ Cardinality(Places(Tail(q), r)) \in Nat
           /\ Cardinality(Places(q, r)) =
                Cardinality(Places(Tail(q), r)) + (IF Head(q) = r THEN 1 ELSE 0)
<1> DEFINE n == Len(q)
           A == Places(q, r)
           B == Places(Tail(q), r)
           C == A \ {1}
           f == [k \in B |-> k + 1]
<1> USE DEF Places
<1>1. n \in Nat /\ n > 0 /\ DOMAIN q = 1..n /\ Head(q) = q[1]
  BY LenProperties, EmptySeq
<1>2. /\ DOMAIN Tail(q) = 1..(n - 1)
      /\ \A i \in 1..(n - 1) : Tail(q)[i] = q[i + 1]
  BY <1>1, HeadTailProperties, LenProperties
<1>3. IsFiniteSet(1..n) /\ IsFiniteSet(1..(n - 1))
  BY <1>1, FS_Interval
<1>4. A \subseteq 1..n /\ B \subseteq 1..(n - 1) /\ C \subseteq 1..n
  BY <1>1, <1>2
<1>5. IsFiniteSet(B)
  BY <1>3, <1>4, FS_Subset
<1>6. f \in Bijection(B, C)
  <2>1. f \in [B -> C]
    BY <1>1, <1>2
  <2>2. \A j, k \in B : f[j] = f[k] => j = k
    BY <1>4
  <2>3. \A c \in C : \E k \in B : f[k] = c
    <3> TAKE c \in C
    <3>1. c \in 2..n /\ q[c] = r
      BY <1>1
    <3>2. c - 1 \in 1..(n - 1) /\ Tail(q)[c - 1] = q[c]
      BY <3>1, <1>1, <1>2
    <3>3. c - 1 \in B /\ f[c - 1] = c
      BY <3>1, <3>2, <1>2
    <3> QED
      BY <3>3
  <2> HIDE DEF f, B, C
  <2> QED
    BY <2>1, <2>2, <2>3 DEF Bijection, Injection, Surjection, IsInjective
<1>7. Cardinality(C) = Cardinality(B)
  <2> HIDE DEF f, B, C
  <2> QED
    BY <1>5, <1>6, FS_Bijection DEF ExistsBijection
<1>8. 1 \in A <=> Head(q) = r
  BY <1>1
<1>9. Cardinality(B) \in Nat
  <2> HIDE DEF B
  <2> QED
    BY <1>5, FS_CardinalityType
<1>10. /\ Cardinality(A) \in Nat
       /\ Cardinality(C) = Cardinality(A) - (IF 1 \in A THEN 1 ELSE 0)
  <2> DEFINE U == 1..n
  <2>1. C \ {1} = A \ {1} /\ 1 \notin C
    OBVIOUS
  <2> HIDE DEF A, C, U
  <2>2. IsFiniteSet(U) /\ A \in SUBSET U /\ C \in SUBSET U
    BY <1>3, <1>4 DEF U
  <2>3. /\ Cardinality(A) \in Nat
        /\ Cardinality(C) = Cardinality(A) + (IF 1 \in C THEN 1 ELSE 0)
                                           - (IF 1 \in A THEN 1 ELSE 0)
    BY <2>1, <2>2, OneApart
  <2> QED
    BY <2>1, <2>3
<1> HIDE DEF n, A, B, C
<1>11. Cardinality(A) = Cardinality(B) + (IF Head(q) = r THEN 1 ELSE 0)
  BY <1>7, <1>8, <1>9, <1>10
<1> HIDE DEF Places
<1> QED
  BY <1>9, <1>10, <1>11 DEF A, B

(* a signal or a broadcast makes sleepers ready and nothing else *)
LEMMA Woken ==
    ASSUME NEW ws, NEW rs,
           ws \in [Workers -> PoolRequests \cup {"ready", "asleep", "gone"}],
           rs \in [PoolRequests -> {"submitting", "ready", "asleep", "returned"}],
           PoolPart!Signal(ws, rs) \/ PoolPart!Broadcast(ws, rs)
    PROVE  /\ v4' \in [Workers -> PoolRequests \cup {"ready", "asleep", "gone"}]
           /\ v5' \in [PoolRequests -> {"submitting", "ready", "asleep", "returned"}]
           /\ \A w \in Workers : v4'[w] = ws[w] \/ (ws[w] = "asleep" /\ v4'[w] = "ready")
           /\ \A r \in PoolRequests : v5'[r] = rs[r] \/ (rs[r] = "asleep" /\ v5'[r] = "ready")
<1>1. CASE PoolPart!Signal(ws, rs)
  BY <1>1 DEF PoolPart!Signal
<1>2. CASE PoolPart!Broadcast(ws, rs)
  <2>1. v4' = PoolPart!Wake(ws) /\ v5' = PoolPart!Wake(rs)
    BY <1>2 DEF PoolPart!Broadcast
  <2>2. /\ v4' = [w \in Workers |-> IF ws[w] = "asleep" THEN "ready" ELSE ws[w]]
        /\ v5' = [r \in PoolRequests |-> IF rs[r] = "asleep" THEN "ready" ELSE rs[r]]
    BY <2>1 DEF PoolPart!Wake
  <2> QED
    BY <2>2
<1> QED
  BY <1>1, <1>2

(* the jobs that run, when all workers but w are as before or just woken *)
LEMMA JobsRunning ==
    ASSUME PoolPart!TypeOK, PoolPart!TypeOK', NEW w \in Workers,
           \A x \in Workers \ {w} :
               v4'[x] = v4[x] \/ (v4[x] = "asleep" /\ v4'[x] = "ready")
    PROVE  /\ \A r \in PoolRequests :
                /\ Cardinality(PoolPart!Running(r)) \in Nat
                /\ Cardinality(PoolPart!Running(r)') =
                     Cardinality(PoolPart!Running(r)) + (IF v4'[w] = r THEN 1 ELSE 0)
                                                      - (IF v4[w] = r THEN 1 ELSE 0)
           /\ Cardinality(PoolPart!Working) \in Nat
           /\ Cardinality(PoolPart!Working') =
                Cardinality(PoolPart!Working) + (IF v4'[w] \in PoolRequests THEN 1 ELSE 0)
                                              - (IF v4[w] \in PoolRequests THEN 1 ELSE 0)
<1> USE PoolAssumption
<1>1. ASSUME NEW r \in PoolRequests
      PROVE  /\ Cardinality(PoolPart!Running(r)) \in Nat
             /\ Cardinality(PoolPart!Running(r)') =
                  Cardinality(PoolPart!Running(r)) + (IF v4'[w] = r THEN 1 ELSE 0)
                                                   - (IF v4[w] = r THEN 1 ELSE 0)
  <2> DEFINE S == PoolPart!Running(r)
             T == PoolPart!Running(r)'
  <2>1. /\ S \in SUBSET Workers /\ T \in SUBSET Workers /\ T \ {w} = S \ {w}
        /\ w \in S <=> v4[w] = r
        /\ w \in T <=> v4'[w] = r
    BY DEF PoolPart!Running
  <2> HIDE DEF S, T
  <2>2. /\ Cardinality(S) \in Nat
        /\ Cardinality(T) = Cardinality(S) + (IF w \in T THEN 1 ELSE 0)
                                           - (IF w \in S THEN 1 ELSE 0)
    BY <2>1, OneApart
  <2> QED
    BY <2>1, <2>2 DEF S, T
<1>2. /\ Cardinality(PoolPart!Working) \in Nat
      /\ Cardinality(PoolPart!Working') =
           Cardinality(PoolPart!Working) + (IF v4'[w] \in PoolRequests THEN 1 ELSE 0)
                                         - (IF v4[w] \in PoolRequests THEN 1 ELSE 0)
  <2> DEFINE S == PoolPart!Working
             T == PoolPart!Working'
  <2>1. /\ S \in SUBSET Workers /\ T \in SUBSET Workers /\ T \ {w} = S \ {w}
        /\ w \in S <=> v4[w] \in PoolRequests
        /\ w \in T <=> v4'[w] \in PoolRequests
    BY DEF PoolPart!Working
  <2> HIDE DEF S, T
  <2>2. /\ Cardinality(S) \in Nat
        /\ Cardinality(T) = Cardinality(S) + (IF w \in T THEN 1 ELSE 0)
                                           - (IF w \in S THEN 1 ELSE 0)
    BY <2>1, OneApart
  <2> QED
    BY <2>1, <2>2 DEF S, T
<1> QED
  BY <1>1, <1>2

LEMMA JobsGoOn ==
    ASSUME PoolPart!TypeOK,
           \A x \in Workers : v4'[x] = v4[x] \/ (v4[x] \notin PoolRequests /\ v4'[x] \notin PoolRequests)
    PROVE  /\ PoolPart!Working' = PoolPart!Working
           /\ \A r \in PoolRequests : PoolPart!Running(r)' = PoolPart!Running(r)
BY DEF PoolPart!Working, PoolPart!Running

(* nothing runs when no job is active *)
LEMMA NoneActive ==
    ASSUME PoolPart!Inv, v2 = 0, NEW r \in PoolRequests
    PROVE  Cardinality(PoolPart!Running(r)) = 0
<1> USE PoolAssumption
<1>1. IsFiniteSet(PoolPart!Working)
  BY FS_Subset DEF PoolPart!Working
<1>2. Cardinality(PoolPart!Working) = 0
  BY PoolCardinality DEF PoolPart!Inv, PoolPart!Counted
<1>3. PoolPart!Working = {}
  BY <1>1, <1>2, FS_EmptySet
<1>4. PoolPart!Running(r) = {}
  BY <1>3 DEF PoolPart!Working, PoolPart!Running
<1> QED
  BY <1>4, FS_EmptySet

LEMMA PoolTakes ==
    ASSUME PoolPart!Inv, NEW w \in Workers, PoolPart!Take(w)
    PROVE  PoolPart!Inv'
<1> USE PoolAssumption
<1>1. /\ v1 \in Seq(PoolRequests) /\ v1 # <<>> /\ v4[w] = "ready"
      /\ v1' = Tail(v1) /\ v2' = v2 + 1 /\ v4' = [v4 EXCEPT ![w] = Head(v1)]
      /\ UNCHANGED <<v5, v6, v7>> /\ v2 \in Nat
  BY DEF PoolPart!Take, PoolPart!Inv, PoolPart!TypeOK
<1>2. Head(v1) \in PoolRequests /\ v1' \in Seq(PoolRequests)
  BY <1>1, HeadTailProperties
<1>3. PoolPart!TypeOK /\ PoolPart!TypeOK'
  BY <1>1, <1>2 DEF PoolPart!Inv, PoolPart!TypeOK
<1>4. v4'[w] = Head(v1) /\ \A x \in Workers \ {w} : v4'[x] = v4[x]
  BY <1>1, <1>3 DEF PoolPart!TypeOK
<1>5. PoolPart!Counted'
  BY <1>1, <1>2, <1>3, <1>4, JobsRunning, PoolCardinality DEF PoolPart!Inv, PoolPart!Counted
<1>6. PoolPart!Accounted'
  <2> SUFFICES ASSUME NEW r \in PoolRequests
               PROVE  v6'[r] = v7'[r] + Cardinality(PoolPart!Running(r)')
                                      + Cardinality(PoolPart!Waiting(r)')
    BY PoolCardinality DEF PoolPart!Accounted
  <2>1. v6[r] = v7[r] + Cardinality(PoolPart!Running(r)) + Cardinality(PoolPart!Waiting(r))
    BY PoolCardinality DEF PoolPart!Inv, PoolPart!Accounted
  <2>2. /\ Cardinality(PoolPart!Running(r)) \in Nat
        /\ Cardinality(PoolPart!Running(r)') =
             Cardinality(PoolPart!Running(r)) + (IF Head(v1) = r THEN 1 ELSE 0)
    BY <1>1, <1>3, <1>4, JobsRunning
  <2>3. /\ Cardinality(PoolPart!Waiting(r)) \in Nat /\ Cardinality(PoolPart!Waiting(r)') \in Nat
        /\ Cardinality(PoolPart!Waiting(r)) =
             Cardinality(PoolPart!Waiting(r)') + (IF Head(v1) = r THEN 1 ELSE 0)
    <3>1. PoolPart!Waiting(r) = Places(v1, r) /\ PoolPart!Waiting(r)' = Places(Tail(v1), r)
      BY <1>1 DEF PoolPart!Waiting, Places
    <3> QED
      BY <1>1, <3>1, Taken
  <2>4. v7[r] \in Nat /\ v6'[r] = v6[r] /\ v7'[r] = v7[r]
    BY <1>1, <1>3 DEF PoolPart!TypeOK
  <2> QED
    BY <2>1, <2>2, <2>3, <2>4
<1> QED
  BY <1>1, <1>3, <1>5, <1>6 DEF PoolPart!Inv, PoolPart!AllSubmitted, PoolPart!ReadsFinished

LEMMA PoolFinishes ==
    ASSUME PoolPart!Inv, NEW w \in Workers, PoolPart!Finish(w)
    PROVE  PoolPart!Inv'
<1> USE PoolAssumption
<1> DEFINE q == v4[w]
<1>1. PoolPart!TypeOK
  BY DEF PoolPart!Inv
<1>2. /\ q \in PoolRequests /\ UNCHANGED <<v1, v6>>
      /\ v2' = v2 - 1 /\ v7' = [v7 EXCEPT ![q] = @ + 1]
  BY DEF PoolPart!Finish
<1>3. /\ v4' \in [Workers -> PoolRequests \cup {"ready", "asleep", "gone"}]
      /\ v5' \in [PoolRequests -> {"submitting", "ready", "asleep", "returned"}]
      /\ v4'[w] = "ready"
      /\ \A x \in Workers \ {w} : v4'[x] = v4[x] \/ (v4[x] = "asleep" /\ v4'[x] = "ready")
      /\ \A r \in PoolRequests : v5'[r] = v5[r] \/ (v5[r] = "asleep" /\ v5'[r] = "ready")
  <2> DEFINE ws == [v4 EXCEPT ![w] = "ready"]
  <2>1. ws \in [Workers -> PoolRequests \cup {"ready", "asleep", "gone"}]
    BY <1>1 DEF PoolPart!TypeOK
  <2>2. ws[w] = "ready" /\ \A x \in Workers \ {w} : ws[x] = v4[x]
    BY <1>1 DEF PoolPart!TypeOK
  <2>3. v5 \in [PoolRequests -> {"submitting", "ready", "asleep", "returned"}]
    BY <1>1 DEF PoolPart!TypeOK
  <2>4. PoolPart!Tell(ws, v5) \/ (v4' = ws /\ UNCHANGED v5)
    BY DEF PoolPart!Finish
  <2> HIDE DEF ws
  <2> QED
    BY <2>1, <2>2, <2>3, <2>4, Woken DEF PoolPart!Tell
<1>4. PoolPart!Running(q) # {} /\ w \in PoolPart!Working
  BY <1>2 DEF PoolPart!Running, PoolPart!Working
<1>5. IsFiniteSet(PoolPart!Working) /\ IsFiniteSet(PoolPart!Running(q))
  BY FS_Subset DEF PoolPart!Working, PoolPart!Running
<1>6. /\ Cardinality(PoolPart!Working) \in Nat \ {0}
      /\ Cardinality(PoolPart!Running(q)) \in Nat \ {0}
  BY <1>4, <1>5, FS_EmptySet, FS_CardinalityType
<1>7. v2' \in Nat
  <2>1. v2 = Cardinality(PoolPart!Working)
    BY PoolCardinality DEF PoolPart!Inv, PoolPart!Counted
  <2> QED
    BY <2>1, <1>2, <1>6
<1>8. PoolPart!TypeOK'
  <2>1. v7' \in [PoolRequests -> Nat] /\ v6' \in [PoolRequests -> Nat] /\ v1' \in Seq(PoolRequests)
    BY <1>1, <1>2 DEF PoolPart!TypeOK
  <2> QED
    BY <2>1, <1>3, <1>7 DEF PoolPart!TypeOK
<1> HIDE DEF q
<1>9. /\ \A r \in PoolRequests :
           /\ Cardinality(PoolPart!Running(r)) \in Nat
           /\ Cardinality(PoolPart!Running(r)') =
                Cardinality(PoolPart!Running(r)) - (IF q = r THEN 1 ELSE 0)
      /\ Cardinality(PoolPart!Working') = Cardinality(PoolPart!Working) - 1
  <2>1. q = v4[w]
    BY DEF q
  <2> QED
    BY <1>1, <1>2, <1>3, <1>6, <1>8, <2>1, JobsRunning
<1>10. PoolPart!Counted'
  BY <1>2, <1>9, PoolCardinality DEF PoolPart!Inv, PoolPart!Counted
<1>11. \A r \in PoolRequests :
         /\ v6[r] = v7[r] + Cardinality(PoolPart!Running(r)) + Cardinality(PoolPart!Waiting(r))
         /\ Cardinality(PoolPart!Waiting(r)) \in Nat
         /\ v7[r] \in Nat /\ v7'[r] = v7[r] + (IF q = r THEN 1 ELSE 0)
  <2> TAKE r \in PoolRequests
  <2>1. v6[r] = v7[r] + Cardinality(PoolPart!Running(r)) + Cardinality(PoolPart!Waiting(r))
    BY PoolCardinality DEF PoolPart!Inv, PoolPart!Accounted
  <2>2. Cardinality(PoolPart!Waiting(r)) \in Nat
    <3>1. PoolPart!Waiting(r) = Places(v1, r)
      BY DEF PoolPart!Waiting, Places
    <3>2. v1 \in Seq(PoolRequests)
      BY <1>1 DEF PoolPart!TypeOK
    <3> QED
      BY <3>1, <3>2, <1>2, Appended
  <2>3. v7[r] \in Nat /\ v7'[r] = v7[r] + (IF q = r THEN 1 ELSE 0)
    BY <1>1, <1>2 DEF PoolPart!TypeOK
  <2> QED
    BY <2>1, <2>2, <2>3
<1>12. PoolPart!Accounted'
  <2>1. \A r \in PoolRequests : PoolPart!Waiting(r)' = PoolPart!Waiting(r)
    BY <1>2 DEF PoolPart!Waiting
  <2> QED
    BY <1>2, <1>9, <1>11, <2>1, PoolCardinality DEF PoolPart!Accounted
<1>13. PoolPart!AllSubmitted'
  BY <1>2, <1>3 DEF PoolPart!Inv, PoolPart!AllSubmitted
<1>14. PoolPart!ReadsFinished'
  <2> SUFFICES ASSUME NEW r \in PoolRequests, v5'[r] = "returned"
               PROVE  v7'[r] = Jobs
    BY DEF PoolPart!ReadsFinished
  <2>1. v5[r] = "returned"
    BY <1>3
  <2>2. v7[r] = Jobs /\ v6[r] = Jobs
    BY <2>1 DEF PoolPart!Inv, PoolPart!ReadsFinished, PoolPart!AllSubmitted
  <2>3. q # r
    BY <2>2, <1>6, <1>9, <1>11
  <2> QED
    BY <2>2, <2>3, <1>11
<1> QED
  BY <1>8, <1>10, <1>12, <1>13, <1>14 DEF PoolPart!Inv

LEMMA PoolSubmits ==
    ASSUME PoolPart!Inv, NEW q \in PoolRequests, PoolPart!Submit(q)
    PROVE  PoolPart!Inv'
<1> USE PoolAssumption
<1>1. PoolPart!TypeOK
  BY DEF PoolPart!Inv
<1>2. /\ v5[q] = "submitting" /\ v1' = Append(v1, q) /\ UNCHANGED <<v2, v7>>
      /\ v6' = [v6 EXCEPT ![q] = @ + 1] /\ PoolPart!Signal(v4, v5)
  BY DEF PoolPart!Submit
<1>3. /\ v4 \in [Workers -> PoolRequests \cup {"ready", "asleep", "gone"}]
      /\ v5 \in [PoolRequests -> {"submitting", "ready", "asleep", "returned"}]
      /\ v1 \in Seq(PoolRequests) /\ v6 \in [PoolRequests -> Nat] /\ v7 \in [PoolRequests -> Nat]
  BY <1>1 DEF PoolPart!TypeOK
<1>4. /\ v4' \in [Workers -> PoolRequests \cup {"ready", "asleep", "gone"}]
      /\ v5' \in [PoolRequests -> {"submitting", "ready", "asleep", "returned"}]
      /\ \A x \in Workers : v4'[x] = v4[x] \/ (v4[x] = "asleep" /\ v4'[x] = "ready")
      /\ \A r \in PoolRequests : v5'[r] = v5[r] \/ (v5[r] = "asleep" /\ v5'[r] = "ready")
  BY <1>2, <1>3, Woken
<1>5. PoolPart!TypeOK'
  <2>1. v1' \in Seq(PoolRequests) /\ v6' \in [PoolRequests -> Nat]
    BY <1>2, <1>3, AppendProperties
  <2> QED
    BY <1>1, <1>2, <1>4, <2>1 DEF PoolPart!TypeOK
<1>6. /\ PoolPart!Working' = PoolPart!Working
      /\ \A r \in PoolRequests : PoolPart!Running(r)' = PoolPart!Running(r)
  <2>1. "asleep" \notin PoolRequests /\ "ready" \notin PoolRequests
    OBVIOUS
  <2> QED
    BY <1>1, <1>4, <2>1, JobsGoOn
<1>7. PoolPart!Counted'
  BY <1>2, <1>6, PoolCardinality DEF PoolPart!Inv, PoolPart!Counted
<1>8. PoolPart!Accounted'
  <2> SUFFICES ASSUME NEW r \in PoolRequests
               PROVE  v6'[r] = v7'[r] + Cardinality(PoolPart!Running(r)')
                                      + Cardinality(PoolPart!Waiting(r)')
    BY PoolCardinality DEF PoolPart!Accounted
  <2>1. v6[r] = v7[r] + Cardinality(PoolPart!Running(r)) + Cardinality(PoolPart!Waiting(r))
    BY PoolCardinality DEF PoolPart!Inv, PoolPart!Accounted
  <2>2. /\ Cardinality(PoolPart!Running(r)) \in Nat
        /\ Cardinality(PoolPart!Running(r)') = Cardinality(PoolPart!Running(r))
    <3>1. IsFiniteSet(PoolPart!Running(r))
      BY FS_Subset DEF PoolPart!Running
    <3> QED
      BY <3>1, <1>6, FS_CardinalityType
  <2>3. /\ Cardinality(PoolPart!Waiting(r)) \in Nat
        /\ Cardinality(PoolPart!Waiting(r)') =
             Cardinality(PoolPart!Waiting(r)) + (IF q = r THEN 1 ELSE 0)
    <3>1. /\ PoolPart!Waiting(r) = Places(v1, r)
          /\ PoolPart!Waiting(r)' = Places(Append(v1, q), r)
      BY <1>2 DEF PoolPart!Waiting, Places
    <3> QED
      BY <1>3, <3>1, Appended
  <2>4. v7[r] \in Nat /\ v6'[r] = v6[r] + (IF q = r THEN 1 ELSE 0) /\ v7'[r] = v7[r]
    BY <1>2, <1>3
  <2> QED
    BY <2>1, <2>2, <2>3, <2>4
<1>9. ASSUME NEW r \in PoolRequests, v5'[r] # "submitting"
      PROVE  v6'[r] = Jobs /\ (v5'[r] = "returned" => v7'[r] = Jobs)
  BY <1>2, <1>3, <1>4, <1>9 DEF PoolPart!Inv, PoolPart!AllSubmitted, PoolPart!ReadsFinished
<1>10. PoolPart!AllSubmitted' /\ PoolPart!ReadsFinished'
  BY <1>4, <1>9 DEF PoolPart!AllSubmitted, PoolPart!ReadsFinished
<1> QED
  BY <1>5, <1>7, <1>8, <1>10 DEF PoolPart!Inv

(* who goes to sleep, leaves or is woken has no job *)
LEMMA PoolGoesOn ==
    ASSUME PoolPart!Inv, UNCHANGED <<v1, v2, v6, v7>>, PoolPart!TypeOK',
           \A x \in Workers : v4'[x] = v4[x] \/ (v4[x] \notin PoolRequests /\ v4'[x] \notin PoolRequests),
           \A r \in PoolRequests :
             /\ v5'[r] # "submitting" => v6[r] = Jobs
             /\ v5'[r] = "returned" => v7[r] = Jobs
    PROVE  PoolPart!Inv'
<1>1. /\ PoolPart!Working' = PoolPart!Working
      /\ \A r \in PoolRequests : PoolPart!Running(r)' = PoolPart!Running(r)
      /\ \A r \in PoolRequests : PoolPart!Waiting(r)' = PoolPart!Waiting(r)
  BY JobsGoOn DEF PoolPart!Inv, PoolPart!Waiting
<1>2. PoolPart!Counted' /\ PoolPart!Accounted'
  BY <1>1, PoolCardinality DEF PoolPart!Inv, PoolPart!Counted, PoolPart!Accounted
<1>3. PoolPart!AllSubmitted' /\ PoolPart!ReadsFinished'
  BY DEF PoolPart!AllSubmitted, PoolPart!ReadsFinished
<1> QED
  BY <1>2, <1>3 DEF PoolPart!Inv

LEMMA PoolReturning ==
    ASSUME PoolPart!Inv, NEW q \in PoolRequests, PoolPart!Return(q)
    PROVE  v6[q] = Jobs /\ v7[q] = Jobs
<1>1. v5[q] = "ready" /\ v1 = <<>> /\ ~(v2 > 0)
  BY DEF PoolPart!Return, PoolPart!Busy
<1>2. v2 = 0
  BY <1>1 DEF PoolPart!Inv, PoolPart!TypeOK
<1>3. Cardinality(PoolPart!Running(q)) = 0
  BY <1>2, NoneActive
<1>4. Cardinality(PoolPart!Waiting(q)) = 0
  <2>1. PoolPart!Waiting(q) = {}
    BY <1>1 DEF PoolPart!Waiting
  <2> QED
    BY <2>1, FS_EmptySet
<1>5. v6[q] = v7[q] + Cardinality(PoolPart!Running(q)) + Cardinality(PoolPart!Waiting(q))
  BY PoolCardinality DEF PoolPart!Inv, PoolPart!Accounted
<1>6. v6[q] = Jobs /\ v7[q] \in Nat
  BY <1>1 DEF PoolPart!Inv, PoolPart!AllSubmitted, PoolPart!TypeOK
<1> QED
  BY <1>3, <1>4, <1>5, <1>6

LEMMA PoolStep ==
    ASSUME PoolPart!Inv, [PoolPart!Next]_(PoolPart!vars)
    PROVE  PoolPart!Inv'
<1> USE PoolAssumption
<1>1. /\ v4 \in [Workers -> PoolRequests \cup {"ready", "asleep", "gone"}]
      /\ v5 \in [PoolRequests -> {"submitting", "ready", "asleep", "returned"}]
      /\ "asleep" \notin PoolRequests /\ "ready" \notin PoolRequests /\ "gone" \notin PoolRequests
      /\ PoolPart!TypeOK
  BY DEF PoolPart!Inv, PoolPart!TypeOK
<1>2. \A r \in PoolRequests :
        /\ v5[r] # "submitting" => v6[r] = Jobs
        /\ v5[r] = "returned" => v7[r] = Jobs
  BY DEF PoolPart!Inv, PoolPart!AllSubmitted, PoolPart!ReadsFinished
<1>3. ASSUME NEW w \in Workers, PoolPart!Sleep(w) \/ PoolPart!Leave(w)
      PROVE  PoolPart!Inv'
  <2>1. /\ v4[w] = "ready" /\ UNCHANGED <<v1, v2, v5, v6, v7>>
        /\ \E p \in {"asleep", "gone"} : v4' = [v4 EXCEPT ![w] = p]
    BY <1>3 DEF PoolPart!Sleep, PoolPart!Leave
  <2>2. \A x \in Workers :
          v4'[x] = v4[x] \/ (v4[x] \notin PoolRequests /\ v4'[x] \notin PoolRequests)
    BY <2>1, <1>1
  <2>3. PoolPart!TypeOK'
    BY <2>1, <1>1 DEF PoolPart!TypeOK
  <2> QED
    BY <2>1, <2>2, <2>3, <1>2, PoolGoesOn
<1>4. ASSUME NEW q \in PoolRequests, PoolPart!Wait(q) \/ PoolPart!Doze(q) \/ PoolPart!Return(q)
      PROVE  PoolPart!Inv'
  <2>1. UNCHANGED <<v1, v2, v4, v6, v7>>
    BY <1>4 DEF PoolPart!Wait, PoolPart!Doze, PoolPart!Return
  <2>2. PICK p \in {"ready", "asleep", "returned"} :
           /\ v5' = [v5 EXCEPT ![q] = p]
           /\ p = "returned" => PoolPart!Return(q)
    BY <1>4 DEF PoolPart!Wait, PoolPart!Doze, PoolPart!Return
  <2>3. v6[q] = Jobs
    <3>1. v5[q] = "submitting" => v6[q] = Jobs
      BY <1>4 DEF PoolPart!Wait, PoolPart!Doze, PoolPart!Return
    <3> QED
      BY <3>1, <1>2
  <2>4. p = "returned" => v7[q] = Jobs
    BY <2>2, PoolReturning
  <2>5. PoolPart!TypeOK'
    BY <2>1, <2>2, <1>1 DEF PoolPart!TypeOK
  <2>6. \A r \in PoolRequests :
          /\ v5'[r] # "submitting" => v6[r] = Jobs
          /\ v5'[r] = "returned" => v7[r] = Jobs
    BY <2>2, <2>3, <2>4, <1>1, <1>2
  <2> QED
    BY <2>1, <2>5, <2>6, PoolGoesOn
<1>5. CASE PoolPart!Destroy
  <2>1. UNCHANGED <<v1, v2, v6, v7>> /\ PoolPart!Broadcast(v4, v5)
    BY <1>5 DEF PoolPart!Destroy
  <2>2. /\ v4' \in [Workers -> PoolRequests \cup {"ready", "asleep", "gone"}]
        /\ v5' \in [PoolRequests -> {"submitting", "ready", "asleep", "returned"}]
        /\ \A x \in Workers : v4'[x] = v4[x] \/ (v4[x] = "asleep" /\ v4'[x] = "ready")
        /\ \A r \in PoolRequests : v5'[r] = v5[r] \/ (v5[r] = "asleep" /\ v5'[r] = "ready")
    BY <2>1, <1>1, Woken
  <2>3. PoolPart!TypeOK'
    BY <2>1, <2>2, <1>1 DEF PoolPart!TypeOK
  <2>4. \A r \in PoolRequests :
          /\ v5'[r] # "submitting" => v6[r] = Jobs
          /\ v5'[r] = "returned" => v7[r] = Jobs
    BY <2>2, <1>2
  <2>5. \A x \in Workers :
          v4'[x] = v4[x] \/ (v4[x] \notin PoolRequests /\ v4'[x] \notin PoolRequests)
    BY <2>2, <1>1
  <2> QED
    BY <2>1, <2>3, <2>4, <2>5, PoolGoesOn
<1>6. CASE UNCHANGED PoolPart!vars
  <2>1. UNCHANGED <<v1, v2, v4, v5, v6, v7>>
    BY <1>6 DEF PoolPart!vars
  <2>2. PoolPart!TypeOK'
    BY <2>1, <1>1 DEF PoolPart!TypeOK
  <2> QED
    BY <2>1, <2>2, <1>2, PoolGoesOn
<1> QED
  BY <1>3, <1>4, <1>5, <1>6, PoolTakes, PoolFinishes, PoolSubmits
     DEF PoolPart!Next, PoolPart!WorkerSteps, PoolPart!RequestSteps

LEMMA PoolStart ==
    ASSUME PoolPart!Init
    PROVE  PoolPart!Inv
<1> USE PoolAssumption DEF PoolPart!Init
<1>1. PoolPart!TypeOK
  <2>1. <<>> \in Seq(PoolRequests)
    BY EmptySeq
  <2> QED
    BY <2>1 DEF PoolPart!TypeOK
<1>2. /\ PoolPart!Working = {}
      /\ \A r \in PoolRequests : PoolPart!Running(r) = {} /\ PoolPart!Waiting(r) = {}
  BY DEF PoolPart!Working, PoolPart!Running, PoolPart!Waiting
<1>3. PoolPart!Cardinality({}) = 0
  BY FS_EmptySet, PoolCardinality
<1>4. \A r \in PoolRequests : v6[r] = 0 /\ v7[r] = 0
  OBVIOUS
<1>5. PoolPart!Counted
  BY <1>2, <1>3 DEF PoolPart!Counted
<1>6. PoolPart!Accounted
  <2> SUFFICES ASSUME NEW r \in PoolRequests
               PROVE  v6[r] = v7[r] + PoolPart!Cardinality(PoolPart!Running(r))
                                    + PoolPart!Cardinality(PoolPart!Waiting(r))
    BY DEF PoolPart!Accounted
  <2>1. /\ PoolPart!Cardinality(PoolPart!Running(r)) = 0
        /\ PoolPart!Cardinality(PoolPart!Waiting(r)) = 0
    BY Zenon, <1>2, <1>3
  <2> QED
    BY <2>1, <1>4
<1> QED
  BY <1>1, <1>5, <1>6 DEF PoolPart!Inv, PoolPart!AllSubmitted, PoolPart!ReadsFinished

-----------------------------------------------------------------------------
(***************************************************************************)
(* Main waits for the threads of its requests, and the limiter keeps its   *)
(* rate; a request for many pages returns with its jobs done; and a fetch  *)
(* keeps to the policy that was read, and to the pace, however many        *)
(* connections, workers, requests, fetches and hosts there are.            *)
(***************************************************************************)
THEOREM RequestsAreServed == Spec => []RequestsServed
<1> DEFINE I == /\ part = "serve" => ServePart!Inv
                /\ part = "pool" => PoolPart!Inv
                /\ part = "fetch" => FetchPart!Inv
<1>1. Init => I
  BY ServeStart, PoolStart, FetchStart DEF Init
<1>2. I /\ [Next]_vars => I'
  <2> SUFFICES ASSUME I, [Next]_vars
               PROVE  I'
    OBVIOUS
  <2>1. part' = part
    BY DEF Next, vars
  <2>2. CASE part = "serve"
    <3>1. [ServePart!Next]_(ServePart!vars)
      BY <2>2 DEF Next, vars, ServePart!vars
    <3> QED
      BY <2>1, <2>2, <3>1, ServeStep
  <2>3. CASE part = "pool"
    <3>1. [PoolPart!Next]_(PoolPart!vars)
      BY <2>3 DEF Next, vars, PoolPart!vars
    <3> QED
      BY <2>1, <2>3, <3>1, PoolStep
  <2>4. CASE part = "fetch"
    <3>1. [FetchPart!Next]_(FetchPart!vars)
      BY <2>4 DEF Next, vars, FetchPart!vars
    <3> QED
      BY <2>1, <2>4, <3>1, FetchStep
  <2> QED
    BY <2>1, <2>2, <2>3, <2>4
<1>3. I => RequestsServed
  BY ServeHolds, FetchHolds DEF RequestsServed, PoolPart!Inv
<1> QED
  BY <1>1, <1>2, <1>3, PTL DEF Spec

-----------------------------------------------------------------------------
(* Router *)

LEMMA RouterSends ==
    ASSUME RouterPart!Inv, RouterPart!Send
    PROVE  RouterPart!Inv'
<1> USE RouterAssumption
<1>1. /\ v1 < Calls /\ v1' = v1 + 1 /\ v3' = Append(v3, v1 + 1)
      /\ UNCHANGED <<v4, v5, v6, v7, v8, v11, v13, v14>>
  BY DEF RouterPart!Send
<1>2. /\ v1 \in 0..Calls /\ v6 \in 0..v1 /\ v3 \in Seq(1..Calls) /\ v4 \in Seq(1..Calls)
  BY DEF RouterPart!Inv, RouterPart!TypeOK
<1>3. v1 + 1 \in 1..Calls /\ v1' \in 0..Calls /\ v6' \in 0..v1'
  BY <1>1, <1>2
<1> DEFINE n == Len(v3)
<1>4. n \in Nat /\ DOMAIN v3 = 1..n
  BY <1>2, LenProperties
<1>5. /\ v3' \in Seq(1..Calls) /\ Len(v3') = n + 1
      /\ \A i \in 1..n : v3'[i] = v3[i]
      /\ v3'[n + 1] = v1 + 1
  BY <1>1, <1>2, <1>3, AppendProperties
<1>6. DOMAIN v3' = 1..(n + 1)
  BY <1>5, LenProperties
<1> HIDE DEF n
<1>7. RouterPart!TypeOK'
  BY <1>1, <1>3, <1>5 DEF RouterPart!Inv, RouterPart!TypeOK
<1>8. RouterPart!Served' /\ RouterPart!Truthful'
  BY <1>1
     DEF RouterPart!Inv, RouterPart!Served, RouterPart!Serving, RouterPart!Truthful,
         RouterPart!OkMeansDone, RouterPart!Answered
<1>9. /\ \A i \in 1..n : v6 < v3[i] /\ v3[i] <= v1 /\ v3[i] \in Nat
      /\ \A i, j \in 1..n : i < j => v3[i] < v3[j]
      /\ \A i \in DOMAIN v4 : v6 < v4[i] /\ v4[i] <= v1 /\ v4[i] \in Nat
      /\ \A i \in DOMAIN v4, j \in 1..n : v4[i] < v3[j]
  <2>1. /\ \A i \in 1..n : v3[i] \in Nat
        /\ \A i \in DOMAIN v4 : v4[i] \in Nat
    BY <1>2, <1>4, LenProperties, ElementOfSeq DEF n
  <2> QED
    BY <1>4, <2>1 DEF RouterPart!Inv, RouterPart!Queued, RouterPart!Ascending
<1>10. RouterPart!Queued'
  <2>1. RouterPart!Ascending(v3)'
    <3> SUFFICES ASSUME NEW i \in 1..(n + 1), NEW j \in 1..(n + 1), i < j
                 PROVE  v3'[i] < v3'[j]
      BY <1>6 DEF RouterPart!Ascending
    <3>1. i \in 1..n
      BY <1>4
    <3>2. CASE j = n + 1
      <4>1. v3'[i] = v3[i] /\ v3'[j] = v1 + 1
        BY <3>1, <3>2, <1>5
      <4>2. v3[i] <= v1 /\ v3[i] \in Nat
        BY <3>1, <1>9
      <4> QED
        BY <4>1, <4>2, <1>2
    <3>3. CASE j \in 1..n
      BY <3>1, <3>3, <1>5, <1>9
    <3> QED
      BY <3>2, <3>3, <1>4
  <2>2. \A i \in 1..(n + 1) : v6 < v3'[i] /\ v3'[i] <= v1 + 1
    <3> TAKE i \in 1..(n + 1)
    <3>1. CASE i = n + 1
      BY <3>1, <1>2, <1>5
    <3>2. CASE i \in 1..n
      BY <3>2, <1>2, <1>5, <1>9
    <3> QED
      BY <3>1, <3>2, <1>4
  <2>3. \A i \in DOMAIN v4, j \in 1..(n + 1) : v4[i] < v3'[j]
    <3> TAKE i \in DOMAIN v4, j \in 1..(n + 1)
    <3>1. CASE j = n + 1
      BY <3>1, <1>2, <1>5, <1>9
    <3>2. CASE j \in 1..n
      BY <3>2, <1>5, <1>9
    <3> QED
      BY <3>1, <3>2, <1>4
  <2>4. \A i \in DOMAIN v4 : v6 < v4[i] /\ v4[i] <= v1 + 1
    BY <1>2, <1>9
  <2>5. RouterPart!Ascending(v4)'
    BY <1>1 DEF RouterPart!Inv, RouterPart!Queued, RouterPart!Ascending
  <2>6. (\A c \in RouterPart!Answered : c <= v6 /\ (RouterPart!Serving => c < v6))'
    BY <1>1 DEF RouterPart!Inv, RouterPart!Queued, RouterPart!Answered, RouterPart!Serving
  <2> QED
    BY <1>1, <1>6, <2>1, <2>2, <2>3, <2>4, <2>5, <2>6 DEF RouterPart!Queued
<1>11. RouterPart!Kept'
  <2> SUFFICES ASSUME NEW b \in 1..(v1 + 1)
               PROVE  \/ b \in RouterPart!Answered'
                      \/ RouterPart!Serving' /\ b = v6'
                      \/ \E i \in DOMAIN v4' : v4'[i] = b
                      \/ \E i \in DOMAIN v3' : v3'[i] = b
                      \/ RouterPart!Lost(b)'
    BY <1>1 DEF RouterPart!Kept
  <2>1. CASE b = v1 + 1
    BY <2>1, <1>4, <1>5, <1>6
  <2>2. CASE b \in 1..v1
    <3>1. \/ b \in RouterPart!Answered
          \/ RouterPart!Serving /\ b = v6
          \/ \E i \in DOMAIN v4 : v4[i] = b
          \/ \E i \in DOMAIN v3 : v3[i] = b
          \/ RouterPart!Lost(b)
      BY <2>2 DEF RouterPart!Inv, RouterPart!Kept
    <3>2. /\ RouterPart!Answered' = RouterPart!Answered
          /\ RouterPart!Serving' = RouterPart!Serving
          /\ RouterPart!Lost(b)' = RouterPart!Lost(b)
      BY <1>1 DEF RouterPart!Answered, RouterPart!Serving, RouterPart!Lost
    <3>3. (\E i \in DOMAIN v3 : v3[i] = b) => \E i \in DOMAIN v3' : v3'[i] = b
      BY <1>4, <1>5, <1>6
    <3> QED
      BY <1>1, <3>1, <3>2, <3>3
  <2> QED
    BY <2>1, <2>2, <1>2
<1> QED
  BY <1>7, <1>8, <1>10, <1>11 DEF RouterPart!Inv

(* a step that leaves the calls and the replies alone *)
LEMMA RouterStays ==
    ASSUME RouterPart!Inv, UNCHANGED <<v1, v3, v4, v6, v13, v14>>,
           RouterPart!Serving' <=> RouterPart!Serving,
           v7 = "tool" /\ v8.at \in {"stdin", "work"} =>
                v7' = "tool" /\ v8'.at \in {"stdin", "work"}
    PROVE  RouterPart!Queued' /\ RouterPart!Kept'
<1>1. RouterPart!Answered' = RouterPart!Answered
  BY DEF RouterPart!Answered
<1>2. \A b \in 1..v1 : RouterPart!Lost(b) => RouterPart!Lost(b)'
  BY DEF RouterPart!Lost
<1>3. RouterPart!Queued'
  BY <1>1 DEF RouterPart!Inv, RouterPart!Queued, RouterPart!Ascending
<1>4. RouterPart!Kept'
  BY <1>1, <1>2 DEF RouterPart!Inv, RouterPart!Kept
<1> QED
  BY <1>3, <1>4

LEMMA RouterWaits ==
    ASSUME RouterPart!Inv,
           \/ RouterPart!Hangup \/ RouterPart!Eof \/ RouterPart!Forked \/ RouterPart!Read
           \/ RouterPart!BufferFull \/ RouterPart!ChildPrints \/ RouterPart!ChildExits
    PROVE  RouterPart!Inv'
<1> USE DEF RouterPart!client, RouterPart!TypeOK, RouterPart!Serving
<1>1. RouterPart!TypeOK /\ RouterPart!Served /\ RouterPart!Truthful
  BY DEF RouterPart!Inv
<1>2. CASE RouterPart!Hangup \/ RouterPart!Eof \/ RouterPart!Read \/ RouterPart!BufferFull
  <2>1. /\ UNCHANGED <<v1, v3, v4, v6, v7, v8, v11, v13, v14>>
        /\ \/ v5' = v5
           \/ v5 = "getline" /\ v5' = "exited"
           \/ v5 = "reading" /\ v5' = "waiting"
    BY <1>2
       DEF RouterPart!Hangup, RouterPart!Eof, RouterPart!Read, RouterPart!BufferFull
  <2>2. RouterPart!TypeOK' /\ RouterPart!Served' /\ RouterPart!Truthful'
    BY <1>1, <2>1
       DEF RouterPart!Served, RouterPart!Truthful, RouterPart!OkMeansDone, RouterPart!Answered
  <2> QED
    BY <2>1, <2>2, RouterStays DEF RouterPart!Inv
<1>3. CASE RouterPart!Forked
  <2>1. /\ UNCHANGED <<v1, v3, v4, v5, v6, v7, v11, v13, v14>> /\ v8.at = "start"
        /\ \E p \in {"stdin", "work"} :
             /\ v8' = [v8 EXCEPT !.at = p]
             /\ p = "stdin" => v7 = "tool" /\ v6 \in Bodiless
    BY <1>3 DEF RouterPart!Forked, RouterPart!Console
  <2>2. v8'.at \in {"stdin", "work"} /\ (v8'.at = "stdin" => v7 = "tool" /\ v6 \in Bodiless)
    BY <1>1, <2>1
  <2>3. RouterPart!TypeOK'
    BY <1>1, <2>1
  <2>4. RouterPart!Served' /\ RouterPart!Truthful'
    BY <1>1, <2>1, <2>2
       DEF RouterPart!Served, RouterPart!Truthful, RouterPart!OkMeansDone, RouterPart!Answered
  <2> QED
    BY <2>1, <2>2, <2>3, <2>4, RouterStays DEF RouterPart!Inv
<1>4. CASE RouterPart!ChildPrints \/ RouterPart!ChildExits
  <2>1. /\ UNCHANGED <<v1, v3, v4, v5, v6, v7, v11, v13, v14>> /\ v8.at = "print"
        /\ \/ v8' = [v8 EXCEPT !.at = "exited", !.status = "killed"]
           \/ v8.left > 0 /\ v8' = [v8 EXCEPT !.left = @ - 1]
           \/ v8' = [v8 EXCEPT !.at = "exited"]
    BY <1>4 DEF RouterPart!ChildPrints, RouterPart!ChildExits
  <2>2. v8'.at \in {"print", "exited"} /\ (v8'.status = "ok" => v8.status = "ok")
    BY <1>1, <2>1
  <2>3. RouterPart!TypeOK'
    <3>1. v8 \in [at : {"none", "start", "stdin", "work", "print", "exited"}, left : Nat,
                  status : {"none", "ok", "failed", "killed"}]
      BY <1>1
    <3>2. CASE v8.left > 0 /\ v8' = [v8 EXCEPT !.left = @ - 1]
      <4>1. v8.left - 1 \in Nat
        BY <3>1, <3>2
      <4> QED
        BY <4>1, <3>1, <3>2, <1>1, <2>1
    <3>3. CASE \/ v8' = [v8 EXCEPT !.at = "exited", !.status = "killed"]
               \/ v8' = [v8 EXCEPT !.at = "exited"]
      BY <3>1, <3>3, <1>1, <2>1
    <3> QED
      BY <2>1, <3>2, <3>3
  <2>4. RouterPart!Served' /\ RouterPart!Truthful'
    BY <1>1, <2>1, <2>2
       DEF RouterPart!Served, RouterPart!Truthful, RouterPart!OkMeansDone, RouterPart!Answered
  <2> QED
    BY <2>1, <2>2, <2>3, <2>4, RouterStays DEF RouterPart!Inv
<1> QED
  BY <1>2, <1>3, <1>4

(* a child that reads the server's stdin takes the calls behind its own *)
LEMMA RouterChildReads ==
    ASSUME RouterPart!Inv, RouterPart!ChildReads
    PROVE  RouterPart!Inv'
<1> USE DEF RouterPart!client, RouterPart!TypeOK, RouterPart!Serving
<1>1. RouterPart!TypeOK /\ RouterPart!Served /\ RouterPart!Truthful
  BY DEF RouterPart!Inv
<1>2. /\ v8.at = "stdin" /\ v3' = <<>>
      /\ \E p \in {"work", "stdin"} : v8' = [v8 EXCEPT !.at = p]
      /\ UNCHANGED <<v1, v4, v5, v6, v7, v11, v13, v14>>
  BY DEF RouterPart!ChildReads
<1>3. v8'.at \in {"stdin", "work"} /\ v7 = "tool" /\ v6 \in Bodiless
  BY <1>1, <1>2 DEF RouterPart!Served
<1>4. v3' \in Seq(1..Calls) /\ DOMAIN v3' = {}
  <2>1. <<>> \in Seq(1..Calls) /\ DOMAIN <<>> = {}
    BY EmptySeq
  <2> QED
    BY <1>2, <2>1
<1>5. RouterPart!TypeOK'
  BY <1>1, <1>2, <1>4
<1>6. RouterPart!Served' /\ RouterPart!Truthful'
  BY <1>1, <1>2, <1>3
     DEF RouterPart!Served, RouterPart!Truthful, RouterPart!OkMeansDone, RouterPart!Answered
<1>7. RouterPart!Queued'
  BY <1>2, <1>4 DEF RouterPart!Inv, RouterPart!Queued, RouterPart!Ascending, RouterPart!Answered
<1>8. RouterPart!Kept'
  <2> SUFFICES ASSUME NEW b \in 1..v1
               PROVE  \/ b \in RouterPart!Answered
                      \/ RouterPart!Serving /\ b = v6
                      \/ \E i \in DOMAIN v4 : v4[i] = b
                      \/ RouterPart!Lost(b)'
    BY <1>2 DEF RouterPart!Kept, RouterPart!Answered
  <2>1. (\E i \in DOMAIN v3 : v3[i] = b) => v6 < b
    BY DEF RouterPart!Inv, RouterPart!Queued
  <2>2. v6 < b => RouterPart!Lost(b)'
    BY <1>2, <1>3 DEF RouterPart!Lost
  <2>3. RouterPart!Lost(b) => RouterPart!Lost(b)'
    BY <1>2, <1>3 DEF RouterPart!Lost
  <2> QED
    BY <2>1, <2>2, <2>3 DEF RouterPart!Inv, RouterPart!Kept
<1> QED
  BY <1>5, <1>6, <1>7, <1>8 DEF RouterPart!Inv

LEMMA RouterChildWorks ==
    ASSUME RouterPart!Inv, RouterPart!ChildWorks
    PROVE  RouterPart!Inv'
<1> USE DEF RouterPart!client
<1>1. RouterPart!TypeOK /\ RouterPart!Served /\ RouterPart!Truthful
  BY DEF RouterPart!Inv
<1>2. PICK done \in BOOLEAN, n \in 0..MaxOut :
        /\ v8' = [at |-> "print", left |-> IF done THEN n ELSE 0,
                  status |-> IF done THEN "ok" ELSE "failed"]
        /\ v14' = IF v7 = "tool"
                  THEN [v14 EXCEPT ![v6] = IF done THEN "done" ELSE "refused"]
                  ELSE v14
  BY DEF RouterPart!ChildWorks
<1>3. v8.at = "work" /\ UNCHANGED <<v1, v3, v4, v5, v6, v7, v11, v13>>
  BY DEF RouterPart!ChildWorks
<1>4. v8'.at = "print" /\ (v8'.status = "ok" => done)
  BY <1>2
<1>5. /\ RouterPart!Serving' <=> RouterPart!Serving
      /\ RouterPart!Answered' = RouterPart!Answered
  BY <1>3 DEF RouterPart!Serving, RouterPart!Answered
<1>6. v6 \in 0..Calls /\ (v7 = "tool" => v6 \in 1..Calls /\ RouterPart!Serving)
  BY <1>1, RouterAssumption DEF RouterPart!TypeOK, RouterPart!Served, RouterPart!Serving
<1>7. RouterPart!TypeOK'
  <2>1. v8' \in [at : {"none", "start", "stdin", "work", "print", "exited"}, left : Nat,
                 status : {"none", "ok", "failed", "killed"}]
    BY <1>2
  <2>2. v14' \in [1..Calls -> {"none", "done", "refused"}]
    BY <1>1, <1>2 DEF RouterPart!TypeOK
  <2> QED
    BY <1>1, <1>3, <2>1, <2>2 DEF RouterPart!TypeOK
<1>8. RouterPart!Served'
  BY <1>1, <1>3, <1>4 DEF RouterPart!Served, RouterPart!Serving
<1>9. /\ v7 = "tool" => v14'[v6] = IF done THEN "done" ELSE "refused"
      /\ v7 # "tool" => v14' = v14
      /\ \A c \in (1..Calls) \ {v6} : v14'[c] = v14[c]
  BY <1>1, <1>2, <1>6 DEF RouterPart!TypeOK
<1>10. RouterPart!Truthful'
  <2>1. RouterPart!OkMeansDone'
    <3> SUFFICES ASSUME NEW c \in RouterPart!Answered, v13[c] = "ok"
                 PROVE  v14'[c] = "done"
      BY <1>3, <1>5 DEF RouterPart!OkMeansDone
    <3>1. v14[c] = "done" /\ c \in 1..Calls
      BY <1>1 DEF RouterPart!Truthful, RouterPart!OkMeansDone, RouterPart!Answered
    <3>2. v7 = "tool" => c # v6
      BY <1>6, <3>1 DEF RouterPart!Inv, RouterPart!Queued
    <3> QED
      BY <1>9, <3>1, <3>2
  <2>2. v11.status = "ok" => v7 \in {"note", "claim", "none"} /\ v14[v6] = "done"
    BY <1>1 DEF RouterPart!Truthful
  <2> QED
    BY <1>3, <1>4, <1>9, <2>1, <2>2 DEF RouterPart!Truthful
<1>11. RouterPart!Queued'
  BY <1>3, <1>5 DEF RouterPart!Inv, RouterPart!Queued, RouterPart!Ascending
<1>12. RouterPart!Kept'
  <2>1. ASSUME NEW b \in 1..v1, RouterPart!Lost(b)
        PROVE  RouterPart!Lost(b)'
    <3>1. PICK d \in Bodiless :
            d < b /\ (v14[d] # "none" \/ (d = v6 /\ v7 = "tool"))
      BY <2>1 DEF RouterPart!Lost
    <3>2. d \in 1..Calls
      BY RouterAssumption
    <3>3. v14'[d] # "none"
      BY <3>1, <3>2, <1>9
    <3> QED
      BY <3>1, <3>3 DEF RouterPart!Lost
  <2> QED
    BY <2>1, <1>3, <1>5 DEF RouterPart!Inv, RouterPart!Kept
<1> QED
  BY <1>7, <1>8, <1>10, <1>11, <1>12 DEF RouterPart!Inv

(* a child that has ended, or could not be started, is followed by another or by the reply *)
LEMMA RouterEnds ==
    ASSUME RouterPart!Inv, RouterPart!Reap \/ RouterPart!ForkFails
    PROVE  RouterPart!Inv'
<1> USE DEF RouterPart!client
<1>1. RouterPart!TypeOK /\ RouterPart!Served /\ RouterPart!Truthful
  BY DEF RouterPart!Inv
<1>2. PICK status \in {"ok", "failed", "unstarted"} :
        /\ RouterPart!Ended(status)
        /\ status = "ok" => v8.at = "exited" /\ v8.status = "ok"
  <2>1. CASE RouterPart!Reap
    <3>1. RouterPart!Status(v8.status) \in {"ok", "failed"}
      BY DEF RouterPart!Status
    <3>2. RouterPart!Status(v8.status) = "ok" => v8.status = "ok"
      BY DEF RouterPart!Status
    <3> QED
      BY <2>1, <3>1, <3>2 DEF RouterPart!Reap
  <2>2. CASE RouterPart!ForkFails
    BY <2>2 DEF RouterPart!ForkFails
  <2> QED
    BY <2>1, <2>2
<1>3. v5 \in {"reading", "waiting"} /\ v8.at \in {"start", "exited"}
  BY DEF RouterPart!Reap, RouterPart!ForkFails
<1>4. v7 \in {"context", "tool", "note", "claim"}
  BY <1>1, <1>3 DEF RouterPart!TypeOK, RouterPart!Served
<1>5. PICK s \in RouterPart!After(status) : RouterPart!Run(s)
  BY <1>2 DEF RouterPart!Ended
<1>6. /\ v7 = "context" => s = "tool"
      /\ v7 # "context" => s \in {"note", "claim", "none"}
  <2>1. /\ v7 = "context" => RouterPart!After(status) = {"tool"}
        /\ v7 = "tool" => RouterPart!After(status) \subseteq {"note", "none"}
        /\ v7 = "note" => RouterPart!After(status) \subseteq {"claim", "none"}
        /\ v7 = "claim" => RouterPart!After(status) \subseteq {"note", "none"}
    BY DEF RouterPart!After
  <2> HIDE DEF RouterPart!After
  <2> QED
    BY <2>1, <1>4, <1>5
<1>7. /\ v7' = s /\ UNCHANGED <<v1, v3, v4, v6, v13, v14>>
      /\ v11' = IF v7 = "tool" THEN [status |-> status, out |-> v10] ELSE v11
      /\ s = "none" => v5' = "reply" /\ v8' = RouterPart!NoChild
      /\ s # "none" => v5' = "reading" /\ v8' = [at |-> "start", left |-> 0, status |-> "none"]
  BY <1>2, <1>5 DEF RouterPart!Ended, RouterPart!Run
<1>8. v8' \in [at : {"none", "start"}, left : {0}, status : {"none"}]
  BY <1>7 DEF RouterPart!NoChild
<1>9. v8'.at \notin {"stdin", "print", "exited"}
  BY <1>8
<1>10. RouterPart!TypeOK'
  <2>1. v8' \in [at : {"none", "start", "stdin", "work", "print", "exited"}, left : Nat,
                 status : {"none", "ok", "failed", "killed"}]
    BY <1>8
  <2>2. /\ v5' \in {"getline", "reading", "waiting", "reply", "exited"}
        /\ v7' \in {"none", "context", "tool", "note", "claim"}
    BY <1>4, <1>6, <1>7
  <2> QED
    BY <1>1, <1>7, <2>1, <2>2 DEF RouterPart!TypeOK
<1>11. RouterPart!Served'
  BY <1>1, <1>3, <1>7, <1>9 DEF RouterPart!Served, RouterPart!Serving
<1>12. RouterPart!Truthful'
  <2>1. v11'.status = "ok" => v14[v6] = "done" /\ v7 # "context"
    <3>1. CASE v7 = "tool"
      BY <3>1, <1>1, <1>2, <1>7 DEF RouterPart!Truthful
    <3>2. CASE v7 # "tool"
      BY <3>2, <1>1, <1>7 DEF RouterPart!Truthful
    <3> QED
      BY <3>1, <3>2
  <2>2. RouterPart!OkMeansDone'
    BY <1>1, <1>7 DEF RouterPart!Truthful, RouterPart!OkMeansDone, RouterPart!Answered
  <2> QED
    BY <1>6, <1>7, <1>9, <2>1, <2>2 DEF RouterPart!Truthful
<1>13. RouterPart!Queued' /\ RouterPart!Kept'
  <2>1. RouterPart!Serving' <=> RouterPart!Serving
    BY <1>3, <1>7 DEF RouterPart!Serving
  <2> QED
    BY <1>3, <1>7, <2>1, RouterStays
<1> QED
  BY <1>10, <1>11, <1>12, <1>13 DEF RouterPart!Inv

LEMMA RouterReplies ==
    ASSUME RouterPart!Inv, RouterPart!Reply
    PROVE  RouterPart!Inv'
<1> USE DEF RouterPart!client
<1>1. RouterPart!TypeOK /\ RouterPart!Served /\ RouterPart!Truthful
  BY DEF RouterPart!Inv
<1>2. PICK r \in {"ok", "error"} :
        /\ v13' = [v13 EXCEPT ![v6] = r]
        /\ r = "ok" => v11.status = "ok"
  BY DEF RouterPart!Reply
<1>3. /\ v5 = "reply" /\ v5' = "getline"
      /\ UNCHANGED <<v1, v3, v4, v6, v7, v8, v11, v14>>
  BY DEF RouterPart!Reply
<1>4. v6 \in 1..Calls /\ v7 = "none"
  BY <1>1, <1>3, RouterAssumption
     DEF RouterPart!TypeOK, RouterPart!Served, RouterPart!Serving
<1>5. RouterPart!TypeOK'
  BY <1>1, <1>2, <1>3 DEF RouterPart!TypeOK
<1>6. RouterPart!Served'
  BY <1>1, <1>3, <1>4 DEF RouterPart!Served, RouterPart!Serving
<1>7. /\ v13'[v6] = r
      /\ \A c \in (1..Calls) \ {v6} : v13'[c] = v13[c]
      /\ RouterPart!Answered' = RouterPart!Answered \cup {v6}
  BY <1>1, <1>2, <1>4 DEF RouterPart!TypeOK, RouterPart!Answered
<1>8. RouterPart!Truthful'
  <2>1. RouterPart!OkMeansDone'
    BY <1>1, <1>2, <1>3, <1>7
       DEF RouterPart!Truthful, RouterPart!OkMeansDone, RouterPart!Answered
  <2> QED
    BY <1>1, <1>3, <2>1 DEF RouterPart!Truthful
<1>9. RouterPart!Queued'
  BY <1>3, <1>4, <1>7
     DEF RouterPart!Inv, RouterPart!Queued, RouterPart!Ascending, RouterPart!Serving
<1>10. RouterPart!Kept'
  <2>1. \A b \in 1..v1 : RouterPart!Lost(b) => RouterPart!Lost(b)'
    BY <1>3 DEF RouterPart!Lost
  <2> QED
    BY <1>3, <1>7, <2>1 DEF RouterPart!Inv, RouterPart!Kept
<1> QED
  BY <1>5, <1>6, <1>8, <1>9, <1>10 DEF RouterPart!Inv

(* the first call the server holds is served next *)
LEMMA RouterGets ==
    ASSUME RouterPart!Inv, RouterPart!Getline
    PROVE  RouterPart!Inv'
<1> USE DEF RouterPart!client
<1> DEFINE all == IF v4 = <<>> THEN v3 ELSE v4
           n == Len(all)
<1>1. RouterPart!TypeOK /\ RouterPart!Served /\ RouterPart!Truthful
  BY DEF RouterPart!Inv
<1>2. /\ v5 = "getline" /\ all # <<>>
      /\ v6' = Head(all) /\ v4' = Tail(all)
      /\ v3' = IF v4 = <<>> THEN <<>> ELSE v3
      /\ v11' = RouterPart!NoResult /\ RouterPart!Run("context")
      /\ UNCHANGED <<v1, v13, v14>>
  BY DEF RouterPart!Getline
<1>3. /\ v5' = "reading" /\ v7' = "context"
      /\ v8' = [at |-> "start", left |-> 0, status |-> "none"]
  BY <1>2 DEF RouterPart!Run
<1>4. all \in Seq(1..Calls) /\ v3 \in Seq(1..Calls) /\ v4 \in Seq(1..Calls)
  BY <1>1 DEF RouterPart!TypeOK
<1>5. <<>> \in Seq(1..Calls) /\ DOMAIN <<>> = {}
  BY EmptySeq
<1>6. v1 \in 0..Calls /\ v6 \in 0..v1
  BY <1>1 DEF RouterPart!TypeOK
<1>7. /\ RouterPart!Ascending(all)
      /\ \A i \in DOMAIN all : v6 < all[i] /\ all[i] <= v1
  BY DEF RouterPart!Inv, RouterPart!Queued
<1>8. v4 # <<>> => \A i \in DOMAIN all, j \in DOMAIN v3 : all[i] < v3[j]
  BY DEF RouterPart!Inv, RouterPart!Queued
<1> HIDE DEF all
<1>9. n \in Nat /\ n > 0 /\ DOMAIN all = 1..n /\ Head(all) = all[1]
  BY <1>2, <1>4, LenProperties, EmptySeq
<1>10. /\ Tail(all) \in Seq(1..Calls) /\ DOMAIN Tail(all) = 1..(n - 1)
       /\ \A i \in 1..(n - 1) : Tail(all)[i] = all[i + 1]
  BY <1>2, <1>4, <1>9, HeadTailProperties, LenProperties
<1>11. \A i \in 1..n : all[i] \in 1..Calls
  BY <1>4, <1>9, ElementOfSeq
<1> HIDE DEF n
<1>12. v6' = all[1] /\ v6' \in 1..v1 /\ v6 < v6' /\ v6' \in 1..Calls
  BY <1>2, <1>6, <1>7, <1>9, <1>11
<1>13. RouterPart!TypeOK'
  <2>1. v8' \in [at : {"none", "start", "stdin", "work", "print", "exited"}, left : Nat,
                 status : {"none", "ok", "failed", "killed"}]
    BY <1>3
  <2>2. v3' \in Seq(1..Calls)
    BY <1>2, <1>4, <1>5
  <2>3. v6' \in 0..v1
    BY <1>6, <1>12
  <2> QED
    BY <1>1, <1>2, <1>3, <1>10, <2>1, <2>2, <2>3 DEF RouterPart!TypeOK
<1>14. RouterPart!Served' /\ RouterPart!Truthful'
  BY <1>1, <1>2, <1>3, <1>12
     DEF RouterPart!Served, RouterPart!Serving, RouterPart!Truthful, RouterPart!OkMeansDone,
         RouterPart!Answered, RouterPart!NoResult
<1>15. RouterPart!Queued'
  <2>1. \A i, j \in 1..n : i < j => all[i] < all[j]
    BY <1>7, <1>9 DEF RouterPart!Ascending
  <2>2. \A i \in 1..(n - 1) : v4'[i] = all[i + 1] /\ i + 1 \in 1..n /\ 1 < i + 1
    BY <1>2, <1>9, <1>10
  <2>3. DOMAIN v4' = 1..(n - 1) /\ 1 \in 1..n
    BY <1>2, <1>9, <1>10
  <2>4. RouterPart!Ascending(v4)'
    <3> SUFFICES ASSUME NEW i \in 1..(n - 1), NEW j \in 1..(n - 1), i < j
                 PROVE  v4'[i] < v4'[j]
      BY <2>3 DEF RouterPart!Ascending
    <3>1. i + 1 < j + 1
      BY <1>9
    <3> QED
      BY <3>1, <2>1, <2>2
  <2>5. \A i \in DOMAIN v4' : v6' < v4'[i] /\ v4'[i] <= v1
    BY <2>1, <2>2, <2>3, <1>7, <1>9, <1>12
  <2>6. CASE v4 = <<>>
    <3>1. DOMAIN v3' = {}
      BY <2>6, <1>2, <1>5
    <3>2. RouterPart!Ascending(v3)'
      BY <3>1 DEF RouterPart!Ascending
    <3>3. (\A c \in RouterPart!Answered : c <= v6 /\ (RouterPart!Serving => c < v6))'
      BY <1>2, <1>6, <1>12 DEF RouterPart!Inv, RouterPart!Queued, RouterPart!Answered
    <3> QED
      BY <1>2, <2>4, <2>5, <3>1, <3>2, <3>3 DEF RouterPart!Queued
  <2>7. CASE v4 # <<>>
    <3>1. v3' = v3 /\ DOMAIN v3 = 1..Len(v3) /\ \A j \in DOMAIN v3 : v3[j] \in 1..Calls
      BY <2>7, <1>2, <1>4, LenProperties, ElementOfSeq
    <3>2. RouterPart!Ascending(v3)'
      BY <3>1 DEF RouterPart!Inv, RouterPart!Queued, RouterPart!Ascending
    <3>3. \A j \in DOMAIN v3 : v6' < v3[j] /\ v3[j] <= v1
      BY <2>3, <2>7, <1>8, <1>9, <1>12 DEF RouterPart!Inv, RouterPart!Queued
    <3>4. \A i \in DOMAIN v4', j \in DOMAIN v3 : v4'[i] < v3[j]
      BY <2>2, <2>3, <2>7, <1>8, <1>9
    <3>5. (\A c \in RouterPart!Answered : c <= v6 /\ (RouterPart!Serving => c < v6))'
      BY <1>2, <1>6, <1>12 DEF RouterPart!Inv, RouterPart!Queued, RouterPart!Answered
    <3> QED
      BY <1>2, <2>4, <2>5, <3>1, <3>2, <3>3, <3>4, <3>5 DEF RouterPart!Queued
  <2> QED
    BY <2>6, <2>7
<1>16. RouterPart!Kept'
  <2> SUFFICES ASSUME NEW b \in 1..v1
               PROVE  \/ b \in RouterPart!Answered
                      \/ b = v6'
                      \/ \E i \in DOMAIN v4' : v4'[i] = b
                      \/ \E i \in DOMAIN v3' : v3'[i] = b
                      \/ RouterPart!Lost(b)'
    BY <1>2, <1>3 DEF RouterPart!Kept, RouterPart!Answered, RouterPart!Serving
  <2>1. \/ b \in RouterPart!Answered
        \/ \E i \in DOMAIN v4 : v4[i] = b
        \/ \E i \in DOMAIN v3 : v3[i] = b
        \/ RouterPart!Lost(b)
    BY <1>2 DEF RouterPart!Inv, RouterPart!Kept, RouterPart!Serving
  <2>2. RouterPart!Lost(b) => RouterPart!Lost(b)'
    <3>1. v7 # "tool"
      BY <1>1, <1>2 DEF RouterPart!Served
    <3> QED
      BY <1>2, <3>1 DEF RouterPart!Lost
  <2>3. ASSUME NEW i \in DOMAIN all
        PROVE  all[i] = v6' \/ \E j \in DOMAIN v4' : v4'[j] = all[i]
    <3>1. CASE i = 1
      BY <3>1, <1>12
    <3>2. CASE i # 1
      <4>1. i - 1 \in 1..(n - 1) /\ (i - 1) + 1 = i
        BY <3>2, <1>9
      <4> QED
        BY <4>1, <1>2, <1>10
    <3> QED
      BY <3>1, <3>2
  <2>4. \/ b \in RouterPart!Answered
        \/ \E i \in DOMAIN all : all[i] = b
        \/ \E i \in DOMAIN v3' : v3'[i] = b
        \/ RouterPart!Lost(b)
    <3>1. CASE v4 = <<>>
      BY <3>1, <2>1, <1>5 DEF all
    <3>2. CASE v4 # <<>>
      BY <3>2, <2>1, <1>2 DEF all
    <3> QED
      BY <3>1, <3>2
  <2> QED
    BY <2>2, <2>3, <2>4
<1> QED
  BY <1>13, <1>14, <1>15, <1>16 DEF RouterPart!Inv

LEMMA RouterStep ==
    ASSUME RouterPart!Inv, [RouterPart!Next]_(RouterPart!vars)
    PROVE  RouterPart!Inv'
<1>1. CASE RouterPart!Next
  BY <1>1, RouterSends, RouterWaits, RouterChildReads, RouterChildWorks, RouterEnds,
     RouterReplies, RouterGets
     DEF RouterPart!Next, RouterPart!Server, RouterPart!Child
<1>2. CASE UNCHANGED RouterPart!vars
  <2>1. UNCHANGED <<v1, v3, v4, v5, v6, v7, v8, v11, v13, v14>>
    BY <1>2 DEF RouterPart!vars
  <2>2. RouterPart!TypeOK' /\ RouterPart!Served' /\ RouterPart!Truthful'
    BY <2>1
       DEF RouterPart!Inv, RouterPart!TypeOK, RouterPart!Served, RouterPart!Serving,
           RouterPart!Truthful, RouterPart!OkMeansDone, RouterPart!Answered
  <2>3. RouterPart!Serving' <=> RouterPart!Serving
    BY <2>1 DEF RouterPart!Serving
  <2> QED
    BY <2>1, <2>2, <2>3, RouterStays DEF RouterPart!Inv
<1> QED
  BY <1>1, <1>2

LEMMA RouterStart ==
    ASSUME RouterPart!Init
    PROVE  RouterPart!Inv
<1> USE RouterAssumption DEF RouterPart!Init
<1>1. <<>> \in Seq(1..Calls) /\ DOMAIN <<>> = {}
  BY EmptySeq
<1>2. RouterPart!TypeOK
  BY <1>1 DEF RouterPart!TypeOK, RouterPart!NoChild
<1>3. RouterPart!Served /\ RouterPart!Truthful
  BY DEF RouterPart!Served, RouterPart!Serving, RouterPart!Truthful, RouterPart!OkMeansDone,
         RouterPart!Answered, RouterPart!NoChild, RouterPart!NoResult
<1>4. RouterPart!Queued /\ RouterPart!Kept
  BY <1>1 DEF RouterPart!Queued, RouterPart!Ascending, RouterPart!Answered, RouterPart!Kept
<1> QED
  BY <1>2, <1>3, <1>4 DEF RouterPart!Inv

LEMMA RouterHolds ==
    ASSUME RouterPart!Inv
    PROVE  RouterPart!OkMeansDone /\ RouterPart!InOrder
<1>1. RouterPart!OkMeansDone
  BY DEF RouterPart!Inv, RouterPart!Truthful
<1>2. ASSUME NEW c \in RouterPart!Answered, NEW b \in 1..(c - 1)
      PROVE  b \in RouterPart!Answered \/ RouterPart!Swallowed(b)
  <2>1. v1 \in 0..Calls /\ v6 \in 0..v1 /\ c \in 1..Calls
    BY DEF RouterPart!Inv, RouterPart!TypeOK, RouterPart!Answered
  <2>2. c <= v6 /\ b < v6 /\ b \in 1..v1
    BY <2>1, RouterAssumption DEF RouterPart!Inv, RouterPart!Queued
  <2>3. /\ \A i \in DOMAIN v4 : v6 < v4[i]
        /\ \A i \in DOMAIN v3 : v6 < v3[i]
    BY DEF RouterPart!Inv, RouterPart!Queued
  <2>4. b \in RouterPart!Answered \/ RouterPart!Lost(b)
    BY <2>1, <2>2, <2>3 DEF RouterPart!Inv, RouterPart!Kept
  <2>5. RouterPart!Lost(b) => RouterPart!Swallowed(b)
    <3> SUFFICES ASSUME NEW d \in Bodiless, d < b,
                        v14[d] # "none" \/ d = v6
                 PROVE  RouterPart!Swallowed(b)
      BY DEF RouterPart!Lost
    <3>1. d \in 1..Calls
      BY RouterAssumption
    <3>2. d # v6
      BY <3>1, <2>1, <2>2
    <3> QED
      BY <3>2 DEF RouterPart!Swallowed
  <2> QED
    BY <2>4, <2>5
<1> QED
  BY <1>1, <1>2 DEF RouterPart!InOrder

(***************************************************************************)
(* A call that is answered ok was carried out, and calls are answered in   *)
(* their order unless a child read one from stdin (router.c), however many *)
(* calls a client sends.                                                   *)
(***************************************************************************)
THEOREM RouterIsTrue == Spec => []RouterTrue
<1> DEFINE I == part = "router" => RouterPart!Inv
<1>1. Init => I
  BY RouterStart DEF Init
<1>2. I /\ [Next]_vars => I'
  BY RouterStep DEF Next, vars, RouterPart!vars
<1>3. I => RouterTrue
  BY RouterHolds DEF RouterTrue
<1> QED
  BY <1>1, <1>2, <1>3, PTL DEF Spec

-----------------------------------------------------------------------------
(* Ws *)

LEMMA WsCardinality ==
    \A S : /\ WsPart!Cardinality(S) = Cardinality(S)
           /\ WsPart!IsFiniteSet(S) <=> IsFiniteSet(S)
<1>1. \A S : WsPart!Cardinality(S) = Cardinality(S)
  BY Zenon DEF WsPart!Cardinality, Cardinality
<1>2. \A S : WsPart!IsFiniteSet(S) <=> IsFiniteSet(S)
  BY Zenon DEF WsPart!IsFiniteSet, IsFiniteSet
<1> QED
  BY Zenon, <1>1, <1>2

(* the least of some numbers *)
LEMMA Least ==
    ASSUME NEW S \in SUBSET Nat, S # {}
    PROVE  \E m \in S : \A n \in S : m <= n
<1> DEFINE T == {0..(n - 1) : n \in S}
           R == StrictSubsetOrdering(Nat)
           F == FiniteSubsetsOf(Nat)
<1>1. IsWellFoundedOn(R, F)
  BY FS_StrictSubsetOrderingWellFounded
<1>2. T \subseteq F /\ T # {}
  <2>1. \A n \in S : IsFiniteSet(0..(n - 1)) /\ 0..(n - 1) \in SUBSET Nat
    BY FS_Interval
  <2> QED BY <2>1 DEF FiniteSubsetsOf
<1>3. PICK x \in T : \A y \in T : <<y, x>> \notin R
  <2> HIDE DEF R, F, T
  <2> QED BY <1>1, <1>2, WFMin
<1>4. PICK m \in S : x = 0..(m - 1)
  OBVIOUS
<1>5. ASSUME NEW n \in S, n < m PROVE FALSE
  <2>1. 0..(n - 1) \subseteq x /\ n \in x /\ n \notin 0..(n - 1)
    BY <1>4, <1>5
  <2>2. x \in SUBSET Nat /\ 0..(n - 1) \in SUBSET Nat
    BY <1>4
  <2>3. <<0..(n - 1), x>> \in R
    BY <2>1, <2>2 DEF StrictSubsetOrdering
  <2> QED BY <1>3, <2>3
<1> QED BY <1>5

(* ws_remove takes an entry with the number, if there is one *)
LEMMA FirstEntry ==
    ASSUME WsPart!TypeOK, NEW f, f \in WsPart!ToSet(v5)
    PROVE  WsPart!EntryOf(f) \in 1..Len(v5) /\ v5[WsPart!EntryOf(f)] = f
<1>1. Len(v5) \in Nat /\ DOMAIN v5 = 1..Len(v5)
  BY LenProperties DEF WsPart!TypeOK
<1> DEFINE S == {i \in 1..Len(v5) : v5[i] = f}
<1>2. S \in SUBSET Nat /\ S # {}
  BY <1>1 DEF WsPart!ToSet
<1>3. PICK m \in S : \A n \in S : m <= n
  BY <1>2, Least
<1>4. m \in DOMAIN v5 /\ v5[m] = f /\ \A j \in 1..(m - 1) : v5[j] # f
  <2>1. m \in 1..Len(v5) /\ v5[m] = f
    BY <1>1
  <2>2. ASSUME NEW j \in 1..(m - 1), v5[j] = f
        PROVE  FALSE
    <3>1. j \in S /\ j < m
      BY <1>1, <2>1, <2>2
    <3> QED
      BY <3>1, <2>1, <1>1, <1>3
  <2> QED
    BY <1>1, <2>1, <2>2
<1> HIDE DEF S
<1> QED
  BY <1>1, <1>4 DEF WsPart!EntryOf

(* the list without one entry: the others, each in a place of its own *)
LEMMA Removed ==
    ASSUME NEW S, NEW s \in Seq(S), NEW k \in 1..Len(s), NEW r, r = WsPart!RemoveAt(s, k)
    PROVE  /\ r \in Seq(S)
           /\ \A i \in DOMAIN r : \E a \in DOMAIN s : a # k /\ r[i] = s[a]
           /\ \A a \in DOMAIN s : a # k => \E i \in DOMAIN r : r[i] = s[a]
           /\ \A i, j \in DOMAIN r : i # j =>
                \E a, b \in DOMAIN s : a # b /\ r[i] = s[a] /\ r[j] = s[b]
<1> DEFINE n == Len(s)
           p == SubSeq(s, 1, k - 1)
           q == SubSeq(s, k + 1, n)
           t == p \o q
<1>1. n \in Nat /\ DOMAIN s = 1..n /\ \A i \in 1..n : s[i] \in S
  BY LenProperties, ElementOfSeq
<1>2. /\ p \in Seq(S) /\ Len(p) = k - 1
      /\ \A i \in 1..(k - 1) : p[i] = s[i]
  <2>1. \A i \in 1..(k - 1) : s[i] \in S
    BY <1>1
  <2> QED
    BY <1>1, <2>1, SubSeqProperties
<1>3. /\ q \in Seq(S) /\ Len(q) = n - k
      /\ \A i \in 1..(n - k) : q[i] = s[k + i]
  <2> DEFINE m == k + 1
  <2>1. m \in Int /\ n \in Int /\ \A i \in m..n : s[i] \in S
    BY <1>1
  <2>2. n - m + 1 = n - k /\ \A i \in 1..(n - k) : m + i - 1 = k + i
    BY <1>1
  <2>3. ~(m <= n) => n - k = 0
    <3>1. k \in 1..n
      OBVIOUS
    <3> HIDE DEF n
    <3> QED
      BY <3>1, <1>1
  <2> HIDE DEF m, n
  <2>4. /\ SubSeq(s, m, n) \in Seq(S)
        /\ Len(SubSeq(s, m, n)) = IF m <= n THEN n - m + 1 ELSE 0
        /\ \A i \in 1..(n - m + 1) : SubSeq(s, m, n)[i] = s[m + i - 1]
    BY <2>1, SubSeqProperties
  <2> QED
    BY <2>2, <2>3, <2>4 DEF m
<1> HIDE DEF p, q
<1>4. /\ t \in Seq(S) /\ Len(t) = n - 1
      /\ \A i \in 1..(n - 1) : t[i] = IF i <= k - 1 THEN p[i] ELSE q[i - (k - 1)]
  <2>1. Len(p) + Len(q) = n - 1
    BY <1>1, <1>2, <1>3
  <2>2. /\ t \in Seq(S) /\ Len(t) = Len(p) + Len(q)
        /\ \A i \in 1..(Len(p) + Len(q)) : t[i] = IF i <= Len(p) THEN p[i] ELSE q[i - Len(p)]
    BY <1>2, <1>3, ConcatProperties
  <2> HIDE DEF t, n
  <2> QED
    BY <1>2, <2>1, <2>2
<1> HIDE DEF t, n
<1> DEFINE at(i) == IF i < k THEN i ELSE i + 1
<1>5. DOMAIN t = 1..(n - 1)
  BY <1>4, LenProperties
<1>6. ASSUME NEW i \in 1..(n - 1)
      PROVE  at(i) \in 1..n /\ at(i) # k /\ t[i] = s[at(i)]
  <2>1. CASE i < k
    <3>1. at(i) = i
      BY <2>1
    <3>2. i \in 1..n /\ i # k /\ i \in 1..(k - 1)
      BY <2>1, <1>1
    <3>3. t[i] = p[i] /\ p[i] = s[i]
      BY <3>2, <1>2, <1>4
    <3> QED
      BY <3>1, <3>2, <3>3
  <2>2. CASE ~(i < k)
    <3>1. t[i] = q[i - (k - 1)] /\ i - (k - 1) \in 1..(n - k) /\ k + (i - (k - 1)) = i + 1
      BY <2>2, <1>1, <1>4
    <3> QED
      BY <2>2, <3>1, <1>1, <1>3
  <2> QED
    BY <2>1, <2>2
<1>7. ASSUME NEW a \in 1..n, a # k
      PROVE  \E i \in 1..(n - 1) : t[i] = s[a]
  <2>1. CASE a < k
    <3>1. a \in 1..(n - 1) /\ at(a) = a
      BY <2>1, <1>1
    <3> QED
      BY <3>1, <1>6
  <2>2. CASE a > k
    <3>1. a - 1 \in 1..(n - 1) /\ at(a - 1) = a
      BY <2>2, <1>1
    <3> QED
      BY <3>1, <1>6
  <2> QED
    BY <1>7, <2>1, <2>2, <1>1
<1>8. \A i, j \in 1..(n - 1) : i # j => at(i) # at(j)
  BY <1>1
<1> HIDE DEF at
<1>9. r = t
  BY DEF WsPart!RemoveAt, t, p, q, n
<1>10. \A i \in DOMAIN t : \E a \in DOMAIN s : a # k /\ t[i] = s[a]
  BY <1>1, <1>5, <1>6
<1>11. \A a \in DOMAIN s : a # k => \E i \in DOMAIN t : t[i] = s[a]
  BY <1>1, <1>5, <1>7
<1>12. \A i, j \in DOMAIN t : i # j =>
         \E a, b \in DOMAIN s : a # b /\ t[i] = s[a] /\ t[j] = s[b]
  BY <1>1, <1>5, <1>6, <1>8
<1> QED
  BY <1>4, <1>9, <1>10, <1>11, <1>12

WsThread == [pc : WsPart!Listed \cup {"none", "join", "close", "gone"},
             on : WsConns \cup {NoConn}, ack : Nat]

(* a step of a thread that only moves it on *)
LEMMA WsGoes ==
    ASSUME WsPart!TypeOK, NEW c \in WsConns, NEW p,
           p \in WsPart!Listed \cup {"join", "close", "gone"}, WsPart!Goto(c, p)
    PROVE  /\ v4' \in [WsConns -> WsThread]
           /\ v4'[c] = [pc |-> p, on |-> NoConn, ack |-> 0]
           /\ \A d \in WsConns \ {c} : v4'[d] = v4[d]
<1>1. v4 \in [WsConns -> WsThread]
  BY DEF WsPart!TypeOK, WsThread
<1>2. v4' = [v4 EXCEPT ![c] = [pc |-> p, on |-> NoConn, ack |-> 0]]
  BY DEF WsPart!Goto, WsPart!Thread
<1>3. [pc |-> p, on |-> NoConn, ack |-> 0] \in WsThread
  BY DEF WsThread
<1> QED
  BY <1>1, <1>2, <1>3

(* the connections, their numbers and threads *)
LEMMA WsConnects ==
    ASSUME WsPart!Inv, NEW c \in WsConns, WsPart!Connect(c)
    PROVE  WsPart!Inv'
<1> USE WsAssumption DEF WsPart!history, WsPart!broadcaster
<1>1. WsPart!TypeOK /\ WsPart!Numbered /\ WsPart!Acknowledged /\ WsPart!Registered
  BY DEF WsPart!Inv
<1>2. PICK f \in WsFds :
        /\ v1[f] = NoConn /\ v1' = [v1 EXCEPT ![f] = c] /\ v2' = [v2 EXCEPT ![c] = f]
  BY DEF WsPart!Connect
<1>3. /\ v3[c] = "new" /\ v3' = [v3 EXCEPT ![c] = "up"] /\ WsPart!Goto(c, "join")
      /\ UNCHANGED <<v5, v6, v7, v8, v9, v10, v11>>
  BY DEF WsPart!Connect
<1>4. /\ v4' \in [WsConns -> WsThread]
      /\ v4'[c] = [pc |-> "join", on |-> NoConn, ack |-> 0]
      /\ \A d \in WsConns \ {c} : v4'[d] = v4[d]
  BY <1>1, <1>3, WsGoes
<1>5. WsPart!TypeOK'
  BY <1>1, <1>2, <1>3, <1>4 DEF WsPart!TypeOK, WsThread, WsPart!Listed
<1>6. v2[c] = 0 /\ f # 0 /\ c \notin v9
  BY <1>1, <1>2, <1>3 DEF WsPart!Numbered
<1>7. /\ v2'[c] = f /\ v3'[c] = "up" /\ v1'[f] = c
      /\ \A d \in WsConns \ {c} : v2'[d] = v2[d] /\ v3'[d] = v3[d]
      /\ \A g \in WsFds \ {f} : v1'[g] = v1[g]
  BY <1>1, <1>2, <1>3 DEF WsPart!TypeOK
<1>8. WsPart!Numbered'
  <2>1. ASSUME NEW d \in WsConns
        PROVE  (/\ (v2[d] = 0) <=> (v3[d] = "new")
                /\ (v2[d] = 0) <=> (v4[d].pc = "none")
                /\ v4[d].pc = "recv" => v4[d].on # NoConn
                /\ v4[d].on # NoConn => v2[d] # 0 /\ v2[v4[d].on] = v2[d])'
    <3>1. CASE d = c
      BY <3>1, <1>4, <1>6, <1>7
    <3>2. CASE d # c
      <4>1. v4[d].on # NoConn => v4[d].on \in WsConns \ {c}
        BY <1>1, <1>6 DEF WsPart!Numbered, WsPart!TypeOK
      <4> QED
        BY <3>2, <4>1, <1>1, <1>4, <1>7 DEF WsPart!Numbered
    <3> QED
      BY <3>1, <3>2
  <2>2. ASSUME NEW g \in WsFds, v1'[g] # NoConn
        PROVE  v2'[v1'[g]] = g
    <3>1. CASE g = f
      BY <3>1, <1>7
    <3>2. CASE g # f
      <4>1. v1[g] \in WsConns /\ v2[v1[g]] = g /\ g # 0
        <5>1. v1[g] # NoConn /\ v1[g] \in WsConns
          BY <3>2, <2>2, <1>1, <1>7 DEF WsPart!TypeOK
        <5> QED
          BY <5>1, <1>1 DEF WsPart!Numbered
      <4> QED
        BY <3>2, <4>1, <1>6, <1>7
    <3> QED
      BY <3>1, <3>2
  <2>3. \A d \in v9' : v2'[d] # 0
    BY <1>1, <1>3, <1>6, <1>7 DEF WsPart!Numbered, WsPart!TypeOK
  <2> QED
    BY <2>1, <2>2, <2>3 DEF WsPart!Numbered
<1>9. WsPart!Acknowledged'
  <2>1. WsPart!Reached' = WsPart!Reached
    <3>1. v9' = v9 /\ \A d \in v9 : v2'[d] = v2[d]
      BY <1>1, <1>3, <1>6, <1>7 DEF WsPart!TypeOK
    <3> QED
      BY <3>1 DEF WsPart!Reached
  <2>2. ASSUME NEW d \in WsConns
        PROVE  (/\ v4[d].ack <= v8
                /\ v4[d].pc = "note" /\ v4[d].ack = v8 => v10 \/ v2[d] \in WsPart!Reached)'
    <3>1. CASE d = c
      BY <3>1, <1>1, <1>3, <1>4 DEF WsPart!TypeOK
    <3>2. CASE d # c
      BY <3>2, <2>1, <1>1, <1>3, <1>4, <1>7 DEF WsPart!Acknowledged
    <3> QED
      BY <3>1, <3>2
  <2> QED
    BY <2>1, <2>2, <1>1, <1>3 DEF WsPart!Acknowledged
<1>10. WsPart!Registered'
  <2>1. ASSUME NEW d \in WsConns, v2'[d] \notin v11'
        PROVE  (/\ v4[d].pc \in WsPart!Listed \cup {"join", "close"} => v1[v2[d]] = d
                /\ v4[d].pc \in WsPart!Listed => \E i \in DOMAIN v5 : v5[i] = v2[d])'
    <3>1. CASE d = c
      BY <3>1, <1>4, <1>7 DEF WsPart!Listed
    <3>2. CASE d # c
      <4>1. v4[d].pc \in WsPart!Listed \cup {"join", "close"} => v1[v2[d]] = d /\ v2[d] # f
        BY <3>2, <2>1, <1>1, <1>2, <1>3, <1>7 DEF WsPart!Registered
      <4>2. v4[d].pc \in WsPart!Listed \cup {"join", "close"} => v2[d] \in WsFds
        BY <1>1 DEF WsPart!Numbered, WsPart!TypeOK, WsPart!Listed
      <4>3. v4[d].pc \in WsPart!Listed => \E i \in DOMAIN v5 : v5[i] = v2[d]
        BY <3>2, <2>1, <1>1, <1>3, <1>7 DEF WsPart!Registered
      <4>4. v4'[d] = v4[d] /\ v2'[d] = v2[d] /\ v5' = v5
        BY <3>2, <1>3, <1>4, <1>7
      <4> QED
        BY <4>1, <4>2, <4>3, <4>4, <1>7
    <3> QED
      BY <3>1, <3>2
  <2>2. ASSUME NEW i \in DOMAIN v5, v5[i] \notin v11
        PROVE  \E d \in WsConns : v4'[d].pc \in WsPart!Listed /\ v2'[d] = v5[i]
    <3>1. PICK d \in WsConns : v4[d].pc \in WsPart!Listed /\ v2[d] = v5[i]
      BY <2>2, <1>1 DEF WsPart!Registered
    <3>2. d # c
      BY <3>1, <1>1, <1>6 DEF WsPart!Numbered, WsPart!Listed
    <3> QED
      BY <3>1, <3>2, <1>4, <1>7
  <2> QED
    BY <2>1, <2>2, <1>1, <1>3 DEF WsPart!Registered
<1> QED
  BY <1>5, <1>8, <1>9, <1>10 DEF WsPart!Inv

(* what each conjunct needs of a step that gives no number out *)
LEMMA WsNumbersStay ==
    ASSUME WsPart!Inv, UNCHANGED v2, v4' \in [WsConns -> WsThread],
           \A d \in WsConns :
             /\ v3'[d] = "new" <=> v3[d] = "new"
             /\ v4'[d].pc = "none" <=> v4[d].pc = "none"
             /\ v4'[d].pc = "recv" => v4'[d].on # NoConn
             /\ \/ v4'[d].on \in {NoConn, v4[d].on}
                \/ v2[d] \in WsFds /\ v4'[d].on = v1[v2[d]],
           \A f \in WsFds : v1'[f] \in {v1[f], NoConn},
           \A d \in v9' : d \in v9 \/ \E f \in WsFds : d = v1[f] /\ d # NoConn
    PROVE  WsPart!Numbered'
<1> USE WsAssumption
<1>1. WsPart!TypeOK /\ WsPart!Numbered
  BY DEF WsPart!Inv
<1>2. \A f \in WsFds : v1[f] # NoConn => v2[v1[f]] = f /\ f # 0
  BY <1>1 DEF WsPart!Numbered
<1>3. ASSUME NEW d \in WsConns, v4'[d].on # NoConn
      PROVE  v2[d] # 0 /\ v2[v4'[d].on] = v2[d]
  <2>1. CASE v4'[d].on = v4[d].on
    BY <2>1, <1>1, <1>3 DEF WsPart!Numbered
  <2>2. CASE v2[d] \in WsFds /\ v4'[d].on = v1[v2[d]]
    BY <2>2, <1>2, <1>3
  <2> QED
    BY <2>1, <2>2, <1>3
<1>4. \A f \in WsFds : v1'[f] # NoConn => v2[v1'[f]] = f
  BY <1>2
<1>5. \A d \in v9' : v2[d] # 0
  BY <1>1, <1>2 DEF WsPart!Numbered
<1> QED
  BY <1>1, <1>3, <1>4, <1>5 DEF WsPart!Numbered

LEMMA WsAcksStay ==
    ASSUME WsPart!Inv, UNCHANGED <<v2, v6, v7, v8, v9, v10>>,
           \A d \in WsConns :
             v4'[d] = v4[d] \/ (v4'[d].pc # "note" /\ v4'[d].ack \in {0, v4[d].ack})
    PROVE  WsPart!Acknowledged'
<1>1. WsPart!TypeOK /\ WsPart!Acknowledged
  BY DEF WsPart!Inv
<1>2. WsPart!Reached' = WsPart!Reached
  BY DEF WsPart!Reached
<1>3. ASSUME NEW d \in WsConns
      PROVE  (/\ v4[d].ack <= v8
              /\ v4[d].pc = "note" /\ v4[d].ack = v8 => v10 \/ v2[d] \in WsPart!Reached)'
  BY <1>1, <1>2 DEF WsPart!Acknowledged, WsPart!TypeOK
<1> QED
  BY <1>1, <1>2, <1>3 DEF WsPart!Acknowledged

LEMMA WsListStays ==
    ASSUME WsPart!Inv, UNCHANGED <<v1, v2, v5, v11>>,
           \A d \in WsConns :
             \/ v4'[d].pc = v4[d].pc
             \/ v4'[d].pc \in WsPart!Listed /\ v4[d].pc \in WsPart!Listed
    PROVE  WsPart!Registered'
<1>1. WsPart!Registered
  BY DEF WsPart!Inv
<1>2. \A d \in WsConns :
        /\ v4'[d].pc \in WsPart!Listed <=> v4[d].pc \in WsPart!Listed
        /\ v4'[d].pc \in WsPart!Listed \cup {"join", "close"} <=>
             v4[d].pc \in WsPart!Listed \cup {"join", "close"}
  OBVIOUS
<1> QED
  BY <1>1, <1>2 DEF WsPart!Registered

(* the thread reads, and the other end goes *)
LEMMA WsReads ==
    ASSUME WsPart!Inv, NEW c \in WsConns,
           WsPart!HangUp(c) \/ WsPart!Recv(c) \/ WsPart!Eof(c) \/ WsPart!CloseFrame(c)
    PROVE  WsPart!Inv'
<1> USE WsAssumption DEF WsPart!history, WsPart!broadcaster, WsPart!net
<1>1. WsPart!TypeOK /\ WsPart!Numbered
  BY DEF WsPart!Inv
<1>2. UNCHANGED <<v1, v2, v5, v6, v7, v8, v9, v10, v11>>
  BY DEF WsPart!HangUp, WsPart!Recv, WsPart!Eof, WsPart!CloseFrame
<1>3. /\ v3' \in [WsConns -> {"new", "up", "down"}]
      /\ \A d \in WsConns : v3'[d] = "new" <=> v3[d] = "new"
  <2>1. v3' = v3 \/ \E d \in WsConns : v3[d] = "up" /\ v3' = [v3 EXCEPT ![d] = "down"]
    <3>1. v4[c].pc = "recv" => v4[c].on \in WsConns
      BY <1>1 DEF WsPart!Numbered, WsPart!TypeOK
    <3> QED
      BY <3>1 DEF WsPart!HangUp, WsPart!Recv, WsPart!Eof, WsPart!CloseFrame, WsPart!At
  <2> QED
    BY <2>1, <1>1 DEF WsPart!TypeOK
<1>4. /\ v4' \in [WsConns -> WsThread]
      /\ \A d \in WsConns \ {c} : v4'[d] = v4[d]
      /\ \/ v4'[c] = v4[c]
         \/ /\ v4[c].pc \in WsPart!Listed /\ v4'[c].pc \in WsPart!Listed
            /\ v4'[c].pc # "note" /\ v4'[c].ack \in {0, v4[c].ack}
            /\ v4'[c].pc = "recv" => v4'[c].on # NoConn
            /\ \/ v4'[c].on = NoConn
               \/ v2[c] \in WsFds /\ v4'[c].on = v1[v2[c]]
  <2>1. CASE WsPart!HangUp(c)
    BY <2>1, <1>1 DEF WsPart!HangUp, WsPart!TypeOK, WsThread
  <2>2. CASE WsPart!Recv(c)
    <3>1. v4[c].pc = "top" /\ v2[c] \in WsFds
      BY <2>2, <1>1 DEF WsPart!Recv, WsPart!At, WsPart!Numbered, WsPart!TypeOK
    <3> DEFINE on == v1[v2[c]]
               p == IF on = NoConn THEN "out" ELSE "recv"
    <3>2. on \in WsConns \cup {NoConn} /\ v4 \in [WsConns -> WsThread]
      BY <3>1, <1>1 DEF WsPart!TypeOK, WsThread
    <3>3. v4' = [v4 EXCEPT ![c].pc = p, ![c].on = on]
      BY <2>2 DEF WsPart!Recv
    <3>4. p \in WsPart!Listed /\ p # "note" /\ (p = "recv" => on # NoConn)
      BY DEF WsPart!Listed
    <3> HIDE DEF on, p
    <3>5. /\ v4'[c].pc = p /\ v4'[c].on = on /\ v4'[c].ack = v4[c].ack
          /\ \A d \in WsConns \ {c} : v4'[d] = v4[d]
          /\ v4' \in [WsConns -> WsThread]
      <4> DEFINE l == [v4[c] EXCEPT !.pc = p, !.on = on]
      <4>1. v4' = [v4 EXCEPT ![c] = l]
        BY <3>3
      <4>2. l \in WsThread /\ l.pc = p /\ l.on = on /\ l.ack = v4[c].ack
        BY <3>2, <3>4 DEF WsThread
      <4> HIDE DEF l
      <4> QED
        BY <3>2, <4>1, <4>2
    <3>6. v4[c].pc \in WsPart!Listed
      BY <3>1 DEF WsPart!Listed
    <3> QED
      BY <3>1, <3>4, <3>5, <3>6 DEF on
  <2>3. CASE WsPart!Eof(c) \/ WsPart!CloseFrame(c)
    <3>1. v4[c].pc = "recv" /\ WsPart!Goto(c, "out")
      BY <2>3 DEF WsPart!Eof, WsPart!CloseFrame, WsPart!At
    <3>2. {"out", "recv"} \subseteq WsPart!Listed
      BY DEF WsPart!Listed
    <3>3. /\ v4' \in [WsConns -> WsThread]
          /\ v4'[c] = [pc |-> "out", on |-> NoConn, ack |-> 0]
          /\ \A d \in WsConns \ {c} : v4'[d] = v4[d]
      BY <3>1, <3>2, <1>1, WsGoes
    <3> QED
      BY <3>1, <3>2, <3>3
  <2> QED
    BY <2>1, <2>2, <2>3
<1>5. WsPart!TypeOK'
  BY <1>1, <1>2, <1>3, <1>4 DEF WsPart!TypeOK, WsThread
<1>6. WsPart!Numbered'
  <2>1. \A d \in WsConns :
          /\ v4'[d].pc = "none" <=> v4[d].pc = "none"
          /\ v4'[d].pc = "recv" => v4'[d].on # NoConn
          /\ \/ v4'[d].on \in {NoConn, v4[d].on}
             \/ v2[d] \in WsFds /\ v4'[d].on = v1[v2[d]]
    BY <1>1, <1>4 DEF WsPart!Numbered, WsPart!Listed
  <2> QED
    BY <1>2, <1>3, <1>4, <2>1, WsNumbersStay
<1>7. WsPart!Acknowledged'
  BY <1>2, <1>4, WsAcksStay
<1>8. WsPart!Registered'
  BY <1>2, <1>4, WsListStays
<1> QED
  BY <1>5, <1>6, <1>7, <1>8 DEF WsPart!Inv

(* an acknowledgement is read, and counted once for its number *)
LEMMA WsAckRead ==
    ASSUME WsPart!Inv, NEW c \in WsConns, WsPart!AckFrame(c)
    PROVE  WsPart!Inv'
<1> USE WsAssumption DEF WsPart!history, WsPart!broadcaster, WsPart!net
<1>1. WsPart!TypeOK /\ WsPart!Numbered /\ WsPart!Acknowledged
  BY DEF WsPart!Inv
<1>2. /\ v4[c].pc = "recv" /\ UNCHANGED <<v1, v2, v3, v5, v6, v7, v8, v9, v11>>
      /\ v10' = (v10 \/ v4[c].on \notin v9)
      /\ v4' = [v4 EXCEPT ![c] = [pc |-> "note", on |-> NoConn, ack |-> v8]]
  <2>1. v4[c].pc = "recv" /\ v10' = (v10 \/ v4[c].on \notin v9)
    BY Zenon DEF WsPart!AckFrame, WsPart!At
  <2>2. UNCHANGED <<v1, v2, v3, v5, v6, v7, v8, v9, v11>>
    BY DEF WsPart!AckFrame
  <2>3. [WsPart!Thread("note") EXCEPT !.ack = v8] = [pc |-> "note", on |-> NoConn, ack |-> v8]
    BY DEF WsPart!Thread
  <2>4. v4' = [v4 EXCEPT ![c] = [pc |-> "note", on |-> NoConn, ack |-> v8]]
    BY Zenon, <2>3 DEF WsPart!AckFrame
  <2> QED
    BY Zenon, <2>1, <2>2, <2>3, <2>4
<1>3. /\ v4' \in [WsConns -> WsThread]
      /\ v4'[c] = [pc |-> "note", on |-> NoConn, ack |-> v8]
      /\ \A d \in WsConns \ {c} : v4'[d] = v4[d]
  <2>1. [pc |-> "note", on |-> NoConn, ack |-> v8] \in WsThread /\ v4 \in [WsConns -> WsThread]
    BY <1>1 DEF WsPart!TypeOK, WsThread, WsPart!Listed
  <2> QED
    BY <2>1, <1>2
<1>4. {"recv", "note"} \subseteq WsPart!Listed
  BY DEF WsPart!Listed
<1>5. v10' \in BOOLEAN /\ (v10 => v10') /\ (~v10' => v4[c].on \in v9)
  BY Zenon, <1>2
<1>6. WsPart!TypeOK'
  BY <1>1, <1>2, <1>3, <1>5 DEF WsPart!TypeOK, WsThread
<1>7. WsPart!Numbered'
  <2>1. \A d \in WsConns :
          /\ v4'[d].pc = "none" <=> v4[d].pc = "none"
          /\ v4'[d].pc = "recv" => v4'[d].on # NoConn
          /\ v4'[d].on \in {NoConn, v4[d].on}
    BY <1>1, <1>2, <1>3 DEF WsPart!Numbered
  <2> QED
    BY <1>2, <1>3, <2>1, WsNumbersStay
<1>8. WsPart!Acknowledged'
  <2>1. WsPart!Reached' = WsPart!Reached
    BY <1>2 DEF WsPart!Reached
  <2>2. v4[c].on \in v9 => v2[c] \in WsPart!Reached
    BY <1>1, <1>2 DEF WsPart!Numbered, WsPart!Reached
  <2>3. ASSUME NEW d \in WsConns
        PROVE  (/\ v4[d].ack <= v8
                /\ v4[d].pc = "note" /\ v4[d].ack = v8 => v10 \/ v2[d] \in WsPart!Reached)'
    <3>1. CASE d = c
      <4>1. v10' \/ v2[c] \in WsPart!Reached
        BY <1>5, <2>2
      <4>2. v8 <= v8
        BY <1>1 DEF WsPart!TypeOK
      <4> QED
        BY <3>1, <4>1, <4>2, <2>1, <1>2, <1>3
    <3>2. CASE d # c
      BY <3>2, <2>1, <1>1, <1>2, <1>3, <1>5 DEF WsPart!Acknowledged
    <3> QED
      BY <3>1, <3>2
  <2> QED
    BY <2>1, <2>3, <1>1, <1>2, <1>5 DEF WsPart!Acknowledged
<1>9. WsPart!Registered'
  BY <1>2, <1>3, <1>4, WsListStays
<1> QED
  BY <1>6, <1>7, <1>8, <1>9 DEF WsPart!Inv

LEMMA WsAckNoted ==
    ASSUME WsPart!Inv, NEW c \in WsConns, WsPart!NoteAck(c)
    PROVE  WsPart!Inv'
<1> USE WsAssumption DEF WsPart!history, WsPart!broadcaster, WsPart!net
<1>1. WsPart!TypeOK /\ WsPart!Numbered /\ WsPart!Acknowledged
  BY DEF WsPart!Inv
<1>2. /\ v4[c].pc = "note" /\ UNCHANGED <<v1, v2, v3, v5, v6, v8, v9, v10, v11>>
      /\ WsPart!Goto(c, "top")
      /\ v7' = v7 \/ (v4[c].ack = v8 /\ v7' = WsPart!Counted(v2[c]))
  BY DEF WsPart!NoteAck, WsPart!At, WsPart!Pending
<1>3. {"note", "top"} \subseteq WsPart!Listed
  BY DEF WsPart!Listed
<1>4. /\ v4' \in [WsConns -> WsThread]
      /\ v4'[c] = [pc |-> "top", on |-> NoConn, ack |-> 0]
      /\ \A d \in WsConns \ {c} : v4'[d] = v4[d]
  BY <1>1, <1>2, <1>3, WsGoes
<1>5. v2[c] \in WsFds
  BY <1>1, <1>2 DEF WsPart!TypeOK, WsPart!Numbered
<1>6. WsPart!Reached' = WsPart!Reached
  BY <1>2 DEF WsPart!Reached
<1>7. /\ v7' \in [fds : SUBSET WsFds, n : Nat]
      /\ v10 \/ v7'.fds \subseteq WsPart!Reached
      /\ IsFiniteSet(v7'.fds) /\ v7'.n = Cardinality(v7'.fds)
  <2>1. /\ v7 \in [fds : SUBSET WsFds, n : Nat] /\ (v10 \/ v7.fds \subseteq WsPart!Reached)
        /\ IsFiniteSet(v7.fds) /\ v7.n = Cardinality(v7.fds)
    BY <1>1, WsCardinality DEF WsPart!TypeOK, WsPart!Acknowledged
  <2>2. CASE v7' = v7
    BY <2>1, <2>2
  <2>3. CASE v4[c].ack = v8 /\ v7' = WsPart!Counted(v2[c])
    <3>1. v7' = [fds |-> v7.fds \cup {v2[c]},
                 n |-> IF v2[c] \in v7.fds THEN v7.n ELSE v7.n + 1]
      BY <2>3 DEF WsPart!Counted
    <3>2. /\ IsFiniteSet(v7.fds \cup {v2[c]})
          /\ Cardinality(v7.fds \cup {v2[c]}) =
               IF v2[c] \in v7.fds THEN Cardinality(v7.fds) ELSE Cardinality(v7.fds) + 1
      BY <2>1, FS_AddElement
    <3>3. v10 \/ v2[c] \in WsPart!Reached
      BY <2>3, <1>1, <1>2 DEF WsPart!Acknowledged
    <3>4. v7'.fds = v7.fds \cup {v2[c]} /\ v7'.n = Cardinality(v7.fds \cup {v2[c]})
      BY <2>1, <3>1, <3>2
    <3>5. v7' \in [fds : SUBSET WsFds, n : Nat]
      BY <2>1, <3>1, <1>5
    <3> QED
      BY <2>1, <3>2, <3>3, <3>4, <3>5
  <2> QED
    BY <1>2, <2>2, <2>3
<1>8. WsPart!TypeOK'
  BY <1>1, <1>2, <1>4, <1>7 DEF WsPart!TypeOK, WsThread
<1>9. WsPart!Numbered'
  <2>1. \A d \in WsConns :
          /\ v4'[d].pc = "none" <=> v4[d].pc = "none"
          /\ v4'[d].pc = "recv" => v4'[d].on # NoConn
          /\ v4'[d].on \in {NoConn, v4[d].on}
    BY <1>1, <1>2, <1>4 DEF WsPart!Numbered
  <2> QED
    BY <1>2, <1>4, <2>1, WsNumbersStay
<1>10. WsPart!Acknowledged'
  <2>1. ASSUME NEW d \in WsConns
        PROVE  (/\ v4[d].ack <= v8
                /\ v4[d].pc = "note" /\ v4[d].ack = v8 => v10 \/ v2[d] \in WsPart!Reached)'
    <3>1. CASE d = c
      BY <3>1, <1>1, <1>2, <1>4 DEF WsPart!TypeOK
    <3>2. CASE d # c
      BY <3>2, <1>1, <1>2, <1>4, <1>6 DEF WsPart!Acknowledged
    <3> QED
      BY <3>1, <3>2
  <2> QED
    BY <2>1, <1>1, <1>2, <1>6, <1>7, WsCardinality DEF WsPart!Acknowledged
<1>11. WsPart!Registered'
  BY <1>2, <1>3, <1>4, WsListStays
<1> QED
  BY <1>8, <1>9, <1>10, <1>11 DEF WsPart!Inv

(* the list when an entry is taken off *)
LEMMA WsListRemoved ==
    ASSUME v5 \in Seq(WsFds), NEW k \in 1..Len(v5), v5' = WsPart!RemoveAt(v5, k)
    PROVE  /\ v5' \in Seq(WsFds)
           /\ \A i \in DOMAIN v5' : \E a \in DOMAIN v5 : a # k /\ v5'[i] = v5[a]
           /\ \A a \in DOMAIN v5 : a # k => \E i \in DOMAIN v5' : v5'[i] = v5[a]
           /\ \A i, j \in DOMAIN v5' : i # j =>
                \E a, b \in DOMAIN v5 : a # b /\ v5'[i] = v5[a] /\ v5'[j] = v5[b]
<1>1. v5' \in Seq(WsFds)
  BY Removed
<1>2. \A i \in DOMAIN v5' : \E a \in DOMAIN v5 : a # k /\ v5'[i] = v5[a]
  BY Removed
<1>3. \A a \in DOMAIN v5 : a # k => \E i \in DOMAIN v5' : v5'[i] = v5[a]
  BY Removed
<1>4. \A i, j \in DOMAIN v5' : i # j =>
         \E a, b \in DOMAIN v5 : a # b /\ v5'[i] = v5[a] /\ v5'[j] = v5[b]
  BY Removed
<1> QED
  BY <1>1, <1>2, <1>3, <1>4

(* a thread puts its number on the list, where it was not *)
LEMMA WsJoins ==
    ASSUME WsPart!Inv, NEW c \in WsConns, WsPart!Join(c)
    PROVE  WsPart!Inv'
<1> USE WsAssumption DEF WsPart!history, WsPart!broadcaster, WsPart!net
<1>1. WsPart!TypeOK /\ WsPart!Numbered /\ WsPart!Registered
  BY DEF WsPart!Inv
<1>2. /\ v4[c].pc = "join" /\ v5' = <<v2[c]>> \o v5
      /\ UNCHANGED <<v1, v2, v3, v6, v7, v8, v9, v10, v11>> /\ WsPart!Goto(c, "top")
  BY DEF WsPart!Join, WsPart!At
<1>3. "top" \in WsPart!Listed /\ "join" \notin WsPart!Listed
  BY DEF WsPart!Listed
<1>4. /\ v4' \in [WsConns -> WsThread]
      /\ v4'[c] = [pc |-> "top", on |-> NoConn, ack |-> 0]
      /\ \A d \in WsConns \ {c} : v4'[d] = v4[d]
  BY <1>1, <1>2, <1>3, WsGoes
<1>5. v2[c] \in WsFds
  BY <1>1, <1>2 DEF WsPart!TypeOK, WsPart!Numbered
<1> DEFINE f == v2[c]
<1>6. v5 \in Seq(WsFds) /\ Len(v5) \in Nat /\ DOMAIN v5 = 1..Len(v5)
  BY <1>1, LenProperties DEF WsPart!TypeOK
<1>7. /\ v5' \in Seq(WsFds) /\ DOMAIN v5' = 1..(Len(v5) + 1)
      /\ v5'[1] = f
      /\ \A i \in 1..Len(v5) : v5'[i + 1] = v5[i]
  <2> HIDE DEF f
  <2>1. <<f>> \in Seq(WsFds) /\ Len(<<f>>) = 1 /\ <<f>>[1] = f
    BY <1>5 DEF f
  <2>2. v5' = <<f>> \o v5
    BY <1>2 DEF f
  <2>3. /\ v5' \in Seq(WsFds) /\ Len(v5') = 1 + Len(v5)
        /\ \A i \in 1..(1 + Len(v5)) : v5'[i] = IF i <= 1 THEN <<f>>[i] ELSE v5[i - 1]
    BY <1>6, <2>1, <2>2, ConcatProperties
  <2>4. DOMAIN v5' = 1..(Len(v5) + 1)
    BY <1>6, <2>3, LenProperties
  <2>5. v5'[1] = f
    BY <1>6, <2>1, <2>3
  <2>6. \A i \in 1..Len(v5) : v5'[i + 1] = v5[i]
    BY <1>6, <2>3
  <2> QED
    BY <2>3, <2>4, <2>5, <2>6
<1>8. WsPart!TypeOK'
  BY <1>1, <1>2, <1>4, <1>7 DEF WsPart!TypeOK, WsThread
<1>9. WsPart!Numbered'
  <2>1. \A d \in WsConns :
          /\ v4'[d].pc = "none" <=> v4[d].pc = "none"
          /\ v4'[d].pc = "recv" => v4'[d].on # NoConn
          /\ v4'[d].on \in {NoConn, v4[d].on}
    BY <1>1, <1>2, <1>4 DEF WsPart!Numbered
  <2> QED
    BY <1>2, <1>4, <2>1, WsNumbersStay
<1>10. WsPart!Acknowledged'
  BY <1>2, <1>4, WsAcksStay
<1>11. \A i \in 1..Len(v5) : v5[i] = f => f \in v11
  <2> SUFFICES ASSUME NEW i \in 1..Len(v5), v5[i] = f, f \notin v11
               PROVE  FALSE
    OBVIOUS
  <2>1. PICK d \in WsConns : v4[d].pc \in WsPart!Listed /\ v2[d] = f
    BY <1>1, <1>6 DEF WsPart!Registered
  <2>2. v1[f] = d /\ v1[f] = c
    BY <2>1, <1>1, <1>2 DEF WsPart!Registered
  <2> QED
    BY <2>1, <2>2, <1>2, <1>3
<1>12. WsPart!Registered'
  <2>1. ASSUME NEW d \in WsConns, v2[d] \notin v11
        PROVE  /\ v4'[d].pc \in WsPart!Listed \cup {"join", "close"} => v1[v2[d]] = d
               /\ v4'[d].pc \in WsPart!Listed => \E i \in DOMAIN v5' : v5'[i] = v2[d]
    <3>1. CASE d = c
      <4>1. 1 \in DOMAIN v5' /\ v5'[1] = v2[d]
        BY <3>1, <1>6, <1>7
      <4> QED
        BY <3>1, <4>1, <2>1, <1>1, <1>2 DEF WsPart!Registered
    <3>2. CASE d # c
      <4>1. v4'[d] = v4[d]
        BY <3>2, <1>4
      <4>2. ASSUME v4[d].pc \in WsPart!Listed
            PROVE  \E i \in DOMAIN v5' : v5'[i] = v2[d]
        <5>1. PICK i \in 1..Len(v5) : v5[i] = v2[d]
          BY <4>2, <2>1, <1>1, <1>6 DEF WsPart!Registered
        <5>2. i + 1 \in DOMAIN v5' /\ v5'[i + 1] = v2[d]
          BY <5>1, <1>6, <1>7
        <5> QED
          BY <5>2
      <4> QED
        BY <4>1, <4>2, <2>1, <1>1 DEF WsPart!Registered
    <3> QED
      BY <3>1, <3>2
  <2>2. \A i \in DOMAIN v5' : i = 1 \/ (i - 1 \in 1..Len(v5) /\ v5'[i] = v5[i - 1])
    <3> SUFFICES ASSUME NEW i \in DOMAIN v5', i # 1
                 PROVE  i - 1 \in 1..Len(v5) /\ v5'[i] = v5[i - 1]
      OBVIOUS
    <3>1. i - 1 \in 1..Len(v5) /\ i = (i - 1) + 1
      BY <1>6, <1>7
    <3>2. v5'[(i - 1) + 1] = v5[i - 1]
      BY <3>1, <1>7
    <3> QED
      BY <3>1, <3>2
  <2>3. ASSUME NEW i \in DOMAIN v5', v5'[i] \notin v11
        PROVE  \E d \in WsConns : v4'[d].pc \in WsPart!Listed /\ v2[d] = v5'[i]
    <3>1. CASE i = 1
      BY <3>1, <1>3, <1>4, <1>7
    <3>2. CASE i # 1
      <4>1. PICK d \in WsConns : v4[d].pc \in WsPart!Listed /\ v2[d] = v5[i - 1]
        BY <3>2, <2>2, <2>3, <1>1, <1>6 DEF WsPart!Registered
      <4>2. d # c
        BY <4>1, <1>2, <1>3
      <4> QED
        BY <4>1, <4>2, <3>2, <2>2, <1>4
    <3> QED
      BY <3>1, <3>2
  <2>4. ASSUME NEW i \in DOMAIN v5', NEW j \in DOMAIN v5', v5'[i] = v5'[j]
        PROVE  i = j \/ v5'[i] \in v11
    <3>1. CASE i = 1 \/ j = 1
      BY <3>1, <2>2, <2>4, <1>7, <1>11
    <3>2. CASE i # 1 /\ j # 1
      <4>1. i - 1 \in 1..Len(v5) /\ j - 1 \in 1..Len(v5) /\ v5[i - 1] = v5[j - 1]
        BY <3>2, <2>2, <2>4
      <4>2. i - 1 = j - 1 \/ v5[i - 1] \in v11
        BY <4>1, <1>1, <1>6 DEF WsPart!Registered
      <4>3. i \in Int /\ j \in Int
        BY <1>6, <1>7
      <4> QED
        BY <4>2, <4>3, <3>2, <2>2
    <3> QED
      BY <3>1, <3>2
  <2> HIDE DEF f
  <2> QED
    BY <2>1, <2>3, <2>4, <1>2 DEF WsPart!Registered
<1> QED
  BY <1>8, <1>9, <1>10, <1>12 DEF WsPart!Inv

(* a thread that is not listed any more takes its entry off, and no other *)
LEMMA WsLeaves ==
    ASSUME WsPart!Inv, NEW c \in WsConns, WsPart!Leave(c)
    PROVE  WsPart!Inv'
<1> USE WsAssumption DEF WsPart!history, WsPart!broadcaster, WsPart!net
<1>1. WsPart!TypeOK /\ WsPart!Numbered /\ WsPart!Registered
  BY DEF WsPart!Inv
<1>2. /\ v4[c].pc = "out" /\ UNCHANGED <<v1, v2, v3, v6, v7, v8, v9, v10, v11>>
      /\ \/ /\ v2[c] \in WsPart!ToSet(v5) /\ v5' = WsPart!RemoveAt(v5, WsPart!EntryOf(v2[c]))
            /\ WsPart!Goto(c, "close")
         \/ v2[c] \notin WsPart!ToSet(v5) /\ v5' = v5 /\ WsPart!Goto(c, "gone")
  BY DEF WsPart!Leave, WsPart!At, WsPart!Without
<1>3. "out" \in WsPart!Listed /\ WsPart!Listed \cap {"close", "gone", "none", "recv"} = {"recv"}
  BY DEF WsPart!Listed
<1>4. PICK p \in {"close", "gone"} :
        /\ v4' \in [WsConns -> WsThread]
        /\ v4'[c] = [pc |-> p, on |-> NoConn, ack |-> 0]
        /\ \A d \in WsConns \ {c} : v4'[d] = v4[d]
  <2>1. PICK p \in {"close", "gone"} : WsPart!Goto(c, p)
    BY <1>2
  <2>2. p \in WsPart!Listed \cup {"join", "close", "gone"}
    OBVIOUS
  <2> QED
    BY <2>1, <2>2, <1>1, WsGoes
<1>5. WsPart!Numbered'
  <2>1. \A d \in WsConns :
          /\ v4'[d].pc = "none" <=> v4[d].pc = "none"
          /\ v4'[d].pc = "recv" => v4'[d].on # NoConn
          /\ v4'[d].on \in {NoConn, v4[d].on}
    BY <1>1, <1>2, <1>4 DEF WsPart!Numbered
  <2> QED
    BY <1>2, <1>4, <2>1, WsNumbersStay
<1>6. WsPart!Acknowledged'
  BY <1>2, <1>4, WsAcksStay
<1>7. ASSUME NEW d \in WsConns, v2[d] \notin v11,
             v4'[d].pc \in WsPart!Listed \cup {"join", "close"}
      PROVE  v1[v2[d]] = d /\ (d # c => v2[d] # v2[c])
  <2>1. v4[d].pc \in WsPart!Listed \cup {"join", "close"}
    BY <1>2, <1>3, <1>4, <1>7
  <2>2. v1[v2[d]] = d
    BY <2>1, <1>1, <1>7 DEF WsPart!Registered
  <2>3. v2[c] \notin v11 => v1[v2[c]] = c
    BY <1>1, <1>2, <1>3 DEF WsPart!Registered
  <2> QED
    BY <2>2, <2>3, <1>7
<1>8. CASE v2[c] \in WsPart!ToSet(v5) /\ v5' = WsPart!RemoveAt(v5, WsPart!EntryOf(v2[c]))
  <2>1. v5 \in Seq(WsFds) /\ DOMAIN v5 = 1..Len(v5)
    BY <1>1, LenProperties DEF WsPart!TypeOK
  <2>2. PICK k \in 1..Len(v5) : v5[k] = v2[c] /\ v5' = WsPart!RemoveAt(v5, k)
    BY <1>1, <1>8, FirstEntry
  <2>3. /\ v5' \in Seq(WsFds)
        /\ \A i \in DOMAIN v5' : \E a \in DOMAIN v5 : a # k /\ v5'[i] = v5[a]
        /\ \A a \in DOMAIN v5 : a # k => \E i \in DOMAIN v5' : v5'[i] = v5[a]
        /\ \A i, j \in DOMAIN v5' : i # j =>
             \E a, b \in DOMAIN v5 : a # b /\ v5'[i] = v5[a] /\ v5'[j] = v5[b]
    BY <2>1, <2>2, WsListRemoved
  <2>4. WsPart!TypeOK'
    BY <1>1, <1>2, <1>4, <2>3 DEF WsPart!TypeOK, WsThread
  <2>5. ASSUME NEW d \in WsConns, v2[d] \notin v11, v4'[d].pc \in WsPart!Listed
        PROVE  \E i \in DOMAIN v5' : v5'[i] = v2[d]
    <3>1. d # c /\ v4'[d] = v4[d]
      BY <1>3, <1>4, <2>5
    <3>2. PICK a \in DOMAIN v5 : v5[a] = v2[d]
      BY <3>1, <1>1, <2>5 DEF WsPart!Registered
    <3>3. a # k
      BY <3>1, <3>2, <1>7, <2>2, <2>5
    <3> QED
      BY <3>2, <3>3, <2>3
  <2>6. ASSUME NEW i \in DOMAIN v5', v5'[i] \notin v11
        PROVE  \E d \in WsConns : v4'[d].pc \in WsPart!Listed /\ v2[d] = v5'[i]
    <3>1. PICK a \in DOMAIN v5 : a # k /\ v5'[i] = v5[a]
      BY <2>3
    <3>2. PICK d \in WsConns : v4[d].pc \in WsPart!Listed /\ v2[d] = v5[a]
      BY <3>1, <2>6, <1>1 DEF WsPart!Registered
    <3>3. d # c
      BY <3>1, <3>2, <2>1, <2>2, <2>6, <1>1 DEF WsPart!Registered
    <3> QED
      BY <3>1, <3>2, <3>3, <1>4
  <2>7. ASSUME NEW i \in DOMAIN v5', NEW j \in DOMAIN v5', v5'[i] = v5'[j]
        PROVE  i = j \/ v5'[i] \in v11
    BY <2>3, <2>7, <1>1 DEF WsPart!Registered
  <2>8. WsPart!Registered'
    BY <1>2, <1>7, <2>5, <2>6, <2>7 DEF WsPart!Registered
  <2> QED
    BY <2>4, <2>8, <1>5, <1>6 DEF WsPart!Inv
<1>9. CASE v2[c] \notin WsPart!ToSet(v5) /\ v5' = v5
  <2>1. v2[c] \in v11
    BY <1>1, <1>2, <1>3, <1>9 DEF WsPart!Registered, WsPart!ToSet
  <2>2. WsPart!TypeOK'
    BY <1>1, <1>2, <1>4, <1>9 DEF WsPart!TypeOK, WsThread
  <2>3. ASSUME NEW i \in DOMAIN v5, v5[i] \notin v11
        PROVE  \E d \in WsConns : v4'[d].pc \in WsPart!Listed /\ v2[d] = v5[i]
    BY <1>1, <1>4, <2>1, <2>3 DEF WsPart!Registered
  <2>4. ASSUME NEW d \in WsConns, v2[d] \notin v11, v4'[d].pc \in WsPart!Listed
        PROVE  \E i \in DOMAIN v5 : v5[i] = v2[d]
    BY <1>1, <1>3, <1>4, <2>4 DEF WsPart!Registered
  <2>5. WsPart!Registered'
    BY <1>1, <1>2, <1>7, <1>9, <2>3, <2>4 DEF WsPart!Registered
  <2> QED
    BY <2>2, <2>5, <1>5, <1>6 DEF WsPart!Inv
<1> QED
  BY <1>2, <1>8, <1>9

(* a thread closes its number, which nobody else has unless the broadcaster closed it *)
LEMMA WsCloses ==
    ASSUME WsPart!Inv, NEW c \in WsConns, WsPart!Close(c)
    PROVE  WsPart!Inv'
<1> USE WsAssumption DEF WsPart!history, WsPart!broadcaster, WsPart!net
<1>1. WsPart!TypeOK /\ WsPart!Numbered /\ WsPart!Registered
  BY DEF WsPart!Inv
<1>2. /\ v4[c].pc = "close" /\ UNCHANGED <<v2, v3, v5, v6, v7, v8, v9, v10, v11>>
      /\ v1' = [v1 EXCEPT ![v2[c]] = NoConn] /\ WsPart!Goto(c, "gone")
  BY DEF WsPart!Close, WsPart!At
<1>3. WsPart!Listed \cap {"close", "gone"} = {}
  BY DEF WsPart!Listed
<1>4. /\ v4' \in [WsConns -> WsThread]
      /\ v4'[c] = [pc |-> "gone", on |-> NoConn, ack |-> 0]
      /\ \A d \in WsConns \ {c} : v4'[d] = v4[d]
  BY <1>1, <1>2, WsGoes
<1>5. \A f \in WsFds : v1'[f] = IF f = v2[c] THEN NoConn ELSE v1[f]
  BY <1>1, <1>2 DEF WsPart!TypeOK
<1>6. WsPart!TypeOK'
  BY <1>1, <1>2, <1>4 DEF WsPart!TypeOK, WsThread
<1>7. WsPart!Numbered'
  <2>1. \A d \in WsConns :
          /\ v4'[d].pc = "none" <=> v4[d].pc = "none"
          /\ v4'[d].pc = "recv" => v4'[d].on # NoConn
          /\ v4'[d].on \in {NoConn, v4[d].on}
    BY <1>1, <1>2, <1>4 DEF WsPart!Numbered
  <2>2. \A f \in WsFds : v1'[f] \in {v1[f], NoConn}
    BY <1>5
  <2> QED
    BY <1>2, <1>4, <2>1, <2>2, WsNumbersStay
<1>8. WsPart!Acknowledged'
  BY <1>2, <1>4, WsAcksStay
<1>9. ASSUME NEW d \in WsConns, v2[d] \notin v11
      PROVE  /\ v4'[d].pc \in WsPart!Listed \cup {"join", "close"} => v1'[v2[d]] = d
             /\ v4'[d].pc \in WsPart!Listed => \E i \in DOMAIN v5 : v5[i] = v2[d]
  <2>1. CASE d = c
    BY <2>1, <1>3, <1>4
  <2>2. CASE d # c
    <3>1. v4'[d] = v4[d]
      BY <2>2, <1>4
    <3>2. ASSUME v4[d].pc \in WsPart!Listed \cup {"join", "close"}
          PROVE  v1'[v2[d]] = d
      <4>1. v1[v2[d]] = d
        BY <3>2, <1>1, <1>9 DEF WsPart!Registered
      <4>2. v2[d] # v2[c]
        BY <4>1, <2>2, <1>1, <1>2, <1>9 DEF WsPart!Registered
      <4>3. v2[d] \in WsFds
        BY <3>2, <1>1 DEF WsPart!Numbered, WsPart!TypeOK, WsPart!Listed
      <4> QED
        BY <4>1, <4>2, <4>3, <1>5
    <3> QED
      BY <3>1, <3>2, <1>1, <1>9 DEF WsPart!Registered
  <2> QED
    BY <2>1, <2>2
<1>10. WsPart!Registered'
  <2>1. ASSUME NEW i \in DOMAIN v5, v5[i] \notin v11
        PROVE  \E d \in WsConns : v4'[d].pc \in WsPart!Listed /\ v2[d] = v5[i]
    <3>1. PICK d \in WsConns : v4[d].pc \in WsPart!Listed /\ v2[d] = v5[i]
      BY <2>1, <1>1 DEF WsPart!Registered
    <3>2. d # c
      BY <3>1, <1>2, <1>3
    <3> QED
      BY <3>1, <3>2, <1>4
  <2> QED
    BY <2>1, <1>1, <1>2, <1>9 DEF WsPart!Registered
<1> QED
  BY <1>6, <1>7, <1>8, <1>10 DEF WsPart!Inv

(* the broadcaster closes a number and forgets the entry it was at *)
LEMMA WsForgets ==
    ASSUME WsPart!Inv, WsPart!SendFails
    PROVE  WsPart!Inv'
<1> USE WsAssumption DEF WsPart!history, WsPart!broadcaster, WsPart!net
<1>1. WsPart!TypeOK /\ WsPart!Numbered /\ WsPart!Registered
  BY DEF WsPart!Inv
<1>2. v5 \in Seq(WsFds) /\ Len(v5) \in Nat /\ DOMAIN v5 = 1..Len(v5)
  BY <1>1, LenProperties DEF WsPart!TypeOK
<1>3. PICK k \in 1..Len(v5) :
        /\ v5' = WsPart!RemoveAt(v5, k)
        /\ v1' = [v1 EXCEPT ![v5[k]] = NoConn] /\ v11' = v11 \cup {v5[k]}
  <2>1. v6.next \in 1..Len(v5)
    BY <1>1, <1>2 DEF WsPart!SendFails, WsPart!TypeOK
  <2> QED
    BY <2>1 DEF WsPart!SendFails, WsPart!Target
<1>4. UNCHANGED <<v2, v3, v4, v6, v7, v8, v9, v10>>
  BY DEF WsPart!SendFails
<1>5. /\ v5' \in Seq(WsFds)
      /\ \A i \in DOMAIN v5' : \E a \in DOMAIN v5 : a # k /\ v5'[i] = v5[a]
      /\ \A a \in DOMAIN v5 : a # k => \E i \in DOMAIN v5' : v5'[i] = v5[a]
      /\ \A i, j \in DOMAIN v5' : i # j =>
           \E a, b \in DOMAIN v5 : a # b /\ v5'[i] = v5[a] /\ v5'[j] = v5[b]
  BY <1>2, <1>3, WsListRemoved
<1>6. v4 \in [WsConns -> WsThread]
  BY <1>1 DEF WsPart!TypeOK, WsThread
<1>7. v5[k] \in WsFds
  BY <1>2, ElementOfSeq
<1>8. \A f \in WsFds : v1'[f] = IF f = v5[k] THEN NoConn ELSE v1[f]
  BY <1>1, <1>3 DEF WsPart!TypeOK
<1>9. WsPart!TypeOK'
  BY <1>1, <1>3, <1>4, <1>5 DEF WsPart!TypeOK
<1>10. WsPart!Numbered'
  <2>1. \A f \in WsFds : v1'[f] \in {v1[f], NoConn}
    BY <1>8
  <2>2. \A d \in WsConns : v4[d].pc = "recv" => v4[d].on # NoConn
    BY <1>1 DEF WsPart!Numbered
  <2> QED
    BY <1>4, <1>6, <2>1, <2>2, WsNumbersStay
<1>11. WsPart!Acknowledged'
  BY <1>4, WsAcksStay
<1>12. ASSUME NEW d \in WsConns, v2[d] \notin v11'
       PROVE  /\ v4[d].pc \in WsPart!Listed \cup {"join", "close"} => v1'[v2[d]] = d
              /\ v4[d].pc \in WsPart!Listed => \E i \in DOMAIN v5' : v5'[i] = v2[d]
  <2>1. v2[d] \notin v11 /\ v2[d] # v5[k]
    BY <1>3, <1>12
  <2>2. ASSUME v4[d].pc \in WsPart!Listed \cup {"join", "close"}
        PROVE  v1'[v2[d]] = d
    <3>1. v2[d] \in WsFds
      BY <2>2, <1>1 DEF WsPart!Numbered, WsPart!TypeOK, WsPart!Listed
    <3> QED
      BY <2>1, <2>2, <3>1, <1>1, <1>8 DEF WsPart!Registered
  <2>3. ASSUME v4[d].pc \in WsPart!Listed
        PROVE  \E i \in DOMAIN v5' : v5'[i] = v2[d]
    <3>1. PICK a \in DOMAIN v5 : v5[a] = v2[d]
      BY <2>1, <2>3, <1>1 DEF WsPart!Registered
    <3> QED
      BY <3>1, <2>1, <1>5
  <2> QED
    BY <2>2, <2>3
<1>13. ASSUME NEW i \in DOMAIN v5', v5'[i] \notin v11'
       PROVE  \E d \in WsConns : v4[d].pc \in WsPart!Listed /\ v2[d] = v5'[i]
  <2>1. PICK a \in DOMAIN v5 : v5'[i] = v5[a]
    BY <1>5
  <2>2. v5[a] \notin v11
    BY <2>1, <1>3, <1>13
  <2> QED
    BY <2>1, <2>2, <1>1 DEF WsPart!Registered
<1>14. ASSUME NEW i \in DOMAIN v5', NEW j \in DOMAIN v5', v5'[i] = v5'[j]
       PROVE  i = j \/ v5'[i] \in v11'
  <2>1. CASE i # j
    <3>1. PICK a \in DOMAIN v5, b \in DOMAIN v5 : a # b /\ v5'[i] = v5[a] /\ v5'[j] = v5[b]
      BY <2>1, <1>5
    <3>2. v5[a] \in v11
      BY <3>1, <1>1, <1>14 DEF WsPart!Registered
    <3> QED
      BY <3>1, <3>2, <1>3
  <2> QED
    BY <2>1
<1>15. WsPart!Registered'
  BY <1>4, <1>12, <1>13, <1>14 DEF WsPart!Registered
<1> QED
  BY <1>9, <1>10, <1>11, <1>15 DEF WsPart!Inv

(* the broadcaster begins, and sends the frame to whom it reaches *)
LEMMA WsStarts ==
    ASSUME WsPart!Inv, WsPart!Start
    PROVE  WsPart!Inv'
<1> USE WsAssumption DEF WsPart!history, WsPart!broadcaster, WsPart!net
<1>1. WsPart!TypeOK /\ WsPart!Numbered /\ WsPart!Acknowledged
  BY DEF WsPart!Inv
<1>2. /\ UNCHANGED <<v1, v2, v3, v4, v5, v11>> /\ v6' = [at |-> "send", next |-> 1, total |-> 0]
      /\ v8' = v8 + 1 /\ v7' = [fds |-> {}, n |-> 0] /\ v9' = {} /\ v10' = FALSE
  BY DEF WsPart!Start, WsPart!Idle
<1>3. v4 \in [WsConns -> WsThread] /\ v8 \in Nat
  BY <1>1 DEF WsPart!TypeOK, WsThread
<1>4. IsFiniteSet({}) /\ Cardinality({}) = 0
  BY FS_EmptySet
<1>5. WsPart!TypeOK'
  <2>1. WsPart!IsFiniteSet(v9')
    BY <1>2, <1>4, WsCardinality
  <2>2. v10' \in BOOLEAN
    BY Zenon, <1>2
  <2> QED
    BY <1>1, <1>2, <1>4, <2>1, <2>2 DEF WsPart!TypeOK
<1>6. WsPart!Numbered'
  <2>1. \A d \in WsConns : v4[d].pc = "recv" => v4[d].on # NoConn
    BY <1>1 DEF WsPart!Numbered
  <2> QED
    BY <1>2, <1>3, <2>1, WsNumbersStay
<1>7. WsPart!Acknowledged'
  <2>1. \A d \in WsConns : v4[d].ack \in Nat /\ v4[d].ack <= v8
    BY <1>1, <1>3 DEF WsPart!Acknowledged, WsThread
  <2>2. \A d \in WsConns : v4[d].ack <= v8 + 1 /\ v4[d].ack # v8 + 1
    BY <2>1, <1>3
  <2>3. WsPart!IsFiniteSet({}) /\ WsPart!Cardinality({}) = 0
    BY <1>4, WsCardinality
  <2> QED
    BY <1>2, <2>2, <2>3 DEF WsPart!Acknowledged
<1>8. WsPart!Registered'
  BY <1>2, WsListStays
<1> QED
  BY <1>5, <1>6, <1>7, <1>8 DEF WsPart!Inv

LEMMA WsSends ==
    ASSUME WsPart!Inv, WsPart!Send \/ WsPart!SendLost \/ WsPart!Sent \/ WsPart!Return
    PROVE  WsPart!Inv'
<1> USE WsAssumption DEF WsPart!history, WsPart!broadcaster, WsPart!net
<1>1. WsPart!TypeOK /\ WsPart!Numbered /\ WsPart!Acknowledged
  BY DEF WsPart!Inv
<1>2. UNCHANGED <<v1, v2, v3, v4, v5, v7, v8, v10, v11>>
  BY DEF WsPart!Send, WsPart!SendLost, WsPart!Sent, WsPart!Return
<1>3. v4 \in [WsConns -> WsThread]
  BY <1>1 DEF WsPart!TypeOK, WsThread
<1>4. /\ v6' \in [at : {"idle", "send", "wait"}, next : Nat \ {0}, total : Nat]
      /\ \/ v9' = v9 /\ (v6'.at # "idle" => v6.at # "idle" /\ v6.total <= v6'.total)
         \/ /\ v6.at # "idle" /\ v6'.total = v6.total + 1
            /\ \E f \in WsFds : v1[f] # NoConn /\ v9' = v9 \cup {v1[f]}
  <2>1. v6 \in [at : {"idle", "send", "wait"}, next : Nat \ {0}, total : Nat]
    BY <1>1 DEF WsPart!TypeOK
  <2>2. CASE WsPart!Send
    <3>1. /\ v6.at = "send" /\ v6.next <= Len(v5) /\ v1[v5[v6.next]] # NoConn
          /\ v6' = [v6 EXCEPT !.next = @ + 1, !.total = @ + 1]
          /\ v9' = v9 \cup {v1[v5[v6.next]]}
      BY <2>2 DEF WsPart!Send, WsPart!Reachable, WsPart!Target
    <3>2. v5[v6.next] \in WsFds
      <4>1. v5 \in Seq(WsFds) /\ Len(v5) \in Nat
        BY <1>1, LenProperties DEF WsPart!TypeOK
      <4>2. v6.next \in 1..Len(v5)
        BY <4>1, <2>1, <3>1
      <4> QED
        BY <4>1, <4>2, ElementOfSeq
    <3>3. v6' = [at |-> "send", next |-> v6.next + 1, total |-> v6.total + 1]
      BY <2>1, <3>1
    <3>4. v6' \in [at : {"idle", "send", "wait"}, next : Nat \ {0}, total : Nat]
      BY <2>1, <3>3
    <3> QED
      BY <3>1, <3>2, <3>3, <3>4
  <2>3. CASE WsPart!SendLost
    <3>1. /\ v6.at = "send" /\ v9' = v9
          /\ v6' = [v6 EXCEPT !.next = @ + 1, !.total = @ + 1]
      BY <2>3 DEF WsPart!SendLost
    <3>2. v6' = [at |-> "send", next |-> v6.next + 1, total |-> v6.total + 1]
      BY <2>1, <3>1
    <3>3. v6' \in [at : {"idle", "send", "wait"}, next : Nat \ {0}, total : Nat]
      BY <2>1, <3>2
    <3> QED
      BY <2>1, <3>1, <3>2, <3>3
  <2>4. CASE WsPart!Sent \/ WsPart!Return
    <3>1. /\ v9' = v9
          /\ \/ v6' = [at |-> "idle", next |-> 1, total |-> 0]
             \/ v6.at = "send" /\ v6' = [v6 EXCEPT !.at = "wait"]
      BY <2>4 DEF WsPart!Sent, WsPart!Return, WsPart!Idle
    <3> QED
      BY <2>1, <3>1
  <2> QED
    BY <2>2, <2>3, <2>4
<1>5. /\ v9' \in SUBSET WsConns /\ IsFiniteSet(v9') /\ v9 \subseteq v9'
      /\ v6'.at # "idle" => Cardinality(v9') <= v6'.total
      /\ \A d \in v9' : d \in v9 \/ \E f \in WsFds : d = v1[f] /\ d # NoConn
  <2>1. v9 \in SUBSET WsConns /\ IsFiniteSet(v9) /\ Cardinality(v9) \in Nat /\ v6.total \in Nat
    BY <1>1, WsCardinality, FS_CardinalityType DEF WsPart!TypeOK
  <2>2. v6.at # "idle" => Cardinality(v9) <= v6.total
    BY <1>1, WsCardinality DEF WsPart!Acknowledged
  <2>3. CASE v9' = v9 /\ (v6'.at # "idle" => v6.at # "idle" /\ v6.total <= v6'.total)
    BY <2>1, <2>2, <2>3, <1>4
  <2>4. ASSUME v6.at # "idle", v6'.total = v6.total + 1,
               NEW f \in WsFds, v1[f] # NoConn, v9' = v9 \cup {v1[f]}
        PROVE  <1>5!:
    <3>1. v1[f] \in WsConns
      BY <2>4, <1>1 DEF WsPart!TypeOK
    <3>2. /\ IsFiniteSet(v9 \cup {v1[f]})
          /\ Cardinality(v9 \cup {v1[f]}) =
               IF v1[f] \in v9 THEN Cardinality(v9) ELSE Cardinality(v9) + 1
      BY <2>1, FS_AddElement
    <3>3. Cardinality(v9') <= v6'.total
      BY <2>1, <2>2, <2>4, <3>2
    <3> QED
      BY <2>1, <2>4, <3>1, <3>2, <3>3
  <2> QED
    BY <1>4, <2>3, <2>4
<1>6. WsPart!TypeOK'
  BY <1>1, <1>2, <1>4, <1>5, WsCardinality DEF WsPart!TypeOK
<1>7. WsPart!Numbered'
  <2>1. \A d \in WsConns : v4[d].pc = "recv" => v4[d].on # NoConn
    BY <1>1 DEF WsPart!Numbered
  <2> QED
    BY <1>2, <1>3, <1>5, <2>1, WsNumbersStay
<1>8. WsPart!Acknowledged'
  <2>1. WsPart!Reached \subseteq WsPart!Reached'
    BY <1>2, <1>5 DEF WsPart!Reached
  <2> QED
    BY <2>1, <1>1, <1>2, <1>5, WsCardinality DEF WsPart!Acknowledged
<1>9. WsPart!Registered'
  BY <1>2, WsListStays
<1> QED
  BY <1>6, <1>7, <1>8, <1>9 DEF WsPart!Inv

LEMMA WsStep ==
    ASSUME WsPart!Inv, WsPart!Next \/ UNCHANGED WsPart!vars
    PROVE  WsPart!Inv'
<1>1. CASE WsPart!Start \/ WsPart!Send \/ WsPart!SendLost \/ WsPart!SendFails \/ WsPart!Sent
             \/ WsPart!Return
  BY <1>1, WsStarts, WsSends, WsForgets
<1>2. ASSUME NEW c \in WsConns,
             \/ WsPart!Connect(c) \/ WsPart!HangUp(c) \/ WsPart!Join(c) \/ WsPart!Recv(c)
             \/ WsPart!Eof(c) \/ WsPart!CloseFrame(c) \/ WsPart!AckFrame(c)
             \/ WsPart!NoteAck(c) \/ WsPart!Leave(c) \/ WsPart!Close(c)
      PROVE  WsPart!Inv'
  BY <1>2, WsConnects, WsJoins, WsReads, WsAckRead, WsAckNoted, WsLeaves, WsCloses
<1>3. CASE UNCHANGED WsPart!vars
  BY <1>3 DEF WsPart!vars, WsPart!Inv, WsPart!TypeOK, WsPart!Numbered, WsPart!Acknowledged,
              WsPart!Registered, WsPart!Reached
<1> QED
  BY <1>1, <1>2, <1>3 DEF WsPart!Next

LEMMA WsBegins ==
    ASSUME WsPart!Init
    PROVE  WsPart!Inv
<1> USE WsAssumption DEF WsPart!Init, WsPart!Thread, WsPart!Idle
<1>1. IsFiniteSet({}) /\ Cardinality({}) = 0
  BY FS_EmptySet
<1>2. WsPart!TypeOK
  <2>1. v10 \in BOOLEAN
    BY Zenon
  <2>2. v5 \in Seq(WsFds) /\ v9 \in SUBSET WsConns /\ WsPart!IsFiniteSet(v9)
    BY <1>1, WsCardinality
  <2>3. v4 \in [WsConns -> WsThread]
    BY DEF WsThread
  <2> QED
    BY <2>1, <2>2, <2>3 DEF WsPart!TypeOK, WsThread
<1>3. WsPart!Numbered
  BY DEF WsPart!Numbered
<1>4. WsPart!Acknowledged
  BY <1>1, WsCardinality DEF WsPart!Acknowledged
<1>5. WsPart!Registered
  BY DEF WsPart!Registered, WsPart!Listed
<1> QED
  BY <1>2, <1>3, <1>4, <1>5 DEF WsPart!Inv

(* what the clients can count on *)
LEMMA WsHolds ==
    ASSUME WsPart!Inv
    PROVE  WsPart!StaysRegistered /\ WsPart!AckedWithinTotal
<1> USE WsAssumption
<1>1. WsPart!TypeOK /\ WsPart!Acknowledged /\ WsPart!Registered
  BY DEF WsPart!Inv
<1>2. ASSUME NEW c \in WsConns, v2[c] \notin v11, v4[c].pc \in {"top", "recv", "note", "out"}
      PROVE  /\ v1[v2[c]] = c
             /\ Cardinality({i \in DOMAIN v5 : v5[i] = v2[c]}) = 1
  <2>1. v4[c].pc \in WsPart!Listed
    BY <1>2 DEF WsPart!Listed
  <2>2. PICK i \in DOMAIN v5 : v5[i] = v2[c]
    BY <2>1, <1>1, <1>2 DEF WsPart!Registered
  <2>3. {j \in DOMAIN v5 : v5[j] = v2[c]} = {i}
    BY <2>2, <1>1, <1>2 DEF WsPart!Registered
  <2> QED
    BY <2>1, <2>3, <1>1, <1>2, FS_Singleton DEF WsPart!Registered
<1>3. ASSUME v6.at = "wait", ~v10
      PROVE  v7.n <= Cardinality(v9) /\ v7.n <= v6.total
  <2>1. /\ IsFiniteSet(v9) /\ v7.fds \subseteq WsPart!Reached
        /\ v7.n = Cardinality(v7.fds) /\ Cardinality(v9) <= v6.total
        /\ v7.n \in Nat /\ v6.total \in Nat
    BY <1>1, <1>3, WsCardinality DEF WsPart!TypeOK, WsPart!Acknowledged
  <2>2. /\ IsFiniteSet(WsPart!Reached)
        /\ Cardinality(WsPart!Reached) <= Cardinality(v9)
    <3> DEFINE F == [d \in v9 |-> v2[d]]
    <3>1. F \in Surjection(v9, WsPart!Reached)
      BY DEF Surjection, WsPart!Reached
    <3> HIDE DEF F
    <3> QED
      BY <2>1, <3>1, FS_Surjection
  <2>3. Cardinality(v7.fds) <= Cardinality(WsPart!Reached)
    BY <2>1, <2>2, FS_Subset
  <2>4. Cardinality(v9) \in Nat /\ Cardinality(WsPart!Reached) \in Nat
    BY <2>1, <2>2, FS_CardinalityType
  <2> QED
    BY <2>1, <2>2, <2>3, <2>4
<1>4. WsPart!StaysRegistered
  BY <1>2, WsCardinality DEF WsPart!StaysRegistered
<1>5. WsPart!AckedWithinTotal
  BY <1>3, WsCardinality DEF WsPart!AckedWithinTotal
<1> QED
  BY <1>4, <1>5

(***************************************************************************)
(* A client whose number the broadcaster never closed is on the list, once *)
(* and under a number of its own, while its thread reads; and "acked n/m"  *)
(* counts no more clients than the frame was sent to, unless one did so on *)
(* a connection that it did not arrive on (ws.c of exosched).              *)
(***************************************************************************)
THEOREM ClientsReached == Spec => []WsDelivers
<1> DEFINE I == part = "ws" => WsPart!Inv
<1>1. Init => I
  BY WsBegins DEF Init
<1>2. I /\ [Next]_vars => I'
  BY WsStep DEF Next, vars, WsPart!vars
<1>3. I => WsDelivers
  BY WsHolds DEF WsDelivers
<1> QED
  BY <1>1, <1>2, <1>3, PTL DEF Spec

-----------------------------------------------------------------------------
(* Update *)

LEMMA UpdateStart == UpdatePart!Init => UpdatePart!Inv
  BY DEF UpdatePart!Init, UpdatePart!Inv, UpdatePart!TypeOK, UpdatePart!Stashed,
         UpdatePart!Pulled, UpdatePart!UpdatedIsNewest

(* one command of the update, or a change by somebody else *)
LEMMA UpdateStep ==
    ASSUME UpdatePart!Inv, [UpdatePart!Next]_(UpdatePart!vars)
    PROVE  UpdatePart!Inv'
<1> USE DEF UpdatePart!Inv, UpdatePart!TypeOK, UpdatePart!Stashed, UpdatePart!Pulled,
            UpdatePart!UpdatedIsNewest, UpdatePart!clone, UpdatePart!programs,
            UpdatePart!locals, UpdatePart!Goto, UpdatePart!End, UpdatePart!Fails,
            UpdatePart!AfterPull
<1>1. CASE UpdatePart!Push
  BY <1>1 DEF UpdatePart!Push
<1>2. CASE UpdatePart!Edit
  BY <1>2 DEF UpdatePart!Edit
<1>3. CASE UpdatePart!Commit
  BY <1>3 DEF UpdatePart!Commit
<1>4. CASE UpdatePart!Begin
  BY <1>4 DEF UpdatePart!Begin
<1>5. CASE UpdatePart!Fetch
  BY <1>5 DEF UpdatePart!Fetch
<1>6. CASE UpdatePart!UpToDate
  BY <1>6 DEF UpdatePart!UpToDate
<1>7. CASE UpdatePart!Outdated
  BY <1>7 DEF UpdatePart!Outdated
<1>8. CASE UpdatePart!Stash
  BY <1>8 DEF UpdatePart!Stash
<1>9. CASE UpdatePart!Pull
  BY <1>9 DEF UpdatePart!Pull
<1>10. CASE UpdatePart!PullFails
  BY <1>10 DEF UpdatePart!PullFails
<1>11. CASE UpdatePart!Pop
  BY <1>11 DEF UpdatePart!Pop
<1>12. CASE UpdatePart!Make
  BY <1>12 DEF UpdatePart!Make
<1>13. CASE UpdatePart!MakeFails
  BY <1>13 DEF UpdatePart!MakeFails
<1>14. CASE UpdatePart!Install
  BY <1>14 DEF UpdatePart!Install
<1>15. CASE UpdatePart!Interrupt
  BY <1>15 DEF UpdatePart!Interrupt
<1>16. CASE UNCHANGED UpdatePart!vars
  BY <1>16 DEF UpdatePart!vars
<1> QED
  BY <1>1, <1>2, <1>3, <1>4, <1>5, <1>6, <1>7, <1>8,
     <1>9, <1>10, <1>11, <1>12, <1>13, <1>14, <1>15, <1>16
     DEF UpdatePart!Next

LEMMA UpdateHolds == UpdatePart!Inv => UpdatePart!EditsReturn /\ UpdatePart!UpdatedIsNewest
  BY DEF UpdatePart!Inv, UpdatePart!Stashed, UpdatePart!EditsReturn

(***************************************************************************)
(* Whatever command of --update fails, the user's edits are back in the    *)
(* tree when it ends, unless it was interrupted or they no longer fit; and *)
(* "updated" means that the newest commit fetched is in the tree, built    *)
(* and installed (exo_update_self), however often it is run.               *)
(***************************************************************************)
THEOREM UpdatesKeep == Spec => []UpdateKeeps
<1> DEFINE I == part = "update" => UpdatePart!Inv
<1>1. Init => I
  BY UpdateStart DEF Init
<1>2. I /\ [Next]_vars => I'
  BY UpdateStep DEF Next, vars, UpdatePart!vars
<1>3. I => UpdateKeeps
  BY UpdateHolds DEF UpdateKeeps
<1> QED
  BY <1>1, <1>2, <1>3, PTL DEF Spec
=============================================================================
