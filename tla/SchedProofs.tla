----------------------------- MODULE SchedProofs -----------------------------
(***************************************************************************)
(* Proofs about Sched, for any ids, bodies, delays and bounds: what a      *)
(* reminder that was promised, cancelled or fired may become, whatever     *)
(* calls of exomind fail and whenever the daemon is killed or a console    *)
(* command runs next to it.                                                *)
(***************************************************************************)
EXTENDS Sched, SequenceTheorems, FiniteSetTheorems, TLAPS

-----------------------------------------------------------------------------
(* The least of some numbers *)

LEMMA Least ==
    ASSUME NEW S \in SUBSET Nat, S # {}
    PROVE  \E m \in S : \A n \in S : m <= n
<1> DEFINE T == {0..(n - 1) : n \in S}
           R == StrictSubsetOrdering(Nat)
           F == FiniteSubsetsOf(Nat)
<1>1. IsWellFoundedOn(R, F)
  BY FS_StrictSubsetOrderingWellFounded
<1>2. T \subseteq F /\ T # {}
  <2>1. \A n \in S : IsFiniteSet(0..(n - 1)) /\ 0..(n - 1) \in SUBSET Nat
    BY FS_Interval
  <2> QED BY <2>1 DEF FiniteSubsetsOf
<1>3. PICK x \in T : \A y \in T : <<y, x>> \notin R
  <2> HIDE DEF R, F, T
  <2> QED BY <1>1, <1>2, WFMin
<1>4. PICK m \in S : x = 0..(m - 1)
  OBVIOUS
<1>5. ASSUME NEW n \in S, n < m PROVE FALSE
  <2>1. 0..(n - 1) \subseteq x /\ n \in x /\ n \notin 0..(n - 1)
    BY <1>4, <1>5
  <2>2. x \in SUBSET Nat /\ 0..(n - 1) \in SUBSET Nat
    BY <1>4
  <2>3. <<0..(n - 1), x>> \in R
    BY <2>1, <2>2 DEF StrictSubsetOrdering
  <2> QED BY <1>3, <2>3
<1> QED BY <1>5

-----------------------------------------------------------------------------
(* Operators of the model *)

LEMMA WithoutIs ==
    ASSUME NEW S, NEW q \in Seq(S), NEW i \in 1..Len(q), NEW t, q[i] = t
    PROVE  Without(q, t) \in Seq(S) /\ Len(Without(q, t)) = Len(q) - 1
<1> DEFINE At == {n \in 1..Len(q) : q[n] = t}
           First(n) == q[n] = t /\ \A m \in 1..(n - 1) : q[m] # t
           n0 == CHOOSE n \in DOMAIN q : First(n)
<1>0. DOMAIN q = 1..Len(q) /\ Len(q) \in Nat
  BY LenProperties
<1>1. \E n \in DOMAIN q : First(n)
  <2>1. At \in SUBSET Nat /\ At # {}
    BY <1>0
  <2>2. PICK n \in At : \A m \in At : n <= m
    <3> HIDE DEF At
    <3> QED BY <2>1, Least
  <2>3. n \in DOMAIN q /\ q[n] = t
    BY <1>0, <2>2
  <2>4. \A m \in 1..(n - 1) : q[m] # t
    BY <1>0, <2>2
  <2> QED BY <2>3, <2>4
<1>2. n0 \in DOMAIN q
  <2> HIDE DEF First
  <2> QED BY <1>1
<1> HIDE DEF n0
<1>3. n0 \in 1..Len(q)
  BY <1>0, <1>2
<1>4. Without(q, t) = SubSeq(q, 1, n0 - 1) \o SubSeq(q, n0 + 1, Len(q))
  BY DEF Without, n0
<1>5. SubSeq(q, 1, n0 - 1) \in Seq(S) /\ Len(SubSeq(q, 1, n0 - 1)) = n0 - 1
  <2>1. \A j \in 1..(n0 - 1) : q[j] \in S
    BY <1>0, <1>3, ElementOfSeq
  <2>2. 1 \in Int /\ n0 - 1 \in Int
    BY <1>3
  <2> QED BY <1>3, <2>1, <2>2, SubSeqProperties
<1>6. SubSeq(q, n0 + 1, Len(q)) \in Seq(S) /\ Len(SubSeq(q, n0 + 1, Len(q))) = Len(q) - n0
  <2>1. \A j \in (n0 + 1)..Len(q) : q[j] \in S
    BY <1>0, <1>3, ElementOfSeq
  <2>2. n0 + 1 \in Int /\ Len(q) \in Int
    BY <1>0, <1>3
  <2>3. Len(SubSeq(q, n0 + 1, Len(q))) =
            IF n0 + 1 <= Len(q) THEN Len(q) - (n0 + 1) + 1 ELSE 0
    BY <2>1, <2>2, SubSeqProperties
  <2>4. SubSeq(q, n0 + 1, Len(q)) \in Seq(S)
    BY <2>1, <2>2, SubSeqProperties
  <2>5. PICK w, l, k : w = SubSeq(q, n0 + 1, Len(q)) /\ l = Len(w) /\ k = Len(q) /\ k \in Nat
    BY <1>0
  <2>6. n0 \in Int /\ n0 <= k /\ l = IF n0 + 1 <= k THEN k - (n0 + 1) + 1 ELSE 0
    BY <1>3, <2>3, <2>5
  <2>7. l = k - n0
    BY <2>5, <2>6
  <2> QED BY <2>4, <2>5, <2>7
<1>7. PICK u, v : u = SubSeq(q, 1, n0 - 1) /\ v = SubSeq(q, n0 + 1, Len(q))
  OBVIOUS
<1>8. u \in Seq(S) /\ v \in Seq(S) /\ Len(u) = n0 - 1 /\ Len(v) = Len(q) - n0
  BY <1>5, <1>6, <1>7
<1>9. u \o v \in Seq(S) /\ Len(u \o v) = Len(u) + Len(v)
  BY <1>8, ConcatProperties
<1>10. Without(q, t) = u \o v
  BY <1>4, <1>7
<1>11. PICK k \in Nat : k = Len(q)
  BY <1>0
<1>12. Len(u) + Len(v) = k - 1
  BY <1>3, <1>8, <1>11
<1> QED BY <1>9, <1>10, <1>11, <1>12

(***************************************************************************)
(* The list a reload adds for one id: at most one timer.                   *)
(***************************************************************************)
LEMMA NoneInSeq == SetToSeq({}) = <<>>
<1>1. Cardinality({}) = 0
  BY FS_EmptySet
<1>2. <<>> \in [1..0 -> {}] /\ \A f, g \in [1..0 -> {}] : f = g
  OBVIOUS
<1>3. IsInjective(<<>>)
  BY DEF IsInjective
<1> QED BY <1>1, <1>2, <1>3 DEF SetToSeq

LEMMA OneInSeq == \A t : SetToSeq({t}) = <<t>>
<1> TAKE t
<1>1. Cardinality({t}) = 1
  BY FS_Singleton
<1>2. \A f : f \in [1..1 -> {t}] <=> f = <<t>>
  <2> SUFFICES ASSUME NEW f PROVE f \in [1..1 -> {t}] <=> f = <<t>>
    OBVIOUS
  <2>1. <<t>> = [n \in 1..1 |-> t]
    OBVIOUS
  <2>2. f \in [1..1 -> {t}] => f = [n \in 1..1 |-> t]
    OBVIOUS
  <2> QED BY <2>1, <2>2
<1>3. IsInjective(<<t>>)
  BY DEF IsInjective
<1> QED BY <1>1, <1>2, <1>3 DEF SetToSeq

LEMMA FewInSeq ==
    ASSUME NEW S, \A t, u \in S : t = u
    PROVE  SetToSeq(S) \in Seq(S)
<1>1. CASE S = {}
  <2>1. SetToSeq(S) = <<>>
    BY <1>1, NoneInSeq
  <2> QED BY <2>1, EmptySeq
<1>2. CASE S # {}
  <2>1. PICK t : S = {t}
    BY <1>2
  <2>2. SetToSeq(S) = <<t>>
    BY <2>1, OneInSeq
  <2>3. t \in S
    BY <2>1
  <2> QED BY <2>2, <2>3
<1> QED BY <1>1, <1>2

-----------------------------------------------------------------------------
(* Schedules *)

(***************************************************************************)
(* The fires of a promise p, and what timers and keys keep of it.          *)
(***************************************************************************)
FiresOf(p) ==
    IF p.repeat > 0
    THEN {f \in {p.fire + n * p.repeat : n \in Nat} : p.until = 0 \/ f <= p.until}
    ELSE {p.fire}

Matches(t, p) ==
    /\ t.fire \in FiresOf(p)
    /\ IF p.repeat > 0 THEN t.repeat = p.repeat /\ t.until = p.until ELSE t.repeat <= 0

Promised == [id : Ids, fire : Int, repeat : Int, until : Nat, retry : {0}]
Sensible(p) ==
    /\ p.repeat <= 0 => p.until = 0
    /\ p.repeat > 0 /\ p.until > 0 => p.fire <= p.until

LEMMA WrapIs == \A x \in Int : Wrap(x) \in Int
BY ScheduleAssumption DEF Wrap

LEMMA SecondsIs ==
    ASSUME NEW b \in Bodies
    PROVE  /\ Saturated(b.n) \in Nat /\ Seconds(b) \in Int
           /\ DurationOK(b) => Seconds(b) <= MaxDuration
<1>1. b.n \in Nat /\ b.unit \in Nat
  BY SchedAssumption
<1>2. Saturated(b.n) \in Nat
  BY <1>1, ScheduleAssumption DEF Saturated
<1>3. Saturated(b.n) * b.unit \in Int
  BY <1>1, <1>2
<1> QED BY <1>2, <1>3, WrapIs DEF Seconds, DurationOK

LEMMA ParsedIs ==
    ASSUME NEW b \in Bodies, NEW i \in Ids, NEW t \in Nat, Accepts(b, t)
    PROVE  /\ Timer(i, Parsed(b, t)) \in Promised
           /\ Sensible(Timer(i, Parsed(b, t)))
<1>1. /\ b.until \in Nat /\ b.quoted \in BOOLEAN
      /\ Saturated(b.n) \in Nat /\ Seconds(b) \in Int
  BY SchedAssumption, SecondsIs
<1>2. /\ Repeat(b) \in Int /\ FirstFire(b, t) \in Int /\ UntilOf(b) \in Nat
  BY <1>1 DEF Repeat, FirstFire, UntilOf
<1>3. Repeat(b) <= 0 => UntilOf(b) = 0
  <2>1. CASE b.quoted
    BY <1>1, <1>2, <2>1 DEF Accepts, TextOK, UntilOf
  <2>2. CASE ~b.quoted
    BY <2>2 DEF UntilOf
  <2> QED BY <2>1, <2>2
<1>4. Repeat(b) > 0 /\ UntilOf(b) > 0 => FirstFire(b, t) <= UntilOf(b)
  BY <1>2 DEF Accepts, UntilOK
<1>5. Timer(i, Parsed(b, t)) = [id |-> i, fire |-> FirstFire(b, t), repeat |-> Repeat(b),
                                until |-> UntilOf(b), retry |-> 0]
  BY DEF Timer, Parsed
<1> QED BY <1>2, <1>3, <1>4, <1>5 DEF Promised, Sensible

LEMMA FirstMatches ==
    ASSUME NEW p \in Promised, Sensible(p)
    PROVE  Matches(p, p)
<1>1. p.fire \in Int /\ p.repeat \in Int /\ p.until \in Nat
  BY DEF Promised
<1>2. p.fire = p.fire + 0 * p.repeat /\ 0 \in Nat
  BY <1>1
<1> QED BY <1>1, <1>2 DEF Matches, FiresOf, Sensible

(***************************************************************************)
(* Some repeats on, up to the `until`, is a fire again.                    *)
(***************************************************************************)
LEMMA LaterMatches ==
    ASSUME NEW p \in Promised, NEW t, NEW u, Matches(t, p), p.repeat > 0, NEW m \in Nat,
           u.fire = t.fire + m * p.repeat, p.until = 0 \/ u.fire <= p.until,
           u.repeat = t.repeat, u.until = t.until
    PROVE  Matches(u, p)
<1>1. p.fire \in Int /\ p.repeat \in Int /\ p.until \in Nat
  BY DEF Promised
<1>2. PICK n \in Nat : t.fire = p.fire + n * p.repeat
  BY DEF Matches, FiresOf
<1>3. PICK f, r, a : f = p.fire /\ r = p.repeat /\ a = u.fire /\ f \in Int /\ r \in Int
  BY <1>1
<1>4. a = f + (n + m) * r
  BY <1>2, <1>3
<1>5. u.fire = p.fire + (n + m) * p.repeat /\ n + m \in Nat
  BY <1>3, <1>4
<1> QED BY <1>5 DEF Matches, FiresOf

LEMMA FiresAre ==
    ASSUME NEW p \in Promised, Sensible(p), NEW f \in FiresOf(p)
    PROVE  /\ f >= p.fire
           /\ p.repeat = 0 => f = p.fire
           /\ p.repeat > 0 => (f - p.fire) % p.repeat = 0
           /\ p.until > 0 => f <= p.until
<1>1. p.fire \in Int /\ p.repeat \in Int /\ p.until \in Nat
  BY DEF Promised
<1>2. CASE p.repeat > 0
  <2>1. PICK n \in Nat : f = p.fire + n * p.repeat
    BY <1>2 DEF FiresOf
  <2>2. PICK a, r, x : /\ a = p.fire /\ r = p.repeat /\ x = n * r
                       /\ a \in Int /\ r \in Int /\ x \in Int
    BY <1>1
  <2>3. x >= 0
    BY <1>2, <2>2
  <2>4. x % r = 0
    BY <1>2, <2>2
  <2>5. f = a + x /\ f - a = x
    BY <2>1, <2>2
  <2>6. p.until > 0 => f <= p.until
    BY <1>1, <1>2 DEF FiresOf
  <2> QED BY <1>2, <2>2, <2>3, <2>4, <2>5, <2>6
<1>3. CASE p.repeat <= 0
  BY <1>1, <1>3 DEF FiresOf, Sensible
<1> QED BY <1>1, <1>2, <1>3

(***************************************************************************)
(* What a reload makes of a stored timer is one of its fires again.        *)
(***************************************************************************)
KeyRec == [fire : Int, repeat : Nat, until : Nat, expires : Nat]

LEMMA CaughtUpIs ==
    ASSUME NEW k \in KeyRec, now \in Nat, k.fire > 0, k.repeat > 0,
           k.until = 0 \/ k.fire <= k.until
    PROVE  \E m \in Nat : /\ CaughtUp(k) = k.fire + m * k.repeat
                          /\ k.until = 0 \/ CaughtUp(k) <= k.until
<1> DEFINE F(n) == k.fire + n * k.repeat
           Stops(f) == f > now \/ (k.until # 0 /\ f + k.repeat > k.until)
           First(f) == Stops(f) /\ \A n \in 0..now : F(n) < f => ~Stops(F(n))
           At == {n \in 0..now : Stops(F(n))}
           c == CHOOSE f \in {F(n) : n \in 0..(now + 1)} : First(f)
<1>0. /\ k.fire \in Nat /\ k.repeat \in Nat /\ k.until \in Nat
      /\ k.fire >= 1 /\ k.repeat >= 1
  BY DEF KeyRec
<1>1. CaughtUp(k) = c
  <2>1. k.repeat # 0
    BY <1>0
  <2> QED BY <2>1, Zenon DEF CaughtUp
<1>2. \A n \in Nat : F(n) \in Nat
  BY <1>0
<1>3. \A n, m \in Nat : n >= m => F(n) >= F(m)
  <2> SUFFICES ASSUME NEW n \in Nat, NEW m \in Nat, n >= m PROVE F(n) >= F(m)
    OBVIOUS
  <2>1. PICK r, d : r = k.repeat /\ d = n - m /\ r \in Nat /\ d \in Nat
    BY <1>0
  <2>2. d * r >= 0 /\ n * r = m * r + d * r
    BY <2>1
  <2> QED BY <1>0, <2>1, <2>2
<1>4. \A n \in Nat : F(n + 1) = F(n) + k.repeat /\ F(n) < F(n + 1)
  <2> SUFFICES ASSUME NEW n \in Nat
               PROVE  F(n + 1) = F(n) + k.repeat /\ F(n) < F(n + 1)
    OBVIOUS
  <2>1. PICK r, f : r = k.repeat /\ f = k.fire /\ r \in Nat /\ f \in Nat /\ r >= 1
    BY <1>0
  <2>2. f + (n + 1) * r = (f + n * r) + r /\ f + n * r \in Nat
    <3>1. (n + 1) * r = n * r + 1 * r
      BY <2>1
    <3>2. n * r \in Nat /\ 1 * r = r
      BY <2>1
    <3> QED BY <2>1, <3>1, <3>2
  <2>3. F(n) = f + n * r /\ F(n + 1) = f + (n + 1) * r
    BY <2>1
  <2> HIDE DEF F
  <2> QED BY <2>1, <2>2, <2>3
<1>5. F(now) > now
  <2>1. PICK r \in Nat : r = k.repeat /\ r >= 1
    BY <1>0
  <2>2. now * r >= now
    BY <2>1
  <2> QED BY <1>0, <2>1, <2>2
<1>6. \E f \in {F(n) : n \in 0..(now + 1)} : First(f)
  <2>1. At \in SUBSET Nat /\ now \in At
    BY <1>5
  <2>2. PICK m \in At : \A n \in At : m <= n
    <3> HIDE DEF At
    <3> QED BY <2>1, Least
  <2>3. m \in 0..now /\ Stops(F(m))
    BY <2>2
  <2>4. \A n \in 0..now : F(n) < F(m) => ~Stops(F(n))
    <3>0. SUFFICES ASSUME NEW n \in 0..now, F(n) < F(m), Stops(F(n)) PROVE FALSE
      OBVIOUS
    <3>1. n \in At
      BY <3>0
    <3>2. n >= m /\ n \in Nat /\ m \in Nat
      BY <2>2, <2>3, <3>1
    <3>3. F(n) >= F(m) /\ F(n) \in Nat /\ F(m) \in Nat
      <4> HIDE DEF F
      <4> QED BY <1>2, <1>3, <3>2
    <3> HIDE DEF F
    <3> QED BY <3>0, <3>3
  <2>5. F(m) \in {F(n) : n \in 0..(now + 1)}
    BY <2>3
  <2> HIDE DEF F, Stops
  <2> QED BY <2>3, <2>4, <2>5
<1>7. c \in {F(n) : n \in 0..(now + 1)} /\ First(c)
  <2> HIDE DEF F, First
  <2> QED BY <1>6
<1>8. PICK m \in 0..(now + 1) : c = F(m)
  <2> HIDE DEF F, c
  <2> QED BY <1>7
<1> HIDE DEF c, F
<1>9. k.until = 0 \/ c <= k.until
  <2>1. CASE m = 0
    <3>1. F(0) = k.fire
      BY <1>0 DEF F
    <3> QED BY <1>8, <2>1, <3>1
  <2>2. CASE m # 0
    <3>1. PICK n \in 0..now : n + 1 = m
      <4>1. m - 1 \in 0..now /\ (m - 1) + 1 = m
        BY <2>2
      <4> QED BY <4>1
    <3>2. F(n) < c /\ F(n) + k.repeat = c
      BY <1>4, <1>8, <3>1
    <3>3. ~Stops(F(n))
      <4> HIDE DEF Stops
      <4> QED BY <1>7, <3>2
    <3>4. F(n) \in Nat /\ c \in Nat
      BY <1>2, <1>8, <3>1
    <3> QED BY <1>0, <3>2, <3>3, <3>4
  <2> QED BY <2>1, <2>2
<1>10. m \in Nat
  OBVIOUS
<1> QED BY <1>1, <1>8, <1>9, <1>10 DEF F

-----------------------------------------------------------------------------
(* The timers there are follow what was promised *)

Timers == [id : Ids, fire : Int, repeat : Int, until : Nat, retry : Nat]
Sound(t) ==
    /\ t \in Timers
    /\ accepted[t.id] # "no" /\ Matches(t, promised[t.id])
Own(i) == {t \in Timers : t.id = i /\ Sound(t)}

Answers == {"no", "asked", "yes", "refused", "cancelling", "cancelled", "unclear"}
HistoryOK ==
    /\ now \in Nat /\ gen \in Nat
    /\ promised \in [Ids -> Promised] /\ accepted \in [Ids -> Answers]
    /\ \A i \in Ids : Sensible(promised[i])

KeysOK ==
    /\ keys \in [Ids -> KeyRec]
    /\ \A i \in Ids :
        /\ keys[i].expires > 0 => accepted[i] # "no" /\ Matches(keys[i], promised[i])
        /\ keys[i].expires = 0 => keys[i] = NoKey

NotesOK ==
    \A n \in notes : /\ n.id \in Ids /\ accepted[n.id] # "no"
                     /\ n.fire \in FiresOf(promised[n.id])

RegOK ==
    /\ reg \in [Ids -> Seq(Timers)]
    /\ \A i \in Ids : reg[i] \in Seq(Own(i))

AtWork == [pc : {"note", "receipts", "record", "final"}, t : Timers]
FiringOK == firing = Idle \/ (firing \in AtWork /\ Sound(firing.t))

Asked == [pc : {"add", "del", "undo"}, t : Timers]
ReqOK == req = Idle \/ (req \in Asked /\ Sound(req.t))

Phases == {"off", "begin", "list", "batch", "drop", "dropkey", "stats", "op"}
Loads == [pc : Phases, gen : Nat, ids : SUBSET Ids,
          drops : SUBSET Timers, adds : SUBSET Timers]
LoadOK ==
    /\ load \in [{"daemon", "console"} -> Loads]
    /\ \A p \in {"daemon", "console"} :
        /\ \A t \in load[p].drops \cup load[p].adds : Sound(t)
        /\ \A t, u \in load[p].adds : t.id = u.id => t = u

GridInv == HistoryOK /\ KeysOK /\ NotesOK /\ RegOK /\ FiringOK /\ ReqOK /\ LoadOK

LEMMA GridStarts == Init => GridInv
<1> SUFFICES ASSUME Init PROVE GridInv
  OBVIOUS
<1>1. HistoryOK
  <2>1. \A i \in Ids : promised[i] = [id |-> i, fire |-> 0, repeat |-> 0, until |-> 0, retry |-> 0]
    BY DEF Init, Timer, NoKey
  <2>2. \A i \in Ids : promised[i] \in Promised /\ Sensible(promised[i])
    <3> SUFFICES ASSUME NEW i \in Ids
                 PROVE  promised[i] \in Promised /\ Sensible(promised[i])
      OBVIOUS
    <3>1. PICK p : p = [id |-> i, fire |-> 0, repeat |-> 0, until |-> 0, retry |-> 0]
      OBVIOUS
    <3>2. p \in Promised
      BY <3>1 DEF Promised
    <3>3. Sensible(p)
      BY <3>1 DEF Sensible
    <3> QED BY <2>1, <3>1, <3>2, <3>3
  <2>3. promised = [i \in Ids |-> promised[i]] /\ accepted = [i \in Ids |-> "no"]
    BY DEF Init
  <2>4. now = 0 /\ gen = 0
    BY DEF Init
  <2>5. promised \in [Ids -> Promised]
    BY <2>2, <2>3
  <2> QED BY <2>2, <2>3, <2>4, <2>5 DEF HistoryOK, Answers
<1>2. KeysOK
  BY DEF Init, KeysOK, KeyRec, NoKey
<1>3. RegOK
  <2>1. \A S : <<>> \in Seq(S)
    BY EmptySeq
  <2>2. reg = [i \in Ids |-> <<>>]
    BY DEF Init
  <2> QED BY <2>1, <2>2 DEF RegOK
<1>4. LoadOK
  <2>1. load = [p \in {"daemon", "console"} |-> Off]
    BY DEF Init
  <2>2. Off \in Loads /\ Off.drops = {} /\ Off.adds = {}
    <3>1. PICK o : o = Off /\ o = [pc |-> "off", gen |-> 0, ids |-> {}, drops |-> {}, adds |-> {}]
      BY DEF Off, Reloading
    <3>2. o \in Loads /\ o.drops = {} /\ o.adds = {}
      BY <3>1 DEF Loads, Phases
    <3> QED BY <3>1, <3>2
  <2>3. \A p \in {"daemon", "console"} : load[p] \in Loads /\ load[p].drops = {} /\ load[p].adds = {}
    BY <2>1, <2>2
  <2>4. load \in [{"daemon", "console"} -> Loads]
    BY <2>1, <2>2
  <2> QED BY <2>3, <2>4 DEF LoadOK
<1>5. NotesOK /\ FiringOK /\ ReqOK
  <2>1. notes = {} /\ firing = Idle /\ req = Idle
    BY DEF Init
  <2>2. NotesOK
    BY <2>1 DEF NotesOK
  <2>3. FiringOK
    BY <2>1 DEF FiringOK
  <2>4. ReqOK
    BY <2>1 DEF ReqOK
  <2> QED BY <2>2, <2>3, <2>4
<1> QED BY <1>1, <1>2, <1>3, <1>4, <1>5 DEF GridInv

(***************************************************************************)
(* A step that leaves what is promised alone keeps timers sound, and with  *)
(* them every part of the invariant it does not touch.                     *)
(***************************************************************************)
Steady ==
    /\ \A i \in Ids : accepted[i] # "no" =>
          accepted'[i] # "no" /\ promised'[i] = promised[i]
    /\ HistoryOK'

LEMMA SoundStays ==
    ASSUME Steady, NEW t, Sound(t)
    PROVE  Sound(t)'
<1>1. t.id \in Ids
  BY DEF Sound, Timers
<1> QED BY <1>1 DEF Sound, Steady

LEMMA OwnStays ==
    ASSUME Steady, NEW i
    PROVE  Own(i) \subseteq Own(i)'
BY SoundStays DEF Own

LEMMA KeysStay ==
    ASSUME KeysOK, Steady, UNCHANGED keys
    PROVE  KeysOK'
BY DEF KeysOK, Steady

LEMMA NotesStay ==
    ASSUME NotesOK, Steady, UNCHANGED notes
    PROVE  NotesOK'
BY DEF NotesOK, Steady

LEMMA RegStays ==
    ASSUME RegOK, Steady, UNCHANGED reg
    PROVE  RegOK'
<1>1. \A i \in Ids : reg[i] \in Seq(Own(i)')
  BY OwnStays, SeqMonotonic DEF RegOK
<1> QED BY <1>1 DEF RegOK

LEMMA FiringStays ==
    ASSUME FiringOK, Steady, UNCHANGED firing
    PROVE  FiringOK'
BY SoundStays DEF FiringOK

LEMMA ReqStays ==
    ASSUME ReqOK, Steady, UNCHANGED req
    PROVE  ReqOK'
BY SoundStays DEF ReqOK

LEMMA LoadStays ==
    ASSUME LoadOK, Steady, UNCHANGED load
    PROVE  LoadOK'
BY SoundStays DEF LoadOK

(***************************************************************************)
(* The changes steps make of the parts.                                    *)
(***************************************************************************)
LEMMA PersistKeeps ==
    ASSUME HistoryOK, KeysOK, Steady, NEW t, Sound(t)', NEW o, Persist(t.id, t, o)
    PROVE  KeysOK'
<1>1. t \in Timers /\ t.id \in Ids /\ accepted'[t.id] # "no" /\ Matches(t, promised'[t.id])
  BY DEF Sound, Timers
<1>2. CASE keys' = keys
  BY <1>2, KeysStay
<1>3. CASE keys' = [keys EXCEPT ![t.id] = KeyFor(t)]
  <2>1. PICK k, e : /\ k = KeyFor(t) /\ e = now + Smaller(MaxTTL, Bigger(MinTTL, (t.fire + Slack) - now))
                    /\ k = [fire |-> t.fire, repeat |-> Bigger(t.repeat, 0),
                            until |-> IF t.repeat > 0 THEN t.until ELSE 0, expires |-> e]
    BY DEF KeyFor
  <2>2. e \in Nat /\ e > 0
    BY <1>1, <2>1, SchedAssumption DEF Smaller, Bigger, HistoryOK, Timers
  <2>3. t.fire \in Int /\ t.repeat \in Int /\ t.until \in Nat
    BY <1>1 DEF Timers
  <2>4. Bigger(t.repeat, 0) = IF t.repeat > 0 THEN t.repeat ELSE 0
    BY DEF Bigger
  <2>5. k \in KeyRec /\ k.expires > 0
    BY <2>1, <2>2, <2>3, <2>4 DEF KeyRec
  <2>6. Matches(k, promised'[t.id])
    BY <1>1, <2>1, <2>3, <2>4 DEF Matches
  <2>7. /\ keys' \in [Ids -> KeyRec] /\ keys'[t.id] = k
        /\ \A i \in Ids : i # t.id => keys'[i] = keys[i]
    BY <1>1, <1>3, <2>1, <2>5 DEF KeysOK
  <2> QED BY <1>1, <2>5, <2>6, <2>7 DEF KeysOK, Steady
<1> QED BY <1>2, <1>3 DEF Persist

LEMMA DeleteKeeps ==
    ASSUME KeysOK, Steady, NEW i \in Ids, NEW o, Delete(i, o)
    PROVE  KeysOK'
<1>1. CASE keys' = keys
  BY <1>1, KeysStay
<1>2. CASE keys' = [keys EXCEPT ![i] = NoKey]
  <2>1. NoKey \in KeyRec /\ NoKey.expires = 0
    BY DEF NoKey, KeyRec
  <2>2. /\ keys' \in [Ids -> KeyRec] /\ keys'[i] = NoKey
        /\ \A j \in Ids : j # i => keys'[j] = keys[j]
    BY <1>2, <2>1 DEF KeysOK
  <2> QED BY <2>1, <2>2 DEF KeysOK, Steady
<1> QED BY <1>1, <1>2 DEF Delete

LEMMA NoteKeeps ==
    ASSUME NotesOK, Steady, NEW t, Sound(t), NEW kind, NEW o, Note(kind, t.id, t.fire, o)
    PROVE  NotesOK'
<1>1. CASE notes' = notes
  BY <1>1, NotesStay
<1>2. CASE notes' = notes \cup {[kind |-> kind, id |-> t.id, fire |-> t.fire]}
  <2>1. t.id \in Ids /\ accepted'[t.id] # "no" /\ t.fire \in FiresOf(promised'[t.id])
    BY SoundStays DEF Sound, Timers, Matches
  <2> QED BY <1>2, <2>1 DEF NotesOK, Steady
<1> QED BY <1>1, <1>2 DEF Note

LEMMA RegPut ==
    ASSUME RegOK, Steady, NEW i \in Ids, NEW q \in Seq(Own(i)), reg' = [reg EXCEPT ![i] = q]
    PROVE  RegOK'
<1>1. \A j \in Ids : reg[j] \in Seq(Own(j)') /\ q \in Seq(Own(i)')
  BY OwnStays, SeqMonotonic DEF RegOK
<1>2. q \in Seq(Timers)
  <2>1. Own(i) \subseteq Timers
    BY DEF Own
  <2> QED BY <2>1, SeqMonotonic
<1>3. /\ reg' \in [Ids -> Seq(Timers)]
      /\ \A j \in Ids : reg'[j] = IF j = i THEN q ELSE reg[j]
  BY <1>2 DEF RegOK
<1> QED BY <1>1, <1>3 DEF RegOK

LEMMA LoadShrinks ==
    ASSUME LoadOK, Steady, load' \in [{"daemon", "console"} -> Loads],
           \A p \in {"daemon", "console"} :
               load'[p].drops \subseteq load[p].drops /\ load'[p].adds \subseteq load[p].adds
    PROVE  LoadOK'
BY SoundStays DEF LoadOK

(***************************************************************************)
(* Ends of a reload.                                                       *)
(***************************************************************************)
Programs == {"daemon", "console"}

LEMMA LoadedKeeps ==
    ASSUME LoadOK, Steady, NEW p \in Programs, Loaded(p) \/ Failed(p)
    PROVE  LoadOK'
<1>1. load \in [Programs -> Loads]
  BY DEF LoadOK, Programs
<1>2. PICK o : o = Starts /\ o \in Loads /\ o.drops = {} /\ o.adds = {}
  <2>1. PICK o : o = Starts /\ o = [pc |-> "begin", gen |-> 0, ids |-> {}, drops |-> {}, adds |-> {}]
    BY DEF Starts, Reloading
  <2>2. o \in Loads /\ o.drops = {} /\ o.adds = {}
    BY <2>1 DEF Loads, Phases
  <2> QED BY <2>1, <2>2
<1>3. CASE load' = [load EXCEPT ![p] = Starts]
  <2>1. /\ load' \in [Programs -> Loads]
        /\ \A q \in Programs : load'[q] = IF q = p THEN o ELSE load[q]
    BY <1>1, <1>2, <1>3
  <2> QED BY <1>2, <2>1, LoadShrinks DEF Programs
<1>4. CASE \E pc \in Phases : load' = [load EXCEPT ![p].pc = pc]
  <2>1. PICK pc \in Phases : load' = [load EXCEPT ![p].pc = pc]
    BY <1>4
  <2>2. /\ load' \in [Programs -> Loads]
        /\ \A q \in Programs : load'[q].drops = load[q].drops /\ load'[q].adds = load[q].adds
    BY <1>1, <2>1 DEF Loads
  <2> QED BY <2>2, LoadShrinks DEF Programs
<1> QED BY <1>3, <1>4 DEF Loaded, Failed, Phases

-----------------------------------------------------------------------------
(* The steps keep timers on what was promised *)

LEMMA SteadyWhen ==
    ASSUME HistoryOK, UNCHANGED <<now, gen, promised, accepted>>
    PROVE  Steady
BY DEF HistoryOK, Steady

LEMMA IdleIs == Idle.pc = "idle" /\ \A w \in AtWork \cup Asked : w.pc # "idle" /\ w # Idle
BY DEF Idle, AtWork, Asked

LEMMA TakeGrid ==
    ASSUME GridInv, Take
    PROVE  GridInv'
<1>1. Steady
  BY SteadyWhen DEF Take, GridInv, history
<1>2. PICK t \in Listed : /\ reg' = [reg EXCEPT ![t.id] = Without(@, t)]
                          /\ firing' = [pc |-> "note", t |-> t]
  BY DEF Take
<1>3. PICK i, n : i \in Ids /\ n \in DOMAIN reg[i] /\ t = reg[i][n]
  BY DEF Listed
<1>4. reg[i] \in Seq(Own(i)) /\ DOMAIN reg[i] = 1..Len(reg[i]) /\ n \in 1..Len(reg[i])
  <2>1. reg[i] \in Seq(Own(i))
    BY <1>3 DEF GridInv, RegOK
  <2>2. DOMAIN reg[i] = 1..Len(reg[i])
    BY <2>1, LenProperties
  <2> QED BY <1>3, <2>1, <2>2
<1>5. t \in Own(i)
  BY <1>3, <1>4, ElementOfSeq
<1>6. t.id = i /\ t \in Timers /\ Sound(t)
  BY <1>5 DEF Own
<1>7. Without(reg[i], t) \in Seq(Own(i))
  BY <1>3, <1>4, WithoutIs
<1>8. RegOK'
  <2>1. PICK q : q = Without(reg[i], t)
    OBVIOUS
  <2>2. q \in Seq(Own(i))
    BY <1>7, <2>1
  <2>3. reg' = [reg EXCEPT ![t.id] = Without(reg[t.id], t)]
    BY <1>2
  <2>4. reg' = [reg EXCEPT ![i] = q]
    BY <1>6, <2>1, <2>3
  <2> QED BY <1>1, <1>3, <2>2, <2>4, RegPut DEF GridInv
<1>9. FiringOK'
  <2>1. firing' \in AtWork /\ firing'.t = t
    BY <1>2, <1>6 DEF AtWork
  <2>2. Sound(t)'
    BY <1>1, <1>6, SoundStays
  <2> QED BY <2>1, <2>2 DEF FiringOK, Sound
<1> QED BY <1>1, <1>8, <1>9, KeysStay, NotesStay, ReqStays, LoadStays
        DEF GridInv, Take, exomind, Steady

(***************************************************************************)
(* The timer thread gives the timer back, or goes on with it.              *)
(***************************************************************************)
LEMMA RequeueGrid ==
    ASSUME RegOK, Steady, NEW t, Sound(t), Requeue(t)
    PROVE  RegOK' /\ FiringOK'
<1>1. t \in Timers /\ t.id \in Ids /\ t \in Own(t.id)
  BY DEF Sound, Timers, Own
<1>2. PICK q : q = Append(reg[t.id], t)
  OBVIOUS
<1>3. q \in Seq(Own(t.id))
  BY <1>1, <1>2, AppendProperties DEF RegOK
<1>4. reg' = [reg EXCEPT ![t.id] = q]
  BY <1>1, <1>2 DEF Requeue, RegOK
<1>5. RegOK'
  BY <1>1, <1>3, <1>4, RegPut
<1>6. firing' = Idle
  BY DEF Requeue
<1>7. FiringOK'
  BY <1>6 DEF FiringOK, Idle
<1> QED BY <1>5, <1>7

LEMMA RetryGrid ==
    ASSUME HistoryOK, RegOK, Steady, firing \in AtWork, Sound(firing.t), RetryLater
    PROVE  RegOK' /\ FiringOK'
<1>1. PICK t, u, r : /\ t = firing.t /\ r = (IF now + RetryDelay > MaxNow THEN MaxNow ELSE now + RetryDelay)
                     /\ u = [t EXCEPT !.retry = r]
  OBVIOUS
<1>2. r \in Nat
  BY <1>1, SchedAssumption DEF HistoryOK
<1>3. t \in Timers
  BY <1>1 DEF Sound
<1>4. u \in Timers /\ u.id = t.id /\ u.fire = t.fire /\ u.repeat = t.repeat /\ u.until = t.until
  BY <1>1, <1>2, <1>3 DEF Timers
<1>5. Sound(u)
  BY <1>1, <1>4 DEF Sound, Matches
<1>6. Requeue(u)
  BY <1>1 DEF RetryLater
<1> QED BY <1>5, <1>6, RequeueGrid

LEMMA ProceedGrid ==
    ASSUME HistoryOK, RegOK, Steady, firing \in AtWork, Sound(firing.t),
           NEW o, NEW pc \in {"receipts", "record", "final"}, Proceed(o, pc)
    PROVE  RegOK' /\ FiringOK'
<1>1. CASE RetryLater
  BY <1>1, RetryGrid
<1>2. CASE firing' = [firing EXCEPT !.pc = pc] /\ UNCHANGED reg
  <2>1. firing' \in AtWork /\ firing'.t = firing.t
    BY <1>2 DEF AtWork
  <2>2. PICK t : t = firing.t
    OBVIOUS
  <2>3. Sound(t)'
    BY <2>2, SoundStays
  <2> QED BY <1>2, <2>1, <2>2, <2>3, RegStays DEF FiringOK, Sound
<1> QED BY <1>1, <1>2 DEF Proceed

LEMMA Busy ==
    ASSUME FiringOK, firing.pc \in {"note", "receipts", "record", "final"}
    PROVE  /\ firing \in AtWork /\ Sound(firing.t)
           /\ firing.t \in Timers /\ firing.t.id \in Ids
           /\ firing.t.fire \in Int /\ firing.t.repeat \in Int /\ firing.t.until \in Nat
<1>1. firing # Idle
  BY DEF Idle
<1>2. firing \in AtWork /\ Sound(firing.t)
  BY <1>1 DEF FiringOK
<1> QED BY <1>2 DEF AtWork, Timers

LEMMA FireCallsGrid ==
    ASSUME GridInv, NEW o, FireNote(o) \/ FireReceipts(o) \/ FireRecord(o)
    PROVE  GridInv'
<1>1. Steady
  BY SteadyWhen DEF FireNote, FireReceipts, FireRecord, GridInv, history
<1>2. firing \in AtWork /\ Sound(firing.t)
  BY Busy DEF FireNote, FireReceipts, FireRecord, GridInv
<1>3. RegOK' /\ FiringOK'
  <2>1. \E pc \in {"receipts", "record", "final"} : Proceed(o, pc)
    BY DEF FireNote, FireReceipts, FireRecord
  <2> QED BY <1>1, <1>2, <2>1, ProceedGrid DEF GridInv
<1>4. UNCHANGED <<keys, req, load>>
  BY DEF FireNote, FireReceipts, FireRecord, exomind
<1>5. NotesOK'
  <2>1. CASE FireNote(o)
    <3>1. PICK k, t : /\ k = (IF Recurs(firing.t) THEN "fired" ELSE "last") /\ t = firing.t
                      /\ Note(k, t.id, t.fire, o)
      BY <2>1 DEF FireNote
    <3> QED BY <1>1, <1>2, <3>1, NoteKeeps DEF GridInv
  <2>2. CASE UNCHANGED notes
    BY <1>1, <2>2, NotesStay DEF GridInv
  <2> QED BY <2>1, <2>2 DEF FireReceipts, FireRecord, exomind
<1> QED BY <1>1, <1>3, <1>4, <1>5, KeysStay, ReqStays, LoadStays DEF GridInv, Steady

LEMMA FireRescheduleGrid ==
    ASSUME GridInv, NEW o, FireReschedule(o)
    PROVE  GridInv'
<1>1. Steady
  BY SteadyWhen DEF FireReschedule, GridInv
<1>2. /\ firing \in AtWork /\ Sound(firing.t) /\ firing.t \in Timers /\ firing.t.id \in Ids
      /\ firing.t.fire \in Int /\ firing.t.repeat \in Int /\ firing.t.until \in Nat
  BY Busy DEF FireReschedule, GridInv
<1>3. PICK u, t : /\ t = firing.t /\ u = [t EXCEPT !.fire = @ + firing.t.repeat, !.retry = 0]
                  /\ Persist(u.id, u, o)
                  /\ IF o = "ok" THEN Requeue(u) ELSE RetryLater
  BY DEF FireReschedule
<1>4. /\ u \in Timers /\ u.id = t.id /\ u.fire = t.fire + t.repeat
      /\ u.repeat = t.repeat /\ u.until = t.until
  <2>1. t \in Timers
    BY <1>2, <1>3
  <2>2. PICK f : f = t.fire + t.repeat /\ f \in Int
    BY <2>1 DEF Timers
  <2>3. u = [t EXCEPT !.fire = f, !.retry = 0]
    BY <1>3, <2>2
  <2> QED BY <2>1, <2>2, <2>3 DEF Timers
<1>5. PICK p : p = promised[t.id] /\ p \in Promised /\ Sensible(p) /\ Matches(t, p)
  BY <1>2, <1>3 DEF GridInv, HistoryOK, Sound
<1>6. p.repeat \in Int /\ p.until \in Nat /\ p.fire \in Int
  BY <1>5 DEF Promised
<1>7. t.repeat > 0 /\ (t.until = 0 \/ u.fire <= t.until)
  BY <1>3, <1>4 DEF FireReschedule, Recurs
<1>8. p.repeat > 0 /\ t.repeat = p.repeat /\ t.until = p.until
  BY <1>2, <1>3, <1>5, <1>6, <1>7 DEF Matches
<1>9. Matches(u, p)
  <2>1. t.fire + t.repeat = t.fire + 1 * p.repeat
    BY <1>6, <1>8
  <2> QED BY <1>4, <1>5, <1>7, <1>8, <2>1, LaterMatches
<1>10. Sound(u)
  BY <1>2, <1>3, <1>4, <1>5, <1>9 DEF Sound
<1>11. Sound(u)'
  BY <1>1, <1>10, SoundStays
<1>12. KeysOK'
  BY <1>1, <1>3, <1>11, PersistKeeps DEF GridInv
<1>13. RegOK' /\ FiringOK'
  BY <1>1, <1>2, <1>3, <1>10, RequeueGrid, RetryGrid DEF GridInv
<1> QED BY <1>1, <1>12, <1>13, NotesStay, ReqStays, LoadStays
        DEF GridInv, FireReschedule, Steady

LEMMA FireDeleteGrid ==
    ASSUME GridInv, NEW o, FireDelete(o)
    PROVE  GridInv'
<1>1. Steady
  BY SteadyWhen DEF FireDelete, GridInv
<1>2. firing \in AtWork /\ Sound(firing.t) /\ firing.t.id \in Ids
  BY Busy DEF FireDelete, GridInv
<1>3. RegOK' /\ FiringOK'
  <2>1. CASE RetryLater
    BY <1>1, <1>2, <2>1, RetryGrid DEF GridInv
  <2>2. CASE firing' = Idle /\ UNCHANGED reg
    <3>1. FiringOK'
      BY <2>2 DEF FiringOK, Idle
    <3> QED BY <1>1, <2>2, <3>1, RegStays DEF GridInv
  <2> QED BY <2>1, <2>2 DEF FireDelete
<1>4. KeysOK'
  BY <1>1, <1>2, DeleteKeeps DEF GridInv, FireDelete
<1> QED BY <1>1, <1>3, <1>4, NotesStay, ReqStays, LoadStays DEF GridInv, FireDelete, Steady

-----------------------------------------------------------------------------
(* Reloads *)

LEMMA ReloadBeginGrid ==
    ASSUME GridInv, NEW p \in Programs, ReloadBegin(p)
    PROVE  GridInv'
<1>1. Steady
  BY SteadyWhen DEF ReloadBegin, GridInv, memory
<1>2. LoadOK'
  <2>1. load \in [Programs -> Loads] /\ gen \in Nat
    BY DEF GridInv, LoadOK, HistoryOK, Programs
  <2>2. /\ load' \in [Programs -> Loads]
        /\ \A q \in Programs : load'[q].drops = load[q].drops /\ load'[q].adds = load[q].adds
    <3>1. load' = [load EXCEPT ![p] = [@ EXCEPT !.pc = "list", !.gen = gen]]
      BY DEF ReloadBegin
    <3>2. /\ load[p] \in Loads
          /\ [load[p] EXCEPT !.pc = "list", !.gen = gen] \in Loads
          /\ [load[p] EXCEPT !.pc = "list", !.gen = gen].drops = load[p].drops
          /\ [load[p] EXCEPT !.pc = "list", !.gen = gen].adds = load[p].adds
      BY <2>1 DEF Loads, Phases
    <3> QED BY <2>1, <3>1, <3>2
  <2> QED BY <1>1, <2>2, LoadShrinks DEF GridInv, Programs
<1> QED BY <1>1, <1>2, KeysStay, NotesStay, RegStays, FiringStays, ReqStays
        DEF GridInv, Steady, ReloadBegin, memory, exomind

LEMMA ReloadListGrid ==
    ASSUME GridInv, NEW p \in Programs, NEW o, ReloadList(p, o)
    PROVE  GridInv'
<1>1. Steady
  BY SteadyWhen DEF ReloadList, GridInv, history
<1>2. LoadOK'
  <2>1. CASE Loaded(p) \/ Failed(p)
    BY <1>1, <2>1, LoadedKeeps DEF GridInv
  <2>2. CASE load' = [load EXCEPT ![p].pc = "batch", ![p].ids = Live]
    <3>1. load \in [Programs -> Loads] /\ Live \in SUBSET Ids
      BY DEF GridInv, LoadOK, Live, Programs
    <3> DEFINE l == [load[p] EXCEPT !.pc = "batch", !.ids = Live]
    <3>2. load' = [load EXCEPT ![p] = l]
      BY <2>2
    <3>3. l \in Loads /\ l.drops = load[p].drops /\ l.adds = load[p].adds
      BY <3>1 DEF Loads, Phases
    <3> HIDE DEF l
    <3>4. /\ load' \in [Programs -> Loads]
          /\ \A q \in Programs : load'[q].drops = load[q].drops /\ load'[q].adds = load[q].adds
      BY <3>1, <3>2, <3>3
    <3> QED BY <1>1, <3>4, LoadShrinks DEF GridInv, Programs
  <2> QED BY <2>1, <2>2 DEF ReloadList
<1> QED BY <1>1, <1>2, KeysStay, NotesStay, RegStays, FiringStays, ReqStays
        DEF GridInv, Steady, ReloadList, exomind

(***************************************************************************)
(* What the batch makes of a key is sound.                                 *)
(***************************************************************************)
LEMMA RestoredIs ==
    ASSUME GridInv, NEW i \in Ids, keys[i].expires > now, keys[i].fire > 0
    PROVE  Restored(i) \in Timers /\ Restored(i).id = i /\ Sound(Restored(i))
<1>1. PICK k, p : k = keys[i] /\ p = promised[i]
  OBVIOUS
<1>2. /\ k \in KeyRec /\ accepted[i] # "no" /\ Matches(k, p)
      /\ p \in Promised /\ now \in Nat /\ k.fire > 0
  <2>1. keys[i] \in KeyRec /\ now \in Nat
    BY DEF GridInv, KeysOK, HistoryOK
  <2>2. keys[i].expires > 0
    BY <2>1 DEF KeyRec
  <2> QED BY <1>1, <2>1, <2>2 DEF GridInv, KeysOK, HistoryOK
<1>3. /\ k.fire \in Int /\ k.repeat \in Nat /\ k.until \in Nat
      /\ p.fire \in Int /\ p.repeat \in Int /\ p.until \in Nat
  BY <1>2 DEF KeyRec, Promised
<1>4. PICK f, u : /\ f = (IF Reached(k) THEN k.fire ELSE CaughtUp(k))
                  /\ u = [id |-> i, fire |-> f, repeat |-> k.repeat, until |-> k.until, retry |-> 0]
  OBVIOUS
<1>5. Restored(i) = u
  BY <1>1, <1>4 DEF Restored, Timer
<1>6. f \in Int /\ Matches(u, p)
  <2>1. CASE k.repeat > 0 /\ ~Reached(k)
    <3>1. p.repeat > 0 /\ k.repeat = p.repeat /\ k.until = p.until
      BY <1>2, <1>3, <2>1 DEF Matches
    <3>2. k.until = 0 \/ k.fire <= k.until
      BY <1>3, <2>1 DEF Reached
    <3>3. PICK m \in Nat : /\ CaughtUp(k) = k.fire + m * k.repeat
                           /\ k.until = 0 \/ CaughtUp(k) <= k.until
      BY <1>2, <2>1, <3>2, CaughtUpIs
    <3>4. u.fire = k.fire + m * p.repeat /\ f = k.fire + m * p.repeat
      BY <1>4, <2>1, <3>1, <3>3
    <3>5. /\ p.until = 0 \/ u.fire <= p.until
          /\ u.repeat = k.repeat /\ u.until = k.until
      BY <1>4, <2>1, <3>1, <3>3
    <3>6. Matches(u, p)
      BY <1>2, <3>1, <3>4, <3>5, LaterMatches
    <3>7. f \in Int
      BY <1>3, <3>4
    <3> QED BY <3>6, <3>7
  <2>2. CASE k.repeat = 0 \/ Reached(k)
    <3>1. f = k.fire
      BY <1>3, <1>4, <2>2 DEF CaughtUp
    <3> QED BY <1>2, <1>3, <1>4, <3>1 DEF Matches
  <2> QED BY <1>3, <2>1, <2>2
<1>7. u \in Timers /\ u.id = i
  BY <1>3, <1>4, <1>6 DEF Timers
<1> QED BY <1>1, <1>2, <1>5, <1>6, <1>7 DEF Sound

LEMMA ReloadBatchGrid ==
    ASSUME GridInv, NEW p \in Programs, NEW o, ReloadBatch(p, o)
    PROVE  GridInv'
<1>1. Steady
  BY SteadyWhen DEF ReloadBatch, GridInv, history
<1>2. LoadOK'
  <2>1. CASE Failed(p)
    BY <1>1, <2>1, LoadedKeeps DEF GridInv
  <2>2. CASE ~Failed(p)
    <3>1. PICK good, drops, ds, as :
            /\ good = {i \in load[p].ids : keys[i].fire > 0}
            /\ drops = {i \in good : Dropped(keys[i])}
            /\ ds = {Restored(i) : i \in drops} /\ as = {Restored(i) : i \in good \ drops}
            /\ load' = [load EXCEPT ![p].pc = "drop", ![p].ids = {},
                                    ![p].drops = ds, ![p].adds = as]
            /\ load[p].ids \subseteq Live
      BY <2>2 DEF ReloadBatch
    <3>2. \A i \in good : Restored(i) \in Timers /\ Restored(i).id = i /\ Sound(Restored(i))
      <4>1. \A i \in good : i \in Ids /\ keys[i].expires > now /\ keys[i].fire > 0
        BY <3>1 DEF Live
      <4> QED BY <4>1, RestoredIs
    <3>3. ds \in SUBSET Timers /\ as \in SUBSET Timers /\ \A t \in ds \cup as : Sound(t)'
      <4>1. \A t \in ds \cup as : t \in Timers /\ Sound(t)
        <5> TAKE t \in ds \cup as
        <5>1. PICK i \in good : t = Restored(i)
          BY <3>1
        <5> QED BY <5>1, <3>2
      <4> QED BY <1>1, <4>1, SoundStays
    <3>4. \A t, u \in as : t.id = u.id => t = u
      <4> SUFFICES ASSUME NEW t \in as, NEW u \in as, t.id = u.id PROVE t = u
        OBVIOUS
      <4>1. PICK i \in good : t = Restored(i)
        BY <3>1
      <4>2. PICK j \in good : u = Restored(j)
        BY <3>1
      <4>3. i = j
        BY <3>2, <4>1, <4>2
      <4> QED BY <4>1, <4>2, <4>3
    <3>5. load \in [Programs -> Loads]
      BY DEF GridInv, LoadOK, Programs
    <3>6. /\ load' \in [Programs -> Loads]
          /\ load'[p].drops = ds /\ load'[p].adds = as
          /\ \A q \in Programs : q # p => load'[q] = load[q]
      <4>1. PICK l, w : /\ l = load[p] /\ l \in Loads
                        /\ w = [l EXCEPT !.pc = "drop", !.ids = {}, !.drops = ds, !.adds = as]
        BY <3>5
      <4>2. w \in Loads /\ w.drops = ds /\ w.adds = as
        BY <3>3, <4>1 DEF Loads, Phases
      <4>3. load' = [load EXCEPT ![p] = w]
        BY <3>1, <3>5, <4>1
      <4> QED BY <3>5, <4>2, <4>3
    <3>7. \A q \in Programs : \A t \in load'[q].drops \cup load'[q].adds : Sound(t)'
      <4> SUFFICES ASSUME NEW q \in Programs, NEW t \in load'[q].drops \cup load'[q].adds
                   PROVE  Sound(t)'
        OBVIOUS
      <4>1. CASE q = p
        BY <3>3, <3>6, <4>1
      <4>2. CASE q # p
        <5>1. Sound(t)
          BY <3>6, <4>2 DEF GridInv, LoadOK, Programs
        <5> QED BY <1>1, <5>1, SoundStays
      <4> QED BY <4>1, <4>2
    <3>8. \A q \in Programs : \A t, u \in load'[q].adds : t.id = u.id => t = u
      BY <3>4, <3>6 DEF GridInv, LoadOK, Programs
    <3> QED BY <3>6, <3>7, <3>8 DEF LoadOK, Programs
  <2> QED BY <2>1, <2>2
<1> QED BY <1>1, <1>2, KeysStay, NotesStay, RegStays, FiringStays, ReqStays
        DEF GridInv, Steady, ReloadBatch, exomind

LEMMA DropNoteGrid ==
    ASSUME GridInv, NEW p \in Programs, NEW o, DropNote(p, o)
    PROVE  GridInv'
<1>1. Steady
  BY SteadyWhen DEF DropNote, GridInv, memory
<1>2. PICK t \in load[p].drops :
        /\ Note("missed", t.id, t.fire, o)
        /\ load' = [load EXCEPT ![p].pc = "dropkey", ![p].ids = {t.id}, ![p].drops = @ \ {t}]
  BY DEF DropNote
<1>3. load \in [Programs -> Loads] /\ Sound(t) /\ t.id \in Ids
  BY DEF GridInv, LoadOK, Programs, Sound, Timers
<1>4. LoadOK'
  <2>1. /\ load' \in [Programs -> Loads]
        /\ \A q \in Programs : load'[q].drops \subseteq load[q].drops /\ load'[q].adds = load[q].adds
    BY <1>2, <1>3 DEF Loads, Phases
  <2> QED BY <1>1, <2>1, LoadShrinks DEF GridInv, Programs
<1>5. NotesOK'
  <2>1. PICK k : k = "missed" /\ Note(k, t.id, t.fire, o)
    BY <1>2
  <2> QED BY <1>1, <1>3, <2>1, NoteKeeps DEF GridInv
<1> QED BY <1>1, <1>4, <1>5, KeysStay, RegStays, FiringStays, ReqStays
        DEF GridInv, Steady, DropNote, memory

LEMMA DropKeyGrid ==
    ASSUME GridInv, NEW p \in Programs, NEW o, DropKey(p, o)
    PROVE  GridInv'
<1>1. Steady
  BY SteadyWhen DEF DropKey, GridInv, memory, history
<1>2. load \in [Programs -> Loads]
  BY DEF GridInv, LoadOK, Programs
<1>3. LoadOK'
  <2>1. /\ load' \in [Programs -> Loads]
        /\ \A q \in Programs : load'[q].drops = load[q].drops /\ load'[q].adds = load[q].adds
    BY <1>2 DEF DropKey, Loads, Phases
  <2> QED BY <1>1, <2>1, LoadShrinks DEF GridInv, Programs
<1>4. KeysOK'
  <2>1. PICK i \in load[p].ids : Delete(i, o)
    BY DEF DropKey
  <2>2. i \in Ids
    BY <1>2 DEF Loads
  <2> QED BY <1>1, <2>1, <2>2, DeleteKeeps DEF GridInv
<1> QED BY <1>1, <1>3, <1>4, NotesStay, RegStays, FiringStays, ReqStays
        DEF GridInv, Steady, DropKey, memory

LEMMA ReloadAddGrid ==
    ASSUME GridInv, NEW p \in Programs, ReloadAdd(p)
    PROVE  GridInv'
<1>1. Steady
  BY SteadyWhen DEF ReloadAdd, GridInv, history
<1>2. LoadOK'
  <2>1. Loaded(p) \/ Failed(p)
    BY DEF ReloadAdd
  <2> QED BY <1>1, <2>1, LoadedKeeps DEF GridInv
<1>3. RegOK'
  <2>1. CASE UNCHANGED reg
    BY <1>1, <2>1, RegStays DEF GridInv
  <2>2. CASE reg' = [i \in Ids |-> IF reg[i] = <<>>
                                   THEN SetToSeq({t \in load[p].adds : t.id = i}) ELSE reg[i]]
    <3>1. ASSUME NEW i \in Ids
          PROVE  reg'[i] \in Seq(Own(i)') /\ reg'[i] \in Seq(Timers)
      <4>1. CASE reg[i] = <<>>
        <5>1. PICK S : S = {t \in load[p].adds : t.id = i}
          OBVIOUS
        <5>2. \A t, u \in S : t = u
          BY <5>1 DEF GridInv, LoadOK, Programs
        <5>3. SetToSeq(S) \in Seq(S)
          BY <5>2, FewInSeq
        <5>4. S \subseteq Own(i)
          BY <5>1 DEF GridInv, LoadOK, Programs, Own, Sound
        <5>5. S \subseteq Own(i)' /\ S \subseteq Timers
          BY <1>1, <5>4, OwnStays DEF Own
        <5>6. reg'[i] = SetToSeq(S)
          BY <2>2, <4>1, <5>1
        <5> QED BY <5>3, <5>5, <5>6, SeqMonotonic
      <4>2. CASE reg[i] # <<>>
        <5>1. reg'[i] = reg[i]
          BY <2>2, <4>2
        <5>2. reg[i] \in Seq(Own(i)) /\ reg[i] \in Seq(Timers)
          BY DEF GridInv, RegOK
        <5> QED BY <1>1, <5>1, <5>2, OwnStays, SeqMonotonic
      <4> QED BY <4>1, <4>2
    <3>2. reg' \in [Ids -> Seq(Timers)]
      BY <2>2, <3>1
    <3> QED BY <3>1, <3>2 DEF RegOK
  <2> QED BY <2>1, <2>2 DEF ReloadAdd
<1> QED BY <1>1, <1>2, <1>3, KeysStay, NotesStay, FiringStays, ReqStays
        DEF GridInv, Steady, ReloadAdd, exomind

LEMMA OffIs ==
    /\ Off \in Loads /\ Off.drops = {} /\ Off.adds = {} /\ Off.pc = "off" /\ Off.gen = 0
    /\ Starts \in Loads /\ Starts.drops = {} /\ Starts.adds = {}
    /\ Starts.pc = "begin" /\ Starts.gen = 0
<1>1. PICK o, s : /\ o = Off /\ o = [pc |-> "off", gen |-> 0, ids |-> {}, drops |-> {}, adds |-> {}]
                  /\ s = Starts
                  /\ s = [pc |-> "begin", gen |-> 0, ids |-> {}, drops |-> {}, adds |-> {}]
  BY DEF Off, Starts, Reloading
<1>2. o \in Loads /\ o.drops = {} /\ o.adds = {} /\ o.pc = "off" /\ o.gen = 0
  BY <1>1 DEF Loads, Phases
<1>3. s \in Loads /\ s.drops = {} /\ s.adds = {} /\ s.pc = "begin" /\ s.gen = 0
  BY <1>1 DEF Loads, Phases
<1> QED BY <1>1, <1>2, <1>3

LEMMA LoadReset ==
    ASSUME LoadOK, Steady, NEW p \in Programs, NEW l \in {Off, Starts},
           load' = [load EXCEPT ![p] = l]
    PROVE  LoadOK'
<1>1. load \in [Programs -> Loads] /\ l \in Loads /\ l.drops = {} /\ l.adds = {}
  BY OffIs DEF LoadOK, Programs
<1>2. /\ load' \in [Programs -> Loads]
      /\ \A q \in Programs : load'[q] = IF q = p THEN l ELSE load[q]
  BY <1>1
<1> QED BY <1>1, <1>2, LoadShrinks DEF Programs

LEMMA LoadCountersGrid ==
    ASSUME GridInv, NEW o, LoadCounters(o)
    PROVE  GridInv'
<1>1. Steady
  BY SteadyWhen DEF LoadCounters, GridInv, history
<1>2. LoadOK'
  <2>1. PICK l, p : /\ l = (IF daemon = "late" THEN Starts ELSE Off) /\ p = "daemon"
                    /\ load' = [load EXCEPT ![p] = l] /\ p \in Programs /\ l \in {Off, Starts}
    BY DEF LoadCounters, Programs
  <2> QED BY <1>1, <2>1, LoadReset DEF GridInv
<1> QED BY <1>1, <1>2, KeysStay, NotesStay, RegStays, FiringStays, ReqStays
        DEF GridInv, Steady, LoadCounters, exomind

-----------------------------------------------------------------------------
(* Requests, console commands, the daemon's life *)

(***************************************************************************)
(* A request that changes the answer about an id something was promised    *)
(* for, or promises what nothing was said of.                              *)
(***************************************************************************)
LEMMA AnswerSteady ==
    ASSUME HistoryOK, UNCHANGED <<now, promised>>, gen' \in Nat,
           NEW a \in [Ids -> Answers], accepted' = a,
           \A i \in Ids : accepted[i] # "no" => a[i] # "no"
    PROVE  Steady
BY DEF HistoryOK, Steady

LEMMA RemindPersistGrid ==
    ASSUME GridInv, NEW i \in Ids, NEW b \in Bodies, NEW o, RemindPersist(i, b, o)
    PROVE  GridInv'
<1>1. PICK t : t = Timer(i, Parsed(b, now))
  OBVIOUS
<1>2. PICK a : a = IF o = "ok" THEN "asked" ELSE "refused"
  OBVIOUS
<1>3. /\ accepted' = [accepted EXCEPT ![i] = a] /\ promised' = [promised EXCEPT ![i] = t]
      /\ accepted[i] = "no" /\ UNCHANGED <<now, gen>>
  BY <1>1, <1>2 DEF RemindPersist, memory
<1>4. t \in Promised /\ Sensible(t) /\ t.id = i
  <2>1. now \in Nat /\ Accepts(b, now)
    BY DEF GridInv, HistoryOK, RemindPersist
  <2>2. t.id = i
    BY <1>1 DEF Timer
  <2> QED BY <1>1, <2>1, <2>2, ParsedIs
<1>5. Steady
  <2>1. a \in Answers /\ a # "no"
    BY <1>2 DEF Answers
  <2>2. /\ promised' \in [Ids -> Promised] /\ accepted' \in [Ids -> Answers]
        /\ \A j \in Ids : promised'[j] = (IF j = i THEN t ELSE promised[j])
                          /\ accepted'[j] = (IF j = i THEN a ELSE accepted[j])
    BY <1>3, <1>4, <2>1 DEF GridInv, HistoryOK
  <2>3. \A j \in Ids : Sensible(promised'[j])
    BY <1>4, <2>2 DEF GridInv, HistoryOK
  <2> QED BY <1>3, <2>1, <2>2, <2>3 DEF GridInv, HistoryOK, Steady
<1>6. Sound(t)'
  <2>1. t \in Timers
    BY <1>4 DEF Promised, Timers
  <2>2. promised'[i] = t /\ accepted'[i] # "no"
    BY <1>2, <1>3 DEF GridInv, HistoryOK
  <2>3. Matches(t, t)
    BY <1>4, FirstMatches
  <2> QED BY <1>4, <2>1, <2>2, <2>3 DEF Sound
<1>7. KeysOK'
  <2>1. Persist(t.id, t, o)
    BY <1>1, <1>4 DEF RemindPersist
  <2> QED BY <1>5, <1>6, <2>1, PersistKeeps DEF GridInv
<1>8. ReqOK'
  <2>1. CASE req' = Idle
    BY <2>1 DEF ReqOK, Idle
  <2>2. CASE req' = [pc |-> "add", t |-> t]
    <3>1. req' \in Asked /\ req'.t = t
      BY <1>6, <2>2 DEF Sound, Asked
    <3> QED BY <1>6, <3>1 DEF ReqOK, Sound
  <2> QED BY <1>1, <2>1, <2>2 DEF RemindPersist
<1> QED BY <1>5, <1>7, <1>8, NotesStay, RegStays, FiringStays, LoadStays
        DEF GridInv, Steady, RemindPersist, memory

LEMMA Served ==
    ASSUME ReqOK, req.pc \in {"add", "del", "undo"}
    PROVE  /\ req \in Asked /\ Sound(req.t)
           /\ req.t \in Timers /\ req.t.id \in Ids
<1>1. req # Idle
  BY DEF Idle
<1>2. req \in Asked /\ Sound(req.t)
  BY <1>1 DEF ReqOK
<1> QED BY <1>2 DEF Asked, Timers

LEMMA RemindAddGrid ==
    ASSUME GridInv, RemindAdd
    PROVE  GridInv'
<1>1. req \in Asked /\ Sound(req.t) /\ req.t \in Timers /\ req.t.id \in Ids
  BY Served DEF GridInv, RemindAdd
<1>2. PICK t, i : t = req.t /\ i = t.id
  OBVIOUS
<1>3. Steady
  <2>1. PICK a : a = accepted'
    OBVIOUS
  <2>2. a \in [Ids -> Answers] /\ \A j \in Ids : accepted[j] # "no" => a[j] # "no"
    BY <2>1 DEF RemindAdd, GridInv, HistoryOK, Answers
  <2>3. gen' \in Nat /\ UNCHANGED <<now, promised>>
    BY DEF RemindAdd, GridInv, HistoryOK
  <2> QED BY <2>1, <2>2, <2>3, AnswerSteady DEF GridInv
<1>4. RegOK'
  <2>1. CASE UNCHANGED reg
    BY <1>3, <2>1, RegStays DEF GridInv
  <2>2. CASE reg' = [reg EXCEPT ![i] = <<t>>]
    <3>1. t \in Own(i)
      BY <1>1, <1>2 DEF Own
    <3>2. PICK q, S : q = <<t>> /\ S = Own(i)
      OBVIOUS
    <3>3. q \in Seq(S)
      BY <3>1, <3>2
    <3> QED BY <1>1, <1>2, <1>3, <2>2, <3>2, <3>3, RegPut DEF GridInv
  <2> QED BY <1>2, <2>1, <2>2 DEF RemindAdd
<1>5. ReqOK'
  <2>1. CASE req' = Idle
    BY <2>1 DEF ReqOK, Idle
  <2>2. CASE req' = [pc |-> "undo", t |-> t]
    <3>1. req' \in Asked /\ req'.t = t
      BY <1>1, <1>2, <2>2 DEF Asked
    <3>2. Sound(t)'
      BY <1>1, <1>2, <1>3, SoundStays
    <3> QED BY <3>1, <3>2 DEF ReqOK, Sound
  <2> QED BY <1>2, <2>1, <2>2 DEF RemindAdd
<1> QED BY <1>3, <1>4, <1>5, KeysStay, NotesStay, FiringStays, LoadStays
        DEF GridInv, Steady, RemindAdd, exomind

LEMMA CancelRemoveGrid ==
    ASSUME GridInv, NEW i \in Ids, CancelRemove(i)
    PROVE  GridInv'
<1>1. Steady
  <2>1. PICK a : a = accepted'
    OBVIOUS
  <2>2. a \in [Ids -> Answers] /\ \A j \in Ids : accepted[j] # "no" => a[j] # "no"
    BY <2>1 DEF CancelRemove, GridInv, HistoryOK, Answers
  <2>3. gen' \in Nat /\ UNCHANGED <<now, promised>>
    BY DEF CancelRemove, GridInv, HistoryOK
  <2> QED BY <2>1, <2>2, <2>3, AnswerSteady DEF GridInv
<1>2. /\ reg[i] \in Seq(Own(i)) /\ reg[i] # <<>>
      /\ Head(reg[i]) \in Own(i) /\ Tail(reg[i]) \in Seq(Own(i))
  <2>1. reg[i] \in Seq(Own(i)) /\ reg[i] # <<>>
    BY DEF GridInv, RegOK, CancelRemove
  <2> QED BY <2>1, HeadTailProperties
<1>3. RegOK'
  <2>1. PICK q : q = Tail(reg[i]) /\ q \in Seq(Own(i)) /\ reg' = [reg EXCEPT ![i] = q]
    BY <1>2 DEF CancelRemove
  <2> QED BY <1>1, <2>1, RegPut DEF GridInv
<1>4. ReqOK'
  <2>1. PICK t : t = Head(reg[i]) /\ t \in Own(i) /\ req' = [pc |-> "del", t |-> t]
    BY <1>2 DEF CancelRemove
  <2>2. t \in Timers /\ Sound(t)
    BY <2>1 DEF Own
  <2>3. req' \in Asked /\ req'.t = t
    BY <2>1, <2>2 DEF Asked
  <2>4. Sound(t)'
    BY <1>1, <2>2, SoundStays
  <2> QED BY <2>3, <2>4 DEF ReqOK, Sound
<1> QED BY <1>1, <1>3, <1>4, KeysStay, NotesStay, FiringStays, LoadStays
        DEF GridInv, Steady, CancelRemove, exomind

LEMMA DeleteKeyGrid ==
    ASSUME GridInv, NEW o, DeleteKey(o)
    PROVE  GridInv'
<1>1. req.t.id \in Ids
  BY Served DEF GridInv, DeleteKey
<1>2. Steady
  <2>1. PICK a : a = accepted'
    OBVIOUS
  <2>2. a \in [Ids -> Answers] /\ \A j \in Ids : accepted[j] # "no" => a[j] # "no"
    BY <1>1, <2>1 DEF DeleteKey, GridInv, HistoryOK, Answers
  <2>3. gen' \in Nat /\ UNCHANGED <<now, promised>>
    BY DEF DeleteKey, GridInv, HistoryOK, memory
  <2> QED BY <2>1, <2>2, <2>3, AnswerSteady DEF GridInv
<1>3. KeysOK'
  BY <1>1, <1>2, DeleteKeeps DEF GridInv, DeleteKey
<1>4. ReqOK'
  BY DEF DeleteKey, ReqOK, Idle
<1> QED BY <1>2, <1>3, <1>4, NotesStay, RegStays, FiringStays, LoadStays
        DEF GridInv, Steady, DeleteKey, memory

LEMMA ConsoleGrid ==
    ASSUME GridInv, Console
    PROVE  GridInv'
<1>0. load \in [Programs -> Loads] /\ "console" \in Programs
  BY DEF GridInv, LoadOK, Programs
<1>1. CASE ConsoleStart \/ ConsoleList
  <2>1. Steady
    BY <1>1, SteadyWhen DEF ConsoleStart, ConsoleList, GridInv, memory, history
  <2>2. LoadOK'
    <3>1. PICK l, p : /\ p = "console" /\ l \in {Off, Starts}
                      /\ load' = [load EXCEPT ![p] = l]
      BY <1>1 DEF ConsoleStart, ConsoleList
    <3> QED BY <1>0, <2>1, <3>1, LoadReset DEF GridInv
  <2> QED BY <1>1, <2>1, <2>2, KeysStay, NotesStay, RegStays, FiringStays, ReqStays
          DEF GridInv, Steady, ConsoleStart, ConsoleList, memory, exomind
<1>2. CASE \E o \in {"ok", "refused", "lost"} : ConsoleCancel(o)
  <2>1. PICK o : ConsoleCancel(o)
    BY <1>2
  <2>2. PICK t : /\ t \in load["console"].adds /\ Delete(t.id, o)
                 /\ accepted' = [accepted EXCEPT ![t.id] = "unclear"]
    BY <2>1 DEF ConsoleCancel
  <2>3. t \in Timers /\ t.id \in Ids
    BY <1>0, <2>2 DEF Loads, Timers
  <2>4. Steady
    <3>1. PICK a : a = accepted'
      OBVIOUS
    <3>2. a \in [Ids -> Answers] /\ \A j \in Ids : accepted[j] # "no" => a[j] # "no"
      BY <2>2, <2>3, <3>1 DEF GridInv, HistoryOK, Answers
    <3>3. gen' \in Nat /\ UNCHANGED <<now, promised>>
      BY <2>1 DEF ConsoleCancel, GridInv, HistoryOK, memory
    <3> QED BY <3>1, <3>2, <3>3, AnswerSteady DEF GridInv
  <2>5. KeysOK'
    BY <2>2, <2>3, <2>4, DeleteKeeps DEF GridInv
  <2>6. LoadOK'
    <3>1. PICK l, p : /\ p = "console" /\ l \in {Off, Starts}
                      /\ load' = [load EXCEPT ![p] = l]
      BY <2>1 DEF ConsoleCancel
    <3> QED BY <1>0, <2>4, <3>1, LoadReset DEF GridInv
  <2> QED BY <2>1, <2>4, <2>5, <2>6, NotesStay, RegStays, FiringStays, ReqStays
          DEF GridInv, Steady, ConsoleCancel, memory
<1> QED BY <1>1, <1>2 DEF Console

LEMMA StartGrid ==
    ASSUME GridInv, Start
    PROVE  GridInv'
<1>1. Steady
  BY SteadyWhen DEF Start, GridInv, history
<1>2. LoadOK'
  <2>1. PICK l, p : /\ p = "daemon" /\ l \in {Off, Starts} /\ p \in Programs
                    /\ load' = [load EXCEPT ![p] = l]
    BY DEF Start, Programs
  <2> QED BY <1>1, <2>1, LoadReset DEF GridInv
<1> QED BY <1>1, <1>2, KeysStay, NotesStay, RegStays, FiringStays, ReqStays
        DEF GridInv, Steady, Start, exomind

LEMMA CrashGrid ==
    ASSUME GridInv, Crash
    PROVE  GridInv'
<1>1. Steady
  <2>1. PICK a : a = accepted'
    OBVIOUS
  <2>2. a = [i \in Ids |-> IF accepted[i] \in {"asked", "cancelling"}
                           THEN "unclear" ELSE accepted[i]]
    BY <2>1 DEF Crash
  <2>3. a \in [Ids -> Answers] /\ \A j \in Ids : accepted[j] # "no" => a[j] # "no"
    BY <2>2 DEF GridInv, HistoryOK, Answers
  <2>4. gen' \in Nat /\ UNCHANGED <<now, promised>>
    BY DEF Crash
  <2> QED BY <2>1, <2>3, <2>4, AnswerSteady DEF GridInv
<1>2. LoadOK'
  <2>1. PICK l, p : /\ p = "daemon" /\ l \in {Off, Starts} /\ p \in Programs
                    /\ load' = [load EXCEPT ![p] = l]
    BY DEF Crash, Programs
  <2> QED BY <1>1, <2>1, LoadReset DEF GridInv
<1>3. RegOK'
  <2>1. \A S : <<>> \in Seq(S)
    BY EmptySeq
  <2>2. reg' = [i \in Ids |-> <<>>]
    BY DEF Crash
  <2> QED BY <2>1, <2>2 DEF RegOK
<1>4. FiringOK'
  <2>1. firing' = Idle
    BY DEF Crash
  <2> QED BY <2>1 DEF FiringOK, Idle
<1>5. ReqOK'
  <2>1. req' = Idle
    BY DEF Crash
  <2> QED BY <2>1 DEF ReqOK, Idle
<1> QED BY <1>1, <1>2, <1>3, <1>4, <1>5, KeysStay, NotesStay DEF GridInv, Steady, Crash, exomind

LEMMA GridStep ==
    ASSUME GridInv, [Next]_vars
    PROVE  GridInv'
<1>1. CASE Take
  BY <1>1, TakeGrid
<1>2. CASE Fire
  BY <1>2, FireCallsGrid, FireRescheduleGrid, FireDeleteGrid DEF Fire
<1>3. CASE \E p \in {"daemon", "console"} : Reload(p)
  <2>1. PICK p \in Programs : Reload(p)
    BY <1>3 DEF Programs
  <2> QED BY <2>1, ReloadBeginGrid, ReloadListGrid, ReloadBatchGrid, DropNoteGrid, DropKeyGrid,
             ReloadAddGrid DEF Reload
<1>4. CASE Counters
  BY <1>4, LoadCountersGrid DEF Counters
<1>5. CASE Serve
  BY <1>5, RemindPersistGrid, RemindAddGrid, CancelRemoveGrid, DeleteKeyGrid DEF Serve
<1>6. CASE Console
  BY <1>6, ConsoleGrid
<1>7. CASE Start
  BY <1>7, StartGrid
<1>8. CASE Crash
  BY <1>8, CrashGrid
<1>9. CASE Tick \/ UNCHANGED vars
  <2>1. /\ now' = now + 1 \/ now' = now
        /\ UNCHANGED <<keys, notes, reg, firing, load, req, gen, promised, accepted>>
    BY <1>9 DEF Tick, vars, exomind, memory, history
  <2>2. Steady
    BY <2>1 DEF GridInv, HistoryOK, Steady
  <2> QED BY <2>1, <2>2, KeysStay, NotesStay, RegStays, FiringStays, ReqStays, LoadStays
          DEF GridInv, Steady
<1> QED BY <1>1, <1>2, <1>3, <1>4, <1>5, <1>6, <1>7, <1>8, <1>9 DEF Next

LEMMA GridInvariant == Spec => []GridInv
<1> QED BY GridStarts, GridStep, PTL DEF Spec

(***************************************************************************)
(* timers.c 281-298 and 503-513: the note feed only shows fires the        *)
(* request asked for; retries, catching up after a restart and commands    *)
(* next to the daemon neither move a recurring timer off its grid nor take *)
(* it past its `until`.                                                    *)
(***************************************************************************)
THEOREM NotesOnGrid == Spec => []FiresOnGrid
<1>1. GridInv => FiresOnGrid
  <2> SUFFICES ASSUME GridInv, NEW n \in notes, NEW t, t = promised[n.id]
               PROVE  /\ n.fire >= t.fire
                      /\ t.repeat = 0 => n.fire = t.fire
                      /\ t.repeat > 0 => (n.fire - t.fire) % t.repeat = 0
                      /\ t.until > 0 => n.fire <= t.until
    BY DEF FiresOnGrid
  <2>1. t \in Promised /\ Sensible(t) /\ n.fire \in FiresOf(t)
    BY DEF GridInv, NotesOK, HistoryOK
  <2> QED BY <2>1, FiresAre
<1> QED BY <1>1, GridInvariant, PTL

-----------------------------------------------------------------------------
(* The counter *)

(***************************************************************************)
(* The counters in memory count every complete fire once they are loaded,  *)
(* and between the record of a fire and its completion both counters are   *)
(* one ahead.                                                              *)
(***************************************************************************)
CountInv ==
    /\ count \in Nat /\ stats \in Nat /\ loaded \in BOOLEAN
    /\ IsFiniteSet(completed) /\ Cardinality(completed) <= count
    /\ loaded => Cardinality(completed) <= stats
    /\ firing.pc = "final" =>
           loaded /\ Cardinality(completed) < count /\ Cardinality(completed) < stats

LEMMA CountStarts == Init => CountInv
<1> SUFFICES ASSUME Init PROVE CountInv
  OBVIOUS
<1>1. IsFiniteSet({}) /\ Cardinality({}) = 0
  BY FS_EmptySet
<1>2. /\ count = 0 /\ stats = 0 /\ loaded = FALSE /\ completed = {}
      /\ firing = [pc |-> "idle"]
  BY DEF Init, Idle
<1>3. firing.pc # "final"
  BY <1>2
<1>4. IsFiniteSet(completed) /\ Cardinality(completed) = 0
  BY <1>1, <1>2
<1>5. Cardinality(completed) <= count /\ count \in Nat /\ stats \in Nat
  BY <1>2, <1>4
<1>6. ~loaded /\ loaded \in BOOLEAN
  BY <1>2
<1> QED BY <1>3, <1>4, <1>5, <1>6 DEF CountInv

LEMMA CountStays ==
    ASSUME CountInv, UNCHANGED <<count, stats, loaded, completed>>,
           firing' = firing \/ firing'.pc # "final"
    PROVE  CountInv'
BY DEF CountInv

(***************************************************************************)
(* A fire is complete after its record only.                               *)
(***************************************************************************)
LEMMA CountCompletes ==
    ASSUME CountInv, firing.pc = "final", UNCHANGED <<count, stats, loaded>>,
           firing'.pc = "idle", NEW f, completed' = completed \cup {f}
    PROVE  CountInv'
<1>1. PICK c, d : c = Cardinality(completed) /\ d = Cardinality(completed')
  OBVIOUS
<1>2. IsFiniteSet(completed') /\ (d = c \/ d = c + 1)
  BY <1>1, FS_AddElement DEF CountInv
<1>3. c \in Nat
  BY <1>1, FS_CardinalityType DEF CountInv
<1> QED BY <1>1, <1>2, <1>3 DEF CountInv

LEMMA RetryIdle == RetryLater => firing'.pc = "idle"
BY DEF RetryLater, Requeue, Idle

LEMMA ProceedPhase ==
    ASSUME NEW o, NEW pc, Proceed(o, pc), firing \in AtWork
    PROVE  firing'.pc = "idle" \/ (o = "ok" /\ firing'.pc = pc)
BY RetryIdle DEF Proceed, AtWork

LEMMA RecordCounts ==
    ASSUME CountInv, FiringOK, NEW o, FireRecord(o)
    PROVE  CountInv'
<1>1. firing \in AtWork /\ UNCHANGED completed
  BY Busy DEF FireRecord, history
<1>2. firing'.pc = "idle" \/ (o = "ok" /\ firing'.pc = "final")
  <2>1. PICK pc : pc = "final" /\ Proceed(o, pc)
    BY DEF FireRecord
  <2> QED BY <1>1, <2>1, ProceedPhase
<1>3. PICK c : c = Cardinality(completed) /\ c \in Nat
  BY FS_CardinalityType DEF CountInv
<1>4. CASE ~loaded /\ o # "ok" /\ UNCHANGED <<count, stats, loaded>>
  BY <1>1, <1>2, <1>4 DEF CountInv
<1>5. CASE ~(~loaded /\ o # "ok" /\ UNCHANGED <<count, stats, loaded>>)
  <2>1. PICK base : /\ base = (IF loaded THEN stats ELSE count)
                    /\ count' = IF Done(o) THEN base + 1 ELSE count
                    /\ stats' = IF o = "ok" THEN base + 1 ELSE base
                    /\ loaded' = TRUE
    BY <1>5 DEF FireRecord
  <2>2. base \in Nat /\ c <= base
    BY <1>3, <2>1 DEF CountInv
  <2>3. /\ count' \in Nat /\ stats' \in Nat /\ c <= count' /\ c <= stats'
        /\ o = "ok" => c < count' /\ c < stats'
    BY <1>3, <2>1, <2>2 DEF CountInv, Done
  <2> QED BY <1>1, <1>2, <1>3, <2>1, <2>3 DEF CountInv
<1> QED BY <1>4, <1>5

LEMMA CountStep ==
    ASSUME CountInv, GridInv, [Next]_vars
    PROVE  CountInv'
<1>0. FiringOK
  BY DEF GridInv
<1>1. CASE Take
  BY <1>1, CountStays DEF Take, exomind, history
<1>2. CASE \E o \in {"ok", "refused", "lost"} : FireNote(o) \/ FireReceipts(o)
  <2>1. PICK o : FireNote(o) \/ FireReceipts(o)
    BY <1>2
  <2>2. PICK pc \in {"receipts", "record"} : Proceed(o, pc)
    BY <2>1 DEF FireNote, FireReceipts
  <2>3. firing'.pc # "final"
    BY <1>0, <2>1, <2>2, Busy, ProceedPhase DEF FireNote, FireReceipts
  <2> QED BY <2>1, <2>3, CountStays DEF FireNote, FireReceipts, exomind, history
<1>3. CASE \E o \in {"ok", "refused", "lost"} : FireRecord(o)
  BY <1>0, <1>3, RecordCounts
<1>4. CASE \E o \in {"ok", "refused", "lost"} : FireReschedule(o) \/ FireDelete(o)
  <2>1. PICK o : FireReschedule(o) \/ FireDelete(o)
    BY <1>4
  <2>2. firing'.pc = "idle" /\ firing.pc = "final" /\ UNCHANGED <<count, stats, loaded>>
    BY <2>1, RetryIdle DEF FireReschedule, FireDelete, Requeue, Idle
  <2>3. CASE completed' = completed
    BY <2>2, <2>3, CountStays
  <2>4. CASE completed' = completed \cup {<<firing.t.id, firing.t.fire>>}
    <3>1. PICK f : completed' = completed \cup {f}
      BY <2>4
    <3> QED BY <2>2, <3>1, CountCompletes
  <2> QED BY <2>1, <2>3, <2>4 DEF FireReschedule, FireDelete
<1>5. CASE \E p \in {"daemon", "console"} : Reload(p)
  <2>1. UNCHANGED <<count, stats, loaded, completed, firing>>
    <3>1. CASE \E p \in {"daemon", "console"} : ReloadBegin(p) \/ ReloadAdd(p)
      BY <3>1 DEF ReloadBegin, ReloadAdd, memory, exomind, history
    <3>2. CASE \E p \in {"daemon", "console"}, o \in {"ok", "refused", "lost"} :
                 ReloadList(p, o) \/ ReloadBatch(p, o)
      BY <3>2 DEF ReloadList, ReloadBatch, memory, exomind, history
    <3>3. CASE \E p \in {"daemon", "console"}, o \in {"ok", "refused", "lost"} :
                 DropNote(p, o) \/ DropKey(p, o)
      BY <3>3 DEF DropNote, DropKey, memory, exomind, history
    <3> QED BY <1>5, <3>1, <3>2, <3>3 DEF Reload
  <2> QED BY <2>1, CountStays
<1>6. CASE Counters
  <2>1. PICK o : LoadCounters(o)
    BY <1>6 DEF Counters
  <2>2. /\ UNCHANGED <<count, completed, firing>>
        /\ stats' = IF loaded \/ o # "ok" THEN stats ELSE count
        /\ loaded' = (loaded \/ o = "ok")
    BY <2>1 DEF LoadCounters, exomind, history
  <2>3. CASE loaded
    BY <2>2, <2>3 DEF CountInv
  <2>4. CASE ~loaded
    BY <2>2, <2>4 DEF CountInv
  <2> QED BY <2>3, <2>4
<1>7. CASE Serve
  <2>1. UNCHANGED <<count, stats, loaded, completed, firing>>
    BY <1>7 DEF Serve, RemindPersist, RemindAdd, CancelRemove, DeleteKey, memory, exomind, history
  <2> QED BY <2>1, CountStays
<1>8. CASE Console \/ Start \/ Tick \/ UNCHANGED vars
  <2>1. UNCHANGED <<count, stats, loaded, completed, firing>>
    BY <1>8 DEF Console, ConsoleStart, ConsoleList, ConsoleCancel, Start, Tick, vars,
                memory, exomind, history
  <2> QED BY <2>1, CountStays
<1>9. CASE Crash
  <2>1. /\ UNCHANGED <<count, completed>> /\ stats' = 0 /\ loaded' = FALSE
        /\ firing' = [pc |-> "idle"]
    BY <1>9 DEF Crash, exomind, history, Idle
  <2> QED BY <2>1 DEF CountInv
<1> QED BY <1>1, <1>2, <1>3, <1>4, <1>5, <1>6, <1>7, <1>8, <1>9 DEF Next, Fire

(***************************************************************************)
(* delivery.c 58-129: a fire whose bookkeeping is complete is in the       *)
(* durable counter, whatever fails in between: a failed load of the        *)
(* counters, a lost reply or a restart never sets it back.                 *)
(***************************************************************************)
THEOREM FiresCounted == Spec => []EveryFireCounted
<1>1. CountInv => EveryFireCounted
  BY DEF CountInv, EveryFireCounted
<1> QED BY <1>1, CountStarts, CountStep, GridInvariant, PTL DEF Spec

-----------------------------------------------------------------------------
(* Reminders are kept *)

(***************************************************************************)
(* A reminder that was asked for, answered or not yet, has its key, or the *)
(* feed has told of it; what deletes a key without a cancel has told first.*)
(***************************************************************************)
Told(i) == \E n \in notes : n.id = i /\ n.kind \in {"last", "missed"}
Settled(i) == Told(i) \/ i \in muted

KeptInv ==
    /\ \A i \in Ids : accepted[i] \in {"asked", "yes"} => keys[i] # NoKey \/ Settled(i)
    /\ firing.pc \in {"receipts", "record", "final"} /\ ~Recurs(firing.t) =>
           Settled(firing.t.id)
    /\ \A p \in Programs : load[p].pc = "dropkey" => \A i \in load[p].ids : Settled(i)
    /\ req.pc \in {"del", "undo"} => accepted[req.t.id] \notin {"asked", "yes"}

LEMMA KeptStarts == Init => KeptInv
<1> SUFFICES ASSUME Init PROVE KeptInv
  OBVIOUS
<1>1. /\ \A i \in Ids : accepted[i] = "no"
      /\ firing = Idle /\ req = Idle /\ Idle = [pc |-> "idle"]
      /\ \A p \in Programs : load[p] = Off
  BY DEF Init, Idle, Programs
<1>2. firing.pc = "idle" /\ req.pc = "idle"
  BY <1>1
<1>3. \A p \in Programs : load[p].pc = "off"
  BY <1>1, OffIs
<1> QED BY <1>1, <1>2, <1>3 DEF KeptInv

(***************************************************************************)
(* Notes are never taken back.                                             *)
(***************************************************************************)
Telling == notes \subseteq notes' /\ muted \subseteq muted'

LEMMA SettledStays ==
    ASSUME Telling, NEW i, Settled(i)
    PROVE  Settled(i)'
BY DEF Telling, Settled, Told

LEMMA NoteTells ==
    ASSUME NEW kind \in {"last", "missed"}, NEW i, NEW f, NEW o, Note(kind, i, f, o), Done(o)
    PROVE  Told(i)'
<1>1. PICK n : n = [kind |-> kind, id |-> i, fire |-> f]
  OBVIOUS
<1>2. n \in notes' /\ n.id = i /\ n.kind \in {"last", "missed"}
  BY <1>1 DEF Note
<1> QED BY <1>2 DEF Told

(***************************************************************************)
(* The four parts, each kept by the steps that leave it alone.             *)
(***************************************************************************)
Reminders == \A i \in Ids : accepted[i] \in {"asked", "yes"} => keys[i] # NoKey \/ Settled(i)
LastTold ==
    firing.pc \in {"receipts", "record", "final"} /\ ~Recurs(firing.t) => Settled(firing.t.id)
DropsTold ==
    \A p \in Programs : load[p].pc = "dropkey" => \A i \in load[p].ids : Settled(i)
CancelAnswered == req.pc \in {"del", "undo"} => accepted[req.t.id] \notin {"asked", "yes"}

LEMMA KeptParts == KeptInv <=> Reminders /\ LastTold /\ DropsTold /\ CancelAnswered
BY DEF KeptInv, Reminders, LastTold, DropsTold, CancelAnswered

LEMMA RemindersStay ==
    ASSUME Reminders, Telling,
           \A i \in Ids : accepted'[i] \in {"asked", "yes"} =>
               /\ accepted[i] \in {"asked", "yes"}
               /\ keys'[i] = NoKey => keys[i] = NoKey \/ Settled(i)
    PROVE  Reminders'
BY SettledStays DEF Reminders

LEMMA LastStays ==
    ASSUME LastTold, Telling, UNCHANGED firing
    PROVE  LastTold'
<1>1. \A t : Recurs(t)' <=> Recurs(t)
  BY DEF Recurs
<1> QED BY <1>1, SettledStays DEF LastTold

LEMMA DropsStay ==
    ASSUME DropsTold, Telling,
           \A p \in Programs : load'[p].pc = "dropkey" =>
               load[p].pc = "dropkey" /\ load'[p].ids = load[p].ids
    PROVE  DropsTold'
BY SettledStays DEF DropsTold

(***************************************************************************)
(* Keys are written with a lifetime.                                       *)
(***************************************************************************)
LEMMA KeyForIs ==
    ASSUME now \in Nat, NEW t, t.fire \in Int
    PROVE  KeyFor(t) # NoKey
<1>1. PICK e : /\ e = now + Smaller(MaxTTL, Bigger(MinTTL, (t.fire + Slack) - now))
               /\ KeyFor(t).expires = e
  BY DEF KeyFor
<1>2. e > 0
  BY <1>1, SchedAssumption DEF Smaller, Bigger
<1>3. NoKey.expires = 0
  BY DEF NoKey
<1> QED BY <1>1, <1>2, <1>3

-----------------------------------------------------------------------------
(* The steps keep reminders *)

LEMMA QuietKeeps ==
    ASSUME KeptInv, Telling, UNCHANGED <<keys, accepted>>,
           LastTold', DropsTold', CancelAnswered'
    PROVE  KeptInv'
<1>1. Reminders'
  BY KeptParts, RemindersStay
<1>2. KeptInv' <=> Reminders' /\ LastTold' /\ DropsTold' /\ CancelAnswered'
  BY DEF KeptInv, Reminders, LastTold, DropsTold, CancelAnswered
<1> QED BY <1>1, <1>2

LEMMA KeptPartsStep ==
    ASSUME Reminders', LastTold', DropsTold', CancelAnswered'
    PROVE  KeptInv'
BY DEF KeptInv, Reminders, LastTold, DropsTold, CancelAnswered

LEMMA TellingWhen ==
    ASSUME UNCHANGED <<notes, muted>>
    PROVE  Telling
BY DEF Telling

LEMMA NoteTelling ==
    ASSUME NEW k, NEW i, NEW f, NEW o, Note(k, i, f, o), muted \subseteq muted'
    PROVE  Telling
BY DEF Note, Telling

LEMMA AsideKept ==
    ASSUME KeptInv, Telling, UNCHANGED <<load, req, accepted>>
    PROVE  DropsTold' /\ CancelAnswered'
<1>1. DropsTold'
  BY KeptParts, DropsStay
<1>2. CancelAnswered'
  BY DEF KeptInv, CancelAnswered
<1> QED BY <1>1, <1>2

LEMMA FireNoteKept ==
    ASSUME KeptInv, GridInv, NEW o, FireNote(o)
    PROVE  KeptInv'
<1>1. firing \in AtWork /\ UNCHANGED <<keys, accepted, load, req, muted>>
  BY Busy DEF GridInv, FireNote, history
<1>2. PICK k, t : /\ k = (IF Recurs(firing.t) THEN "fired" ELSE "last") /\ t = firing.t
                  /\ Note(k, t.id, t.fire, o)
  BY DEF FireNote
<1>3. Telling
  BY <1>1, <1>2, NoteTelling
<1>4. LastTold'
  <2>1. CASE RetryLater
    BY <2>1, RetryIdle DEF LastTold
  <2>2. CASE o = "ok" /\ firing' = [firing EXCEPT !.pc = "receipts"]
    <3>1. firing'.t = t
      BY <1>1, <1>2, <2>2 DEF AtWork
    <3>2. CASE Recurs(t)
      <4>1. Recurs(t)'
        BY <3>2 DEF Recurs
      <4> QED BY <3>1, <4>1 DEF LastTold, Recurs
    <3>3. CASE ~Recurs(t)
      <4>1. k = "last" /\ Done(o)
        BY <1>2, <2>2, <3>3 DEF Done
      <4>2. Told(t.id)'
        BY <1>2, <4>1, NoteTells
      <4> QED BY <3>1, <4>2 DEF LastTold, Settled, Told
    <3> QED BY <3>2, <3>3
  <2> QED BY <2>1, <2>2 DEF FireNote, Proceed
<1> QED BY <1>1, <1>3, <1>4, AsideKept, QuietKeeps

LEMMA FireOnKept ==
    ASSUME KeptInv, GridInv, NEW o, FireReceipts(o) \/ FireRecord(o)
    PROVE  KeptInv'
<1>1. /\ firing \in AtWork /\ firing.pc \in {"receipts", "record"}
      /\ UNCHANGED <<keys, notes, accepted, load, req, muted>>
  BY Busy DEF GridInv, FireReceipts, FireRecord, history, exomind
<1>2. Telling
  BY <1>1, TellingWhen
<1>3. LastTold'
  <2>1. CASE RetryLater
    BY <2>1, RetryIdle DEF LastTold
  <2>2. CASE \E pc \in {"record", "final"} : firing' = [firing EXCEPT !.pc = pc]
    <3>1. firing'.t = firing.t
      BY <1>1, <2>2 DEF AtWork
    <3>2. PICK t : t = firing.t
      OBVIOUS
    <3>3. Recurs(t)' <=> Recurs(t)
      BY DEF Recurs
    <3>4. ~Recurs(t) => Settled(t.id)
      BY <1>1, <3>2 DEF KeptInv
    <3>5. ~Recurs(t) => Settled(t.id)'
      BY <1>2, <3>4, SettledStays
    <3> QED BY <3>1, <3>2, <3>3, <3>5 DEF LastTold, Settled, Told, Recurs
  <2> QED BY <2>1, <2>2 DEF FireReceipts, FireRecord, Proceed
<1> QED BY <1>1, <1>2, <1>3, AsideKept, QuietKeeps

LEMMA FireEndKept ==
    ASSUME KeptInv, GridInv, NEW o, FireReschedule(o) \/ FireDelete(o)
    PROVE  KeptInv'
<1>1. /\ firing \in AtWork /\ firing.pc = "final" /\ firing.t \in Timers /\ firing.t.id \in Ids
      /\ UNCHANGED <<now, notes, accepted, load, req, muted>>
  BY Busy DEF GridInv, FireReschedule, FireDelete
<1>2. Telling
  BY <1>1, TellingWhen
<1>3. LastTold'
  <2>1. firing'.pc = "idle"
    BY RetryIdle DEF FireReschedule, FireDelete, Requeue, Idle
  <2> QED BY <2>1 DEF LastTold
<1>4. \A i \in Ids : keys'[i] = NoKey => keys[i] = NoKey \/ Settled(i)
  <2>1. CASE FireReschedule(o)
    <3>1. PICK u, f : /\ u = [firing.t EXCEPT !.fire = f, !.retry = 0]
                      /\ f = firing.t.fire + firing.t.repeat /\ Persist(u.id, u, o)
      BY <2>1 DEF FireReschedule
    <3>2. u.fire \in Int /\ u.id = firing.t.id
      BY <1>1, <3>1 DEF Timers
    <3>3. KeyFor(u) # NoKey
      BY <3>2, KeyForIs DEF GridInv, HistoryOK
    <3>4. \A i \in Ids : keys'[i] = keys[i] \/ keys'[i] = KeyFor(u)
      BY <1>1, <3>1 DEF Persist, GridInv, KeysOK
    <3> QED BY <3>3, <3>4
  <2>2. CASE FireDelete(o)
    <3>1. Settled(firing.t.id)
      BY <1>1, <2>2 DEF KeptInv, FireDelete
    <3>2. \A i \in Ids : keys'[i] = keys[i] \/ i = firing.t.id
      BY <1>1, <2>2 DEF FireDelete, Delete, GridInv, KeysOK
    <3> QED BY <3>1, <3>2
  <2> QED BY <2>1, <2>2
<1>5. Reminders'
  BY <1>1, <1>2, <1>4, KeptParts, RemindersStay
<1> QED BY <1>1, <1>2, <1>3, <1>5, AsideKept, KeptPartsStep

(***************************************************************************)
(* Reloads: a key is dropped behind the note about it only.                *)
(***************************************************************************)
LEMMA ReloadAside ==
    ASSUME KeptInv, Telling, UNCHANGED <<firing, req, accepted>>
    PROVE  LastTold' /\ CancelAnswered'
<1>1. LastTold'
  BY KeptParts, LastStays
<1>2. CancelAnswered'
  BY DEF KeptInv, CancelAnswered
<1> QED BY <1>1, <1>2

LEMMA LoadedDrops ==
    ASSUME DropsTold, LoadOK, Telling, NEW p \in Programs, Loaded(p) \/ Failed(p)
    PROVE  DropsTold'
<1>1. load \in [Programs -> Loads]
  BY DEF LoadOK, Programs
<1>2. \A q \in Programs : q # p => load'[q] = load[q]
  BY <1>1 DEF Loaded, Failed
<1>3. load'[p].pc # "dropkey"
  <2>1. CASE load' = [load EXCEPT ![p] = Starts]
    <3>1. load'[p] = Starts
      BY <1>1, <2>1
    <3> QED BY <3>1, OffIs
  <2>2. CASE \E pc \in {"stats", "op"} : load' = [load EXCEPT ![p].pc = pc]
    BY <1>1, <2>2 DEF Loads
  <2> QED BY <2>1, <2>2 DEF Loaded, Failed
<1> QED BY <1>2, <1>3, DropsStay

LEMMA ReloadKept ==
    ASSUME KeptInv, GridInv, NEW p \in Programs, NEW o,
           ReloadBegin(p) \/ ReloadList(p, o) \/ ReloadBatch(p, o) \/ ReloadAdd(p)
    PROVE  KeptInv'
<1>1. UNCHANGED <<keys, notes, accepted, firing, req, muted>>
  BY DEF ReloadBegin, ReloadList, ReloadBatch, ReloadAdd, exomind, memory, history
<1>2. Telling
  BY <1>1, TellingWhen
<1>3. load \in [Programs -> Loads]
  BY DEF GridInv, LoadOK, Programs
<1>4. DropsTold'
  <2>1. CASE Loaded(p) \/ Failed(p)
    BY <1>2, <2>1, LoadedDrops, KeptParts DEF GridInv
  <2>2. CASE ~(Loaded(p) \/ Failed(p))
    <3>1. CASE ReloadBegin(p)
      <4>1. load' = [load EXCEPT ![p].pc = "list", ![p].gen = gen]
        BY <3>1 DEF ReloadBegin
      <4>2. load'[p].pc = "list" /\ \A q \in Programs : q # p => load'[q] = load[q]
        BY <1>3, <4>1 DEF Loads
      <4> QED BY <1>2, <4>2, DropsStay, KeptParts
    <3>2. CASE ReloadList(p, o)
      <4>1. load' = [load EXCEPT ![p].pc = "batch", ![p].ids = Live]
        BY <2>2, <3>2 DEF ReloadList
      <4>2. load'[p].pc = "batch" /\ \A q \in Programs : q # p => load'[q] = load[q]
        BY <1>3, <4>1 DEF Loads
      <4> QED BY <1>2, <4>2, DropsStay, KeptParts
    <3>3. CASE ReloadBatch(p, o)
      <4>1. PICK ds, as : load' = [load EXCEPT ![p].pc = "drop", ![p].ids = {},
                                               ![p].drops = ds, ![p].adds = as]
        BY <2>2, <3>3 DEF ReloadBatch
      <4>2. load'[p].pc = "drop" /\ \A q \in Programs : q # p => load'[q] = load[q]
        BY <1>3, <4>1 DEF Loads
      <4> QED BY <1>2, <4>2, DropsStay, KeptParts
    <3>4. CASE ReloadAdd(p)
      BY <2>2, <3>4 DEF ReloadAdd
    <3> QED BY <3>1, <3>2, <3>3, <3>4
  <2> QED BY <2>1, <2>2
<1> QED BY <1>1, <1>2, <1>4, ReloadAside, QuietKeeps

LEMMA DropNoteKept ==
    ASSUME KeptInv, GridInv, NEW p \in Programs, NEW o, DropNote(p, o)
    PROVE  KeptInv'
<1>1. /\ UNCHANGED <<keys, accepted, firing, req>> /\ load \in [Programs -> Loads]
  BY DEF DropNote, GridInv, LoadOK, Programs, memory
<1>2. PICK t \in load[p].drops :
        /\ Note("missed", t.id, t.fire, o)
        /\ load' = [load EXCEPT ![p].pc = "dropkey", ![p].ids = {t.id}, ![p].drops = @ \ {t}]
        /\ muted' = IF Done(o) THEN muted ELSE muted \cup {t.id}
  BY DEF DropNote
<1>3. Telling
  BY <1>2 DEF Telling, Note
<1>4. Settled(t.id)'
  <2>1. CASE Done(o)
    <3>1. PICK k \in {"last", "missed"} : Note(k, t.id, t.fire, o)
      BY <1>2
    <3>2. Told(t.id)'
      BY <2>1, <3>1, NoteTells
    <3> QED BY <3>2 DEF Settled, Told
  <2>2. CASE ~Done(o)
    BY <1>2, <2>2 DEF Settled
  <2> QED BY <2>1, <2>2
<1>5. /\ load'[p].ids = {t.id}
      /\ \A q \in Programs : q # p => load'[q] = load[q]
  BY <1>1, <1>2 DEF Loads
<1>6. DropsTold'
  <2> SUFFICES ASSUME NEW q \in Programs, load'[q].pc = "dropkey", NEW i \in load'[q].ids
               PROVE  Settled(i)'
    BY DEF DropsTold
  <2>1. CASE q = p
    BY <1>4, <1>5, <2>1
  <2>2. CASE q # p
    <3>1. Settled(i)
      BY <1>5, <2>2 DEF KeptInv
    <3> QED BY <1>3, <3>1, SettledStays
  <2> QED BY <2>1, <2>2
<1> QED BY <1>1, <1>3, <1>6, ReloadAside, QuietKeeps

LEMMA DropKeyKept ==
    ASSUME KeptInv, GridInv, NEW p \in Programs, NEW o, DropKey(p, o)
    PROVE  KeptInv'
<1>1. UNCHANGED <<notes, accepted, firing, req, muted>> /\ load \in [Programs -> Loads]
  BY DEF DropKey, GridInv, LoadOK, Programs, memory, history
<1>2. Telling
  BY <1>1, TellingWhen
<1>3. PICK i \in load[p].ids : Delete(i, o)
  BY DEF DropKey
<1>4. Settled(i)
  BY DEF KeptInv, DropKey
<1>5. \A j \in Ids : keys'[j] = keys[j] \/ j = i
  BY <1>3 DEF Delete, GridInv, KeysOK
<1>6. Reminders'
  <2>1. \A j \in Ids : keys'[j] = NoKey => keys[j] = NoKey \/ Settled(j)
    BY <1>4, <1>5
  <2> QED BY <1>1, <1>2, <2>1, KeptParts, RemindersStay
<1>7. DropsTold'
  <2>1. load'[p].pc = "drop" /\ \A q \in Programs : q # p => load'[q] = load[q]
    BY <1>1 DEF DropKey, Loads
  <2> QED BY <1>2, <2>1, DropsStay, KeptParts
<1> QED BY <1>1, <1>2, <1>6, <1>7, ReloadAside, KeptPartsStep

(***************************************************************************)
(* Requests.                                                               *)
(***************************************************************************)
LEMMA RemindPersistKept ==
    ASSUME KeptInv, GridInv, NEW i \in Ids, NEW b \in Bodies, NEW o, RemindPersist(i, b, o)
    PROVE  KeptInv'
<1>1. UNCHANGED <<notes, firing, load, muted, now>> /\ Telling
  BY TellingWhen DEF RemindPersist, memory
<1>2. PICK t, a : /\ t = Timer(i, Parsed(b, now)) /\ a = (IF o = "ok" THEN "asked" ELSE "refused")
                  /\ Persist(i, t, o) /\ accepted' = [accepted EXCEPT ![i] = a]
  BY DEF RemindPersist
<1>3. t \in Promised
  BY <1>2, ParsedIs DEF GridInv, HistoryOK, RemindPersist
<1>4. KeyFor(t) # NoKey
  <2>1. t.fire \in Int /\ now \in Nat
    BY <1>3 DEF Promised, GridInv, HistoryOK
  <2> QED BY <2>1, KeyForIs
<1>5. Reminders'
  <2> SUFFICES ASSUME NEW j \in Ids, accepted'[j] \in {"asked", "yes"}
               PROVE  keys'[j] # NoKey \/ Settled(j)'
    BY DEF Reminders
  <2>1. CASE j = i
    <3>1. o = "ok"
      BY <1>2, <2>1 DEF GridInv, HistoryOK
    <3>2. keys'[i] = KeyFor(t)
      BY <1>2, <3>1 DEF Persist, Done, GridInv, KeysOK
    <3> QED BY <1>4, <2>1, <3>2
  <2>2. CASE j # i
    <3>1. accepted'[j] = accepted[j] /\ keys'[j] = keys[j]
      BY <1>2, <2>2 DEF Persist, GridInv, KeysOK, HistoryOK
    <3>2. keys[j] # NoKey \/ Settled(j)
      BY <3>1 DEF KeptInv
    <3> QED BY <1>1, <3>1, <3>2, SettledStays
  <2> QED BY <2>1, <2>2
<1>6. LastTold' /\ DropsTold'
  BY <1>1, KeptParts, LastStays, DropsStay
<1>7. CancelAnswered'
  <2>1. req' = Idle \/ req' = [pc |-> "add", t |-> t]
    BY <1>2 DEF RemindPersist
  <2>2. req'.pc \in {"idle", "add"}
    BY <2>1 DEF Idle
  <2> QED BY <2>2 DEF CancelAnswered
<1> QED BY <1>5, <1>6, <1>7, KeptPartsStep

LEMMA RemindAddKept ==
    ASSUME KeptInv, GridInv, RemindAdd
    PROVE  KeptInv'
<1>1. UNCHANGED <<keys, notes, firing, load, muted>> /\ Telling
  BY TellingWhen DEF RemindAdd, exomind
<1>2. PICK i, a : /\ i = req.t.id /\ accepted' = [accepted EXCEPT ![i] = a] /\ i \in Ids
                  /\ (a = "refused" /\ req'.t.id = i)
                     \/ ((a \in {"asked", "yes"} => accepted[i] \in {"asked", "yes"})
                         /\ req'.pc = "idle")
  <2>1. req.t.id \in Ids
    BY Served DEF GridInv, RemindAdd
  <2>2. CASE reg[req.t.id] = <<>>
    <3>1. PICK a : /\ a = (IF accepted[req.t.id] = "asked" THEN "yes" ELSE accepted[req.t.id])
                   /\ accepted' = [accepted EXCEPT ![req.t.id] = a] /\ req' = Idle
      BY <2>2 DEF RemindAdd
    <3>2. (a \in {"asked", "yes"} => accepted[req.t.id] \in {"asked", "yes"})
         /\ req'.pc = "idle"
      BY <3>1 DEF Idle
    <3> QED BY <2>1, <3>1, <3>2
  <2>3. CASE reg[req.t.id] # <<>>
    BY <2>1, <2>3 DEF RemindAdd
  <2> QED BY <2>2, <2>3
<1>3. Reminders'
  <2>1. \A j \in Ids : accepted'[j] \in {"asked", "yes"} => accepted[j] \in {"asked", "yes"}
    BY <1>2 DEF GridInv, HistoryOK
  <2> QED BY <1>1, <2>1, KeptParts, RemindersStay
<1>4. LastTold' /\ DropsTold'
  BY <1>1, KeptParts, LastStays, DropsStay
<1>5. CancelAnswered'
  BY <1>2 DEF CancelAnswered, GridInv, HistoryOK
<1> QED BY <1>3, <1>4, <1>5, KeptPartsStep

LEMMA CancelKept ==
    ASSUME KeptInv, GridInv, NEW i \in Ids, CancelRemove(i)
    PROVE  KeptInv'
<1>1. UNCHANGED <<keys, notes, firing, load, muted>> /\ Telling
  BY TellingWhen DEF CancelRemove, exomind
<1>2. PICK a \in {"cancelling", "unclear"} : accepted' = [accepted EXCEPT ![i] = a]
  BY DEF CancelRemove
<1>3. accepted'[i] = a /\ \A j \in Ids : j # i => accepted'[j] = accepted[j]
  BY <1>2 DEF GridInv, HistoryOK
<1>4. Reminders'
  <2>1. \A j \in Ids : accepted'[j] \in {"asked", "yes"} => accepted[j] \in {"asked", "yes"}
    BY <1>3
  <2> QED BY <1>1, <2>1, KeptParts, RemindersStay
<1>5. LastTold' /\ DropsTold'
  BY <1>1, KeptParts, LastStays, DropsStay
<1>6. CancelAnswered'
  <2>1. reg[i] \in Seq(Own(i)) /\ reg[i] # <<>>
    BY DEF GridInv, RegOK, CancelRemove
  <2>2. Head(reg[i]) \in Own(i)
    BY <2>1, HeadTailProperties
  <2>3. PICK t : t = Head(reg[i]) /\ req' = [pc |-> "del", t |-> t] /\ t.id = i
    BY <2>2 DEF CancelRemove, Own
  <2> QED BY <1>3, <2>3 DEF CancelAnswered
<1> QED BY <1>4, <1>5, <1>6, KeptPartsStep

LEMMA DeleteKeyKept ==
    ASSUME KeptInv, GridInv, NEW o, DeleteKey(o)
    PROVE  KeptInv'
<1>1. UNCHANGED <<notes, firing, load, muted>> /\ Telling /\ req' = Idle
  BY TellingWhen DEF DeleteKey, memory
<1>2. PICK i : i = req.t.id /\ i \in Ids /\ accepted[i] \notin {"asked", "yes"} /\ Delete(i, o)
  BY Served DEF GridInv, DeleteKey, KeptInv
<1>3. /\ accepted'[i] \notin {"asked", "yes"}
      /\ \A j \in Ids : j # i => accepted'[j] = accepted[j]
  BY <1>2 DEF DeleteKey, GridInv, HistoryOK
<1>4. \A j \in Ids : j # i => keys'[j] = keys[j]
  BY <1>2 DEF Delete, GridInv, KeysOK
<1>5. Reminders'
  BY <1>1, <1>3, <1>4, KeptParts, RemindersStay
<1>6. LastTold' /\ DropsTold'
  BY <1>1, KeptParts, LastStays, DropsStay
<1>7. CancelAnswered'
  BY <1>1 DEF CancelAnswered, Idle
<1> QED BY <1>5, <1>6, <1>7, KeptPartsStep

LEMMA KeptStep ==
    ASSUME KeptInv, GridInv, [Next]_vars
    PROVE  KeptInv'
<1>1. CASE Take
  <2>1. firing'.pc = "note" /\ UNCHANGED <<keys, notes, accepted, load, req, muted>>
    BY <1>1 DEF Take, exomind, history
  <2>2. LastTold' /\ Telling
    BY <2>1, TellingWhen DEF LastTold
  <2> QED BY <2>1, <2>2, AsideKept, QuietKeeps
<1>2. CASE Fire
  BY <1>2, FireNoteKept, FireOnKept, FireEndKept DEF Fire
<1>3. CASE \E p \in {"daemon", "console"} : Reload(p)
  <2>1. PICK p \in Programs : Reload(p)
    BY <1>3 DEF Programs
  <2> QED BY <2>1, ReloadKept, DropNoteKept, DropKeyKept DEF Reload
<1>4. CASE Serve
  BY <1>4, RemindPersistKept, RemindAddKept, CancelKept, DeleteKeyKept DEF Serve
<1>5. CASE Counters \/ Console \/ Start
  <2>1. UNCHANGED <<notes, firing, req, muted>> /\ Telling
    BY <1>5, TellingWhen DEF Counters, LoadCounters, Console, ConsoleStart, ConsoleList,
       ConsoleCancel, Start, memory, exomind, history
  <2>2. PICK p, l : /\ p \in Programs /\ l \in {Off, Starts} /\ load' = [load EXCEPT ![p] = l]
    BY <1>5 DEF Counters, LoadCounters, Console, ConsoleStart, ConsoleList, ConsoleCancel,
       Start, Programs
  <2>3. load \in [Programs -> Loads]
    BY DEF GridInv, LoadOK, Programs
  <2>4. DropsTold'
    <3>1. load'[p].pc # "dropkey" /\ \A q \in Programs : q # p => load'[q] = load[q]
      BY <2>2, <2>3, OffIs
    <3> QED BY <2>1, <3>1, DropsStay, KeptParts
  <2>5. \/ UNCHANGED <<keys, accepted>>
        \/ \E i \in Ids : \E o : Delete(i, o) /\ accepted' = [accepted EXCEPT ![i] = "unclear"]
    <3>1. CASE \E o : ConsoleCancel(o)
      <4>1. PICK o, t : /\ t \in load["console"].adds /\ Delete(t.id, o)
                        /\ accepted' = [accepted EXCEPT ![t.id] = "unclear"]
        BY <3>1 DEF ConsoleCancel
      <4>2. t.id \in Ids
        BY <2>3, <4>1 DEF Loads, Timers, Programs
      <4> QED BY <4>1, <4>2
    <3>2. CASE ConsoleStart \/ ConsoleList \/ Start \/ \E o : LoadCounters(o)
      BY <3>2 DEF ConsoleStart, ConsoleList, Start, LoadCounters, exomind, history
    <3> QED BY <1>5, <3>1, <3>2 DEF Counters, Console
  <2>6. Reminders'
    <3>1. \A i \in Ids : accepted'[i] \in {"asked", "yes"} =>
              accepted[i] \in {"asked", "yes"} /\ keys'[i] = keys[i]
      BY <2>5 DEF Delete, GridInv, HistoryOK, KeysOK
    <3> QED BY <2>1, <3>1, KeptParts, RemindersStay
  <2>7. LastTold' /\ CancelAnswered'
    <3>1. LastTold'
      BY <2>1, KeptParts, LastStays
    <3>2. req.pc \in {"del", "undo"} => req.t.id \in Ids
      BY Served DEF GridInv
    <3>3. CancelAnswered'
      BY <2>1, <2>5, <3>2 DEF KeptInv, CancelAnswered, GridInv, HistoryOK
    <3> QED BY <3>1, <3>3
  <2> QED BY <2>4, <2>6, <2>7, KeptPartsStep
<1>6. CASE Crash
  <2>1. /\ UNCHANGED <<keys, notes, muted>> /\ Telling
        /\ firing' = Idle /\ req' = Idle /\ load' = [load EXCEPT !["daemon"] = Off]
        /\ \A i \in Ids : accepted'[i] \in {"asked", "yes"} => accepted[i] \in {"asked", "yes"}
    BY <1>6, TellingWhen DEF Crash, exomind
  <2>2. Reminders'
    BY <2>1, KeptParts, RemindersStay
  <2>3. DropsTold'
    <3>1. load \in [Programs -> Loads] /\ "daemon" \in Programs
      BY DEF GridInv, LoadOK, Programs
    <3>2. load'["daemon"].pc # "dropkey" /\ \A q \in Programs : q # "daemon" => load'[q] = load[q]
      BY <2>1, <3>1, OffIs
    <3> QED BY <2>1, <3>2, DropsStay, KeptParts
  <2>4. LastTold' /\ CancelAnswered'
    BY <2>1 DEF LastTold, CancelAnswered, Idle
  <2> QED BY <2>2, <2>3, <2>4, KeptPartsStep
<1>7. CASE Tick \/ UNCHANGED vars
  <2>1. UNCHANGED <<keys, notes, accepted, load, req, muted, firing>>
    BY <1>7 DEF Tick, vars, exomind, history
  <2>2. LastTold' /\ Telling
    BY <2>1, TellingWhen, KeptParts, LastStays
  <2> QED BY <2>1, <2>2, AsideKept, QuietKeeps
<1> QED BY <1>1, <1>2, <1>3, <1>4, <1>5, <1>6, <1>7 DEF Next

(***************************************************************************)
(* timers.c 209-304 and 362-383: a reminder that was answered ok still has *)
(* its key, or the feed says that it fired for the last time or was        *)
(* missed, unless that note itself was refused; in that order whatever     *)
(* fails in between.  The registry is not needed for it.                   *)
(***************************************************************************)
THEOREM RemindersKept == Spec => []NeverForgotten
<1>1. KeptInv => NeverForgotten
  BY DEF KeptInv, NeverForgotten, Kept, Settled, Told
<1> QED BY <1>1, KeptStarts, KeptStep, GridInvariant, PTL DEF Spec

-----------------------------------------------------------------------------
(* Cancelled timers stay away *)

(***************************************************************************)
(* Once a cancel took the only copy of a timer, the daemon has none, and a *)
(* reload in progress that read the generation counted up by the cancel    *)
(* has begun behind the deletion of the key: it has not seen the timer.    *)
(***************************************************************************)
Away(i) == reg[i] = <<>> /\ (firing.pc # "idle" => firing.t.id # i)
Unseen(i, l) ==
    l.pc \in {"list", "batch", "drop", "dropkey"} =>
        \/ l.gen < gen
        \/ /\ accepted[i] = "cancelled"
           /\ l.pc = "batch" => i \notin l.ids
           /\ l.pc \in {"drop", "dropkey"} => \A t \in l.adds : t.id # i
Clear(i) ==
    /\ Away(i) /\ Unseen(i, load["daemon"])
    /\ accepted[i] = "cancelled" => keys[i] = NoKey

Cancels == {"cancelling", "cancelled"}
CancelInv ==
    /\ load["daemon"].gen <= gen
    /\ req.pc = "add" => accepted[req.t.id] \notin Cancels
    /\ \A i \in Ids : accepted[i] \in Cancels => i \in raced \/ Clear(i)

LEMMA CancelStarts == Init => CancelInv
<1> SUFFICES ASSUME Init PROVE CancelInv
  OBVIOUS
<1>1. /\ \A i \in Ids : accepted[i] = "no"
      /\ req = Idle /\ Idle = [pc |-> "idle"] /\ gen = 0
      /\ load["daemon"] = Off
  BY DEF Init, Idle
<1>2. req.pc = "idle"
  BY <1>1
<1>3. load["daemon"].gen <= gen
  BY <1>1, OffIs
<1> QED BY <1>1, <1>2, <1>3 DEF CancelInv, Cancels

LEMMA AwayIs ==
    ASSUME GridInv, NEW i \in Ids
    PROVE  Away(i) <=> Copies(i) = 0
<1>1. reg[i] \in Seq(Timers)
  BY DEF GridInv, RegOK
<1>2. Len(reg[i]) \in Nat /\ (Len(reg[i]) = 0 <=> reg[i] = <<>>)
  BY <1>1, EmptySeq, LenProperties
<1>3. PICK n \in Nat : n = Len(reg[i])
  BY <1>2
<1>4. Copies(i) = n + (IF firing.pc # "idle" /\ firing.t.id = i THEN 1 ELSE 0)
  BY <1>3 DEF Copies
<1>5. n = 0 <=> reg[i] = <<>>
  BY <1>2, <1>3
<1>6. CASE firing.pc # "idle" /\ firing.t.id = i
  <2>1. Copies(i) = n + 1
    BY <1>4, <1>6
  <2> QED BY <1>6, <2>1 DEF Away
<1>7. CASE ~(firing.pc # "idle" /\ firing.t.id = i)
  <2>1. Copies(i) = n
    BY <1>4, <1>7
  <2> QED BY <1>5, <1>7, <2>1 DEF Away
<1> QED BY <1>6, <1>7

(***************************************************************************)
(* A reload that is not between its begin and its end.                     *)
(***************************************************************************)
Resting(l, old) == l.pc \in {"off", "begin", "stats", "op"} /\ l.gen \in {0, old.gen}

(***************************************************************************)
(* Steps that leave answers, the generation and the daemon's reload alone, *)
(* or end the reload.                                                      *)
(***************************************************************************)
LEMMA CancelStays ==
    ASSUME CancelInv, GridInv, UNCHANGED <<accepted, gen>>, raced \subseteq raced',
           load'["daemon"] = load["daemon"] \/ Resting(load'["daemon"], load["daemon"]),
           req' = req \/ req'.pc # "add",
           \A i \in Ids : Clear(i) =>
               /\ reg'[i] = <<>> \/ reg'[i] = reg[i]
               /\ firing'.pc = "idle" \/ (firing.pc # "idle" /\ firing'.t.id = firing.t.id)
                     \/ firing'.t.id # i
               /\ keys'[i] = NoKey \/ keys'[i] = keys[i]
    PROVE  CancelInv'
<1>1. load["daemon"].gen \in Nat /\ gen \in Nat
  BY DEF GridInv, HistoryOK, LoadOK, Loads
<1>2. load'["daemon"].gen <= gen
  BY <1>1 DEF CancelInv, Resting
<1>3. ASSUME NEW i \in Ids, Clear(i) PROVE Clear(i)'
  <2>1. Away(i)'
    BY <1>3 DEF Clear, Away
  <2>2. Unseen(i, load["daemon"])'
    BY <1>3 DEF Clear, Unseen, Resting
  <2> QED BY <1>3, <2>1, <2>2 DEF Clear
<1> QED BY <1>2, <1>3 DEF CancelInv

LEMMA FireCancel ==
    ASSUME CancelInv, GridInv, Take \/ Fire
    PROVE  CancelInv'
<1>1. UNCHANGED <<accepted, gen, raced, load, req>>
  BY DEF Take, Fire, FireNote, FireReceipts, FireRecord, FireReschedule, FireDelete, history
<1>2. ASSUME NEW i \in Ids, Clear(i)
      PROVE  /\ reg'[i] = <<>> \/ reg'[i] = reg[i]
             /\ firing'.pc = "idle" \/ (firing.pc # "idle" /\ firing'.t.id = firing.t.id)
                   \/ firing'.t.id # i
             /\ keys'[i] = NoKey \/ keys'[i] = keys[i]
  <2>1. CASE Take
    <3>1. PICK t \in Listed : /\ reg' = [reg EXCEPT ![t.id] = Without(@, t)]
                              /\ firing' = [pc |-> "note", t |-> t]
      BY <2>1 DEF Take
    <3>2. PICK j, n : j \in Ids /\ n \in DOMAIN reg[j] /\ t = reg[j][n]
      BY DEF Listed
    <3>3. reg[j] \in Seq(Own(j)) /\ DOMAIN reg[j] = 1..Len(reg[j])
      <4>1. reg[j] \in Seq(Own(j))
        BY <3>2 DEF GridInv, RegOK
      <4> QED BY <4>1, LenProperties
    <3>4. t.id = j
      <4>1. t \in Own(j)
        BY <3>2, <3>3, ElementOfSeq
      <4> QED BY <4>1 DEF Own
    <3>5. j # i
      <4>1. reg[i] = <<>> /\ Len(<<>>) = 0
        BY <1>2 DEF Clear, Away
      <4> QED BY <3>2, <3>3, <4>1
    <3>6. reg'[i] = reg[i] /\ firing'.t.id # i
      BY <3>1, <3>4, <3>5 DEF GridInv, RegOK
    <3>7. keys' = keys
      BY <2>1 DEF Take, exomind
    <3> QED BY <3>6, <3>7
  <2>2. CASE Fire
    <3>1. PICK o : FireNote(o) \/ FireReceipts(o) \/ FireRecord(o) \/ FireReschedule(o)
                       \/ FireDelete(o)
      BY <2>2 DEF Fire
    <3>2. firing \in AtWork /\ firing.t \in Timers /\ firing.t.id \in Ids /\ firing.pc # "idle"
      BY <3>1, Busy DEF GridInv, FireNote, FireReceipts, FireRecord, FireReschedule, FireDelete
    <3>3. firing.t.id # i
      BY <1>2, <3>2 DEF Clear, Away
    <3>4. CASE FireNote(o) \/ FireReceipts(o) \/ FireRecord(o)
      <4>1. keys' = keys
        BY <3>4 DEF FireNote, FireReceipts, FireRecord, exomind
      <4>2. CASE \E pc : firing' = [firing EXCEPT !.pc = pc] /\ UNCHANGED reg
        BY <3>2, <4>1, <4>2 DEF AtWork
      <4>3. CASE RetryLater
        <5>1. PICK t, r : t = [firing.t EXCEPT !.retry = r] /\ Requeue(t)
          BY <4>3 DEF RetryLater
        <5>2. t.id = firing.t.id
          BY <3>2, <5>1 DEF Timers
        <5>3. reg'[i] = reg[i] /\ firing'.pc = "idle"
          BY <3>3, <5>1, <5>2 DEF Requeue, Idle, GridInv, RegOK
        <5> QED BY <4>1, <5>3
      <4> QED BY <3>4, <4>2, <4>3 DEF FireNote, FireReceipts, FireRecord, Proceed
    <3>5. CASE FireReschedule(o) \/ FireDelete(o)
      <4>1. keys'[i] = keys[i]
        <5>1. CASE FireDelete(o)
          BY <3>3, <5>1 DEF FireDelete, Delete, GridInv, KeysOK
        <5>2. CASE FireReschedule(o)
          <6>1. PICK u, f : u = [firing.t EXCEPT !.fire = f, !.retry = 0] /\ Persist(u.id, u, o)
            BY <5>2 DEF FireReschedule
          <6>2. u.id = firing.t.id
            BY <3>2, <6>1 DEF Timers
          <6> QED BY <3>3, <6>1, <6>2 DEF Persist, GridInv, KeysOK
        <5> QED BY <3>5, <5>1, <5>2
      <4>2. reg'[i] = reg[i] /\ firing'.pc = "idle"
        <5>1. CASE firing' = Idle /\ UNCHANGED reg
          BY <5>1 DEF Idle
        <5>2. CASE \E t : t.id = firing.t.id /\ Requeue(t)
          BY <3>3, <5>2 DEF Requeue, Idle, GridInv, RegOK
        <5>3. RetryLater => \E t : t.id = firing.t.id /\ Requeue(t)
          <6> SUFFICES ASSUME RetryLater PROVE \E t : t.id = firing.t.id /\ Requeue(t)
            OBVIOUS
          <6>1. PICK t, r : t = [firing.t EXCEPT !.retry = r] /\ Requeue(t)
            BY DEF RetryLater
          <6>2. t.id = firing.t.id
            BY <3>2, <6>1 DEF Timers
          <6> QED BY <6>1, <6>2
        <5>4. CASE FireReschedule(o)
          <6>1. PICK u, f : /\ u = [firing.t EXCEPT !.fire = f, !.retry = 0]
                            /\ Requeue(u) \/ RetryLater
            BY <5>4 DEF FireReschedule
          <6>2. u.id = firing.t.id
            BY <3>2, <6>1 DEF Timers
          <6> QED BY <5>2, <5>3, <6>1, <6>2
        <5> QED BY <3>5, <5>1, <5>2, <5>3, <5>4 DEF FireDelete
      <4> QED BY <4>1, <4>2
    <3> QED BY <3>1, <3>4, <3>5
  <2> QED BY <2>1, <2>2
<1> QED BY <1>1, <1>2, CancelStays

(***************************************************************************)
(* The daemon's reload.                                                    *)
(***************************************************************************)
LEMMA ReloadSees ==
    ASSUME CancelInv, GridInv,
           UNCHANGED <<accepted, gen, raced, reg, firing, req>>,
           \A i \in Ids : keys'[i] = NoKey \/ keys'[i] = keys[i],
           load'["daemon"].gen \in {0, load["daemon"].gen},
           \A i \in Ids : i \notin raced /\ accepted[i] \in Cancels /\ Clear(i) =>
               Unseen(i, load'["daemon"])
    PROVE  CancelInv'
<1>1. load["daemon"].gen \in Nat /\ gen \in Nat
  BY DEF GridInv, HistoryOK, LoadOK, Loads
<1>2. load'["daemon"].gen <= gen
  BY <1>1 DEF CancelInv
<1>3. ASSUME NEW i \in Ids, i \notin raced, accepted[i] \in Cancels, Clear(i) PROVE Clear(i)'
  <2>1. PICK l : l = load'["daemon"] /\ Unseen(i, l)
    BY <1>3
  <2>2. Unseen(i, l)'
    BY <2>1 DEF Unseen
  <2> QED BY <1>3, <2>1, <2>2 DEF Clear, Away
<1> QED BY <1>2, <1>3 DEF CancelInv

LEMMA LoadedRests ==
    ASSUME LoadOK, NEW p \in Programs, Loaded(p) \/ Failed(p)
    PROVE  load'["daemon"] = load["daemon"] \/ Resting(load'["daemon"], load["daemon"])
<1>1. load \in [Programs -> Loads]
  BY DEF LoadOK, Programs
<1>2. CASE p # "daemon"
  BY <1>1, <1>2 DEF Loaded, Failed, Programs
<1>3. CASE p = "daemon"
  <2>1. CASE load' = [load EXCEPT ![p] = Starts]
    <3>1. load'["daemon"] = Starts
      BY <1>1, <1>3, <2>1
    <3> QED BY <3>1, OffIs DEF Resting
  <2>2. CASE \E pc \in {"stats", "op"} : load' = [load EXCEPT ![p].pc = pc]
    BY <1>1, <1>3, <2>2 DEF Loads, Resting
  <2> QED BY <2>1, <2>2 DEF Loaded, Failed
<1> QED BY <1>2, <1>3

LEMMA ReloadEndsCancel ==
    ASSUME CancelInv, GridInv, NEW p \in Programs, Loaded(p) \/ Failed(p),
           UNCHANGED <<accepted, gen, raced, reg, firing, req, keys>>
    PROVE  CancelInv'
<1>1. load'["daemon"] = load["daemon"] \/ Resting(load'["daemon"], load["daemon"])
  BY LoadedRests DEF GridInv
<1>2. \A i \in Ids : Clear(i) =>
          /\ reg'[i] = <<>> \/ reg'[i] = reg[i]
          /\ firing'.pc = "idle" \/ (firing.pc # "idle" /\ firing'.t.id = firing.t.id)
                \/ firing'.t.id # i
          /\ keys'[i] = NoKey \/ keys'[i] = keys[i]
  OBVIOUS
<1> QED BY <1>1, <1>2, CancelStays

LEMMA ReloadBeginCancel ==
    ASSUME CancelInv, GridInv, NEW p \in Programs, ReloadBegin(p)
    PROVE  CancelInv'
<1>1. /\ UNCHANGED <<accepted, gen, reg, firing, req, keys>>
      /\ load \in [Programs -> Loads] /\ gen \in Nat
      /\ load' = [load EXCEPT ![p].pc = "list", ![p].gen = gen]
  BY DEF ReloadBegin, GridInv, LoadOK, HistoryOK, memory, exomind, Programs
<1>2. CASE p = "daemon"
  <2>1. load'["daemon"].pc = "list" /\ load'["daemon"].gen = gen
    BY <1>1, <1>2 DEF Loads
  <2>2. raced' = raced \cup {i \in Ids : accepted[i] = "cancelling"}
    BY <1>2 DEF ReloadBegin
  <2>3. ASSUME NEW i \in Ids, accepted[i] \in Cancels, i \notin raced' PROVE Clear(i)'
    <3>1. accepted[i] = "cancelled" /\ Clear(i)
      BY <2>2, <2>3 DEF CancelInv, Cancels
    <3> QED BY <1>1, <2>1, <3>1 DEF Clear, Away, Unseen
  <2> QED BY <1>1, <2>1, <2>3 DEF CancelInv
<1>3. CASE p = "console"
  <2>1. raced' = raced /\ load'["daemon"] = load["daemon"]
    BY <1>1, <1>3 DEF ReloadBegin, Programs
  <2>2. \A i \in Ids : Clear(i) =>
            /\ reg'[i] = <<>> \/ reg'[i] = reg[i]
            /\ firing'.pc = "idle" \/ (firing.pc # "idle" /\ firing'.t.id = firing.t.id)
                  \/ firing'.t.id # i
            /\ keys'[i] = NoKey \/ keys'[i] = keys[i]
    BY <1>1
  <2> QED BY <1>1, <2>1, <2>2, CancelStays
<1> QED BY <1>2, <1>3 DEF Programs

(***************************************************************************)
(* A change of one reload that reads keys.                                 *)
(***************************************************************************)
LEMMA ReloadReads ==
    ASSUME CancelInv, GridInv, NEW p \in Programs, NEW l, load' = [load EXCEPT ![p] = l],
           l.gen = load[p].gen,
           UNCHANGED <<accepted, gen, raced, reg, firing, req>>,
           \A i \in Ids : keys'[i] = NoKey \/ keys'[i] = keys[i],
           \A i \in Ids : accepted[i] \in Cancels /\ Clear(i) /\ Unseen(i, load[p]) => Unseen(i, l)
    PROVE  CancelInv'
<1>1. load \in [Programs -> Loads] /\ "daemon" \in Programs
  BY DEF GridInv, LoadOK, Programs
<1>2. load'["daemon"] = IF p = "daemon" THEN l ELSE load["daemon"]
  BY <1>1
<1>3. load'["daemon"].gen = load["daemon"].gen
  BY <1>2
<1>4. \A i \in Ids : i \notin raced /\ accepted[i] \in Cancels /\ Clear(i) =>
          Unseen(i, load'["daemon"])
  BY <1>2 DEF Clear
<1> QED BY <1>3, <1>4, ReloadSees

LEMMA ReloadListCancel ==
    ASSUME CancelInv, GridInv, NEW p \in Programs, NEW o, ReloadList(p, o)
    PROVE  CancelInv'
<1>1. UNCHANGED <<accepted, gen, raced, reg, firing, req, keys>>
  BY DEF ReloadList, exomind, history
<1>2. CASE Loaded(p) \/ Failed(p)
  BY <1>1, <1>2, ReloadEndsCancel
<1>3. CASE ~(Loaded(p) \/ Failed(p))
  <2>1. load[p].pc = "list" /\ load' = [load EXCEPT ![p].pc = "batch", ![p].ids = Live]
    BY <1>3 DEF ReloadList
  <2>2. PICK k, l : /\ k = load[p] /\ k \in Loads /\ l = [k EXCEPT !.pc = "batch", !.ids = Live]
                    /\ load' = [load EXCEPT ![p] = l]
    BY <2>1 DEF GridInv, LoadOK, Programs
  <2>3. l.gen = k.gen /\ l.pc = "batch" /\ l.ids = Live
    BY <2>2 DEF Loads
  <2>4. ASSUME NEW i \in Ids, Clear(i), Unseen(i, load[p]) PROVE Unseen(i, l)
    <3>1. accepted[i] = "cancelled" => i \notin Live
      <4>1. now \in Nat /\ NoKey.expires = 0
        BY DEF GridInv, HistoryOK, NoKey
      <4> QED BY <2>4, <4>1 DEF Clear, Live
    <3> QED BY <2>1, <2>2, <2>3, <2>4, <3>1 DEF Unseen
  <2> QED BY <1>1, <2>2, <2>3, <2>4, ReloadReads
<1> QED BY <1>2, <1>3

LEMMA ReloadBatchCancel ==
    ASSUME CancelInv, GridInv, NEW p \in Programs, NEW o, ReloadBatch(p, o)
    PROVE  CancelInv'
<1>1. UNCHANGED <<accepted, gen, raced, reg, firing, req, keys>>
  BY DEF ReloadBatch, exomind, history
<1>2. CASE Failed(p)
  BY <1>1, <1>2, ReloadEndsCancel
<1>3. CASE ~Failed(p)
  <2>1. PICK good, drops, ds, as :
          /\ good = {i \in load[p].ids : keys[i].fire > 0}
          /\ drops = {i \in good : Dropped(keys[i])}
          /\ ds = {Restored(i) : i \in drops} /\ as = {Restored(i) : i \in good \ drops}
          /\ load' = [load EXCEPT ![p].pc = "drop", ![p].ids = {},
                                  ![p].drops = ds, ![p].adds = as]
          /\ load[p].ids \subseteq Live /\ load[p].pc = "batch"
    BY <1>3 DEF ReloadBatch
  <2>2. PICK k, l : /\ k = load[p] /\ k \in Loads
                    /\ l = [k EXCEPT !.pc = "drop", !.ids = {}, !.drops = ds, !.adds = as]
                    /\ load' = [load EXCEPT ![p] = l]
    <3>1. load \in [Programs -> Loads]
      BY DEF GridInv, LoadOK, Programs
    <3>2. PICK k : k = load[p] /\ k \in Loads
      BY <3>1
    <3>3. PICK l : l = [k EXCEPT !.pc = "drop", !.ids = {}, !.drops = ds, !.adds = as]
      OBVIOUS
    <3>4. load' = [load EXCEPT ![p].pc = "drop", ![p].ids = {},
                               ![p].drops = ds, ![p].adds = as]
      BY <2>1
    <3>5. load' = [load EXCEPT ![p] = l]
      BY <3>1, <3>2, <3>3, <3>4
    <3> QED BY <3>2, <3>3, <3>5
  <2>3. l.gen = k.gen /\ l.pc = "drop" /\ l.adds = as
    BY <2>2 DEF Loads
  <2>4. \A t \in as : t.id \in load[p].ids
    <3>1. \A i \in good : i \in Ids /\ keys[i].expires > now /\ keys[i].fire > 0
      BY <2>1 DEF Live
    <3>2. \A i \in good : Restored(i).id = i
      BY <3>1, RestoredIs
    <3>3. \A t \in as : \E i \in good : t = Restored(i)
      BY <2>1
    <3>4. good \subseteq load[p].ids
      BY <2>1
    <3> QED BY <3>2, <3>3, <3>4
  <2>5. ASSUME NEW i \in Ids, Unseen(i, load[p]) PROVE Unseen(i, l)
    <3>1. load[p].pc = "batch"
      BY <2>1
    <3> QED BY <2>2, <2>3, <2>4, <2>5, <3>1 DEF Unseen
  <2> QED BY <1>1, <2>2, <2>3, <2>5, ReloadReads
<1> QED BY <1>2, <1>3

LEMMA DropCancel ==
    ASSUME CancelInv, GridInv, NEW p \in Programs, NEW o, DropNote(p, o) \/ DropKey(p, o)
    PROVE  CancelInv'
<1>1. UNCHANGED <<accepted, gen, raced, reg, firing, req>>
  BY DEF DropNote, DropKey, memory, history
<1>2. \A i \in Ids : keys'[i] = NoKey \/ keys'[i] = keys[i]
  BY DEF DropNote, DropKey, Delete, GridInv, KeysOK
<1>3. PICK l : /\ load' = [load EXCEPT ![p] = l] /\ l.gen = load[p].gen /\ l.adds = load[p].adds
               /\ l.pc \in {"drop", "dropkey"} /\ load[p].pc \in {"drop", "dropkey"}
  <2>1. load \in [Programs -> Loads]
    BY DEF GridInv, LoadOK, Programs
  <2>2. PICK l : l = load'[p]
    OBVIOUS
  <2>3. CASE DropNote(p, o)
    <3>1. PICK t : load' = [load EXCEPT ![p].pc = "dropkey", ![p].ids = {t.id},
                                        ![p].drops = @ \ {t}]
      BY <2>3 DEF DropNote
    <3>2. l.gen = load[p].gen /\ l.adds = load[p].adds /\ l.pc = "dropkey"
      BY <2>1, <2>2, <3>1 DEF Loads
    <3>3. load' = [load EXCEPT ![p] = l]
      BY <2>1, <2>2, <3>1
    <3> QED BY <2>3, <3>2, <3>3 DEF DropNote
  <2>4. CASE DropKey(p, o)
    <3>1. load' = [load EXCEPT ![p].pc = "drop", ![p].ids = {}]
      BY <2>4 DEF DropKey
    <3>2. l.gen = load[p].gen /\ l.adds = load[p].adds /\ l.pc = "drop"
      BY <2>1, <2>2, <3>1 DEF Loads
    <3>3. load' = [load EXCEPT ![p] = l]
      BY <2>1, <2>2, <3>1
    <3> QED BY <2>4, <3>2, <3>3 DEF DropKey
  <2> QED BY <2>3, <2>4
<1>4. ASSUME NEW i \in Ids, Unseen(i, load[p]) PROVE Unseen(i, l)
  BY <1>3, <1>4 DEF Unseen
<1> QED BY <1>1, <1>2, <1>3, <1>4, ReloadReads

LEMMA ReloadAddCancel ==
    ASSUME CancelInv, GridInv, NEW p \in Programs, ReloadAdd(p)
    PROVE  CancelInv'
<1>1. /\ UNCHANGED <<accepted, gen, raced, firing, req, keys>>
      /\ Loaded(p) \/ Failed(p)
  BY DEF ReloadAdd, exomind, history
<1>2. load'["daemon"] = load["daemon"] \/ Resting(load'["daemon"], load["daemon"])
  BY <1>1, LoadedRests DEF GridInv
<1>3. CASE UNCHANGED reg
  BY <1>1, <1>3, ReloadEndsCancel
<1>4. CASE reg' # reg
  <2>1. /\ p = "daemon" /\ load[p].pc = "drop" /\ (load[p].adds = {} \/ load[p].gen = gen)
        /\ reg' = [i \in Ids |-> IF reg[i] = <<>>
                                 THEN SetToSeq({t \in load[p].adds : t.id = i}) ELSE reg[i]]
    BY <1>4 DEF ReloadAdd
  <2>2. ASSUME NEW i \in Ids, Clear(i) PROVE reg'[i] = <<>>
    <3>1. reg[i] = <<>> /\ Unseen(i, load["daemon"])
      BY <2>2 DEF Clear, Away
    <3>2. load["daemon"].gen = gen => ~(load["daemon"].gen < gen)
      BY DEF GridInv, HistoryOK
    <3>3. {t \in load["daemon"].adds : t.id = i} = {}
      BY <2>1, <3>1, <3>2 DEF Unseen
    <3> QED BY <2>1, <3>1, <3>3, NoneInSeq
  <2>3. \A i \in Ids : Clear(i) =>
            /\ reg'[i] = <<>> \/ reg'[i] = reg[i]
            /\ firing'.pc = "idle" \/ (firing.pc # "idle" /\ firing'.t.id = firing.t.id)
                  \/ firing'.t.id # i
            /\ keys'[i] = NoKey \/ keys'[i] = keys[i]
    BY <1>1, <2>2
  <2> QED BY <1>1, <1>2, <2>3, CancelStays
<1> QED BY <1>3, <1>4

LEMMA RemindPersistCancel ==
    ASSUME CancelInv, GridInv, NEW i \in Ids, NEW b \in Bodies, NEW o, RemindPersist(i, b, o)
    PROVE  CancelInv'
<1>1. /\ UNCHANGED <<gen, raced, reg, firing, load>>
      /\ accepted[i] = "no"
      /\ accepted' = [accepted EXCEPT ![i] = IF o = "ok" THEN "asked" ELSE "refused"]
      /\ accepted \in [Ids -> Answers] /\ keys \in [Ids -> KeyRec]
  BY DEF RemindPersist, GridInv, HistoryOK, KeysOK, memory
<1>2. accepted'[i] \in {"asked", "refused"} /\ \A j \in Ids \ {i} : accepted'[j] = accepted[j]
  BY <1>1
<1>3. \A j \in Ids \ {i} : keys'[j] = keys[j]
  BY <1>1 DEF RemindPersist, Persist
<1>4. req'.pc = "add" => req'.t.id = i
  <2>1. PICK t : t = Timer(i, Parsed(b, now)) /\ t.id = i
    <3>1. \A w : Timer(i, w).id = i
      BY DEF Timer
    <3> QED BY <3>1
  <2>2. CASE req' = [pc |-> "add", t |-> t]
    BY <2>1, <2>2
  <2>3. CASE req' = Idle
    BY <2>3 DEF Idle
  <2> QED BY <2>1, <2>2, <2>3 DEF RemindPersist
<1>5. ASSUME NEW j \in Ids, accepted'[j] \in Cancels, j \notin raced' PROVE Clear(j)'
  <2>1. j # i /\ accepted'[j] = accepted[j]
    BY <1>2, <1>5 DEF Cancels
  <2>2. Clear(j) /\ keys'[j] = keys[j]
    BY <1>1, <1>3, <1>5, <2>1 DEF CancelInv
  <2> QED BY <1>1, <2>1, <2>2 DEF Clear, Away, Unseen
<1> QED BY <1>1, <1>2, <1>4, <1>5 DEF CancelInv, Cancels

LEMMA RemindAddCancel ==
    ASSUME CancelInv, GridInv, RemindAdd
    PROVE  CancelInv'
<1>1. /\ UNCHANGED <<keys, raced, firing, load>> /\ req.t.id \in Ids
      /\ accepted \in [Ids -> Answers] /\ accepted[req.t.id] \notin Cancels
      /\ reg \in [Ids -> Seq(Timers)] /\ gen \in Nat /\ gen' \in {gen, gen + 1}
      /\ load["daemon"].gen \in Nat
  BY Served DEF RemindAdd, GridInv, HistoryOK, RegOK, LoadOK, Loads, CancelInv, exomind
<1>2. /\ \A j \in Ids \ {req.t.id} : accepted'[j] = accepted[j] /\ reg'[j] = reg[j]
      /\ accepted'[req.t.id] \notin Cancels
  BY <1>1 DEF RemindAdd, Cancels
<1>3. req'.pc # "add"
  BY DEF RemindAdd, Idle
<1>4. ASSUME NEW j \in Ids, accepted'[j] \in Cancels, j \notin raced' PROVE Clear(j)'
  <2>1. accepted'[j] = accepted[j] /\ reg'[j] = reg[j]
    BY <1>2, <1>4
  <2>2. Clear(j)
    BY <1>1, <1>4, <2>1 DEF CancelInv
  <2>3. Unseen(j, load["daemon"])'
    BY <1>1, <2>1, <2>2 DEF Clear, Unseen
  <2> QED BY <1>1, <2>1, <2>2, <2>3 DEF Clear, Away
<1>5. load'["daemon"].gen <= gen'
  BY <1>1 DEF CancelInv
<1> QED BY <1>3, <1>4, <1>5 DEF CancelInv

(***************************************************************************)
(* The cancel counts the generation up before it deletes the key, so that  *)
(* every reload in progress is behind.                                     *)
(***************************************************************************)
LEMMA CancelRemoveCancel ==
    ASSUME CancelInv, GridInv, NEW i \in Ids, CancelRemove(i)
    PROVE  CancelInv'
<1>1. /\ UNCHANGED <<keys, raced, firing, load>> /\ reg[i] # <<>>
      /\ accepted \in [Ids -> Answers] /\ reg \in [Ids -> Seq(Timers)]
      /\ gen \in Nat /\ gen' = gen + 1 /\ load["daemon"].gen \in Nat
      /\ reg' = [reg EXCEPT ![i] = Tail(@)]
      /\ accepted' = [accepted EXCEPT ![i] = IF Copies(i) = 1 THEN "cancelling" ELSE "unclear"]
  BY DEF CancelRemove, GridInv, HistoryOK, RegOK, LoadOK, Loads, exomind
<1>2. load'["daemon"].gen < gen'
  BY <1>1 DEF CancelInv
<1>3. req'.pc = "del"
  BY DEF CancelRemove
<1>4. \A j \in Ids : Unseen(j, load["daemon"])'
  BY <1>2 DEF Unseen
<1>5. ASSUME NEW j \in Ids \ {i}, accepted'[j] \in Cancels, j \notin raced' PROVE Clear(j)'
  <2>1. accepted'[j] = accepted[j] /\ reg'[j] = reg[j]
    BY <1>1
  <2>2. Clear(j)
    BY <1>1, <1>5, <2>1 DEF CancelInv
  <2> QED BY <1>1, <1>4, <2>1, <2>2 DEF Clear, Away
<1>6. ASSUME accepted'[i] \in Cancels PROVE Clear(i)'
  <2>1. Copies(i) = 1 /\ accepted'[i] = "cancelling"
    BY <1>1, <1>6 DEF Cancels
  <2>2. PICK q, n : q = reg[i] /\ q \in Seq(Timers) /\ q # <<>> /\ n = Len(q) /\ n \in Nat /\ n > 0
    BY <1>1, EmptySeq, LenProperties
  <2>3. n = 1 /\ ~(firing.pc # "idle" /\ firing.t.id = i)
    <3>0. n \in Nat
      BY <2>2
    <3>1. Copies(i) = n + (IF firing.pc # "idle" /\ firing.t.id = i THEN 1 ELSE 0)
      BY <2>2 DEF Copies
    <3>2. CASE firing.pc # "idle" /\ firing.t.id = i
      <4>1. Copies(i) = n + 1
        BY <3>1, <3>2
      <4> QED BY <2>1, <2>2, <4>1
    <3>3. CASE ~(firing.pc # "idle" /\ firing.t.id = i)
      <4>1. Copies(i) = n
        BY <3>0, <3>1, <3>3
      <4> QED BY <2>1, <3>3, <4>1
    <3> QED BY <3>2, <3>3
  <2>4. Tail(q) = <<>>
    <3>1. Tail(q) \in Seq(Timers) /\ Len(Tail(q)) = n - 1
      BY <2>2, HeadTailProperties
    <3>2. Len(Tail(q)) = 0
      BY <2>3, <3>1
    <3> QED BY <3>1, <3>2, EmptySeq
  <2>5. reg'[i] = <<>>
    BY <1>1, <2>2, <2>4
  <2> QED BY <1>1, <1>4, <2>1, <2>3, <2>5 DEF Clear, Away
<1>7. load'["daemon"].gen <= gen'
  BY <1>1, <1>2
<1>8. \A j \in Ids : accepted'[j] \in Cancels => j \in raced' \/ Clear(j)'
  BY <1>5, <1>6
<1> QED BY <1>3, <1>7, <1>8 DEF CancelInv

LEMMA DeleteKeyCancel ==
    ASSUME CancelInv, GridInv, NEW o, DeleteKey(o)
    PROVE  CancelInv'
<1>1. /\ UNCHANGED <<gen, raced, reg, firing, load>> /\ req.t.id \in Ids
      /\ accepted \in [Ids -> Answers] /\ keys \in [Ids -> KeyRec]
      /\ req' = Idle /\ Delete(req.t.id, o)
  BY Served DEF DeleteKey, GridInv, HistoryOK, KeysOK, memory
<1>2. PICK i \in Ids : i = req.t.id
  BY <1>1
<1>3. /\ \A j \in Ids \ {i} : accepted'[j] = accepted[j]
      /\ accepted'[i] = IF accepted[i] # "cancelling" THEN accepted[i]
                        ELSE IF Done(o) THEN "cancelled" ELSE "unclear"
  BY <1>1, <1>2 DEF DeleteKey
<1>4. /\ \A j \in Ids : keys'[j] \in {keys[j], NoKey}
      /\ Done(o) => keys'[i] = NoKey
  BY <1>1, <1>2 DEF Delete
<1>5. ASSUME NEW j \in Ids, accepted'[j] \in Cancels, j \notin raced' PROVE Clear(j)'
  <2>1. /\ accepted[j] \in Cancels
        /\ accepted'[j] = accepted[j] \/ (accepted'[j] = "cancelled" /\ keys'[j] = NoKey)
    BY <1>3, <1>4, <1>5 DEF Cancels
  <2>2. Clear(j)
    BY <1>1, <1>5, <2>1 DEF CancelInv
  <2>3. Unseen(j, load["daemon"])'
    BY <1>1, <2>1, <2>2 DEF Clear, Unseen
  <2>4. accepted'[j] = "cancelled" => keys'[j] = NoKey
    BY <1>4, <2>1, <2>2 DEF Clear
  <2> QED BY <1>1, <2>2, <2>3, <2>4 DEF Clear, Away
<1>6. req'.pc # "add"
  BY <1>1 DEF Idle
<1> QED BY <1>1, <1>5, <1>6 DEF CancelInv

LEMMA AsideCancel ==
    ASSUME CancelInv, GridInv, Counters \/ ConsoleStart \/ ConsoleList \/ Start \/ Tick
                                        \/ UNCHANGED vars
    PROVE  CancelInv'
<1>1. UNCHANGED <<accepted, gen, raced, reg, firing, req, keys>>
  BY DEF Counters, LoadCounters, ConsoleStart, ConsoleList, Start, Tick, vars, exomind, memory,
         history
<1>2. load \in [Programs -> Loads] /\ "daemon" \in Programs
  BY DEF GridInv, LoadOK, Programs
<1>3. load'["daemon"] = load["daemon"] \/ load'["daemon"] \in {Off, Starts}
  BY <1>2 DEF Counters, LoadCounters, ConsoleStart, ConsoleList, Start, Tick, vars
<1>4. load'["daemon"] = load["daemon"] \/ Resting(load'["daemon"], load["daemon"])
  BY <1>3, OffIs DEF Resting
<1>5. \A i \in Ids : Clear(i) =>
          /\ reg'[i] = <<>> \/ reg'[i] = reg[i]
          /\ firing'.pc = "idle" \/ (firing.pc # "idle" /\ firing'.t.id = firing.t.id)
                \/ firing'.t.id # i
          /\ keys'[i] = NoKey \/ keys'[i] = keys[i]
  BY <1>1
<1> QED BY <1>1, <1>4, <1>5, CancelStays

LEMMA ConsoleCancelCancel ==
    ASSUME CancelInv, GridInv, NEW o, ConsoleCancel(o)
    PROVE  CancelInv'
<1>1. PICK t : /\ t \in load["console"].adds /\ Delete(t.id, o)
               /\ accepted' = [accepted EXCEPT ![t.id] = "unclear"]
  BY DEF ConsoleCancel
<1>2. /\ UNCHANGED <<gen, raced, reg, firing, req>> /\ load'["daemon"] = load["daemon"]
      /\ accepted \in [Ids -> Answers] /\ keys \in [Ids -> KeyRec]
      /\ load \in [Programs -> Loads]
  BY DEF ConsoleCancel, GridInv, HistoryOK, KeysOK, LoadOK, memory, Programs
<1>3. /\ \A j \in Ids : accepted'[j] \in {accepted[j], "unclear"}
      /\ \A j \in Ids : keys'[j] \in {keys[j], NoKey}
  BY <1>1, <1>2 DEF Delete
<1>4. ASSUME NEW j \in Ids, accepted'[j] \in Cancels, j \notin raced' PROVE Clear(j)'
  <2>1. accepted'[j] = accepted[j]
    BY <1>3, <1>4 DEF Cancels
  <2>2. Clear(j)
    BY <1>2, <1>4, <2>1 DEF CancelInv
  <2> QED BY <1>2, <1>3, <2>1, <2>2 DEF Clear, Away, Unseen
<1>5. req'.pc = "add" => accepted'[req'.t.id] \notin Cancels
  <2>1. ASSUME req.pc = "add" PROVE req.t.id \in Ids
    BY <2>1, Served DEF GridInv
  <2> QED BY <1>2, <1>3, <2>1 DEF CancelInv, Cancels
<1> QED BY <1>2, <1>4, <1>5 DEF CancelInv

(***************************************************************************)
(* A kill: cancels under way are answered by nobody, and the daemon's      *)
(* memory is empty.                                                        *)
(***************************************************************************)
LEMMA CrashCancel ==
    ASSUME CancelInv, GridInv, Crash
    PROVE  CancelInv'
<1>1. /\ UNCHANGED <<raced, keys>> /\ gen' = 0 /\ firing' = Idle /\ req' = Idle
      /\ reg' = [i \in Ids |-> <<>>]
      /\ load \in [Programs -> Loads] /\ "daemon" \in Programs
      /\ accepted' = [i \in Ids |-> IF accepted[i] \in {"asked", "cancelling"}
                                    THEN "unclear" ELSE accepted[i]]
  BY DEF Crash, GridInv, LoadOK, exomind, Programs
<1>2. load'["daemon"] = Off
  BY <1>1 DEF Crash
<1>3. firing'.pc = "idle" /\ req'.pc = "idle"
  BY <1>1 DEF Idle
<1>4. ASSUME NEW j \in Ids, accepted'[j] \in Cancels, j \notin raced' PROVE Clear(j)'
  <2>1. accepted'[j] = "cancelled" /\ accepted[j] = "cancelled"
    BY <1>1, <1>4 DEF Cancels
  <2>2. keys[j] = NoKey
    BY <1>1, <1>4, <2>1 DEF CancelInv, Clear, Cancels
  <2>3. Unseen(j, load["daemon"])'
    BY <1>2, OffIs DEF Unseen
  <2> QED BY <1>1, <1>3, <2>2, <2>3 DEF Clear, Away
<1> QED BY <1>1, <1>2, <1>3, <1>4, OffIs DEF CancelInv

LEMMA CancelStep ==
    ASSUME CancelInv, GridInv, [Next]_vars
    PROVE  CancelInv'
<1>1. CASE Take \/ Fire
  BY <1>1, FireCancel
<1>2. CASE \E p \in {"daemon", "console"} : Reload(p)
  <2>1. PICK p \in Programs : Reload(p)
    BY <1>2 DEF Programs
  <2> QED BY <2>1, ReloadBeginCancel, ReloadListCancel, ReloadBatchCancel, DropCancel,
             ReloadAddCancel DEF Reload
<1>3. CASE Serve
  BY <1>3, RemindPersistCancel, RemindAddCancel, CancelRemoveCancel, DeleteKeyCancel DEF Serve
<1>4. CASE Counters \/ Start \/ Tick \/ UNCHANGED vars
  BY <1>4, AsideCancel
<1>5. CASE Console
  BY <1>5, AsideCancel, ConsoleCancelCancel DEF Console
<1>6. CASE Crash
  BY <1>6, CrashCancel
<1> QED BY <1>1, <1>2, <1>3, <1>4, <1>5, <1>6 DEF Next

(***************************************************************************)
(* The generation that CancelRemove counts up before the key is deleted    *)
(* (timers.c:154-176) and ReloadAdd compares (timers.c:544): a cancelled   *)
(* timer comes back only when a reload began between the two halves of its *)
(* cancel (http.c:608-634).                                                *)
(***************************************************************************)
THEOREM CancelsStick == Spec => []UnracedCancelSticks
<1>1. ASSUME CancelInv, GridInv PROVE UnracedCancelSticks
  <2>1. SUFFICES ASSUME NEW i \in Ids, accepted[i] = "cancelled", i \notin raced PROVE Gone(i)
    BY DEF UnracedCancelSticks
  <2>2. Clear(i)
    BY <1>1, <2>1 DEF CancelInv, Cancels
  <2> QED BY <1>1, <2>1, <2>2, AwayIs DEF Clear, Gone
<1> QED BY <1>1, CancelStarts, CancelStep, GridInvariant, PTL DEF Spec

=============================================================================
