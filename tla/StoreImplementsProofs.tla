----------------------- MODULE StoreImplementsProofs -----------------------
(***************************************************************************)
(* A store implements DurableMap, and a compaction loses no live record,   *)
(* for every choice of the constants that keeps the faults to those the    *)
(* code tolerates and the values to those a load accepts.                  *)
(***************************************************************************)
EXTENDS StoreProofs, StoreImplements

-----------------------------------------------------------------------------
(* What logs mean *)

LEMMA ViewEmpty ==
    ASSUME NEW s, NEW t
    PROVE  View(s, 0, t) = [k \in Keys |-> {}]
BY DEF View

LEMMA ViewPrefix ==
    ASSUME NEW s, NEW u, NEW n \in Nat, NEW t, \A i \in 1..n : u[i] = s[i]
    PROVE  View(u, n, t) = View(s, n, t)
<1>1. \A k, i : Latest(k, i, u, n) <=> Latest(k, i, s, n)
  BY DEF Latest
<1> QED BY <1>1 DEF View

(***************************************************************************)
(* A key whose last record is at i, and one that has no last put.          *)
(***************************************************************************)
LEMMA ViewOfLatest ==
    ASSUME NEW s, NEW n \in Nat, NEW t, NEW k \in Keys, NEW i, Latest(k, i, s, n)
    PROVE  View(s, n, t)[k] =
             IF s[i].kind = "put" /\ ~ExpiredAt(ExpiresAt(s[i].ts, s[i].ttl), t)
             THEN {CellOf(s[i])} ELSE {}
<1>1. \A j \in 1..n : Latest(k, j, s, n) <=> j = i
  BY LatestUnique
<1>2. i \in 1..n
  BY DEF Latest
<1> QED BY <1>1, <1>2 DEF View

LEMMA ViewOfNone ==
    ASSUME NEW s, NEW n \in Nat, NEW t, NEW k \in Keys,
           \A i \in 1..n : Latest(k, i, s, n) => s[i].kind = "tomb"
    PROVE  View(s, n, t)[k] = {}
BY DEF View

(***************************************************************************)
(* What a slot says and what the log means are the same.                   *)
(***************************************************************************)
LEMMA ViewAgrees ==
    ASSUME NEW s, NEW n \in Nat, NEW t, NEW k \in Keys, NEW e,
           Agrees(e, k, s, n, t)
    PROVE  View(s, n, t)[k] =
             IF RefersTo(e, k, s, n) /\ ~ExpiredAt(e.exp, t)
             THEN {CellOf(s[e.off])} ELSE {}
<1>1. CASE RefersTo(e, k, s, n)
  BY <1>1, ViewOfLatest DEF RefersTo
<1>2. CASE /\ ~RefersTo(e, k, s, n)
           /\ \A i \in 1..n : Latest(k, i, s, n) => s[i].kind = "tomb"
  BY <1>2, ViewOfNone
<1>3. CASE ~RefersTo(e, k, s, n) /\ ~Mentions(k, s, n)
  <2>1. \A i \in 1..n : ~Latest(k, i, s, n)
    BY <1>3 DEF Latest, Mentions
  <2> QED BY <1>3, <2>1, ViewOfNone
<1> QED BY <1>1, <1>2, <1>3 DEF Agrees

LEMMA ReadsAgree ==
    ASSUME NEW s, NEW n \in Nat, n <= Len(s), NEW t, NEW k \in Keys, NEW e,
           Agrees(e, k, s, n, t), \A i \in 1..n : s[i] \in Record
    PROVE  {c.val : c \in View(s, n, t)[k]} =
             IF /\ e.off # 0 /\ ~ExpiredAt(e.exp, t)
                /\ e.off \in 1..Len(s) /\ s[e.off] # Torn
             THEN {s[e.off].val} ELSE {}
<1>1. CASE RefersTo(e, k, s, n) /\ ~ExpiredAt(e.exp, t)
  <2>1. e.off \in 1..n
    BY <1>1 DEF RefersTo, Latest
  <2>2. s[e.off] # Torn /\ e.off \in 1..Len(s) /\ e.off # 0
    BY <2>1, TornIsNoRecord
  <2>3. View(s, n, t)[k] = {CellOf(s[e.off])}
    BY <1>1, ViewAgrees
  <2> QED BY <1>1, <2>2, <2>3 DEF CellOf
<1>2. CASE ~(RefersTo(e, k, s, n) /\ ~ExpiredAt(e.exp, t))
  <2>1. View(s, n, t)[k] = {}
    BY <1>2, ViewAgrees
  <2>2. ~(e.off # 0 /\ ~ExpiredAt(e.exp, t))
    BY <1>2 DEF Agrees
  <2> QED BY <2>1, <2>2
<1> QED BY <1>1, <1>2

(***************************************************************************)
(* What the latest record of a key means.                                  *)
(***************************************************************************)
CellsOf(rec, t) ==
    IF rec.kind = "put" /\ ~ExpiredAt(ExpiresAt(rec.ts, rec.ttl), t)
    THEN {CellOf(rec)} ELSE {}

LEMMA ViewWrite ==
    ASSUME NEW s, NEW u, NEW n \in Nat, NEW t, NEW rec \in Record,
           Extends(u, s, n, rec)
    PROVE  View(u, n + 1, t) = [View(s, n, t) EXCEPT ![rec.key] = CellsOf(rec, t)]
<1> DEFINE V == View(s, n, t)
           c == CellsOf(rec, t)
<1>0. n + 1 \in Nat
  OBVIOUS
<1>1. ASSUME NEW k \in Keys PROVE View(u, n + 1, t)[k] = [V EXCEPT ![rec.key] = c][k]
  <2>0. V = [q \in Keys |-> V[q]] /\ rec.key \in Keys
    BY DEF View, Record
  <2>1. CASE k = rec.key
    <3>1. Latest(k, n + 1, u, n + 1)
      BY <2>1, LatestOwn
    <3>2. u[n + 1] = rec
      BY DEF Extends
    <3>3. View(u, n + 1, t)[k] = c
      BY <1>0, <3>1, <3>2, ViewOfLatest DEF CellsOf
    <3> QED BY <2>0, <2>1, <3>3
  <2>2. CASE k # rec.key
    <3>1. \A i : Latest(k, i, u, n + 1) <=> Latest(k, i, s, n)
      BY <2>2, LatestOther
    <3>2. ASSUME NEW i \in 1..n, Latest(k, i, s, n)
          PROVE  View(u, n + 1, t)[k] = V[k]
      <4>1. Latest(k, i, u, n + 1) /\ u[i] = s[i]
        BY <3>1, <3>2 DEF Extends
      <4>2. V[k] = IF /\ s[i].kind = "put"
                      /\ ~ExpiredAt(ExpiresAt(s[i].ts, s[i].ttl), t)
                   THEN {CellOf(s[i])} ELSE {}
        BY <3>2, ViewOfLatest
      <4>3. View(u, n + 1, t)[k] =
                   IF /\ u[i].kind = "put"
                      /\ ~ExpiredAt(ExpiresAt(u[i].ts, u[i].ttl), t)
                   THEN {CellOf(u[i])} ELSE {}
        BY <1>0, <4>1, ViewOfLatest
      <4> QED BY <4>1, <4>2, <4>3
    <3>3. ASSUME ~ \E i \in 1..n : Latest(k, i, s, n)
          PROVE  View(u, n + 1, t)[k] = V[k]
      <4>1. \A i : ~Latest(k, i, s, n)
        BY <3>3 DEF Latest
      <4>2. V[k] = {}
        BY <4>1, ViewOfNone
      <4>3. View(u, n + 1, t)[k] = {}
        BY <1>0, <3>1, <4>1, ViewOfNone
      <4> QED BY <4>2, <4>3
    <3>4. View(u, n + 1, t)[k] = V[k]
      BY <3>2, <3>3
    <3> QED BY <2>0, <2>2, <3>4
  <2> QED BY <2>1, <2>2
<1>2. View(u, n + 1, t) = [k \in Keys |-> View(u, n + 1, t)[k]]
  BY DEF View
<1>3. [V EXCEPT ![rec.key] = c] = [k \in Keys |-> [V EXCEPT ![rec.key] = c][k]]
  BY DEF View
<1> HIDE DEF V, c
<1> QED BY <1>1, <1>2, <1>3 DEF V, c

LEMMA ViewTick ==
    ASSUME NEW s, NEW n \in Nat, NEW t \in Nat, \A i \in 1..n : s[i] \in Record
    PROVE  View(s, n, t + 1) = [k \in Keys |-> Map!Unexpired(View(s, n, t)[k], t + 1)]
<1>1. ASSUME NEW k \in Keys
      PROVE  View(s, n, t + 1)[k] = Map!Unexpired(View(s, n, t)[k], t + 1)
  <2>1. ASSUME NEW i \in 1..n, Latest(k, i, s, n)
        PROVE  View(s, n, t + 1)[k] = Map!Unexpired(View(s, n, t)[k], t + 1)
    <3> DEFINE x == ExpiresAt(s[i].ts, s[i].ttl)
    <3>1. s[i].ts \in Nat /\ s[i].ttl \in Nat
      BY DEF Record
    <3>2. x \in Nat /\ CellOf(s[i]).exp = x
      BY <3>1, ExpiryType DEF CellOf
    <3> HIDE DEF x
    <3>3. View(s, n, t)[k] =
            IF s[i].kind = "put" /\ ~ExpiredAt(x, t) THEN {CellOf(s[i])} ELSE {}
      BY <2>1, ViewOfLatest DEF x
    <3>4. View(s, n, t + 1)[k] =
            IF s[i].kind = "put" /\ ~ExpiredAt(x, t + 1) THEN {CellOf(s[i])} ELSE {}
      BY <2>1, ViewOfLatest DEF x
    <3>5. ~ExpiredAt(x, t + 1) <=> x = 0 \/ t + 1 <= x
      BY <3>2 DEF ExpiredAt
    <3>6. ExpiredAt(x, t) => ExpiredAt(x, t + 1)
      BY <3>2 DEF ExpiredAt
    <3> QED BY <3>2, <3>3, <3>4, <3>5, <3>6 DEF Map!Unexpired
  <2>2. ASSUME ~ \E i \in 1..n : Latest(k, i, s, n)
        PROVE  View(s, n, t + 1)[k] = Map!Unexpired(View(s, n, t)[k], t + 1)
    <3>1. View(s, n, t)[k] = {} /\ View(s, n, t + 1)[k] = {}
      BY <2>2, ViewOfNone
    <3> QED BY <3>1 DEF Map!Unexpired
  <2> QED BY <2>1, <2>2
<1>2. View(s, n, t + 1) = [k \in Keys |-> View(s, n, t + 1)[k]]
  BY DEF View
<1> QED BY <1>1, <1>2

-----------------------------------------------------------------------------
(* A compaction keeps the meaning of the log *)

(***************************************************************************)
(* For the keys it has visited, what a compaction has written means what   *)
(* the old log means.                                                      *)
(***************************************************************************)
SameMeaning ==
    phase = "compact" =>
        \A k \in Keys \ pending :
            View(tmp, Len(tmp), now)[k] = View(file, size, now)[k]

LEMMA CompactSlotMeans ==
    ASSUME TypeInv, IndexInv, SameMeaning, Faults \cap Untolerated = {},
           NEW k \in Keys, CompactSlot(k)
    PROVE  SameMeaning'
<1>1. /\ phase = "compact" /\ phase' = "compact" /\ k \in pending
      /\ pending' = pending \ {k} /\ UNCHANGED <<file, size, now>>
      /\ ~Mentions(k, tmp, Len(tmp)) /\ Len(tmp) \in Nat /\ size \in Nat
      /\ Agrees(index[k], k, file, size, now)
  BY DEF CompactSlot, IndexInv, CompactingAgrees, TypeInv, TypeOK
<1>2. CASE CompactSkip(k)
  <2>1. tmp' = tmp /\ Expired(k)
    BY <1>1, <1>2, SkippedIsExpired DEF CompactSkip
  <2>2. View(file, size, now)[k] = {}
    BY <1>1, <2>1, ViewAgrees DEF Expired
  <2>3. View(tmp, Len(tmp), now)[k] = {}
    <3>1. \A i \in 1..Len(tmp) : ~Latest(k, i, tmp, Len(tmp))
      BY <1>1 DEF Latest, Mentions
    <3> QED BY <1>1, <3>1, ViewOfNone
  <2> QED BY <1>1, <2>1, <2>2, <2>3 DEF SameMeaning
<1>3. CASE CompactWrite(k)
  <2> DEFINE off == index[k].off  rec == Rewritten(k)
  <2>1. /\ RefersTo(index[k], k, file, size) /\ off \in 1..size
        /\ rec \in Record /\ rec.kind = "put" /\ rec.key = k
        /\ rec.val = file[off].val /\ rec.ts = file[off].ts
        /\ ExpiresAt(rec.ts, rec.ttl) = ExpiresAt(file[off].ts, file[off].ttl)
        /\ Extends(tmp', tmp, Len(tmp), rec) /\ Len(tmp') = Len(tmp) + 1
    BY <1>1, <1>3, RewrittenKeeps
  <2> HIDE DEF rec
  <2>2. /\ CellOf(rec) = CellOf(file[off])
        /\ ~ExpiredAt(ExpiresAt(rec.ts, rec.ttl), now)
    BY <1>3, <2>1 DEF CellOf, RefersTo, CompactWrite, Expired
  <2>3. View(tmp', Len(tmp) + 1, now) =
          [View(tmp, Len(tmp), now) EXCEPT ![k] = {CellOf(rec)}]
    <3>0. Len(tmp) \in Nat /\ rec \in Record /\ Extends(tmp', tmp, Len(tmp), rec)
      BY <1>1, <2>1
    <3>1. View(tmp', Len(tmp) + 1, now) =
            [View(tmp, Len(tmp), now) EXCEPT ![rec.key] = CellsOf(rec, now)]
      BY <3>0, ViewWrite
    <3> QED BY <2>1, <2>2, <3>1 DEF CellsOf
  <2>4. View(file, size, now)[k] = {CellOf(file[off])}
    BY <1>1, <1>3, <2>1, ViewAgrees DEF CompactWrite, Expired
  <2>5. View(tmp, Len(tmp), now) = [q \in Keys |-> View(tmp, Len(tmp), now)[q]]
    BY DEF View
  <2>6. View(tmp', Len(tmp'), now)[k] = View(file, size, now)[k]
    BY <2>1, <2>2, <2>3, <2>4, <2>5
  <2>7. \A q \in Keys \ {k} : View(tmp', Len(tmp'), now)[q] = View(tmp, Len(tmp), now)[q]
    BY <2>1, <2>3, <2>5
  <2> QED BY <1>1, <2>6, <2>7 DEF SameMeaning
<1> QED BY <1>2, <1>3 DEF CompactSlot

LEMMA WroteAgrees ==
    ASSUME TypeInv, IndexInv, NEW rec \in Record, Wrote(rec)
    PROVE  \A k \in Keys : Agrees(index'[k], k, file', size', now')
BY UpsertAgrees, DropAgrees DEF Wrote

(***************************************************************************)
(* A compaction begins with an empty log, having visited the keys without  *)
(* a slot: for those the old log means nothing either.                     *)
(***************************************************************************)
LEMMA SameMeaningStep ==
    ASSUME TypeInv, IndexInv, SameMeaning, [Next]_vars,
           Faults \cap Untolerated = {}
    PROVE  SameMeaning'
<1>1. ASSUME NEW rec \in Record, Wrote(rec) PROVE SameMeaning'
  <2>1. CASE phase' = "compact"
    <3>1. /\ size + 1 \in Nat /\ size' = size + 1 /\ tmp' = <<>> /\ Len(tmp') = 0
          /\ pending' = {k \in Keys : index'[k].off # 0}
      BY <1>1, <2>1 DEF Wrote, TypeInv, TypeOK
    <3>2. ASSUME NEW k \in Keys, k \notin pending'
          PROVE  View(tmp', 0, now')[k] = View(file', size', now')[k]
      <4>1. index'[k].off = 0 /\ Agrees(index'[k], k, file', size', now')
        BY <1>1, <3>1, <3>2, WroteAgrees
      <4>2. ~RefersTo(index'[k], k, file', size')
        BY <3>1, <4>1 DEF RefersTo, Latest
      <4>3. View(file', size', now')[k] = {}
        BY <3>1, <4>1, <4>2, ViewAgrees
      <4> QED BY <4>3, ViewEmpty
    <3> QED BY <3>1, <3>2 DEF SameMeaning
  <2>2. CASE phase' # "compact"
    BY <2>2 DEF SameMeaning
  <2> QED BY <2>1, <2>2
<1>2. CASE Kept \/ Emptied \/ Compacted
  BY <1>2 DEF Kept, Emptied, Compacted, SameMeaning
<1>3. ASSUME NEW k \in Keys, CompactSlot(k) PROVE SameMeaning'
  BY <1>3, CompactSlotMeans
<1>4. CASE UNCHANGED vars
  BY <1>4 DEF vars, mem, SameMeaning
<1> QED BY <1>1, <1>2, <1>3, <1>4, StepShape

LEMMA CompactionMeans ==
    ASSUME TypeInv, IndexInv, TypeInv', IndexInv', SameMeaning, CompactEnd,
           Faults \cap Untolerated = {}
    PROVE  \A k \in Keys : {c.val : c \in View(file, size, now)[k]} = Reads(k)'
<1>1. /\ phase = "compact" /\ phase' = "ready" /\ pending = {}
      /\ file' = tmp /\ size' = Len(tmp) /\ now' = now
  BY DEF CompactEnd, Untolerated
<1>2. TAKE k \in Keys
<1>3. View(file, size, now)[k] = View(file', size', now')[k]
  BY <1>1 DEF SameMeaning
<1>4. /\ size' \in Nat /\ size' <= Len(file')
      /\ \A i \in 1..size' : file'[i] \in Record
      /\ Agrees(index'[k], k, file', size', now')
  BY <1>1 DEF TypeInv, TypeOK, LogInv, IndexInv
<1>5. {c.val : c \in View(file', size', now')[k]} =
        IF /\ index'[k].off # 0 /\ ~ExpiredAt(index'[k].exp, now')
           /\ index'[k].off \in 1..Len(file') /\ file'[index'[k].off] # Torn
        THEN {file'[index'[k].off].val} ELSE {}
  BY <1>4, ReadsAgree
<1> QED BY <1>3, <1>5 DEF Reads, ReadVal, Held, Expired, Readable

(***************************************************************************)
(* README, "Compaction": what could be read before a compaction reads the  *)
(* same after it, for all constants, when no call fails that the code does *)
(* not tolerate.  Expiry is among what is kept: the clock of a compaction  *)
(* is the one it began with.                                               *)
(***************************************************************************)
THEOREM CompactionSafe ==
    ASSUME Faults \cap Untolerated = {}
    PROVE  Spec => CompactionKeepsLive
<1>1. Init => SameMeaning
  BY DEF Init, SameMeaning
<1>2. TypeInv /\ IndexInv /\ SameMeaning /\ [Next]_vars => SameMeaning'
  BY SameMeaningStep
<1>3. TypeInv /\ IndexInv /\ TypeInv' /\ IndexInv' /\ SameMeaning /\ [Next]_vars
        => [phase = "compact" /\ phase' = "ready" =>
              \A k \in Keys : {c.val : c \in View(file, size, now)[k]} = Reads(k)']_vars
  <2>1. ASSUME [Next]_vars, phase = "compact", phase' = "ready"
        PROVE  CompactEnd
    BY <2>1 DEF Next, Operate, Open, LoadRecord, LoadDone, Set, SetFails, Del,
       ImportRaw, ImportFails, Sync, ListPrefix, Restore, Reset, CompactSlot,
       Close, Kill, PowerLoss, ProcessGone, Tick, vars
  <2> QED BY <2>1, CompactionMeans
<1> QED
  BY <1>1, <1>2, <1>3, TypeInvariant, IndexInvariant, PTL
     DEF Spec, CompactionKeepsLive

-----------------------------------------------------------------------------
(* The records of the file *)

(***************************************************************************)
(* File f is n records, and possibly the remains of a failed write.        *)
(***************************************************************************)
Holds(f, n) ==
    /\ f \in Seq(Item) /\ n \in Nat /\ Len(f) \in {n, n + 1}
    /\ \A i \in 1..n : f[i] \in Record
    /\ Len(f) = n + 1 => f[n + 1] = Torn

RecordsOf(f) == IF f # <<>> /\ f[Len(f)] = Torn THEN Len(f) - 1 ELSE Len(f)

LEMMA HoldsRecords ==
    ASSUME NEW f, NEW n, Holds(f, n)
    PROVE  RecordsOf(f) = n
<1>1. CASE Len(f) = n
  BY <1>1, TornIsNoRecord DEF Holds, RecordsOf
<1>2. CASE Len(f) = n + 1
  BY <1>2 DEF Holds, RecordsOf
<1> QED BY <1>1, <1>2 DEF Holds

LEMMA TailHolds ==
    ASSUME NEW f \in Seq(Item), \A i \in 1..Len(f) : f[i] \in Record,
           NEW tail \in {<<>>, <<Torn>>}
    PROVE  /\ Holds(f \o tail, Len(f))
           /\ \A i \in 1..Len(f) : (f \o tail)[i] = f[i]
<1>1. CASE tail = <<>>
  <2>1. f \o tail = f
    BY <1>1
  <2> QED BY <2>1 DEF Holds
<1>2. CASE tail = <<Torn>>
  <2>1. /\ tail \in Seq(Item) /\ Len(tail) = 1 /\ tail[1] = Torn
        /\ Len(f) \in Nat
    BY <1>2 DEF Item
  <2>2. /\ f \o tail \in Seq(Item) /\ Len(f \o tail) = Len(f) + 1
        /\ \A i \in 1..Len(f) + 1 :
             (f \o tail)[i] = IF i <= Len(f) THEN f[i] ELSE tail[i - Len(f)]
    <3>1. /\ f \o tail \in Seq(Item) /\ Len(f \o tail) = Len(f) + Len(tail)
          /\ \A i \in 1..Len(f) + Len(tail) :
               (f \o tail)[i] = IF i <= Len(f) THEN f[i] ELSE tail[i - Len(f)]
      BY <2>1, ConcatProperties
    <3> QED BY <2>1, <3>1
  <2> QED BY <2>1, <2>2 DEF Holds
<1> QED BY <1>1, <1>2

LEMMA TornHolds ==
    ASSUME NEW f \in Seq(Item), NEW n \in Nat, n <= Len(f),
           \A i \in 1..n : f[i] \in Record
    PROVE  /\ Holds(Append(SubSeq(f, 1, n), Torn), n)
           /\ \A i \in 1..n : Append(SubSeq(f, 1, n), Torn)[i] = f[i]
<1>1. Torn \in Item
  BY DEF Item
<1>2. /\ Append(SubSeq(f, 1, n), Torn) \in Seq(Item)
      /\ Len(Append(SubSeq(f, 1, n), Torn)) = n + 1
      /\ Extends(Append(SubSeq(f, 1, n), Torn), f, n, Torn)
  BY <1>1, WriteAfter
<1> QED BY <1>2 DEF Extends, Holds

LEMMA SubSeqHolds ==
    ASSUME NEW f \in Seq(Item), NEW n \in Nat, n <= Len(f),
           \A i \in 1..n : f[i] \in Record
    PROVE  /\ SubSeq(f, 1, n) \in Seq(Item) /\ Len(SubSeq(f, 1, n)) = n
           /\ \A i \in 1..n : SubSeq(f, 1, n)[i] = f[i]
           /\ Holds(SubSeq(f, 1, n), n)
<1>1. \A i \in 1..n : f[i] \in Item
  BY DEF Item
<1>2. /\ SubSeq(f, 1, n) \in Seq(Item) /\ Len(SubSeq(f, 1, n)) = n
      /\ \A i \in 1..n : SubSeq(f, 1, n)[i] = f[i]
  BY <1>1, SubSeqProperties
<1> QED BY <1>2 DEF Holds

LEMMA AppendsHolds ==
    ASSUME TypeInv, phase # "down", NEW rec \in Record, Appends(rec)
    PROVE  Holds(file', size + 1) /\ Extends(file', file, size, rec)
<1>1. /\ size \in Nat /\ file \in Seq(Item) /\ size <= Len(file)
      /\ \A i \in 1..size : file[i] \in Record
  BY DEF TypeInv, TypeOK, LogInv
<1> DEFINE u == Append(SubSeq(file, 1, size), rec)
<1>2. u \in Seq(Item) /\ Len(u) = size + 1 /\ Extends(u, file, size, rec)
  BY <1>1, WriteAfter DEF Item
<1>3. \A i \in 1..Len(u) : u[i] \in Record
  BY <1>1, <1>2 DEF Extends
<1>4. PICK tail \in {<<>>, <<Torn>>} : file' = u \o tail
  BY DEF Appends
<1> HIDE DEF u
<1>5. Holds(u \o tail, Len(u))
  BY <1>2, <1>3, TailHolds
<1>6. Extends(file', file, size, rec)
  BY AppendsEffect DEF Item
<1> QED BY <1>2, <1>4, <1>5, <1>6

LEMMA TearsHolds ==
    ASSUME TypeInv, phase # "down", AppendTears
    PROVE  /\ Holds(file', size) /\ size' = size
           /\ \A i \in 1..size : file'[i] = file[i]
<1>1. /\ size \in Nat /\ file \in Seq(Item) /\ size <= Len(file)
      /\ \A i \in 1..size : file[i] \in Record
  BY DEF TypeInv, TypeOK, LogInv
<1> QED BY <1>1, TornHolds DEF AppendTears

(***************************************************************************)
(* The file is records and a torn end at most; a store that serves, and    *)
(* one that compacts, counts all of them, one that loads no more.          *)
(***************************************************************************)
LayoutInv ==
    /\ Holds(file, Records)
    /\ phase \in {"ready", "compact"} => size = Records

LEMMA HoldsIsRecords ==
    /\ \A n : Holds(file, n) => Records = n
    /\ \A n : Holds(file', n) => Records' = n
<1>1. Records = RecordsOf(file) /\ Records' = RecordsOf(file')
  BY DEF Records, RecordsOf
<1> QED BY <1>1, HoldsRecords

LEMMA LayoutFacts ==
    ASSUME TypeInv, SyncInv, LayoutInv
    PROVE  /\ Records \in Nat /\ synced \in Nat /\ synced <= Records
           /\ size \in Nat /\ size <= Records /\ Records <= Len(file)
           /\ file \in Seq(Item) /\ \A i \in 1..Records : file[i] \in Record
<1>1. /\ Records \in Nat /\ synced \in Nat /\ size \in Nat
      /\ Len(file) \in {Records, Records + 1}
      /\ Len(file) = Records + 1 => file[Records + 1] = Torn
      /\ size <= Len(file) /\ synced <= Len(file)
      /\ \A i \in 1..synced : file[i] # Torn
      /\ \A i \in 1..size : file[i] \in Record
      /\ file \in Seq(Item) /\ \A i \in 1..Records : file[i] \in Record
  BY DEF LayoutInv, Holds, TypeInv, TypeOK, LogInv, SyncInv
<1> QED BY <1>1, TornIsNoRecord

(***************************************************************************)
(* The scan of a load ends behind the last record.                         *)
(***************************************************************************)
LEMMA LoadReachesEnd ==
    ASSUME TypeInv, SyncInv, LayoutInv, LoadDone
    PROVE  size = Records
<1>1. /\ Records \in Nat /\ size \in Nat /\ size <= Records
      /\ Records <= Len(file) /\ \A i \in 1..Records : file[i] \in Record
  BY LayoutFacts
<1>2. ASSUME size < Records PROVE FALSE
  <2>1. size + 1 \in 1..Records /\ size + 1 \in 1..Len(file)
    BY <1>1, <1>2, LayoutFacts
  <2>2. file[size + 1] \in Item /\ file[size + 1] # Torn /\ Fit(file[size + 1])
    BY <1>1, <2>1, TornIsNoRecord DEF Item, SyncInv
  <2> QED BY <1>1, <1>2, <2>1, <2>2, FitIsLoadable DEF LoadDone, AtLoadable
<1> QED BY <1>1, <1>2

LEMMA LayoutFrom ==
    ASSUME NEW n, Holds(file', n), phase' \in {"ready", "compact"} => size' = n
    PROVE  LayoutInv'
BY HoldsIsRecords DEF LayoutInv

LEMMA RestoredHolds ==
    ASSUME TypeInv, NEW kvs \in Snapshots
    PROVE  Holds([i \in 1..Len(kvs) |-> PutRec(kvs[i][1], <<kvs[i][2]>>, now, 0)],
                 Len(kvs))
<1> DEFINE f == [i \in 1..Len(kvs) |-> PutRec(kvs[i][1], <<kvs[i][2]>>, now, 0)]
<1>1. Len(kvs) \in Nat /\ f \in Seq(Item) /\ Len(f) = Len(kvs)
  BY RestoredType DEF TypeInv
<1>2. \A i \in 1..Len(kvs) : f[i] \in Record
  <2>1. TAKE i \in 1..Len(kvs)
  <2>2. f[i] \in Item
    BY <1>1, ElementOfSeq
  <2>3. f[i].kind = "put"
    BY DEF PutRec
  <2> QED BY <2>2, <2>3 DEF Item, Torn
<1> HIDE DEF f
<1>3. Holds(f, Len(kvs))
  BY <1>1, <1>2 DEF Holds
<1> QED BY <1>3 DEF f

LEMMA LayoutInvStep ==
    ASSUME TypeInv, SyncInv, LayoutInv, [Next]_vars,
           Faults \cap Untolerated = {}
    PROVE  LayoutInv'
<1>0. /\ Records \in Nat /\ synced <= Records /\ size \in Nat /\ size <= Records
      /\ size <= Len(file) /\ synced \in Nat
      /\ Records <= Len(file) /\ file \in Seq(Item)
      /\ \A i \in 1..Records : file[i] \in Record
      /\ Holds(file, Records)
      /\ phase \in {"ready", "compact"} => size = Records
  BY LayoutFacts DEF LayoutInv, TypeInv, LogInv
<1>1. CASE Open \/ LoadRecord \/ Sync \/ ListPrefix \/ Tick
  BY <1>0, <1>1, LayoutFrom DEF Open, LoadRecord, Sync, ListPrefix, Tick, mem
<1>2. CASE LoadDone
  <2>1. file' = SubSeq(file, 1, size) /\ size' = size
    BY <1>2 DEF LoadDone, mem
  <2>2. Holds(file', size)
    BY <1>0, <2>1, SubSeqHolds
  <2> QED BY <2>1, <2>2, LayoutFrom
<1>3. ASSUME NEW k \in Keys, NEW c \in Chunks, NEW ttl \in TTLs,
             NEW append \in BOOLEAN, Set(k, c, ttl, append)
      PROVE  LayoutInv'
  <2> DEFINE rec == PutRec(k, Written(k, c, append), now, ttl)
  <2>1. rec \in Record
    BY WrittenType, PutRecType, LogAssumption DEF TypeInv, TypeOK
  <2>2. phase = "ready" /\ Appends(rec)
    BY <1>3 DEF Set
  <2> HIDE DEF rec
  <2>3. Holds(file', size + 1) /\ size' = size + 1
    BY <2>1, <2>2, AppendsHolds DEF Appends
  <2> QED BY <2>3, LayoutFrom
<1>4. CASE SetFails
  <2>1. phase = "ready" /\ AppendTears
    BY <1>4 DEF SetFails
  <2> QED BY <2>1, TearsHolds, LayoutFrom
<1>5. ASSUME NEW k \in Keys, Del(k) PROVE LayoutInv'
  <2>1. phase = "ready" /\ Appends(TombRec(k)) /\ TombRec(k) \in Record
    BY <1>5, TombRecType DEF Del, Untolerated
  <2>2. Holds(file', size + 1) /\ size' = size + 1
    BY <2>1, AppendsHolds DEF Appends
  <2> QED BY <2>2, LayoutFrom
<1>6. ASSUME NEW rec \in Imports, ImportRaw(rec) PROVE LayoutInv'
  <2>1. phase = "ready" /\ Appends(rec) /\ rec \in Record
    BY <1>6, ImportsType DEF ImportRaw, TypeInv
  <2>2. Holds(file', size + 1) /\ size' = size + 1
    BY <2>1, AppendsHolds DEF Appends
  <2> QED BY <2>2, LayoutFrom
<1>7. ASSUME NEW rec \in Imports, ImportFails(rec) PROVE LayoutInv'
  <2>1. phase = "ready" /\ AppendTears
    BY <1>7 DEF ImportFails, Untolerated
  <2> QED BY <2>1, TearsHolds, LayoutFrom
<1>8. ASSUME NEW kvs \in Snapshots, Restore(kvs) PROVE LayoutInv'
  <2>1. Holds(file', Len(kvs)) /\ phase' = "load"
    BY <1>8, RestoredHolds DEF Restore
  <2> QED BY <2>1, LayoutFrom
<1>9. CASE Reset
  <2>1. file' = <<>> /\ phase' = "load"
    BY <1>9 DEF Reset
  <2>2. Holds(file', 0)
    BY <2>1 DEF Holds
  <2> QED BY <2>1, <2>2, LayoutFrom
<1>10. ASSUME NEW k \in Keys, CompactSlot(k) PROVE LayoutInv'
  BY <1>0, <1>10, LayoutFrom DEF CompactSlot
<1>11. CASE CompactEnd
  <2>1. file' = tmp /\ size' = Len(tmp) /\ tmp \in Seq(Record)
    BY <1>11 DEF CompactEnd, Untolerated, TypeInv, TypeOK
  <2>2. \A i \in 1..Len(tmp) : tmp[i] \in Record
    BY <2>1, ElementOfSeq
  <2>3. Holds(file', Len(tmp))
    BY <2>1, <2>2 DEF Holds, Item
  <2> QED BY <2>1, <2>3, LayoutFrom
<1>12. CASE Close
  BY <1>0, <1>12, LayoutFrom DEF Close, ProcessGone
<1>13. CASE Kill
  <2>1. phase' = "down"
    BY <1>13 DEF Kill, ProcessGone
  <2>2. CASE file' = file
    BY <1>0, <2>1, <2>2, LayoutFrom
  <2>3. CASE phase = "ready" /\ file' = Append(SubSeq(file, 1, size), Torn)
    <3>1. Holds(file', size)
      BY <1>0, <2>3, TornHolds
    <3> QED BY <2>1, <3>1, LayoutFrom
  <2> QED BY <1>13, <2>2, <2>3 DEF Kill
<1>14. CASE PowerLoss
  <2>1. PICK n \in synced..Len(file), tail \in {<<>>, <<Torn>>} :
            Complete(n) /\ file' = SubSeq(file, 1, n) \o tail
    BY <1>14 DEF PowerLoss
  <2>2. n \in Nat /\ n <= Records
    <3>1. n \in Nat /\ n <= Len(file) /\ \A i \in 1..n : file[i] # Torn
      BY <1>0, <2>1 DEF Complete
    <3> QED BY <1>0, <3>1 DEF Holds
  <2>3. /\ SubSeq(file, 1, n) \in Seq(Item) /\ Len(SubSeq(file, 1, n)) = n
        /\ \A i \in 1..n : SubSeq(file, 1, n)[i] \in Record
    BY <1>0, <2>2, SubSeqHolds
  <2>4. Holds(file', n)
    BY <2>1, <2>3, TailHolds
  <2>5. phase' = "down"
    BY <1>14 DEF PowerLoss, ProcessGone
  <2> QED BY <2>4, <2>5, LayoutFrom
<1>15. CASE UNCHANGED vars
  BY <1>0, <1>15, LayoutFrom DEF vars, mem
<1> QED
  BY <1>1, <1>2, <1>3, <1>4, <1>5, <1>6, <1>7, <1>8, <1>9, <1>10, <1>11,
     <1>12, <1>13, <1>14, <1>15 DEF Next, Operate

-----------------------------------------------------------------------------
(* The versions of the map *)

LEMMA VersionsAre ==
    ASSUME TypeInv, SyncInv, LayoutInv
    PROVE  /\ Len(Versions) = Records - synced + 1
           /\ Len(Versions) \in Nat \ {0}
           /\ DOMAIN Versions = 1..Len(Versions)
           /\ \A i \in 1..Len(Versions) :
                 Versions[i] = View(file, synced + i - 1, now)
           /\ Map!Current = View(file, Records, now)
<1>1. Records \in Nat /\ synced \in Nat /\ synced <= Records
  BY LayoutFacts
<1>2. Records - synced + 1 \in Nat \ {0}
  BY <1>1
<1>3. Len(Versions) = Records - synced + 1 /\ DOMAIN Versions = 1..(Records - synced + 1)
  BY <1>2 DEF Versions
<1>4. \A i \in 1..(Records - synced + 1) :
         Versions[i] = View(file, synced + i - 1, now)
  BY DEF Versions
<1>5. synced + (Records - synced + 1) - 1 = Records
  BY <1>1
<1> QED BY <1>2, <1>3, <1>4, <1>5 DEF Map!Current

(***************************************************************************)
(* The versions after a step that leaves the file with n records.          *)
(***************************************************************************)
LEMMA VersionsThen ==
    ASSUME NEW n, Holds(file', n)
    PROVE  Versions' = [i \in 1..(n - synced' + 1) |->
                           View(file', synced' + i - 1, now')]
BY HoldsIsRecords DEF Versions

LEMMA SameVersions ==
    ASSUME TypeInv, SyncInv, LayoutInv, Holds(file', Records),
           \A i \in 1..Records : file'[i] = file[i],
           synced' = synced, now' = now
    PROVE  UNCHANGED Map!vars
<1>1. Records \in Nat /\ synced \in Nat /\ synced <= Records
  BY LayoutFacts
<1>2. ASSUME NEW i \in 1..(Records - synced + 1)
      PROVE  View(file', synced + i - 1, now) = View(file, synced + i - 1, now)
  <2>1. synced + i - 1 \in Nat /\ synced + i - 1 <= Records
    BY <1>1
  <2>2. \A j \in 1..(synced + i - 1) : file'[j] = file[j]
    BY <1>1, <2>1
  <2> QED BY <2>1, <2>2, ViewPrefix
<1>3. Versions' = [i \in 1..(Records - synced + 1) |->
                      View(file', synced + i - 1, now)]
  BY VersionsThen
<1>4. Versions' = Versions
  BY <1>2, <1>3 DEF Versions
<1> QED BY <1>4 DEF Map!vars

LEMMA FlushedVersions ==
    ASSUME TypeInv, SyncInv, LayoutInv, NEW n \in Nat, Holds(file', n),
           View(file', n, now) = View(file, Records, now),
           synced' = n, now' = now
    PROVE  Map!Next
<1>1. Versions' = [i \in 1..(n - n + 1) |-> View(file', n + i - 1, now)]
  BY VersionsThen
<1>2. n - n + 1 = 1 /\ n + 1 - 1 = n
  OBVIOUS
<1>3. Versions' = [i \in 1..1 |-> View(file', n, now)]
  <2>1. \A i \in 1..1 : n + i - 1 = n
    OBVIOUS
  <2> QED BY <1>1, <1>2, <2>1
<1>4. Versions' = <<Map!Current>>
  BY <1>3, VersionsAre
<1> QED BY <1>4 DEF Map!Next, Map!Flush

LEMMA WrittenVersions ==
    ASSUME TypeInv, SyncInv, LayoutInv, phase = "ready", NEW rec \in Record,
           Holds(file', size + 1), Extends(file', file, size, rec),
           synced' \in {synced, size + 1}, now' = now
    PROVE  Map!Update(rec.key, CellsOf(rec, now))
<1> DEFINE m == [Map!Current EXCEPT ![rec.key] = CellsOf(rec, now)]
           N == Len(Versions)
<1>1. /\ Records \in Nat /\ synced \in Nat /\ synced <= Records
      /\ size = Records
  BY LayoutFacts DEF LayoutInv
<1>2. m = View(file', size + 1, now)
  <2>1. Map!Current = View(file, size, now)
    <3>1. PICK n : n = Len(Versions)
      OBVIOUS
    <3>2. n = size - synced + 1 /\ n \in 1..n /\ synced + n - 1 = size
      BY <1>1, <3>1, VersionsAre
    <3>3. Versions[n] = View(file, synced + n - 1, now)
      BY <3>1, <3>2, VersionsAre
    <3> QED BY <3>1, <3>2, <3>3 DEF Map!Current
  <2>2. View(file', size + 1, now) =
          [View(file, size, now) EXCEPT ![rec.key] = CellsOf(rec, now)]
    BY <1>1, ViewWrite
  <2> QED BY <2>1, <2>2
<1>3. CASE synced' = size + 1
  <2>1. Versions' = [i \in 1..((size + 1) - (size + 1) + 1) |->
                        View(file', (size + 1) + i - 1, now)]
    BY <1>3, VersionsThen
  <2>2. (size + 1) - (size + 1) + 1 = 1 /\ \A i \in 1..1 : (size + 1) + i - 1 = size + 1
    BY <1>1
  <2>3. Versions' = [i \in 1..1 |-> View(file', size + 1, now)]
    BY <2>1, <2>2
  <2>4. Versions' = <<m>>
    BY <1>2, <2>3
  <2> QED BY <2>4 DEF Map!Update
<1>4. CASE synced' = synced
  <2>1. N = size - synced + 1 /\ N \in Nat /\ size + 1 - synced + 1 = N + 1
    BY <1>1, VersionsAre
  <2>2. Versions' = [i \in 1..(N + 1) |-> View(file', synced + i - 1, now)]
    <3>1. PICK n : n = size + 1
      OBVIOUS
    <3>2. Versions' = [i \in 1..(n - synced' + 1) |->
                          View(file', synced' + i - 1, now')]
      <4>1. Holds(file', n)
        BY <3>1
      <4> QED BY <4>1, VersionsThen
    <3>3. n - synced' + 1 = N + 1 /\ synced' = synced /\ now' = now
      BY <1>1, <1>4, <2>1, <3>1
    <3> HIDE DEF N
    <3> QED BY <3>2, <3>3
  <2>3. ASSUME NEW i \in 1..N
        PROVE  View(file', synced + i - 1, now) = Versions[i]
    <3>1. synced + i - 1 \in Nat /\ synced + i - 1 <= size
      BY <1>1, <2>1
    <3>2. \A j \in 1..(synced + i - 1) : file'[j] = file[j]
      BY <1>1, <3>1 DEF Extends
    <3>3. View(file', synced + i - 1, now) = View(file, synced + i - 1, now)
      <4>1. PICK n : n = synced + i - 1
        OBVIOUS
      <4>2. n \in Nat /\ \A j \in 1..n : file'[j] = file[j]
        BY <3>1, <3>2, <4>1
      <4>3. View(file', n, now) = View(file, n, now)
        BY <4>2, ViewPrefix
      <4> QED BY <4>1, <4>3
    <3>4. Versions[i] = View(file, synced + i - 1, now)
      BY VersionsAre
    <3> QED BY <3>3, <3>4
  <2>4. synced + (N + 1) - 1 = size + 1
    BY <1>1, <2>1
  <2>5. View(file', synced + (N + 1) - 1, now) = m
    BY <1>2, <2>4
  <2> HIDE DEF m, N
  <2>6. Versions' = [i \in 1..(N + 1) |-> IF i <= N THEN Versions[i] ELSE m]
    <3>1. ASSUME NEW i \in 1..(N + 1)
          PROVE  View(file', synced + i - 1, now) = IF i <= N THEN Versions[i] ELSE m
      <4>1. CASE i <= N
        BY <2>1, <2>3, <4>1
      <4>2. CASE i = N + 1
        BY <2>1, <2>5, <4>2
      <4> QED BY <2>1, <4>1, <4>2
    <3> QED BY <2>2, <3>1
  <2>7. Append(Versions, m) = [i \in 1..(N + 1) |-> IF i <= N THEN Versions[i] ELSE m]
    <3> DEFINE S == {Versions[i] : i \in 1..N} \cup {m}
    <3>1. Versions \in Seq(S)
      <4>1. Versions = [i \in 1..N |-> Versions[i]]
        BY VersionsAre DEF N, Versions
      <4>2. \A i \in 1..N : Versions[i] \in S
        OBVIOUS
      <4> HIDE DEF S
      <4>3. [i \in 1..N |-> Versions[i]] \in Seq(S)
        BY <2>1, <4>2
      <4> QED BY <4>1, <4>3
    <3>2. Append(Versions, m) \in Seq(S) /\ Len(Append(Versions, m)) = N + 1
          /\ \A i \in 1..(N + 1) :
                Append(Versions, m)[i] = IF i <= N THEN Versions[i] ELSE m
      BY <2>1, <3>1 DEF N
    <3>3. [i \in 1..(N + 1) |-> IF i <= N THEN Versions[i] ELSE m] \in Seq(S)
          /\ Len([i \in 1..(N + 1) |-> IF i <= N THEN Versions[i] ELSE m]) = N + 1
      BY <2>1
    <3> HIDE DEF S
    <3> QED BY <3>2, <3>3, SeqEqual
  <2>8. Versions' = Append(Versions, m)
    BY <2>6, <2>7
  <2> QED BY <2>8 DEF Map!Update, m
<1> QED BY <1>3, <1>4

-----------------------------------------------------------------------------
(* Every step of the store is a step of the map, or none *)

LEMMA PutCells ==
    ASSUME NEW k \in Keys, NEW v \in Values, NEW t \in Nat, NEW ttl \in Nat
    PROVE  CellsOf(PutRec(k, v, t, ttl), t) = {Map!Cell(v, t, ttl)}
<1> DEFINE rec == PutRec(k, v, t, ttl)
<1>1. rec.kind = "put" /\ rec.val = v /\ rec.ts = t /\ rec.ttl = ttl
  BY DEF PutRec
<1>2. ~ExpiredAt(ExpiresAt(t, ttl), t)
  BY DEF ExpiredAt, ExpiresAt
<1>3. CellOf(rec) = Map!Cell(v, t, ttl)
  BY <1>1 DEF CellOf, Map!Cell, ExpiresAt
<1> QED BY <1>1, <1>2, <1>3 DEF CellsOf

LEMMA SetMaps ==
    ASSUME TypeInv, SyncInv, LayoutInv, IndexInv,
           NEW k \in Keys, NEW c \in Chunks, NEW ttl \in TTLs,
           NEW append \in BOOLEAN, Set(k, c, ttl, append)
    PROVE  Map!Next
<1> DEFINE v == Written(k, c, append)
           rec == PutRec(k, v, now, ttl)
<1>1. /\ v \in Values /\ now \in Nat /\ ttl \in Nat
  BY WrittenType, LogAssumption DEF TypeInv, TypeOK
<1>2. rec \in Record /\ rec.key = k
  BY <1>1, PutRecType
<1>3. /\ phase = "ready" /\ Appends(rec) /\ synced' = synced /\ now' = now
  BY DEF Set
<1> HIDE DEF rec
<1>4. Holds(file', size + 1) /\ Extends(file', file, size, rec)
  BY <1>2, <1>3, AppendsHolds
<1>5. Map!Update(k, CellsOf(rec, now))
  <2>1. Map!Update(rec.key, CellsOf(rec, now))
    BY <1>2, <1>3, <1>4, WrittenVersions
  <2> QED BY <1>2, <2>1
<1>6. CellsOf(rec, now) = {Map!Cell(v, now, ttl)}
  BY <1>1, PutCells DEF rec
<1>7. CASE v = <<c>>
  <2>1. Map!Put(k, c, ttl)
    BY <1>3, <1>5, <1>6, <1>7 DEF Map!Put
  <2> QED BY <2>1 DEF Map!Next
<1>8. CASE /\ Held(k) /\ ~Expired(k) /\ Readable(k)
           /\ v = Append(ReadVal(k), c)
  <2>1. Agrees(index[k], k, file, size, now)
    BY <1>3 DEF IndexInv
  <2>2. RefersTo(index[k], k, file, size)
    BY <1>8, <2>1, LiveIsReadable
  <2>3. View(file, size, now)[k] = {CellOf(file[index[k].off])}
    <3>1. size \in Nat
      BY DEF TypeInv, TypeOK
    <3> QED BY <1>8, <2>1, <2>2, <3>1, ViewAgrees DEF Expired
  <2>4. Map!Current = View(file, size, now)
    BY <1>3, VersionsAre DEF LayoutInv
  <2>5. CellOf(file[index[k].off]).val = ReadVal(k)
    BY DEF CellOf, ReadVal
  <2>6. Map!Extend(k, c, ttl)
    <3>1. PICK old \in Map!Current[k] : old.val = ReadVal(k)
      BY <2>3, <2>4, <2>5
    <3>2. Map!Update(k, {Map!Cell(Append(old.val, c), now, ttl)})
      BY <1>5, <1>6, <1>8, <3>1
    <3> QED BY <1>3, <3>2 DEF Map!Extend
  <2> QED BY <2>6 DEF Map!Next
<1> QED BY <1>7, <1>8 DEF Written

LEMMA DelMaps ==
    ASSUME TypeInv, SyncInv, LayoutInv, Faults \cap Untolerated = {},
           NEW k \in Keys, Del(k)
    PROVE  Map!Next
<1>1. /\ phase = "ready" /\ Appends(TombRec(k)) /\ synced' = synced /\ now' = now
      /\ TombRec(k) \in Record /\ TombRec(k).key = k
  BY TombRecType DEF Del, Untolerated
<1>2. Holds(file', size + 1) /\ Extends(file', file, size, TombRec(k))
  BY <1>1, AppendsHolds
<1>3. Map!Update(TombRec(k).key, CellsOf(TombRec(k), now))
  BY <1>1, <1>2, WrittenVersions
<1>4. CellsOf(TombRec(k), now) = {}
  BY TombRecType DEF CellsOf
<1>5. Map!Remove(k)
  BY <1>1, <1>3, <1>4 DEF Map!Remove
<1> QED BY <1>5 DEF Map!Next

LEMMA ImportMaps ==
    ASSUME TypeInv, SyncInv, LayoutInv, Faults \cap Untolerated = {},
           NEW rec \in Imports, ImportRaw(rec)
    PROVE  Map!Next
<1>1. /\ phase = "ready" /\ Appends(rec) /\ synced' = size' /\ now' = now
      /\ rec \in Record /\ size' = size + 1
  BY ImportsType DEF ImportRaw, Appends, TypeInv
<1>2. Holds(file', size + 1) /\ Extends(file', file, size, rec)
  BY <1>1, AppendsHolds
<1>3. Map!Update(rec.key, CellsOf(rec, now))
  BY <1>1, <1>2, WrittenVersions
<1>4. ASSUME NEW k \in Keys, NEW c \in Chunks, NEW d \in Delays, d < now,
             NEW ttl \in TTLs, rec = PutRec(k, <<c>>, now - d, ttl)
      PROVE  Map!Next
  <2> DEFINE ts == now - d
  <2>1. /\ now \in Nat /\ d \in Nat /\ ttl \in Nat /\ ts \in Nat /\ ts \in 1..now
    BY <1>4, StoreAssumption, LogAssumption DEF TypeInv, TypeOK
  <2>2. /\ rec.kind = "put" /\ rec.key = k /\ rec.val = <<c>>
        /\ rec.ts = ts /\ rec.ttl = ttl
    BY <1>4 DEF PutRec
  <2> HIDE DEF ts
  <2>3. CellOf(rec) = Map!Cell(<<c>>, ts, ttl)
    BY <2>2 DEF CellOf, Map!Cell, ExpiresAt
  <2>4. ~ExpiredAt(ExpiresAt(ts, ttl), now) <=>
           Map!Cell(<<c>>, ts, ttl).exp = 0 \/ now <= Map!Cell(<<c>>, ts, ttl).exp
    BY <2>1 DEF ExpiredAt, ExpiresAt, Map!Cell
  <2>5. CellsOf(rec, now) = Map!Unexpired({Map!Cell(<<c>>, ts, ttl)}, now)
    BY <2>2, <2>3, <2>4 DEF CellsOf, Map!Unexpired
  <2>6. Map!Replicate(k, c, ts, ttl)
    BY <1>1, <1>3, <2>1, <2>2, <2>5 DEF Map!Replicate
  <2> QED BY <2>1, <2>6 DEF Map!Next
<1>5. ASSUME NEW k \in Keys, rec = TombRec(k)
      PROVE  Map!Next
  <2>1. rec.key = k /\ CellsOf(rec, now) = {}
    BY <1>5, TombRecType DEF CellsOf
  <2>2. Map!Remove(k)
    BY <1>1, <1>3, <2>1 DEF Map!Remove
  <2> QED BY <2>2 DEF Map!Next
<1>6. \/ \E k \in Keys, c \in Chunks, d \in {d \in Delays : d < now}, ttl \in TTLs :
            rec = PutRec(k, <<c>>, now - d, ttl)
      \/ \E k \in Keys : rec = TombRec(k)
  BY SMTT(60) DEF Imports
<1>7. CASE \E k \in Keys : rec = TombRec(k)
  BY <1>5, <1>7
<1>8. CASE \E k \in Keys, c \in Chunks, d \in {d \in Delays : d < now}, ttl \in TTLs :
              rec = PutRec(k, <<c>>, now - d, ttl)
  <2>1. PICK k \in Keys, c \in Chunks, d \in {d \in Delays : d < now}, ttl \in TTLs :
            rec = PutRec(k, <<c>>, now - d, ttl)
    BY <1>8
  <2>2. d \in Delays /\ d < now
    OBVIOUS
  <2> QED BY <1>4, <2>1, <2>2
<1> QED BY <1>6, <1>7, <1>8

(***************************************************************************)
(* A restored log means a map of one live cell, or none, for each key.     *)
(***************************************************************************)
LEMMA RestoreMaps ==
    ASSUME TypeInv, NEW kvs \in Snapshots, Restore(kvs)
    PROVE  Map!Next
<1> DEFINE Cells == {{}} \cup {{Map!Cell(<<c>>, now, 0)} : c \in Chunks}
<1>1. /\ file' = [i \in 1..Len(kvs) |-> PutRec(kvs[i][1], <<kvs[i][2]>>, now, 0)]
      /\ synced' = Len(kvs) /\ now' = now
  BY DEF Restore
<1>2. Holds(file', Len(kvs)) /\ Len(kvs) \in Nat /\ kvs \in [1..Len(kvs) -> Keys \X Chunks]
  <2>1. PICK n \in 0..MaxRestore : kvs \in [1..n -> Keys \X Chunks]
    BY DEF Snapshots
  <2>2. n \in Nat /\ Len(kvs) = n
    BY <2>1, StoreAssumption
  <2> QED BY <1>1, <2>1, <2>2, RestoredHolds
<1> DEFINE n == Len(kvs)
<1>3. ASSUME NEW k \in Keys PROVE View(file', n, now)[k] \in Cells
  <2>1. ASSUME NEW i \in 1..n, Latest(k, i, file', n)
        PROVE  View(file', n, now)[k] \in Cells
    <3>1. PICK q \in Keys, c \in Chunks : file'[i] = PutRec(q, <<c>>, now, 0)
      <4>1. kvs[i] \in Keys \X Chunks
        BY <1>2
      <4>2. kvs[i][1] \in Keys /\ kvs[i][2] \in Chunks
        BY <4>1
      <4> QED BY <1>1, <4>2
    <3>2. CellOf(file'[i]) = Map!Cell(<<c>>, now, 0)
      BY <3>1 DEF CellOf, PutRec, Map!Cell, ExpiresAt
    <3>3. View(file', n, now)[k] \in {{CellOf(file'[i])}, {}}
      <4> HIDE DEF n
      <4> QED BY <1>2, <2>1, ViewOfLatest DEF n
    <3> QED BY <3>2, <3>3
  <2>2. ASSUME ~ \E i \in 1..n : Latest(k, i, file', n)
        PROVE  View(file', n, now)[k] = {}
    BY <1>2, <2>2, ViewOfNone
  <2> QED BY <2>1, <2>2
<1>4. View(file', n, now) \in [Keys -> Cells]
  <2>1. View(file', n, now) = [k \in Keys |-> View(file', n, now)[k]]
    BY DEF View
  <2> HIDE DEF Cells, n
  <2> QED BY <1>3, <2>1
<1>5. Versions' = <<View(file', n, now)>>
  <2>1. Versions' = [i \in 1..(n - n + 1) |-> View(file', n + i - 1, now)]
    BY <1>1, <1>2, VersionsThen
  <2>2. n - n + 1 = 1 /\ \A i \in 1..1 : n + i - 1 = n
    BY <1>2
  <2> HIDE DEF n
  <2> QED BY <2>1, <2>2
<1>6. Map!Replace
  BY <1>1, <1>4, <1>5 DEF Map!Replace
<1> QED BY <1>6 DEF Map!Next

LEMMA ResetMaps ==
    ASSUME Reset
    PROVE  Map!Next
<1>1. file' = <<>> /\ synced' = 0 /\ now' = now
  BY DEF Reset
<1>2. Holds(file', 0)
  BY <1>1 DEF Holds
<1>3. Versions' = [i \in 1..(0 - 0 + 1) |-> View(file', 0 + i - 1, now)]
  BY <1>1, <1>2, VersionsThen
<1>4. 0 - 0 + 1 = 1 /\ \A i \in 1..1 : 0 + i - 1 = 0
  OBVIOUS
<1>5. Versions' = <<[k \in Keys |-> {}]>>
  BY <1>3, <1>4, ViewEmpty
<1>6. Map!Replace
  BY <1>1, <1>5 DEF Map!Replace
<1> QED BY <1>6 DEF Map!Next

LEMMA CrashMaps ==
    ASSUME TypeInv, SyncInv, LayoutInv, PowerLoss
    PROVE  Map!Next
<1>1. PICK n \in synced..Len(file), tail \in {<<>>, <<Torn>>} :
          /\ Complete(n) /\ file' = SubSeq(file, 1, n) \o tail
          /\ synced' = n /\ now' = now
  BY DEF PowerLoss, ProcessGone
<1>2. /\ Records \in Nat /\ synced \in Nat /\ Records <= Len(file)
      /\ file \in Seq(Item) /\ \A i \in 1..Records : file[i] \in Record
  BY LayoutFacts
<1>3. n \in Nat /\ n <= Records /\ synced <= n
  <2>1. n \in Nat /\ n <= Len(file) /\ \A i \in 1..n : file[i] # Torn
    BY <1>1, <1>2 DEF Complete
  <2>2. synced <= n
    BY <1>1, <1>2
  <2> QED BY <1>2, <2>1, <2>2 DEF LayoutInv, Holds
<1>4. /\ SubSeq(file, 1, n) \in Seq(Item) /\ Len(SubSeq(file, 1, n)) = n
      /\ \A i \in 1..n : SubSeq(file, 1, n)[i] = file[i]
      /\ \A i \in 1..n : SubSeq(file, 1, n)[i] \in Record
  BY <1>2, <1>3, SubSeqHolds
<1>5. Holds(file', n) /\ \A i \in 1..n : file'[i] = file[i]
  BY <1>1, <1>4, TailHolds
<1>6. View(file', n, now) = View(file, n, now)
  BY <1>3, <1>5, ViewPrefix
<1>7. Versions' = <<View(file', n, now)>>
  <2>1. Versions' = [i \in 1..(n - n + 1) |-> View(file', n + i - 1, now)]
    BY <1>1, <1>5, VersionsThen
  <2>2. n - n + 1 = 1 /\ \A i \in 1..1 : n + i - 1 = n
    BY <1>3
  <2> QED BY <2>1, <2>2
<1>8. /\ n - synced + 1 \in 1..Len(Versions)
      /\ Versions[n - synced + 1] = View(file, n, now)
  <2>1. /\ n - synced + 1 \in 1..(Records - synced + 1)
        /\ synced + (n - synced + 1) - 1 = n
    BY <1>2, <1>3
  <2>2. n - synced + 1 \in 1..Len(Versions)
    BY <2>1, VersionsAre
  <2>3. Versions[n - synced + 1] = View(file, synced + (n - synced + 1) - 1, now)
    BY <2>2, VersionsAre
  <2> QED BY <2>1, <2>2, <2>3
<1>9. Map!Crash
  BY <1>1, <1>6, <1>7, <1>8 DEF Map!Crash
<1> QED BY <1>9 DEF Map!Next

LEMMA TickMaps ==
    ASSUME TypeInv, SyncInv, LayoutInv, Tick
    PROVE  Map!Next
<1>1. /\ file' = file /\ synced' = synced /\ now' = now + 1 /\ now \in Nat
  BY DEF Tick, TypeInv, TypeOK
<1>2. /\ Records \in Nat /\ synced \in Nat /\ synced <= Records
      /\ \A i \in 1..Records : file[i] \in Record
  BY LayoutFacts
<1>3. Versions' = [i \in 1..(Records - synced + 1) |->
                      View(file, synced + i - 1, now + 1)]
  <2>1. Records' = Records
    BY <1>1 DEF Records
  <2> QED BY <1>1, <2>1 DEF Versions
<1>4. ASSUME NEW i \in 1..(Records - synced + 1)
      PROVE  View(file, synced + i - 1, now + 1) =
                [k \in Keys |-> Map!Unexpired(Versions[i][k], now + 1)]
  <2>1. synced + i - 1 \in Nat /\ \A j \in 1..(synced + i - 1) : file[j] \in Record
    BY <1>2
  <2>2. Versions[i] = View(file, synced + i - 1, now)
    BY VersionsAre
  <2>3. View(file, synced + i - 1, now + 1) =
          [k \in Keys |-> Map!Unexpired(View(file, synced + i - 1, now)[k], now + 1)]
    BY <1>1, <2>1, ViewTick
  <2> QED BY <2>2, <2>3
<1>5. Versions' = [i \in 1..Len(Versions) |->
                      [k \in Keys |-> Map!Unexpired(Versions[i][k], now')]]
  <2>1. Len(Versions) = Records - synced + 1
    BY VersionsAre
  <2> QED BY <1>1, <1>3, <1>4, <2>1
<1>6. Map!Tick
  BY <1>1, <1>5 DEF Map!Tick
<1> QED BY <1>6 DEF Map!Next

(***************************************************************************)
(* The steps that leave the records of the file, and what is synced, alone.*)
(***************************************************************************)
LEMMA StaysMap ==
    ASSUME TypeInv, SyncInv, LayoutInv, Faults \cap Untolerated = {},
           \/ Open \/ LoadRecord \/ LoadDone \/ SetFails \/ ListPrefix \/ Kill
           \/ \E rec \in Imports : ImportFails(rec)
           \/ \E k \in Keys : CompactSlot(k)
    PROVE  UNCHANGED Map!vars
<1>1. /\ Records \in Nat /\ synced \in Nat /\ synced <= Records /\ size \in Nat
      /\ size <= Records /\ Records <= Len(file) /\ size <= Len(file)
      /\ file \in Seq(Item) /\ \A i \in 1..Records : file[i] \in Record
      /\ \A i \in 1..size : file[i] \in Record
      /\ Holds(file, Records)
      /\ phase \in {"ready", "compact"} => size = Records
  BY LayoutFacts DEF LayoutInv, TypeInv, LogInv
<1>2. CASE /\ file' = file /\ synced' = synced /\ now' = now
  <2>1. Holds(file', Records) /\ \A i \in 1..Records : file'[i] = file[i]
    BY <1>1, <1>2
  <2> QED BY <1>2, <2>1, SameVersions
<1>3. CASE LoadDone
  <2>1. size = Records /\ file' = SubSeq(file, 1, size)
        /\ synced' = synced /\ now' = now
    BY <1>1, <1>3, LoadReachesEnd DEF LoadDone
  <2>2. Holds(file', size) /\ \A i \in 1..size : file'[i] = file[i]
    BY <1>1, <2>1, SubSeqHolds
  <2> QED BY <2>1, <2>2, SameVersions
<1>4. CASE phase = "ready" /\ AppendTears /\ synced' = synced /\ now' = now
  <2>1. Holds(file', size) /\ \A i \in 1..size : file'[i] = file[i]
    BY <1>4, TearsHolds
  <2>2. size = Records
    BY <1>1, <1>4
  <2> QED BY <1>4, <2>1, <2>2, SameVersions
<1>5. CASE Kill
  <2>1. synced' = synced /\ now' = now
    BY <1>5 DEF Kill, ProcessGone
  <2>2. CASE phase = "ready" /\ file' = Append(SubSeq(file, 1, size), Torn)
    <3> DEFINE u == Append(SubSeq(file, 1, size), Torn)
    <3>1. Holds(u, size) /\ \A i \in 1..size : u[i] = file[i]
      BY <1>1, TornHolds
    <3>2. file' = u /\ size = Records
      BY <1>1, <2>2
    <3> HIDE DEF u
    <3> QED BY <2>1, <3>1, <3>2, SameVersions
  <2> QED BY <1>2, <1>5, <2>1, <2>2 DEF Kill
<1> QED
  BY <1>2, <1>3, <1>4, <1>5
     DEF Open, LoadRecord, SetFails, ListPrefix, ImportFails, CompactSlot, Untolerated

(***************************************************************************)
(* The steps that put everything in the file on stable storage.            *)
(***************************************************************************)
LEMMA FlushMaps ==
    ASSUME TypeInv, SyncInv, LayoutInv, SameMeaning,
           Faults \cap (Untolerated \cup {"compact_sync"}) = {},
           Sync \/ Close \/ CompactEnd
    PROVE  Map!Next
<1>1. /\ Records \in Nat /\ size \in Nat /\ Holds(file, Records)
      /\ phase \in {"ready", "compact"} => size = Records
  BY LayoutFacts DEF LayoutInv
<1>2. CASE Sync \/ Close
  <2>1. /\ file' = file /\ synced' = size /\ now' = now /\ size = Records
    BY <1>1, <1>2 DEF Sync, Close, ProcessGone
  <2> QED BY <1>1, <2>1, FlushedVersions
<1>3. CASE CompactEnd
  <2>1. /\ phase = "compact" /\ pending = {} /\ file' = tmp
        /\ synced' = Len(tmp) /\ now' = now /\ size = Records
        /\ tmp \in Seq(Record)
    BY <1>1, <1>3 DEF CompactEnd, Untolerated, TypeInv, TypeOK
  <2>2. Holds(tmp, Len(tmp)) /\ Len(tmp) \in Nat
    <3>1. \A i \in 1..Len(tmp) : tmp[i] \in Record
      BY <2>1, ElementOfSeq
    <3> QED BY <2>1, <3>1 DEF Holds, Item
  <2>3. View(tmp, Len(tmp), now) = View(file, Records, now)
    <3>1. \A k \in Keys : View(tmp, Len(tmp), now)[k] = View(file, Records, now)[k]
      BY <2>1 DEF SameMeaning
    <3>2. /\ View(tmp, Len(tmp), now) = [k \in Keys |-> View(tmp, Len(tmp), now)[k]]
          /\ View(file, Records, now) = [k \in Keys |-> View(file, Records, now)[k]]
      BY DEF View
    <3> QED BY <3>1, <3>2
  <2> QED BY <2>1, <2>2, <2>3, FlushedVersions
<1> QED BY <1>2, <1>3

LEMMA MapStep ==
    ASSUME TypeInv, IndexInv, SyncInv, LayoutInv, SameMeaning, [Next]_vars,
           Faults \cap (Untolerated \cup {"compact_sync"}) = {}
    PROVE  UNCHANGED Map!vars \/ Map!Next
<1>0. Faults \cap Untolerated = {}
  OBVIOUS
<1>1. CASE \/ Open \/ LoadRecord \/ LoadDone \/ SetFails \/ ListPrefix \/ Kill
           \/ \E rec \in Imports : ImportFails(rec)
           \/ \E k \in Keys : CompactSlot(k)
  BY <1>0, <1>1, StaysMap
<1>2. CASE \E k \in Keys, c \in Chunks, ttl \in TTLs, append \in BOOLEAN :
               Set(k, c, ttl, append)
  BY <1>2, SetMaps
<1>3. CASE \E k \in Keys : Del(k)
  BY <1>0, <1>3, DelMaps
<1>4. CASE \E rec \in Imports : ImportRaw(rec)
  BY <1>0, <1>4, ImportMaps
<1>5. CASE Sync \/ Close \/ CompactEnd
  BY <1>5, FlushMaps
<1>6. CASE \E kvs \in Snapshots : Restore(kvs)
  BY <1>6, RestoreMaps
<1>7. CASE Reset
  BY <1>7, ResetMaps
<1>8. CASE PowerLoss
  BY <1>8, CrashMaps
<1>9. CASE Tick
  BY <1>9, TickMaps
<1>10. CASE UNCHANGED vars
  BY <1>10 DEF vars, Map!vars, Versions, Records
<1> QED
  BY <1>1, <1>2, <1>3, <1>4, <1>5, <1>6, <1>7, <1>8, <1>9, <1>10
     DEF Next, Operate

(***************************************************************************)
(* A store is a durable map (README, "Crash safety", "Compaction"; store.h)*)
(* for all constants: every state of its map since the last flush is there *)
(* to come back to, a crash takes it to one of them, and no load,          *)
(* compaction or failed write does anything to it.  The hypotheses are the *)
(* faults the code tolerates, a disk that says when it did not flush a     *)
(* compaction, and values appended no longer than a load accepts.          *)
(***************************************************************************)
THEOREM StoreRefines ==
    ASSUME Faults \cap (Untolerated \cup {"compact_sync"}) = {},
           MaxGrown <= MaxVal
    PROVE  Spec => ImplementsDurableMap
<1>0. Faults \cap Untolerated = {}
  OBVIOUS
<1>1. Init => SyncInv /\ SameMeaning
  BY DEF Init, SyncInv, SameMeaning
<1>2. Init => LayoutInv /\ Map!Init
  <2> SUFFICES ASSUME Init PROVE LayoutInv /\ Map!Init
    OBVIOUS
  <2>1. /\ file = <<>> /\ synced = 0 /\ now = 1 /\ phase = "down"
    BY DEF Init
  <2>2. Records = 0 /\ Holds(file, 0)
    BY <2>1 DEF Records, Holds
  <2>3. Versions = [i \in 1..(0 - 0 + 1) |-> View(file, 0 + i - 1, now)]
    BY <2>1, <2>2 DEF Versions
  <2>4. 0 - 0 + 1 = 1 /\ \A i \in 1..1 : 0 + i - 1 = 0
    OBVIOUS
  <2>5. Versions = <<[k \in Keys |-> {}]>>
    <3>1. View(file, 0, now) = [k \in Keys |-> {}]
      BY ViewEmpty
    <3>2. Versions = [i \in 1..1 |-> View(file, 0, now)]
      BY <2>3, <2>4
    <3> QED BY <3>1, <3>2
  <2> QED BY <2>1, <2>2, <2>5 DEF LayoutInv, Map!Init, Map!Empty
<1>3. TypeInv /\ SyncInv /\ [Next]_vars => SyncInv'
  BY SyncInvStep
<1>4. TypeInv /\ IndexInv /\ SameMeaning /\ [Next]_vars => SameMeaning'
  BY <1>0, SameMeaningStep
<1>5. TypeInv /\ SyncInv /\ LayoutInv /\ [Next]_vars => LayoutInv'
  BY <1>0, LayoutInvStep
<1>6. TypeInv /\ IndexInv /\ SyncInv /\ LayoutInv /\ SameMeaning /\ [Next]_vars
        => [UNCHANGED Map!vars \/ Map!Next]_(Map!vars)
  BY MapStep
<1>7. Spec => []TypeInv
  BY TypeInvariant
<1>8. Spec => []IndexInv
  BY <1>0, IndexInvariant
<1> QED
  BY <1>1, <1>2, <1>3, <1>4, <1>5, <1>6, <1>7, <1>8, PTL
     DEF Spec, ImplementsDurableMap
=============================================================================
