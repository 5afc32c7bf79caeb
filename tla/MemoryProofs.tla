---------------------------- MODULE MemoryProofs ----------------------------
(***************************************************************************)
(* Proofs about Memory, for any keys, threads and requests: what the main  *)
(* store acknowledged survives, and an outdated key has its history.       *)
(***************************************************************************)
EXTENDS Memory, Integers, SequenceTheorems, FiniteSetTheorems, TLAPS

-----------------------------------------------------------------------------
(* Types *)

Cells == [val : Seq(Threads), ts : Nat, exp : Nat]
Version == [Names -> SUBSET Cells]

Does == {"put", "extend", "remove", "sync", "restore", "read", "snapshot"}
Calls == [do : Does, store : Stores, name : Names, stops : BOOLEAN]

TypeOK ==
    /\ main \in Seq(Version) /\ main # <<>>
    /\ proj \in Seq(Version) /\ proj # <<>>
    /\ now \in Nat
    /\ todo \in [Threads -> Seq(Calls)]
    /\ busy \in SUBSET Threads
    /\ mark \in [Threads -> [Stores -> Int]]
    /\ seen \in [Threads -> SUBSET (Kinds \cup {"overtaken"})]
    /\ written \in [Stores -> Int]
    /\ acked \in [Stores -> Int]
    /\ snap \in Version
    /\ split \in BOOLEAN

-----------------------------------------------------------------------------
(* Plans *)

Alters(c) == c.do \in {"put", "extend", "remove"}
FlushesMain(c) == c.do = "sync" /\ c.store = "main"

(***************************************************************************)
(* What a request does to the main store is flushed at its end, or it does *)
(* nothing to it that has to be.                                           *)
(***************************************************************************)
Flushes(calls) ==
    /\ calls # <<>> /\ FlushesMain(calls[Len(calls)])
    /\ \A i \in 1..Len(calls) : Alters(calls[i]) \/ calls[i].do = "sync"
Leaves(calls) ==
    \A i \in 1..Len(calls) : calls[i].store = "main" => ~Alters(calls[i])

(***************************************************************************)
(* A marker is written right after the history of its key, looking for a   *)
(* marker is followed by looking for that history, and no history is       *)
(* removed.                                                                *)
(***************************************************************************)
Marks(c) == c.do \in {"put", "extend"} /\ c.name[1] = "outdated"
HistoryOf(c) == <<"history", c.name[2]>>
Explains(b, c) ==
    b.do = "extend" /\ b.store = c.store /\ b.name = HistoryOf(c) /\ b.stops
Looks(c) == c.do = "read" /\ c.name[1] = "outdated"
Finds(b, c) == b.do = "read" /\ b.store = c.store /\ b.name = HistoryOf(c)

Ordered(calls) ==
    \A i \in 1..Len(calls) :
        /\ Marks(calls[i]) /\ i > 1 => Explains(calls[i - 1], calls[i])
        /\ Looks(calls[i]) => i < Len(calls) /\ Finds(calls[i + 1], calls[i])
        /\ calls[i].do = "remove" => calls[i].name[1] # "history"

Planned(calls) ==
    /\ calls \in Seq(Calls)
    /\ Ordered(calls)
    /\ calls # <<>> => ~Marks(calls[1])
    /\ Flushes(calls) \/ Leaves(calls)

LEMMA CallType ==
    ASSUME NEW do \in Does, NEW s \in Stores, NEW kind \in Kinds, NEW k \in Keys
    PROVE  /\ Call(do, s, kind, k) \in Calls
           /\ Call(do, s, kind, k).do = do
           /\ Call(do, s, kind, k).store = s
           /\ Call(do, s, kind, k).name = <<kind, k>>
           /\ Call(do, s, kind, k).name[1] = kind
           /\ Call(do, s, kind, k).name[2] = k
           /\ Call(do, s, kind, k).stops
           /\ Ignored(Call(do, s, kind, k)) \in Calls
           /\ Ignored(Call(do, s, kind, k)).do = do
           /\ Ignored(Call(do, s, kind, k)).store = s
           /\ Ignored(Call(do, s, kind, k)).name = <<kind, k>>
           /\ Ignored(Call(do, s, kind, k)).name[1] = kind
           /\ Ignored(Call(do, s, kind, k)).name[2] = k
BY DEF Call, Ignored, Calls, Names

LEMMA PickType ==
    ASSUME NEW k \in Keys, NEW pj \in BOOLEAN
    PROVE  Pick(k, pj) \in Stores
BY DEF Pick, Stores

(***************************************************************************)
(* Plans of one, two and three calls.                                      *)
(***************************************************************************)
LEMMA OneCall ==
    ASSUME NEW a \in Calls, ~Marks(a), ~Looks(a), ~Alters(a)
    PROVE  Planned(<<a>>)
BY DEF Planned, Ordered, Leaves, Alters

Plain(c) == c \in Calls /\ Alters(c) /\ c.name[1] \notin {"outdated", "history"}

LEMMA PlainThenSync ==
    ASSUME NEW calls \in Seq(Calls), \A i \in 1..Len(calls) : Plain(calls[i]),
           NEW sync \in Calls, FlushesMain(sync)
    PROVE  Planned(calls \o <<sync>>)
<1> DEFINE u == calls \o <<sync>>
<1>1. /\ u \in Seq(Calls) /\ Len(u) = Len(calls) + 1 /\ Len(calls) \in Nat
      /\ \A i \in 1..Len(u) : u[i] = IF i <= Len(calls) THEN calls[i] ELSE sync
  <2>1. /\ <<sync>> \in Seq(Calls) /\ Len(<<sync>>) = 1 /\ <<sync>>[1] = sync
        /\ Len(calls) \in Nat
    OBVIOUS
  <2>2. /\ u \in Seq(Calls) /\ Len(u) = Len(calls) + 1
        /\ \A i \in 1..Len(calls) + 1 :
              u[i] = IF i <= Len(calls) THEN calls[i] ELSE <<sync>>[i - Len(calls)]
    BY <2>1, ConcatProperties
  <2>3. \A i \in 1..Len(calls) + 1 : ~(i <= Len(calls)) => i - Len(calls) = 1
    BY <2>1
  <2> HIDE DEF u
  <2> QED BY <2>1, <2>2, <2>3
<1> HIDE DEF u
<1>2. \A i \in 1..Len(u) : /\ Alters(u[i]) \/ u[i].do = "sync"
                           /\ ~Marks(u[i]) /\ ~Looks(u[i])
                           /\ u[i].do = "remove" => u[i].name[1] # "history"
  BY <1>1 DEF Plain, Marks, Looks, FlushesMain, Alters
<1>3. Ordered(u)
  BY <1>2 DEF Ordered
<1>4. u # <<>> /\ 1 \in 1..Len(u) /\ u[Len(u)] = sync
  BY <1>1
<1>5. Flushes(u)
  BY <1>2, <1>4 DEF Flushes
<1>6. Planned(u)
  BY <1>1, <1>2, <1>3, <1>4, <1>5 DEF Planned
<1> QED BY <1>6 DEF u

LEMMA OnePlainThenSync ==
    ASSUME NEW a, Plain(a), NEW sync \in Calls, FlushesMain(sync)
    PROVE  Planned(<<a, sync>>)
<1>1. <<a>> \in Seq(Calls) /\ \A i \in 1..Len(<<a>>) : Plain(<<a>>[i])
  BY DEF Plain
<1>2. <<a, sync>> = <<a>> \o <<sync>>
  OBVIOUS
<1> QED BY <1>1, <1>2, PlainThenSync

(***************************************************************************)
(* Cascades and the elements of a batch are one or two plain calls.        *)
(***************************************************************************)
Plains == {calls \in Seq(Calls) : \A i \in 1..Len(calls) : Plain(calls[i])}

LEMMA PlainOne == ASSUME NEW a, Plain(a) PROVE <<a>> \in Plains
BY DEF Plain, Plains

LEMMA PlainTwo ==
    ASSUME NEW a, NEW b, Plain(a), Plain(b) PROVE <<a, b>> \in Plains
<1>1. <<a, b>> \in Seq(Calls) /\ Len(<<a, b>>) = 2
  BY DEF Plain
<1>2. \A i \in 1..2 : Plain(<<a, b>>[i])
  OBVIOUS
<1> QED BY <1>1, <1>2 DEF Plains

LEMMA PlainConcat ==
    ASSUME NEW a \in Plains, NEW b \in Plains PROVE a \o b \in Plains
<1>1. a \in Seq(Calls) /\ b \in Seq(Calls) /\ Len(a) \in Nat /\ Len(b) \in Nat
  BY DEF Plains
<1>2. /\ a \o b \in Seq(Calls) /\ Len(a \o b) = Len(a) + Len(b)
      /\ \A i \in 1..Len(a) + Len(b) :
            (a \o b)[i] = IF i <= Len(a) THEN a[i] ELSE b[i - Len(a)]
  BY <1>1, ConcatProperties
<1>3. \A i \in 1..Len(a) + Len(b) : ~(i <= Len(a)) => i - Len(a) \in 1..Len(b)
  BY <1>1
<1>4. \A i \in 1..Len(a \o b) : Plain((a \o b)[i])
  <2>1. /\ \A i \in 1..Len(a) : Plain(a[i])
        /\ \A i \in 1..Len(b) : Plain(b[i])
    BY DEF Plains
  <2> QED BY <1>1, <1>2, <1>3, <2>1
<1> QED BY <1>2, <1>4 DEF Plains

LEMMA PlainCall ==
    ASSUME NEW do \in {"put", "extend", "remove"}, NEW s \in Stores,
           NEW kind \in Kinds \ {"outdated", "history"}, NEW k \in Keys
    PROVE  Plain(Call(do, s, kind, k)) /\ Plain(Ignored(Call(do, s, kind, k)))
<1>1. do \in Does
  BY DEF Does
<1> QED BY <1>1, CallType DEF Plain, Alters

LEMMA SyncCall ==
    ASSUME NEW s \in Stores, NEW k \in Keys
    PROVE  /\ SyncOf(s, k) \in Calls /\ SyncOf(s, k).do = "sync"
           /\ SyncOf(s, k).store = s /\ (s = "main" => FlushesMain(SyncOf(s, k)))
BY CallType DEF SyncOf, Does, Kinds, FlushesMain

LEMMA CascadePlain ==
    ASSUME NEW k \in Keys, NEW s \in Stores
    PROVE  Cascade(k, s) \subseteq Plains
<1>1. Plain(Call("remove", s, "val", k)) /\ Plain(Call("remove", "main", "vec", k))
  BY PlainCall DEF Kinds, Stores
<1> QED BY <1>1, PlainOne, PlainTwo DEF Cascade

LEMMA BatchPlain ==
    ASSUME NEW k \in Keys, NEW s \in Stores
    PROVE  BatchElements(k, s) \subseteq Plains
<1>1. /\ Plain(Ignored(Call("put", "main", "val", k)))
      /\ Plain(Ignored(Call("extend", "main", "val", k)))
      /\ Plain(Ignored(Call("put", "main", "vec", k)))
  BY PlainCall DEF Kinds, Stores
<1> QED BY <1>1, PlainOne, CascadePlain DEF BatchElements

(***************************************************************************)
(* What is written to the project store leaves the main store alone.       *)
(***************************************************************************)
LEMMA PlainThenOwnSync ==
    ASSUME NEW a, Plain(a), NEW s \in Stores, NEW k \in Keys, a.store = s
    PROVE  Planned(<<a, SyncOf(s, k)>>)
<1>1. SyncOf(s, k) \in Calls /\ SyncOf(s, k).do = "sync"
  BY SyncCall
<1>2. CASE s = "main"
  BY <1>1, <1>2, SyncCall, OnePlainThenSync
<1>3. CASE s # "main"
  <2> DEFINE sync == SyncOf(s, k)
  <2> HIDE DEF sync
  <2>0. sync \in Calls /\ sync.do = "sync"
    BY <1>1 DEF sync
  <2>1. /\ <<a, sync>> \in Seq(Calls) /\ Len(<<a, sync>>) = 2
        /\ <<a, sync>>[1] = a /\ <<a, sync>>[2] = sync
    BY <2>0 DEF Plain
  <2>2. Leaves(<<a, sync>>)
    BY <1>3, <2>0, <2>1 DEF Leaves, Alters
  <2>3. Ordered(<<a, sync>>) /\ ~Marks(a)
    BY <2>0, <2>1 DEF Ordered, Plain, Marks, Looks, Alters
  <2>4. Planned(<<a, sync>>)
    BY <2>1, <2>2, <2>3 DEF Planned
  <2> QED BY <2>4 DEF sync
<1> QED BY <1>2, <1>3

LEMMA OutdatingPlanned ==
    ASSUME NEW k \in Keys, NEW s \in Stores
    PROVE  Planned(Outdating(k, s))
<1> DEFINE a == Call("extend", s, "history", k)
           b == Ignored(Call("put", s, "outdated", k))
           c == SyncOf(s, k)
<1>1. /\ a \in Calls /\ a.do = "extend" /\ a.store = s /\ a.name = <<"history", k>>
      /\ a.name[1] = "history" /\ a.stops
      /\ b \in Calls /\ b.do = "put" /\ b.store = s /\ b.name[1] = "outdated"
      /\ b.name[2] = k
      /\ c \in Calls /\ c.do = "sync" /\ c.store = s
  BY CallType, SyncCall DEF Kinds, Does
<1>2. Outdating(k, s) = <<a, b, c>>
  BY DEF Outdating
<1> HIDE DEF a, b, c
<1>3. /\ <<a, b, c>> \in Seq(Calls) /\ Len(<<a, b, c>>) = 3 /\ <<a, b, c>> # <<>>
      /\ <<a, b, c>>[1] = a /\ <<a, b, c>>[2] = b /\ <<a, b, c>>[3] = c
  BY <1>1
<1>4. Explains(a, b) /\ ~Marks(a) /\ ~Looks(a) /\ ~Looks(b) /\ ~Looks(c) /\ ~Marks(c)
  BY <1>1 DEF Explains, HistoryOf, Marks, Looks
<1>5. Ordered(<<a, b, c>>)
  BY <1>1, <1>3, <1>4 DEF Ordered
<1>6. CASE s = "main"
  <2>1. Flushes(<<a, b, c>>)
    BY <1>1, <1>3, <1>6 DEF Flushes, FlushesMain, Alters
  <2> QED BY <1>2, <1>3, <1>4, <1>5, <2>1 DEF Planned
<1>7. CASE s # "main"
  <2>1. Leaves(<<a, b, c>>)
    BY <1>1, <1>3, <1>7 DEF Leaves
  <2> QED BY <1>2, <1>3, <1>4, <1>5, <2>1 DEF Planned
<1> QED BY <1>6, <1>7

LEMMA RevivingPlanned ==
    ASSUME NEW k \in Keys, NEW s \in Stores
    PROVE  Planned(Reviving(k, s))
<1> DEFINE a == Call("remove", s, "outdated", k)
           c == SyncOf(s, k)
<1>1. /\ a \in Calls /\ a.do = "remove" /\ a.store = s /\ a.name[1] = "outdated"
      /\ c \in Calls /\ c.do = "sync" /\ c.store = s
  BY CallType, SyncCall DEF Kinds, Does
<1>2. Reviving(k, s) = <<a, c>>
  BY DEF Reviving
<1> HIDE DEF a, c
<1>3. /\ <<a, c>> \in Seq(Calls) /\ Len(<<a, c>>) = 2 /\ <<a, c>> # <<>>
      /\ <<a, c>>[1] = a /\ <<a, c>>[2] = c
  BY <1>1
<1>5. Ordered(<<a, c>>) /\ ~Marks(a)
  BY <1>1, <1>3 DEF Ordered, Marks, Looks
<1>6. Flushes(<<a, c>>) \/ Leaves(<<a, c>>)
  BY <1>1, <1>3 DEF Flushes, Leaves, FlushesMain, Alters
<1> QED BY <1>2, <1>3, <1>5, <1>6 DEF Planned

(***************************************************************************)
(* The requests that only read.                                            *)
(***************************************************************************)
LEMMA ReadsPlanned ==
    ASSUME NEW calls \in Seq(Calls), \A i \in 1..Len(calls) : calls[i].do = "read",
           \A i \in 1..Len(calls) : Looks(calls[i]) =>
                i < Len(calls) /\ Finds(calls[i + 1], calls[i])
    PROVE  Planned(calls)
<1>1. Len(calls) \in Nat /\ (calls # <<>> => 1 \in 1..Len(calls))
  OBVIOUS
<1>2. Ordered(calls) /\ Leaves(calls)
  BY DEF Ordered, Leaves, Marks, Alters
<1> QED BY <1>1, <1>2 DEF Planned, Marks

LEMMA ShowingOutdatedPlanned ==
    ASSUME NEW k \in Keys, NEW s \in Stores
    PROVE  Planned(ShowingOutdated(k, s))
<1> DEFINE a == Call("read", s, "outdated", k)
           b == Ignored(Call("read", s, "history", k))
<1>1. /\ a \in Calls /\ a.do = "read" /\ a.store = s
      /\ a.name[1] = "outdated" /\ a.name[2] = k
      /\ b \in Calls /\ b.do = "read" /\ b.store = s
      /\ b.name = <<"history", k>> /\ b.name[1] = "history"
  BY CallType DEF Kinds, Does
<1>2. ShowingOutdated(k, s) = <<a, b>>
  BY DEF ShowingOutdated
<1> HIDE DEF a, b
<1>3. /\ <<a, b>> \in Seq(Calls) /\ Len(<<a, b>>) = 2
      /\ <<a, b>>[1] = a /\ <<a, b>>[2] = b
  BY <1>1
<1>4. Finds(b, a) /\ ~Looks(b)
  BY <1>1 DEF Finds, HistoryOf, Looks
<1>5. /\ \A i \in 1..2 : <<a, b>>[i].do = "read"
      /\ \A i \in 1..2 : Looks(<<a, b>>[i]) => i < 2 /\ Finds(<<a, b>>[i + 1], <<a, b>>[i])
  BY <1>1, <1>3, <1>4
<1> QED BY <1>2, <1>3, <1>5, ReadsPlanned

LEMMA RecallingPlanned ==
    ASSUME NEW k \in Keys
    PROVE  Planned(Recalling(k))
<1> DEFINE s == Pick(k, FALSE)
           a == Ignored(Call("read", s, "outdated", k))
           b == Ignored(Call("read", s, "history", k))
           c == Ignored(Call("read", s, "assoc", k))
<1>0. s \in Stores
  BY PickType
<1> HIDE DEF s
<1>1. /\ a \in Calls /\ a.do = "read" /\ a.store = s
      /\ a.name[1] = "outdated" /\ a.name[2] = k
      /\ b \in Calls /\ b.do = "read" /\ b.store = s
      /\ b.name = <<"history", k>> /\ b.name[1] = "history"
      /\ c \in Calls /\ c.do = "read" /\ c.name[1] = "assoc"
  BY <1>0, CallType DEF Kinds, Does
<1>2. Recalling(k) = <<a, b, c>>
  BY DEF Recalling, s
<1> HIDE DEF a, b, c
<1>3. /\ <<a, b, c>> \in Seq(Calls) /\ Len(<<a, b, c>>) = 3
      /\ <<a, b, c>>[1] = a /\ <<a, b, c>>[2] = b /\ <<a, b, c>>[3] = c
  BY <1>1
<1>4. Finds(b, a) /\ ~Looks(b) /\ ~Looks(c)
  BY <1>1 DEF Finds, HistoryOf, Looks
<1>5. /\ \A i \in 1..3 : <<a, b, c>>[i].do = "read"
      /\ \A i \in 1..3 : Looks(<<a, b, c>>[i]) =>
             i < 3 /\ Finds(<<a, b, c>>[i + 1], <<a, b, c>>[i])
  BY <1>1, <1>3, <1>4
<1> QED BY <1>2, <1>3, <1>5, ReadsPlanned

LEMMA SetToSeqType ==
    ASSUME NEW S, IsFiniteSet(S)
    PROVE  SetToSeq(S) \in Seq(S)
<1>1. Cardinality(S) \in Nat /\ ExistsBijection(1..Cardinality(S), S)
  BY FS_CardinalityType
<1>2. \E f \in [1..Cardinality(S) -> S] : IsInjective(f)
  BY <1>1 DEF ExistsBijection, Bijection, Injection, IsInjective
<1>3. SetToSeq(S) \in [1..Cardinality(S) -> S]
  BY <1>2 DEF SetToSeq
<1> QED BY <1>1, <1>3

LEMMA ShowingLinksPlanned ==
    ASSUME NEW k \in Keys, NEW s \in Stores
    PROVE  Planned(ShowingLinks(k, s))
<1> DEFINE a == Ignored(Call("read", s, "assoc", k))
           R == {Ignored(Call("read", s, "assoc", l)) : l \in Keys \ {k}}
           rest == SetToSeq(R)
           Reads == {c \in Calls : c.do = "read" /\ c.name[1] = "assoc"}
<1>1. IsFiniteSet(R)
  <2> DEFINE f == [l \in Keys \ {k} |-> Ignored(Call("read", s, "assoc", l))]
  <2>1. IsFiniteSet(Keys \ {k})
    BY MemoryAssumption, FS_Difference
  <2>2. f \in Surjection(Keys \ {k}, R)
    BY DEF Surjection
  <2> HIDE DEF f, R
  <2> QED BY <2>1, <2>2, FS_Surjection
<1>2. a \in Reads /\ R \subseteq Reads
  BY CallType DEF Kinds, Does
<1>3. rest \in Seq(Reads)
  <2>1. rest \in Seq(R)
    BY <1>1, SetToSeqType
  <2> HIDE DEF rest, R, Reads
  <2> QED BY <1>2, <2>1, SeqMonotonic
<1>4. ShowingLinks(k, s) = <<a>> \o rest
  BY DEF ShowingLinks
<1> HIDE DEF a, rest, R
<1>5. <<a>> \o rest \in Seq(Reads)
  <2>1. <<a>> \in Seq(Reads)
    BY <1>2
  <2> HIDE DEF Reads
  <2> QED BY <1>3, <2>1, ConcatProperties
<1>6. <<a>> \o rest \in Seq(Calls)
  BY <1>5, SeqMonotonic
<1>7. \A i \in 1..Len(<<a>> \o rest) : (<<a>> \o rest)[i] \in Reads
  <2> HIDE DEF Reads
  <2> QED BY <1>5, ElementOfSeq
<1>8. \A i \in 1..Len(<<a>> \o rest) :
         (<<a>> \o rest)[i].do = "read" /\ ~Looks((<<a>> \o rest)[i])
  BY <1>7 DEF Looks
<1> QED BY <1>4, <1>6, <1>8, ReadsPlanned

LEMMA BatchPlanned ==
    ASSUME NEW k \in Keys, NEW s \in Stores, NEW calls \in Batch(k, s)
    PROVE  Planned(calls)
<1>1. PICK a \in BatchElements(k, s), b \in BatchElements(k, s) :
          calls = a \o b \o <<SyncOf("main", k)>>
  BY SMTT(60) DEF Batch
<1>2. a \o b \in Plains
  BY BatchPlain, PlainConcat
<1>3. SyncOf("main", k) \in Calls /\ FlushesMain(SyncOf("main", k))
  BY SyncCall DEF Stores
<1>4. Planned((a \o b) \o <<SyncOf("main", k)>>)
  BY <1>2, <1>3, PlainThenSync DEF Plains
<1> QED BY <1>1, <1>4

LEMMA DeletingPlanned ==
    ASSUME NEW k \in Keys, NEW s \in Stores, NEW calls \in Deleting(k, s)
    PROVE  Planned(calls)
<1>1. PICK c \in Cascade(k, s) : calls = c \o <<SyncOf("main", k)>>
  BY DEF Deleting
<1>2. c \in Plains
  BY CascadePlain
<1>3. SyncOf("main", k) \in Calls /\ FlushesMain(SyncOf("main", k))
  BY SyncCall DEF Stores
<1> QED BY <1>1, <1>2, <1>3, PlainThenSync DEF Plains

(***************************************************************************)
(* Every request is planned well.                                          *)
(***************************************************************************)
LEMMA PlansPlanned ==
    ASSUME NEW k \in Keys, NEW s \in Stores, NEW op \in Requests,
           NEW calls \in Plans(k, s)[op]
    PROVE  Planned(calls)
<1> DEFINE sync == SyncOf("main", k)
<1>1. sync \in Calls /\ FlushesMain(sync) /\ "main" \in Stores
  BY SyncCall DEF Stores
<1>2. ASSUME NEW do \in {"put", "extend"} PROVE Planned(<<Call(do, s, "val", k), sync>>)
  <2>1. Plain(Call(do, s, "val", k))
    BY PlainCall DEF Kinds
  <2> HIDE DEF sync
  <2> QED BY <1>1, <2>1, OnePlainThenSync
<1>3. op = "set" => calls \in Setting(k, s)
  BY DEF Plans
<1>4. CASE op = "set"
  BY <1>2, <1>3, <1>4 DEF Setting
<1>5. CASE op = "append"
  <2>1. calls = Appending(k, s)
    BY <1>5 DEF Plans
  <2>2. Plain(Call("extend", s, "val", k)) /\ Call("extend", s, "val", k).store = s
    BY PlainCall, CallType DEF Kinds, Does
  <2> QED BY <2>1, <2>2, PlainThenOwnSync DEF Appending
<1>6. CASE op = "del"
  BY <1>6, DeletingPlanned DEF Plans
<1>7. CASE op \in {"embed", "unembed", "note"}
  <2>1. /\ Plain(Call("put", "main", "vec", k)) /\ Plain(Call("remove", "main", "vec", k))
        /\ Plain(Call("put", "main", "note", k))
    BY <1>1, PlainCall DEF Kinds
  <2>2. calls \in {<<Call("put", "main", "vec", k), sync>>,
                   <<Call("remove", "main", "vec", k), sync>>,
                   <<Call("put", "main", "note", k), sync>>}
    BY <1>7 DEF Plans, Embedding, Unembedding, Noting
  <2> HIDE DEF sync
  <2> QED BY <1>1, <2>1, <2>2, OnePlainThenSync
<1>8. CASE op = "mandate"
  <2>1. Plain(Ignored(Call("put", "main", "mandate", k)))
    BY <1>1, PlainCall DEF Kinds
  <2>2. calls = <<Ignored(Call("put", "main", "mandate", k)), sync>>
    BY <1>8 DEF Plans, Mandating
  <2> HIDE DEF sync
  <2> QED BY <1>1, <2>1, <2>2, OnePlainThenSync
<1>9. CASE op = "batch"
  BY <1>9, BatchPlanned DEF Plans
<1>10. CASE op = "outdate"
  BY <1>10, OutdatingPlanned DEF Plans
<1>11. CASE op = "revive"
  BY <1>11, RevivingPlanned DEF Plans
<1>12. CASE op = "link"
  <2>1. calls = Linking(k, s)
    BY <1>12 DEF Plans
  <2>2. Plain(Call("extend", s, "assoc", k)) /\ Call("extend", s, "assoc", k).store = s
    BY PlainCall, CallType DEF Kinds, Does
  <2> QED BY <2>1, <2>2, PlainThenOwnSync DEF Linking
<1>13. CASE op \in {"get", "snapshot", "restore"}
  <2>1. ASSUME NEW do \in {"read", "snapshot", "restore"}, NEW z \in Stores
        PROVE  Planned(<<Call(do, z, "val", k)>>)
    <3>1. /\ Call(do, z, "val", k) \in Calls /\ Call(do, z, "val", k).do = do
          /\ Call(do, z, "val", k).name[1] = "val"
      BY CallType DEF Kinds, Does
    <3> QED BY <3>1, OneCall DEF Marks, Looks, Alters
  <2>2. calls \in {<<Call("read", s, "val", k)>>, <<Call("snapshot", "main", "val", k)>>,
                   <<Call("restore", "main", "val", k)>>}
    BY <1>13 DEF Plans, Getting, Snapshotting, Restoring
  <2> QED BY <1>1, <2>1, <2>2
<1>14. CASE op = "outdated"
  BY <1>14, ShowingOutdatedPlanned DEF Plans
<1>15. CASE op = "assoc"
  BY <1>15, ShowingLinksPlanned DEF Plans
<1>16. CASE op = "recall"
  BY <1>16, RecallingPlanned DEF Plans
<1> QED
  BY <1>4, <1>5, <1>6, <1>7, <1>8, <1>9, <1>10, <1>11, <1>12, <1>13,
     <1>14, <1>15, <1>16 DEF Requests

(***************************************************************************)
(* What is left of a plan.                                                 *)
(***************************************************************************)
LEMMA TailKeeps ==
    ASSUME NEW calls \in Seq(Calls), calls # <<>>
    PROVE  /\ Tail(calls) \in Seq(Calls) /\ Head(calls) \in Calls
           /\ Head(calls) = calls[1]
           /\ Ordered(calls) => Ordered(Tail(calls))
           /\ Leaves(calls) => Leaves(Tail(calls))
           /\ Flushes(calls) => Flushes(Tail(calls)) \/ (Tail(calls) = <<>> /\ FlushesMain(Head(calls)))
           /\ Tail(calls) # <<>> => Len(calls) > 1 /\ Tail(calls)[1] = calls[2]
<1> DEFINE u == Tail(calls)
<1>1. /\ u \in Seq(Calls) /\ Head(calls) \in Calls /\ Head(calls) = calls[1]
      /\ Len(u) = Len(calls) - 1 /\ Len(calls) \in Nat \ {0}
      /\ \A i \in 1..Len(u) : u[i] = calls[i + 1]
  BY HeadTailProperties
<1> HIDE DEF u
<1>2. ASSUME Ordered(calls) PROVE Ordered(u)
  <2>1. SUFFICES ASSUME NEW i \in 1..Len(u)
                 PROVE  /\ Marks(u[i]) /\ i > 1 => Explains(u[i - 1], u[i])
                        /\ Looks(u[i]) => i < Len(u) /\ Finds(u[i + 1], u[i])
                        /\ u[i].do = "remove" => u[i].name[1] # "history"
    BY DEF Ordered
  <2>2. /\ i + 1 \in 1..Len(calls) /\ u[i] = calls[i + 1] /\ (i + 1) - 1 = i
    BY <1>1
  <2>3. /\ Marks(calls[i + 1]) /\ i + 1 > 1 => Explains(calls[(i + 1) - 1], calls[i + 1])
        /\ Looks(calls[i + 1]) =>
              i + 1 < Len(calls) /\ Finds(calls[(i + 1) + 1], calls[i + 1])
        /\ calls[i + 1].do = "remove" => calls[i + 1].name[1] # "history"
    BY <1>2, <2>2 DEF Ordered
  <2>4. i > 1 => u[i - 1] = calls[i]
    BY <1>1
  <2>5. i + 1 < Len(calls) => i + 1 \in 1..Len(u) /\ u[i + 1] = calls[(i + 1) + 1]
    BY <1>1
  <2>6. Marks(u[i]) /\ i > 1 => Explains(u[i - 1], u[i])
    BY <2>2, <2>3, <2>4
  <2>7. Looks(u[i]) => i < Len(u) /\ Finds(u[i + 1], u[i])
    BY <1>1, <2>2, <2>3, <2>5
  <2> QED BY <2>2, <2>3, <2>6, <2>7
<1>3. ASSUME Leaves(calls) PROVE Leaves(u)
  BY <1>1, <1>3 DEF Leaves
<1>4. ASSUME Flushes(calls) PROVE Flushes(u) \/ (u = <<>> /\ FlushesMain(Head(calls)))
  <2>1. CASE u = <<>>
    <3>1. Len(calls) = 1
      BY <1>1, <2>1
    <3> QED BY <1>1, <1>4, <2>1, <3>1 DEF Flushes
  <2>2. CASE u # <<>>
    <3>1. Len(u) \in 1..Len(u) /\ Len(u) + 1 = Len(calls)
      BY <1>1, <2>2
    <3>2. u[Len(u)] = calls[Len(calls)]
      BY <1>1, <3>1
    <3>3. \A i \in 1..Len(u) : Alters(u[i]) \/ u[i].do = "sync"
      <4>1. \A i \in 1..Len(u) : i + 1 \in 1..Len(calls)
        BY <1>1
      <4> QED BY <1>1, <1>4, <4>1 DEF Flushes
    <3> QED BY <1>4, <2>2, <3>2, <3>3 DEF Flushes
  <2> QED BY <2>1, <2>2
<1>5. u # <<>> => Len(calls) > 1 /\ u[1] = calls[2]
  BY <1>1
<1> QED BY <1>1, <1>2, <1>3, <1>4, <1>5 DEF u

-----------------------------------------------------------------------------
(* What the calls do to the stores *)

(***************************************************************************)
(* An update of one name, as DurableMap!Update has it.                     *)
(***************************************************************************)
Updates(v, w, name, cells) ==
    LET m == [v[Len(v)] EXCEPT ![name] = cells]
    IN  w = Append(v, m) \/ w = <<m>>

LEMMA UpdateFacts ==
    ASSUME NEW v \in Seq(Version), v # <<>>, NEW w, NEW name \in Names,
           NEW cells \in SUBSET Cells, Updates(v, w, name, cells)
    PROVE  LET m == [v[Len(v)] EXCEPT ![name] = cells]
           IN  /\ w \in Seq(Version) /\ w # <<>> /\ Len(w) <= Len(v) + 1
               /\ w[Len(w)] = m /\ m \in Version /\ v[Len(v)] \in Version
               /\ \A i \in 1..Len(w) : w[i] = m \/ \E j \in 1..Len(v) : w[i] = v[j]
<1> DEFINE m == [v[Len(v)] EXCEPT ![name] = cells]
<1>1. v[Len(v)] \in Version /\ Len(v) \in Nat \ {0}
  BY ElementOfSeq
<1>2. m \in Version
  BY <1>1 DEF Version
<1>3. w = Append(v, m) \/ w = <<m>>
  BY DEF Updates
<1> HIDE DEF m
<1>4. CASE w = Append(v, m)
  BY <1>1, <1>2, <1>4, AppendProperties DEF m
<1>5. CASE w = <<m>>
  <2>1. w \in Seq(Version) /\ Len(w) = 1 /\ w[1] = m /\ w # <<>>
    BY <1>2, <1>5
  <2>2. w[Len(w)] = m /\ Len(w) <= Len(v) + 1 /\ \A i \in 1..Len(w) : w[i] = m
    BY <1>1, <2>1
  <2> QED BY <1>1, <1>2, <2>1, <2>2 DEF m
<1> QED BY <1>3, <1>4, <1>5

LEMMA UpdateType ==
    ASSUME NEW v \in Seq(Version), v # <<>>, NEW w, NEW name \in Names,
           NEW cells \in SUBSET Cells, Updates(v, w, name, cells)
    PROVE  w \in Seq(Version) /\ w # <<>> /\ Len(w) <= Len(v) + 1
BY UpdateFacts

LEMMA VersionsType ==
    ASSUME TypeOK, NEW s \in Stores
    PROVE  /\ Versions(s) \in Seq(Version) /\ Versions(s) # <<>>
           /\ Len(Versions(s)) \in Nat \ {0}
           /\ Latest(s) = Versions(s)[Len(Versions(s))]
           /\ Latest(s) \in Version
<1>1. /\ Versions(s) \in Seq(Version) /\ Versions(s) # <<>>
      /\ Latest(s) = Versions(s)[Len(Versions(s))]
  BY DEF TypeOK, Stores, Versions, Latest, Main!Current, Proj!Current
<1>2. Len(Versions(s)) \in Nat \ {0}
  BY <1>1
<1> QED BY <1>1, <1>2, ElementOfSeq

(***************************************************************************)
(* What a call does to its store.                                          *)
(***************************************************************************)
Puts(c) == \E cells \in SUBSET Cells :
    cells # {} /\ Updates(Versions(c.store), Versions(c.store)', c.name, cells)

Effect(c) ==
    /\ \A s \in Stores : s # c.store => Versions(s)' = Versions(s)
    /\ \/ c.do \in {"put", "extend"} /\ Puts(c)
       \/ c.do = "remove" /\ Updates(Versions(c.store), Versions(c.store)', c.name, {})
       \/ c.do = "sync" /\ Versions(c.store)' = <<Latest(c.store)>>
       \/ c.do = "restore" /\ c.store = "main" /\ Versions("main")' = <<snap>>

LEMMA PutCell ==
    ASSUME NEW v \in Seq(Threads), NEW ts \in Nat
    PROVE  Main!Cell(v, ts, 0) \in Cells /\ Proj!Cell(v, ts, 0) \in Cells
BY DEF Main!Cell, Proj!Cell, Cells

LEMMA CallEffect ==
    ASSUME TypeOK, NEW t \in Threads, NEW c \in Calls,
           \/ c.store = "main" /\ OnMain(c, t) /\ UNCHANGED proj
           \/ c.store = "proj" /\ OnProj(c, t) /\ UNCHANGED main
    PROVE  Effect(c) /\ now' = now
<1>0. <<t>> \in Seq(Threads) /\ now \in Nat /\ c.name \in Names
  BY DEF TypeOK, Calls
<1>1. CASE c.store = "main" /\ OnMain(c, t) /\ UNCHANGED proj
  <2>1. \A s \in Stores : s # c.store => Versions(s)' = Versions(s)
    BY <1>1 DEF Stores, Versions
  <2>2. Versions(c.store) = main /\ Versions(c.store)' = main' /\ Versions("main")' = main'
    BY <1>1 DEF Versions
  <2>3. Main!Current = Latest(c.store) /\ Main!Current \in Version
    BY <1>1, VersionsType DEF Latest, Stores
  <2>4. \A cells : Main!Update(c.name, cells) => Updates(main, main', c.name, cells)
    BY DEF Main!Update, Updates, Main!Current
  <2>5. CASE c.do \in {"put", "extend"} /\ Main!Put(c.name, t, 0)
    <3>1. Updates(main, main', c.name, {Main!Cell(<<t>>, now, 0)}) /\ now' = now
      BY <2>4, <2>5 DEF Main!Put
    <3>2. {Main!Cell(<<t>>, now, 0)} \in SUBSET Cells
      BY <1>0, PutCell
    <3> QED BY <2>1, <2>2, <2>5, <3>1, <3>2 DEF Effect, Puts
  <2>6. CASE c.do = "extend" /\ Main!Extend(c.name, t, 0)
    <3>1. PICK old \in Main!Current[c.name] :
              Main!Update(c.name, {Main!Cell(Append(old.val, t), now, 0)})
      BY <2>6 DEF Main!Extend
    <3>2. old.val \in Seq(Threads)
      BY <1>0, <2>3 DEF Version, Cells
    <3>3. {Main!Cell(Append(old.val, t), now, 0)} \in SUBSET Cells
      <4>1. Append(old.val, t) \in Seq(Threads)
        BY <3>2
      <4> QED BY <1>0, <4>1, PutCell
    <3>4. Updates(main, main', c.name, {Main!Cell(Append(old.val, t), now, 0)})
      BY <2>4, <3>1
    <3>5. now' = now
      BY <2>6 DEF Main!Extend
    <3> QED BY <2>1, <2>2, <2>6, <3>3, <3>4, <3>5 DEF Effect, Puts
  <2>7. CASE c.do = "remove" /\ Main!Remove(c.name)
    <3>1. Updates(main, main', c.name, {}) /\ now' = now
      BY <2>4, <2>7 DEF Main!Remove
    <3> QED BY <2>1, <2>2, <2>7, <3>1 DEF Effect
  <2>8. CASE c.do = "sync" /\ Main!Flush
    BY <2>1, <2>2, <2>3, <2>8 DEF Effect, Main!Flush
  <2>9. CASE c.do = "restore" /\ main' = <<snap>> /\ UNCHANGED now
    BY <1>1, <2>1, <2>2, <2>9 DEF Effect
  <2> QED BY <1>1, <2>5, <2>6, <2>7, <2>8, <2>9 DEF OnMain
<1>2. CASE c.store = "proj" /\ OnProj(c, t) /\ UNCHANGED main
  <2>1. \A s \in Stores : s # c.store => Versions(s)' = Versions(s)
    BY <1>2 DEF Stores, Versions
  <2>2. Versions(c.store) = proj /\ Versions(c.store)' = proj'
    BY <1>2 DEF Versions
  <2>3. Proj!Current = Latest(c.store) /\ Proj!Current \in Version
    BY <1>2, VersionsType DEF Latest, Stores
  <2>4. \A cells : Proj!Update(c.name, cells) => Updates(proj, proj', c.name, cells)
    BY DEF Proj!Update, Updates, Proj!Current
  <2>5. CASE c.do \in {"put", "extend"} /\ Proj!Put(c.name, t, 0)
    <3>1. Updates(proj, proj', c.name, {Proj!Cell(<<t>>, now, 0)}) /\ now' = now
      BY <2>4, <2>5 DEF Proj!Put
    <3>2. {Proj!Cell(<<t>>, now, 0)} \in SUBSET Cells
      BY <1>0, PutCell
    <3> QED BY <2>1, <2>2, <2>5, <3>1, <3>2 DEF Effect, Puts
  <2>6. CASE c.do = "extend" /\ Proj!Extend(c.name, t, 0)
    <3>1. PICK old \in Proj!Current[c.name] :
              Proj!Update(c.name, {Proj!Cell(Append(old.val, t), now, 0)})
      BY <2>6 DEF Proj!Extend
    <3>2. old.val \in Seq(Threads)
      BY <1>0, <2>3 DEF Version, Cells
    <3>3. {Proj!Cell(Append(old.val, t), now, 0)} \in SUBSET Cells
      <4>1. Append(old.val, t) \in Seq(Threads)
        BY <3>2
      <4> QED BY <1>0, <4>1, PutCell
    <3>4. Updates(proj, proj', c.name, {Proj!Cell(Append(old.val, t), now, 0)})
      BY <2>4, <3>1
    <3>5. now' = now
      BY <2>6 DEF Proj!Extend
    <3> QED BY <2>1, <2>2, <2>6, <3>3, <3>4, <3>5 DEF Effect, Puts
  <2>7. CASE c.do = "remove" /\ Proj!Remove(c.name)
    <3>1. Updates(proj, proj', c.name, {}) /\ now' = now
      BY <2>4, <2>7 DEF Proj!Remove
    <3> QED BY <2>1, <2>2, <2>7, <3>1 DEF Effect
  <2>8. CASE c.do = "sync" /\ Proj!Flush
    BY <2>1, <2>2, <2>3, <2>8 DEF Effect, Proj!Flush
  <2> QED BY <1>2, <2>5, <2>6, <2>7, <2>8 DEF OnProj
<1> QED BY <1>1, <1>2

(***************************************************************************)
(* The versions of a store after a call on it.                             *)
(***************************************************************************)
LEMMA EffectType ==
    ASSUME TypeOK, NEW c \in Calls, Effect(c), NEW s \in Stores
    PROVE  /\ Versions(s)' \in Seq(Version) /\ Versions(s)' # <<>>
           /\ c.do \in {"put", "extend", "remove"} =>
                 Len(Versions(s)') <= Len(Versions(s)) + 1
           /\ c.do \in {"sync", "restore"} =>
                 (s = c.store => Len(Versions(s)') = 1)
           /\ s # c.store => Versions(s)' = Versions(s)
<1>0. /\ Versions(s) \in Seq(Version) /\ Versions(s) # <<>> /\ Latest(s) \in Version
      /\ Len(Versions(s)) \in Nat /\ snap \in Version /\ c.name \in Names
  BY VersionsType DEF TypeOK, Calls
<1>1. CASE s # c.store
  BY <1>0, <1>1 DEF Effect
<1>2. CASE s = c.store /\ c.do \in {"put", "extend"} /\ Puts(c)
  <2>1. PICK cells \in SUBSET Cells : Updates(Versions(s), Versions(s)', c.name, cells)
    BY <1>2 DEF Puts
  <2>2. Versions(s)' \in Seq(Version) /\ Versions(s)' # <<>>
        /\ Len(Versions(s)') <= Len(Versions(s)) + 1
    BY <1>0, <2>1, UpdateType
  <2> QED BY <1>2, <2>2
<1>3. CASE s = c.store /\ c.do = "remove" /\ Updates(Versions(s), Versions(s)', c.name, {})
  <2>1. {} \in SUBSET Cells
    OBVIOUS
  <2>2. Versions(s)' \in Seq(Version) /\ Versions(s)' # <<>>
        /\ Len(Versions(s)') <= Len(Versions(s)) + 1
    BY <1>0, <1>3, <2>1, UpdateType
  <2> QED BY <1>3, <2>2
<1>4. CASE s = c.store /\ c.do = "sync" /\ Versions(s)' = <<Latest(s)>>
  <2>1. /\ <<Latest(s)>> \in Seq(Version) /\ <<Latest(s)>> # <<>>
        /\ Len(<<Latest(s)>>) = 1
    BY <1>0
  <2> QED BY <1>4, <2>1
<1>5. CASE s = c.store /\ c.do = "restore" /\ s = "main" /\ Versions(s)' = <<snap>>
  <2>1. /\ <<snap>> \in Seq(Version) /\ <<snap>> # <<>> /\ Len(<<snap>>) = 1
    BY <1>0
  <2> QED BY <1>5, <2>1
<1> QED BY <1>1, <1>2, <1>3, <1>4, <1>5 DEF Effect

LEMMA CallStoreFacts ==
    ASSUME TypeOK, NEW t \in Threads, CallStore(t)
    PROVE  LET c == Head(todo[t]) IN
           /\ todo[t] \in Seq(Calls) /\ todo[t] # <<>> /\ c \in Calls
           /\ c.do \in {"put", "extend", "remove", "restore", "sync"}
           /\ Effect(c) /\ now' = now
<1>1. todo[t] \in Seq(Calls) /\ todo[t] # <<>>
  BY DEF TypeOK, CallStore
<1>2. Head(todo[t]) \in Calls
  BY <1>1, HeadTailProperties
<1> QED BY <1>1, <1>2, CallEffect DEF CallStore, Writes

LEMMA TypeStep ==
    ASSUME TypeOK, [Next]_vars
    PROVE  TypeOK'
<1>1. ASSUME NEW t \in Threads, Accept(t) PROVE TypeOK'
  <2>1. PICK op \in Ops, k \in Keys, pj \in BOOLEAN :
            \E calls \in Plans(k, Pick(k, pj))[op] :
                todo' = [todo EXCEPT ![t] = calls]
    BY <1>1 DEF Accept
  <2>2. PICK calls \in Plans(k, Pick(k, pj))[op] : todo' = [todo EXCEPT ![t] = calls]
    BY <2>1
  <2>3. calls \in Seq(Calls)
    <3>1. Pick(k, pj) \in Stores /\ op \in Requests
      BY PickType, MemoryAssumption
    <3>2. Planned(calls)
      BY <3>1, PlansPlanned
    <3> QED BY <3>2 DEF Planned
  <2>4. todo' \in [Threads -> Seq(Calls)]
    BY <2>2, <2>3 DEF TypeOK
  <2>5. /\ busy' = busy \cup {t} /\ mark' = [mark EXCEPT ![t] = Nothing]
        /\ seen' = [seen EXCEPT ![t] = {}]
        /\ UNCHANGED <<main, proj, now, written, acked, snap, split>>
    BY <1>1 DEF Accept, stores
  <2>6. mark' \in [Threads -> [Stores -> Int]] /\ busy' \in SUBSET Threads
        /\ seen' \in [Threads -> SUBSET (Kinds \cup {"overtaken"})]
    BY <2>5 DEF TypeOK, Nothing
  <2> QED BY <2>4, <2>5, <2>6 DEF TypeOK
<1>2. ASSUME NEW t \in Threads, CallStore(t) PROVE TypeOK'
  <2> DEFINE c == Head(todo[t])
  <2>1. /\ todo[t] \in Seq(Calls) /\ todo[t] # <<>> /\ c \in Calls /\ Effect(c)
        /\ now' = now
    BY <1>2, CallStoreFacts
  <2>2. /\ Versions("main")' \in Seq(Version) /\ Versions("main")' # <<>>
        /\ Versions("proj")' \in Seq(Version) /\ Versions("proj")' # <<>>
    BY <2>1, EffectType DEF Stores
  <2>3. /\ main' \in Seq(Version) /\ main' # <<>>
        /\ proj' \in Seq(Version) /\ proj' # <<>>
    BY <2>2 DEF Versions
  <2>4. written' \in [Stores -> Int] /\ mark' \in [Threads -> [Stores -> Int]]
    <3>1. \/ /\ written' = [written EXCEPT ![c.store] = @ + 1]
             /\ mark' = [mark EXCEPT ![t][c.store] = written'[c.store]]
          \/ UNCHANGED <<written, mark>>
      BY <1>2 DEF CallStore
    <3>2. c.store \in Stores
      BY <2>1 DEF Calls
    <3> HIDE DEF c
    <3>3. CASE /\ written' = [written EXCEPT ![c.store] = @ + 1]
               /\ mark' = [mark EXCEPT ![t][c.store] = written'[c.store]]
      <4>1. written' \in [Stores -> Int]
        BY <3>2, <3>3 DEF TypeOK
      <4>2. written'[c.store] \in Int
        BY <3>2, <4>1
      <4> QED BY <3>2, <3>3, <4>1, <4>2 DEF TypeOK
    <3> QED BY <3>1, <3>3 DEF TypeOK
  <2>5. todo' \in [Threads -> Seq(Calls)]
    <3>1. Tail(todo[t]) \in Seq(Calls) /\ todo' = [todo EXCEPT ![t] = Tail(@)]
      BY <1>2, <2>1, HeadTailProperties DEF CallStore
    <3> QED BY <3>1 DEF TypeOK
  <2>6. seen' \in [Threads -> SUBSET (Kinds \cup {"overtaken"})]
    BY <1>2 DEF CallStore, Overtaken, TypeOK
  <2>7. split' \in BOOLEAN /\ UNCHANGED <<busy, acked, snap>>
    BY <1>2 DEF CallStore, Splits
  <2> QED BY <2>1, <2>3, <2>4, <2>5, <2>6, <2>7 DEF TypeOK
<1>3. ASSUME NEW t \in Threads, CallGet(t) PROVE TypeOK'
  <2>1. /\ todo[t] \in Seq(Calls) /\ todo[t] # <<>> /\ Head(todo[t]) \in Calls
        /\ Tail(todo[t]) \in Seq(Calls)
    BY <1>3, HeadTailProperties DEF TypeOK, CallGet
  <2>2. todo' \in [Threads -> Seq(Calls)]
    BY <1>3, <2>1 DEF CallGet, TypeOK
  <2>3. Head(todo[t]).name[1] \in Kinds
    BY <2>1 DEF Calls, Names
  <2>4. seen' \in [Threads -> SUBSET (Kinds \cup {"overtaken"})]
    BY <1>3, <2>3 DEF CallGet, TypeOK
  <2> QED BY <1>3, <2>2, <2>4 DEF CallGet, TypeOK, stores
<1>4. ASSUME NEW t \in Threads, CallSnapshot(t) PROVE TypeOK'
  <2>1. todo[t] \in Seq(Calls) /\ todo[t] # <<>> /\ Tail(todo[t]) \in Seq(Calls)
    BY <1>4, HeadTailProperties DEF TypeOK, CallSnapshot
  <2>2. Main!Current \in Version
    BY VersionsType DEF Latest, Stores
  <2> QED BY <1>4, <2>1, <2>2 DEF CallSnapshot, TypeOK, stores
<1>5. ASSUME NEW t \in Threads, SetFails(t) PROVE TypeOK'
  <2>1. /\ todo[t] \in Seq(Calls) /\ todo[t] # <<>> /\ Tail(todo[t]) \in Seq(Calls)
        /\ <<>> \in Seq(Calls)
    BY <1>5, HeadTailProperties DEF TypeOK, SetFails
  <2> QED BY <1>5, <2>1 DEF SetFails, TypeOK, stores
<1>6. ASSUME NEW t \in Threads, Reply(t) PROVE TypeOK'
  BY <1>6 DEF Reply, TypeOK, stores, Larger
<1>7. CASE Kill
  BY <1>7 DEF Kill, ThreadsGone, TypeOK, stores, Nothing
<1>8. CASE PowerLoss
  <2>1. PICK i \in 1..Len(main), j \in 1..Len(proj) :
            /\ main' = <<main[i]>> /\ proj' = <<proj[j]>>
            /\ written' = [main |-> Base("main") + i - 1, proj |-> Base("proj") + j - 1]
    BY <1>8 DEF PowerLoss
  <2>2. main[i] \in Version /\ proj[j] \in Version
    BY ElementOfSeq DEF TypeOK
  <2>3. Base("main") \in Int /\ Base("proj") \in Int
    BY VersionsType DEF Base, TypeOK, Stores
  <2>4. written' \in [Stores -> Int]
    BY <2>1, <2>3 DEF Stores
  <2>5. /\ main' \in Seq(Version) /\ main' # <<>>
        /\ proj' \in Seq(Version) /\ proj' # <<>>
    BY <2>1, <2>2
  <2> QED BY <1>8, <2>4, <2>5 DEF PowerLoss, ThreadsGone, TypeOK, Nothing
<1>9. CASE UNCHANGED vars
  BY <1>9 DEF vars, stores, threads, TypeOK
<1> QED
  BY <1>1, <1>2, <1>3, <1>4, <1>5, <1>6, <1>7, <1>8, <1>9 DEF Next

-----------------------------------------------------------------------------
(* What the main store acknowledged survives *)

(***************************************************************************)
(* A thread that has something in the main store that is not flushed still *)
(* has to flush it before it replies.                                      *)
(***************************************************************************)
ThreadMain(t) ==
    /\ t \notin busy => todo[t] = <<>>
    /\ mark[t]["main"] <= written["main"]
    /\ t \in busy =>
        \/ Flushes(todo[t])
        \/ Leaves(todo[t]) /\ mark[t]["main"] <= Base("main")

MainInv ==
    /\ MainSurvives
    /\ 0 <= Base("main")
    /\ \A t \in Threads : ThreadMain(t)

LEMMA EmptyPlan == Leaves(<<>>) /\ Ordered(<<>>)
BY DEF Leaves, Ordered

LEMMA BaseType ==
    ASSUME TypeOK
    PROVE  /\ Base("main") \in Int /\ written["main"] \in Int /\ acked["main"] \in Int
           /\ Len(main) \in Nat \ {0} /\ Base("main") <= written["main"]
           /\ \A t \in Threads : mark[t]["main"] \in Int
<1>1. Len(main) \in Nat \ {0} /\ Versions("main") = main
  BY DEF TypeOK, Versions
<1>2. written["main"] \in Int /\ acked["main"] \in Int
      /\ \A t \in Threads : mark[t]["main"] \in Int
  BY DEF TypeOK, Stores
<1> QED BY <1>1, <1>2 DEF Base

(***************************************************************************)
(* Steps that write nothing to the main store.                             *)
(***************************************************************************)
LEMMA MainStays ==
    ASSUME TypeOK, MainInv, UNCHANGED <<main, written, acked>>, NEW t,
           \A u \in Threads \ {t} : todo'[u] = todo[u] /\ mark'[u] = mark[u],
           busy' \ {t} = busy \ {t},
           t \in Threads => ThreadMain(t)'
    PROVE  MainInv'
<1>1. Base("main")' = Base("main")
  BY DEF Base, Versions
<1>2. ASSUME NEW u \in Threads, u # t PROVE ThreadMain(u)'
  <2>1. todo'[u] = todo[u] /\ mark'[u] = mark[u] /\ (u \in busy' <=> u \in busy)
    BY <1>2
  <2> QED BY <1>1, <2>1 DEF MainInv, ThreadMain
<1>3. \A u \in Threads : ThreadMain(u)'
  BY <1>2
<1> QED BY <1>1, <1>3 DEF MainInv, MainSurvives, Survives

LEMMA BaseGrows ==
    ASSUME TypeOK, NEW t \in Threads, CallStore(t)
    PROVE  LET c == Head(todo[t]) IN
           /\ Base("main") <= Base("main")' /\ Base("main")' <= written'["main"]
           /\ written["main"] <= written'["main"]
           /\ c.do \in {"sync", "restore"} /\ c.store = "main"
                => Base("main")' = written'["main"]
           /\ mark'[t]["main"] = IF c.do # "sync" /\ c.store = "main"
                                 THEN written'["main"] ELSE mark[t]["main"]
           /\ \A u \in Threads : u # t => mark'[u] = mark[u]
           /\ written'["main"] \in Int /\ Base("main")' \in Int
<1> DEFINE c == Head(todo[t])
<1>1. /\ c \in Calls /\ c.do \in {"put", "extend", "remove", "restore", "sync"}
      /\ Effect(c)
  BY CallStoreFacts
<1>2. IF c.do # "sync"
      THEN /\ written' = [written EXCEPT ![c.store] = @ + 1]
           /\ mark' = [mark EXCEPT ![t][c.store] = written'[c.store]]
      ELSE UNCHANGED <<written, mark>>
  BY <1>1 DEF CallStore, Writes
<1>3. "main" \in Stores /\ c.store \in Stores
  BY <1>1 DEF Stores, Calls
<1>4. /\ Versions("main")' # <<>> /\ Versions("main")' \in Seq(Version)
      /\ c.do \in {"put", "extend", "remove"} =>
            Len(Versions("main")') <= Len(Versions("main")) + 1
      /\ c.do \in {"sync", "restore"} /\ c.store = "main" => Len(Versions("main")') = 1
      /\ "main" # c.store => Versions("main")' = Versions("main")
  BY <1>1, <1>3, EffectType
<1>5. Len(Versions("main")') \in Nat \ {0} /\ Len(Versions("main")) \in Nat \ {0}
  BY <1>3, <1>4, VersionsType
<1>6. Base("main")' = written'["main"] - Len(Versions("main")') + 1
  BY DEF Base
<1>7. Base("main") = written["main"] - Len(Versions("main")) + 1
  BY DEF Base
<1> HIDE DEF c
<1>8. /\ written'["main"] = IF c.do # "sync" /\ c.store = "main"
                            THEN written["main"] + 1 ELSE written["main"]
      /\ mark'[t]["main"] = IF c.do # "sync" /\ c.store = "main"
                            THEN written'["main"] ELSE mark[t]["main"]
      /\ \A u \in Threads : u # t => mark'[u] = mark[u]
  <2>1. /\ written \in [Stores -> Int] /\ DOMAIN mark = Threads
        /\ DOMAIN mark[t] = Stores
    BY DEF TypeOK
  <2>2. CASE c.do = "sync"
    BY <1>2, <2>2
  <2>3. CASE c.do # "sync"
    <3>1. /\ written' = [written EXCEPT ![c.store] = @ + 1]
          /\ mark' = [mark EXCEPT ![t][c.store] = written'[c.store]]
      BY <1>2, <2>3
    <3>2. CASE c.store = "main"
      BY <1>3, <2>1, <2>3, <3>1, <3>2
    <3>3. CASE c.store # "main"
      BY <1>3, <2>1, <3>1, <3>3
    <3> QED BY <3>2, <3>3
  <2> QED BY <2>2, <2>3
<1>9. written["main"] \in Int
  BY BaseType
<1>a. PICK n : n = Len(Versions("main"))
  OBVIOUS
<1>b. PICK m : m = Len(Versions("main")')
  OBVIOUS
<1>c. /\ n \in Nat \ {0} /\ m \in Nat \ {0}
      /\ Base("main")' = written'["main"] - m + 1
      /\ Base("main") = written["main"] - n + 1
      /\ c.do \in {"put", "extend", "remove"} => m <= n + 1
      /\ c.do \in {"sync", "restore"} /\ c.store = "main" => m = 1
      /\ "main" # c.store => m = n
  BY <1>4, <1>5, <1>6, <1>7, <1>a, <1>b
<1>10. Base("main") <= Base("main")'
  <2>1. CASE c.store = "main" /\ c.do # "sync"
    <3>1. written'["main"] = written["main"] + 1 /\ m <= n + 1
      BY <1>1, <1>8, <1>c, <2>1
    <3> QED BY <1>9, <1>c, <3>1
  <2>2. CASE c.store # "main" \/ c.do = "sync"
    <3>1. written'["main"] = written["main"] /\ m <= n
      BY <1>8, <1>c, <2>2
    <3> QED BY <1>9, <1>c, <3>1
  <2> QED BY <2>1, <2>2
<1>11. Base("main")' <= written'["main"] /\ Base("main")' \in Int
       /\ written["main"] <= written'["main"] /\ written'["main"] \in Int
  BY <1>5, <1>6, <1>8, <1>9
<1>12. ASSUME c.do \in {"sync", "restore"}, c.store = "main"
       PROVE  Base("main")' = written'["main"]
  BY <1>11, <1>12, <1>c
<1> QED BY <1>8, <1>10, <1>11, <1>12 DEF c

LEMMA MainInvStep ==
    ASSUME TypeOK, MainInv, [Next]_vars
    PROVE  MainInv'
<1>0. /\ Base("main") \in Int /\ written["main"] \in Int /\ acked["main"] \in Int
      /\ Len(main) \in Nat \ {0} /\ Base("main") <= written["main"]
      /\ \A t \in Threads : mark[t]["main"] \in Int /\ todo[t] \in Seq(Calls)
      /\ acked["main"] <= Base("main") /\ 0 <= Base("main")
      /\ \A t \in Threads : ThreadMain(t)
  BY BaseType DEF MainInv, MainSurvives, Survives, TypeOK
<1>1. ASSUME NEW t \in Threads, Accept(t) PROVE MainInv'
  <2>1. PICK op \in Ops, k \in Keys, pj \in BOOLEAN :
            \E calls \in Plans(k, Pick(k, pj))[op] :
                todo' = [todo EXCEPT ![t] = calls]
    BY <1>1 DEF Accept
  <2>2. PICK calls \in Plans(k, Pick(k, pj))[op] : todo' = [todo EXCEPT ![t] = calls]
    BY <2>1
  <2>3. Flushes(calls) \/ Leaves(calls)
    <3>1. Pick(k, pj) \in Stores /\ op \in Requests
      BY PickType, MemoryAssumption
    <3>2. Planned(calls)
      BY <3>1, PlansPlanned
    <3> QED BY <3>2 DEF Planned
  <2>4. /\ busy' = busy \cup {t} /\ mark' = [mark EXCEPT ![t] = Nothing]
        /\ UNCHANGED <<main, written, acked>>
    BY <1>1 DEF Accept, stores
  <2>5. todo'[t] = calls /\ mark'[t]["main"] = 0
    BY <2>2, <2>4 DEF TypeOK, Nothing, Stores
  <2>6. Base("main")' = Base("main")
    BY <2>4 DEF Base, Versions
  <2>7. ThreadMain(t)'
    BY <1>0, <2>3, <2>4, <2>5, <2>6 DEF ThreadMain
  <2>8. /\ \A u \in Threads \ {t} : todo'[u] = todo[u] /\ mark'[u] = mark[u]
        /\ busy' \ {t} = busy \ {t}
    BY <2>2, <2>4 DEF TypeOK
  <2> QED BY <2>4, <2>7, <2>8, MainStays
<1>2. ASSUME NEW t \in Threads, CallStore(t) PROVE MainInv'
  <2> DEFINE c == Head(todo[t])
             rest == Tail(todo[t])
  <2>1. /\ todo[t] \in Seq(Calls) /\ todo[t] # <<>> /\ c \in Calls
        /\ c.do \in {"put", "extend", "remove", "restore", "sync"}
    BY <1>2, CallStoreFacts
  <2>2. /\ Base("main") <= Base("main")' /\ Base("main")' <= written'["main"]
        /\ written["main"] <= written'["main"]
        /\ c.do \in {"sync", "restore"} /\ c.store = "main"
              => Base("main")' = written'["main"]
        /\ mark'[t]["main"] = IF c.do # "sync" /\ c.store = "main"
                              THEN written'["main"] ELSE mark[t]["main"]
        /\ \A u \in Threads : u # t => mark'[u] = mark[u]
        /\ written'["main"] \in Int /\ Base("main")' \in Int
    BY <1>2, BaseGrows
  <2>3. /\ todo'[t] = rest /\ busy' = busy /\ acked' = acked
        /\ \A u \in Threads : u # t => todo'[u] = todo[u]
    BY <1>2 DEF CallStore, TypeOK
  <2>4. /\ c = todo[t][1]
        /\ Leaves(todo[t]) => Leaves(rest)
        /\ Flushes(todo[t]) => Flushes(rest) \/ (rest = <<>> /\ FlushesMain(c))
    BY <2>1, TailKeeps
  <2>5. 1 \in 1..Len(todo[t])
    BY <2>1
  <2> HIDE DEF c, rest
  <2>6. mark'[t]["main"] <= written'["main"]
    BY <1>0, <2>2 DEF ThreadMain
  <2>0. t \in busy
    BY <1>0, <2>1 DEF ThreadMain
  <2>7. ASSUME Flushes(todo[t]) PROVE ThreadMain(t)'
    <3>1. CASE Flushes(rest)
      BY <2>0, <2>3, <2>6, <3>1 DEF ThreadMain
    <3>2. CASE rest = <<>> /\ FlushesMain(c)
      <4>1. Base("main")' = written'["main"]
        BY <2>2, <3>2 DEF FlushesMain
      <4> QED BY <2>3, <2>6, <3>2, <4>1, EmptyPlan DEF ThreadMain
    <3> QED BY <2>4, <2>7, <3>1, <3>2
  <2>8. ASSUME ~Flushes(todo[t]) PROVE ThreadMain(t)'
    <3>1. Leaves(todo[t]) /\ mark[t]["main"] <= Base("main")
      BY <1>0, <2>0, <2>8 DEF ThreadMain
    <3>2. c.store = "main" => ~Alters(c)
      BY <2>4, <2>5, <3>1 DEF Leaves
    <3>3. c.store = "main" => c.do \in {"restore", "sync"}
      BY <2>1, <3>2 DEF Alters
    <3>4. mark'[t]["main"] <= Base("main")'
      BY <1>0, <2>2, <3>1, <3>3
    <3> QED BY <2>0, <2>3, <2>4, <2>6, <3>1, <3>4 DEF ThreadMain
  <2>9. ASSUME NEW u \in Threads, u # t PROVE ThreadMain(u)'
    <3>1. todo'[u] = todo[u] /\ mark'[u] = mark[u] /\ ThreadMain(u)
      BY <1>0, <2>2, <2>3, <2>9
    <3>2. mark[u]["main"] \in Int /\ Base("main") \in Int /\ written["main"] \in Int
      BY <1>0
    <3>3. mark[u]["main"] <= written'["main"]
      BY <2>2, <3>1, <3>2 DEF ThreadMain
    <3>4. mark[u]["main"] <= Base("main") => mark[u]["main"] <= Base("main")'
      BY <2>2, <3>2
    <3> QED BY <2>3, <3>1, <3>3, <3>4 DEF ThreadMain
  <2>10. \A u \in Threads : ThreadMain(u)'
    BY <2>7, <2>8, <2>9
  <2>11. acked'["main"] <= Base("main")' /\ 0 <= Base("main")'
    BY <1>0, <2>2, <2>3
  <2> QED BY <2>10, <2>11 DEF MainInv, MainSurvives, Survives
<1>3. ASSUME NEW t \in Threads, CallGet(t) \/ CallSnapshot(t) PROVE MainInv'
  <2>1. /\ todo[t] \in Seq(Calls) /\ todo[t] # <<>>
        /\ Head(todo[t]).do \in {"read", "snapshot"}
        /\ UNCHANGED <<main, written, acked, mark, busy>>
        /\ todo'[t] \in {<<>>, Tail(todo[t])}
        /\ \A u \in Threads : u # t => todo'[u] = todo[u]
    BY <1>3 DEF CallGet, CallSnapshot, stores, TypeOK
  <2>2. Head(todo[t]) = todo[t][1] /\ 1 \in 1..Len(todo[t])
        /\ (Leaves(todo[t]) => Leaves(Tail(todo[t])))
    BY <2>1, TailKeeps
  <2>3. ~Flushes(todo[t])
    BY <2>1, <2>2 DEF Flushes, Alters
  <2>4. t \in busy /\ Leaves(todo[t]) /\ mark[t]["main"] <= Base("main")
    BY <1>0, <2>1, <2>3 DEF ThreadMain
  <2>5. Base("main")' = Base("main")
    BY <2>1 DEF Base, Versions
  <2>6. Leaves(todo'[t])
    BY <2>1, <2>2, <2>4, EmptyPlan
  <2>7. ThreadMain(t)'
    BY <1>0, <2>1, <2>4, <2>5, <2>6 DEF ThreadMain
  <2> QED BY <2>1, <2>7, MainStays
<1>4. ASSUME NEW t \in Threads, SetFails(t) PROVE MainInv'
  <2>1. /\ todo[t] \in Seq(Calls) /\ todo[t] # <<>>
        /\ Head(todo[t]).do \in {"put", "extend"}
        /\ UNCHANGED <<main, written, acked, mark>>
        /\ busy' \ {t} = busy \ {t}
        /\ \/ todo'[t] = <<>> /\ t \notin busy'
           \/ todo'[t] = Tail(todo[t]) /\ busy' = busy
        /\ \A u \in Threads : u # t => todo'[u] = todo[u]
    BY <1>4 DEF SetFails, stores, TypeOK
  <2>2. /\ Leaves(todo[t]) => Leaves(Tail(todo[t]))
        /\ Flushes(todo[t]) => Flushes(Tail(todo[t])) \/ FlushesMain(Head(todo[t]))
    BY <2>1, TailKeeps
  <2>3. ~FlushesMain(Head(todo[t]))
    BY <2>1 DEF FlushesMain
  <2>4. t \in busy
    BY <1>0, <2>1 DEF ThreadMain
  <2>5. Base("main")' = Base("main")
    BY <2>1 DEF Base, Versions
  <2>6. ThreadMain(t)
    BY <1>0
  <2>7. ThreadMain(t)'
    BY <2>1, <2>2, <2>3, <2>4, <2>5, <2>6 DEF ThreadMain
  <2> QED BY <2>1, <2>7, MainStays
<1>5. ASSUME NEW t \in Threads, Reply(t) PROVE MainInv'
  <2>1. /\ t \in busy /\ todo[t] = <<>> /\ busy' = busy \ {t}
        /\ UNCHANGED <<main, written, mark, todo>>
        /\ acked'["main"] = Larger(acked["main"], mark[t]["main"])
    BY <1>5 DEF Reply, stores, Stores
  <2>2. mark[t]["main"] <= Base("main")
    BY <1>0, <2>1 DEF ThreadMain, Flushes
  <2>3. Base("main")' = Base("main")
    BY <2>1 DEF Base, Versions
  <2>4. acked'["main"] <= Base("main")'
    BY <1>0, <2>1, <2>2, <2>3 DEF Larger
  <2>5. ASSUME NEW u \in Threads PROVE ThreadMain(u)'
    <3>1. ThreadMain(u) /\ (u = t => todo[u] = <<>>) /\ (u # t => (u \in busy' <=> u \in busy))
      BY <1>0, <2>1
    <3> QED BY <2>1, <2>3, <3>1 DEF ThreadMain
  <2> QED BY <1>0, <2>3, <2>4, <2>5 DEF MainInv, MainSurvives, Survives
<1>6. ASSUME ThreadsGone, Base("main") <= Base("main")', 0 <= written'["main"],
             Base("main")' \in Int
      PROVE  MainInv'
  <2>1. \A t \in Threads : todo'[t] = <<>> /\ mark'[t]["main"] = 0
    BY <1>6 DEF ThreadsGone, Nothing, Stores
  <2>2. busy' = {} /\ acked' = acked
    BY <1>6 DEF ThreadsGone
  <2>3. \A t \in Threads : ThreadMain(t)'
    BY <1>6, <2>1, <2>2 DEF ThreadMain
  <2> QED BY <1>0, <1>6, <2>2, <2>3 DEF MainInv, MainSurvives, Survives
<1>7. CASE Kill
  <2>1. ThreadsGone /\ UNCHANGED <<main, written>>
    BY <1>7 DEF Kill, stores
  <2>2. Base("main")' = Base("main")
    BY <2>1 DEF Base, Versions
  <2> QED BY <1>0, <1>6, <2>1, <2>2
<1>8. CASE PowerLoss
  <2>1. PICK i \in 1..Len(main) : ThreadsGone /\ main' = <<main[i]>>
                                  /\ written'["main"] = Base("main") + i - 1
    BY <1>8 DEF PowerLoss
  <2>2. Base("main")' = written'["main"] - 1 + 1
    <3>1. Versions("main")' = <<main[i]>>
      BY <2>1 DEF Versions
    <3>2. Len(Versions("main")') = 1
      BY <3>1
    <3> QED BY <3>2 DEF Base
  <2>3. i \in Nat \ {0}
    BY <1>0
  <2> QED BY <1>0, <1>6, <2>1, <2>2, <2>3
<1>9. CASE UNCHANGED vars
  <2>1. UNCHANGED <<main, written, acked, todo, mark, busy>>
    BY <1>9 DEF vars, stores, threads
  <2> QED BY <1>0, <2>1 DEF MainInv, MainSurvives, Survives, ThreadMain, Base, Versions
<1> QED
  BY <1>1, <1>2, <1>3, <1>4, <1>5, <1>7, <1>8, <1>9 DEF Next

LEMMA TypeInvariant == Spec => []TypeOK
<1>1. Init => TypeOK
  <2> SUFFICES ASSUME Init PROVE TypeOK
    OBVIOUS
  <2>1. Main!Empty \in Version /\ Proj!Empty \in Version
    BY DEF Main!Empty, Proj!Empty, Version
  <2>2. main = <<Main!Empty>> /\ proj = <<Proj!Empty>> /\ now = 1 /\ snap = Main!Empty
    BY DEF Init, Main!Init, Proj!Init
  <2>3. /\ main \in Seq(Version) /\ main # <<>> /\ proj \in Seq(Version) /\ proj # <<>>
    BY <2>1, <2>2
  <2>4. /\ todo \in [Threads -> Seq(Calls)] /\ busy = {}
        /\ mark \in [Threads -> [Stores -> Int]]
        /\ seen \in [Threads -> SUBSET (Kinds \cup {"overtaken"})]
    BY DEF Init, Nothing
  <2>5. written \in [Stores -> Int] /\ acked \in [Stores -> Int] /\ split = FALSE
    BY DEF Init, Nothing
  <2> QED BY <2>1, <2>2, <2>3, <2>4, <2>5 DEF TypeOK
<1>2. TypeOK /\ [Next]_vars => TypeOK'
  BY TypeStep
<1> QED BY <1>1, <1>2, PTL DEF Spec

(***************************************************************************)
(* http.c, "durability": no loss of power takes the main store back behind *)
(* a write that was acknowledged, whatever requests are made by however    *)
(* many threads, with or without a project store and failed appends.       *)
(***************************************************************************)
THEOREM AckedSurvives == Spec => []MainSurvives
<1>1. Init => MainInv
  <2> SUFFICES ASSUME Init PROVE MainInv
    OBVIOUS
  <2>1. /\ Versions("main") = <<Main!Empty>> /\ written["main"] = 0 /\ acked["main"] = 0
        /\ busy = {} /\ \A t \in Threads : todo[t] = <<>> /\ mark[t]["main"] = 0
    BY DEF Init, Main!Init, Versions, Nothing, Stores
  <2>2. Base("main") = 0
    <3>1. PICK n : n = Len(Versions("main"))
      OBVIOUS
    <3>2. PICK w : w = written["main"]
      OBVIOUS
    <3>3. n = 1 /\ w = 0
      BY <2>1, <3>1, <3>2
    <3>4. Base("main") = w - n + 1
      BY <3>1, <3>2 DEF Base
    <3> QED BY <3>3, <3>4
  <2> QED BY <2>1, <2>2 DEF MainInv, MainSurvives, Survives, ThreadMain
<1>2. TypeOK /\ MainInv /\ [Next]_vars => MainInv'
  BY MainInvStep
<1>3. MainInv => MainSurvives
  BY DEF MainInv
<1> QED BY <1>1, <1>2, <1>3, TypeInvariant, PTL DEF Spec

-----------------------------------------------------------------------------
(* An outdated key has its history *)

Explained(v) ==
    \A k \in Keys : v[<<"outdated", k>>] # {} => v[<<"history", k>>] # {}

(***************************************************************************)
(* The history is there when its marker is about to be written, and when a *)
(* request that has found a marker looks for it.                           *)
(***************************************************************************)
IsNext(c, t) == todo[t] # <<>> /\ c = todo[t][1]

MayMark(t) ==
    \A c \in Calls :
        IsNext(c, t) /\ Marks(c) => Latest(c.store)[HistoryOf(c)] # {}
WillFind(t) ==
    \E c \in Calls :
        /\ IsNext(c, t) /\ c.do = "read" /\ c.name[1] = "history"
        /\ Latest(c.store)[c.name] # {}
Answers(t) ==
    "outdated" \in seen[t] =>
        seen[t] \cap {"history", "overtaken"} # {} \/ WillFind(t)

AllExplained ==
    /\ \A s \in Stores : \A i \in 1..Len(Versions(s)) : Explained(Versions(s)[i])
    /\ Explained(snap)

HistoryInv ==
    /\ \A t \in Threads : Ordered(todo[t])
    /\ ~split => AllExplained /\ \A t \in Threads : MayMark(t) /\ Answers(t)

(***************************************************************************)
(* A version that a call makes.                                            *)
(***************************************************************************)
Result(c, s, v) ==
    \/ c.do = "restore" /\ s = "main" /\ v = snap
    \/ /\ Alters(c) /\ s = c.store
       /\ \E cells \in SUBSET Cells :
            /\ v = [Latest(s) EXCEPT ![c.name] = cells]
            /\ cells = {} <=> c.do = "remove"

LEMMA NewVersions ==
    ASSUME TypeOK, NEW c \in Calls, Effect(c), NEW s \in Stores
    PROVE  /\ \A i \in 1..Len(Versions(s)') :
                 \/ \E j \in 1..Len(Versions(s)) : Versions(s)'[i] = Versions(s)[j]
                 \/ Result(c, s, Versions(s)'[i])
           /\ IF s = c.store /\ c.do # "sync"
              THEN Result(c, s, Latest(s)') ELSE Latest(s)' = Latest(s)
<1> DEFINE v == Versions(s)
           w == Versions(s)'
<1>0. /\ v \in Seq(Version) /\ v # <<>> /\ Latest(s) = v[Len(v)]
      /\ Len(v) \in 1..Len(v) /\ c.name \in Names
  <2>1. /\ v \in Seq(Version) /\ v # <<>> /\ Latest(s) = v[Len(v)]
        /\ Len(v) \in Nat \ {0}
    BY VersionsType
  <2> HIDE DEF v
  <2>2. Len(v) \in 1..Len(v)
    BY <2>1
  <2> QED BY <2>1, <2>2 DEF Calls
<1>1. Latest(s)' = w[Len(w)]
  BY DEF Latest, Versions, Main!Current, Proj!Current
<1>2. CASE s # c.store
  <2>1. w = v
    BY <1>2 DEF Effect
  <2>2. Latest(s)' = Latest(s)
    BY <1>0, <1>1, <2>1
  <2> QED BY <1>2, <2>1, <2>2
<1>3. CASE s = c.store /\ c.do = "sync"
  <2>1. w = <<Latest(s)>>
    BY <1>3 DEF Effect
  <2> HIDE DEF w
  <2>2. Len(w) = 1 /\ w[1] = Latest(s)
    BY <2>1
  <2>3. \A i \in 1..Len(w) : w[i] = v[Len(v)]
    BY <1>0, <2>2
  <2>4. Latest(s)' = Latest(s)
    BY <1>1, <2>2
  <2> QED BY <1>0, <1>3, <2>3, <2>4 DEF w
<1>4. CASE s = c.store /\ c.do = "restore"
  <2>1. w = <<snap>> /\ s = "main"
    BY <1>4 DEF Effect
  <2> HIDE DEF w
  <2>2. Len(w) = 1 /\ w[1] = snap
    BY <2>1
  <2>3. (\A i \in 1..Len(w) : w[i] = snap) /\ Latest(s)' = snap
    BY <1>1, <2>2
  <2>4. (\A i \in 1..Len(w) : Result(c, s, w[i])) /\ Result(c, s, Latest(s)')
    BY <1>4, <2>1, <2>3 DEF Result
  <2> QED BY <1>4, <2>4 DEF w
<1>5. CASE s = c.store /\ c.do \in {"put", "extend", "remove"}
  <2>1. PICK cells \in SUBSET Cells :
            Updates(v, w, c.name, cells) /\ (cells = {} <=> c.do = "remove")
    BY <1>5 DEF Effect, Puts
  <2> DEFINE m == [v[Len(v)] EXCEPT ![c.name] = cells]
  <2> HIDE DEF v, w
  <2>2. /\ w[Len(w)] = m
        /\ \A i \in 1..Len(w) : w[i] = m \/ \E j \in 1..Len(v) : w[i] = v[j]
    BY <1>0, <2>1, UpdateFacts
  <2>3. m = [Latest(s) EXCEPT ![c.name] = cells]
    BY <1>0
  <2> HIDE DEF m
  <2>4. Result(c, s, m)
    BY <1>5, <2>1, <2>3 DEF Result, Alters
  <2>5. /\ \A i \in 1..Len(w) : (\E j \in 1..Len(v) : w[i] = v[j]) \/ Result(c, s, w[i])
        /\ Result(c, s, Latest(s)')
    BY <1>1, <2>2, <2>4
  <2> QED BY <1>5, <2>5 DEF v, w
<1> QED BY <1>2, <1>3, <1>4, <1>5 DEF Effect

(***************************************************************************)
(* The calls of a plan that writes markers after histories keep every      *)
(* marker explained, and only a /restore takes a history away.             *)
(***************************************************************************)
LEMMA ResultExplained ==
    ASSUME TypeOK, NEW c \in Calls, NEW s \in Stores, NEW v, Result(c, s, v),
           Explained(snap), Explained(Latest(s)),
           Marks(c) => Latest(c.store)[HistoryOf(c)] # {},
           c.do = "remove" => c.name[1] # "history"
    PROVE  Explained(v)
<1>1. CASE v = snap
  BY <1>1
<1>2. ASSUME Alters(c), s = c.store, NEW cells \in SUBSET Cells,
             v = [Latest(s) EXCEPT ![c.name] = cells], cells = {} <=> c.do = "remove"
      PROVE  Explained(v)
  <2>1. c.name \in Names /\ c.name = <<c.name[1], c.name[2]>>
        /\ Latest(s) \in [Names -> SUBSET Cells]
    <3>1. Latest(s) \in Version
      BY VersionsType
    <3>2. c.name \in Kinds \X Keys
      BY DEF Calls, Names
    <3> QED BY <3>1, <3>2 DEF Version, Names
  <2>2. SUFFICES ASSUME NEW k \in Keys, v[<<"outdated", k>>] # {}
                 PROVE  v[<<"history", k>>] # {}
    BY DEF Explained
  <2>3. <<"outdated", k>> \in Names /\ <<"history", k>> \in Names
    BY DEF Names, Kinds
  <2>4. Latest(s)[<<"outdated", k>>] # {} => Latest(s)[<<"history", k>>] # {}
    BY DEF Explained
  <2>5. CASE c.name = <<"outdated", k>>
    <3>2. v[<<"history", k>>] = Latest(s)[<<"history", k>>]
      BY <1>2, <2>1, <2>3, <2>5
    <3>3. CASE c.do = "remove"
      <4>1. v[<<"outdated", k>>] = {}
        BY <1>2, <2>1, <2>3, <2>5, <3>3
      <4> QED BY <2>2, <4>1
    <3>4. CASE c.do # "remove"
      <4>1. Marks(c) /\ HistoryOf(c) = <<"history", k>>
        BY <1>2, <2>5, <3>4 DEF Marks, HistoryOf, Alters
      <4> QED BY <1>2, <3>2, <4>1
    <3> QED BY <3>3, <3>4
  <2>6. CASE c.name = <<"history", k>>
    <3>1. c.do # "remove" /\ cells # {}
      BY <1>2, <2>6
    <3> QED BY <1>2, <2>1, <2>3, <2>6, <3>1
  <2>7. CASE c.name # <<"history", k>> /\ c.name # <<"outdated", k>>
    BY <1>2, <2>1, <2>2, <2>3, <2>4, <2>7
  <2> QED BY <2>5, <2>6, <2>7
<1> QED BY <1>1, <1>2 DEF Result

LEMMA KeepsHistory ==
    ASSUME TypeOK, NEW c \in Calls, Effect(c), c.do # "restore",
           c.do = "remove" => c.name[1] # "history",
           NEW s \in Stores, NEW name \in Names, name[1] = "history",
           Latest(s)[name] # {}
    PROVE  Latest(s)'[name] # {}
<1>1. CASE ~(s = c.store /\ c.do # "sync")
  <2>1. Latest(s)' = Latest(s)
    BY <1>1, NewVersions
  <2> QED BY <2>1
<1>2. CASE s = c.store /\ c.do # "sync"
  <2>1. Result(c, s, Latest(s)')
    BY <1>2, NewVersions
  <2>2. PICK cells \in SUBSET Cells :
            /\ Latest(s)' = [Latest(s) EXCEPT ![c.name] = cells]
            /\ cells = {} <=> c.do = "remove"
    BY <2>1 DEF Result
  <2>3. Latest(s) \in [Names -> SUBSET Cells]
    BY VersionsType DEF Version
  <2>4. CASE c.name = name
    BY <2>2, <2>3, <2>4
  <2>5. CASE c.name # name
    BY <2>2, <2>3, <2>5
  <2> QED BY <2>4, <2>5
<1> QED BY <1>1, <1>2

LEMMA CallName ==
    ASSUME NEW c \in Calls
    PROVE  /\ c.store \in Stores /\ c.name \in Names /\ c.name[1] \in Kinds
           /\ HistoryOf(c) \in Names /\ HistoryOf(c)[1] = "history"
<1>1. c.name \in Kinds \X Keys
  BY DEF Calls, Names
<1> QED BY <1>1 DEF Calls, Names, HistoryOf, Kinds

(***************************************************************************)
(* A thread that waits while others keep the histories.                    *)
(***************************************************************************)
LEMMA Waits ==
    ASSUME TypeOK, NEW u \in Threads, todo'[u] = todo[u], seen'[u] = seen[u],
           MayMark(u), Answers(u),
           \A s \in Stores : \A name \in Names :
                name[1] = "history" /\ Latest(s)[name] # {} => Latest(s)'[name] # {}
    PROVE  MayMark(u)' /\ Answers(u)'
<1>1. \A c : IsNext(c, u)' <=> IsNext(c, u)
  BY DEF IsNext
<1>2. ASSUME NEW c \in Calls
      PROVE  /\ Latest(c.store)[HistoryOf(c)] # {} => Latest(c.store)'[HistoryOf(c)] # {}
             /\ c.name[1] = "history" /\ Latest(c.store)[c.name] # {}
                    => Latest(c.store)'[c.name] # {}
  BY CallName
<1>3. MayMark(u)'
  BY <1>1, <1>2 DEF MayMark
<1>4. WillFind(u) => WillFind(u)'
  BY <1>1, <1>2 DEF WillFind
<1> QED BY <1>3, <1>4 DEF Answers

LEMMA StoresStay ==
    ASSUME UNCHANGED stores
    PROVE  /\ \A s \in Stores : Versions(s)' = Versions(s) /\ Latest(s)' = Latest(s)
           /\ AllExplained /\ snap' = snap => AllExplained'
<1>1. main' = main /\ proj' = proj
  BY DEF stores
<1>2. \A s \in Stores : Versions(s)' = Versions(s) /\ Latest(s)' = Latest(s)
  BY <1>1 DEF Versions, Latest, Main!Current, Proj!Current
<1> QED BY <1>2 DEF AllExplained, Explained

LEMMA LatestExplained ==
    ASSUME TypeOK, AllExplained, NEW s \in Stores
    PROVE  Explained(Latest(s))
<1>1. /\ Latest(s) = Versions(s)[Len(Versions(s))]
      /\ Len(Versions(s)) \in Nat \ {0}
  BY VersionsType
<1>2. Len(Versions(s)) \in 1..Len(Versions(s))
  BY <1>1
<1> QED BY <1>1, <1>2 DEF AllExplained

(***************************************************************************)
(* Steps of one thread that change no store.                               *)
(***************************************************************************)
LEMMA OthersWait ==
    ASSUME TypeOK, HistoryInv, UNCHANGED <<stores, split>>, NEW t \in Threads,
           \A u \in Threads : u # t => todo'[u] = todo[u] /\ seen'[u] = seen[u],
           Ordered(todo'[t]),
           ~split => Explained(snap') /\ MayMark(t)' /\ Answers(t)'
    PROVE  HistoryInv'
<1>1. /\ \A s \in Stores : Latest(s)' = Latest(s)
      /\ \A s \in Stores : Versions(s)' = Versions(s)
  BY StoresStay
<1>2. \A u \in Threads : Ordered(todo'[u])
  BY DEF HistoryInv
<1>3. ASSUME ~split, NEW u \in Threads PROVE MayMark(u)' /\ Answers(u)'
  <2>1. CASE u = t
    BY <1>3, <2>1
  <2>2. CASE u # t
    <3>1. MayMark(u) /\ Answers(u) /\ todo'[u] = todo[u] /\ seen'[u] = seen[u]
      BY <1>3, <2>2 DEF HistoryInv
    <3> QED BY <1>1, <3>1, Waits
  <2> QED BY <2>1, <2>2
<1>4. ASSUME ~split PROVE AllExplained'
  <2>1. \A s \in Stores : \A i \in 1..Len(Versions(s)') : Explained(Versions(s)'[i])
    BY <1>1, <1>4 DEF HistoryInv, AllExplained
  <2> QED BY <1>4, <2>1 DEF AllExplained, Explained
<1> QED BY <1>2, <1>3, <1>4 DEF HistoryInv

LEMMA NextCall ==
    ASSUME TypeOK, NEW t \in Threads, todo[t] # <<>>
    PROVE  /\ Head(todo[t]) \in Calls /\ IsNext(Head(todo[t]), t)
           /\ \A c : IsNext(c, t) => c = Head(todo[t])
           /\ 1 \in 1..Len(todo[t])
           /\ Ordered(<<>>) /\ (Ordered(todo[t]) => Ordered(Tail(todo[t])))
<1>1. todo[t] \in Seq(Calls)
  BY DEF TypeOK
<1>2. 1 \in 1..Len(todo[t])
  BY <1>1
<1> QED BY <1>1, <1>2, TailKeeps, EmptyPlan DEF IsNext

(***************************************************************************)
(* The call after the next one.                                            *)
(***************************************************************************)
LEMMA Following ==
    ASSUME TypeOK, NEW t \in Threads, todo[t] # <<>>, Ordered(todo[t]),
           todo'[t] = Tail(todo[t]), NEW b \in Calls, IsNext(b, t)'
    PROVE  /\ Marks(b) => Explains(Head(todo[t]), b)
           /\ Looks(Head(todo[t])) => Finds(b, Head(todo[t]))
<1>1. todo[t] \in Seq(Calls) /\ Tail(todo[t]) # <<>> /\ b = Tail(todo[t])[1]
  BY DEF TypeOK, IsNext
<1>2. Len(todo[t]) > 1 /\ b = todo[t][2] /\ Head(todo[t]) = todo[t][1]
  BY <1>1, TailKeeps
<1>3. 1 \in 1..Len(todo[t]) /\ 2 \in 1..Len(todo[t]) /\ 2 > 1 /\ 2 - 1 = 1 /\ 1 + 1 = 2
  BY <1>1, <1>2
<1>4. Marks(b) => Explains(todo[t][2 - 1], b)
  BY <1>2, <1>3 DEF Ordered
<1>5. Looks(todo[t][1]) => Finds(todo[t][1 + 1], todo[t][1])
  BY <1>3 DEF Ordered
<1> QED BY <1>2, <1>3, <1>4, <1>5

LEMMA NewestFollows ==
    ASSUME TypeOK, NEW t \in Threads, todo[t] # <<>>, Looks(Head(todo[t])),
           Ordered(todo[t]), todo'[t] = Tail(todo[t])
    PROVE  \E b \in Calls : IsNext(b, t)' /\ Finds(b, Head(todo[t]))
<1>1. todo[t] \in Seq(Calls) /\ Head(todo[t]) = todo[t][1] /\ Len(todo[t]) \in Nat
  BY TailKeeps DEF TypeOK
<1>2. 1 \in 1..Len(todo[t])
  BY <1>1
<1>3. 1 < Len(todo[t]) /\ Finds(todo[t][1 + 1], todo[t][1])
  BY <1>1, <1>2 DEF Ordered
<1>4. todo[t][2] \in Calls
  BY <1>1, <1>3
<1>5. ASSUME NEW q \in Seq(Calls), Len(q) > 1
      PROVE  Tail(q) # <<>> /\ Tail(q)[1] = q[2]
  <2>1. q # <<>> /\ Len(q) \in Nat
    BY <1>5
  <2>2. /\ Len(Tail(q)) = Len(q) - 1 /\ Tail(q) \in Seq(Calls)
        /\ \A i \in 1..Len(Tail(q)) : Tail(q)[i] = q[i + 1]
    BY <2>1, HeadTailProperties
  <2>3. 1 \in 1..Len(Tail(q))
    BY <1>5, <2>1, <2>2
  <2>4. Tail(q)[1] = q[1 + 1]
    BY <2>2, <2>3
  <2>5. Tail(q) # <<>>
    <3>1. \A u \in Seq(Calls) : 1 \in 1..Len(u) => u # <<>>
      OBVIOUS
    <3> QED BY <2>2, <2>3, <3>1
  <2> QED BY <2>4, <2>5
<1>6. Tail(todo[t]) # <<>> /\ Tail(todo[t])[1] = todo[t][2]
  <2>1. Len(todo[t]) > 1
    BY <1>1, <1>3
  <2> QED BY <1>1, <1>5, <2>1
<1>7. PICK b : b = todo[t][2]
  OBVIOUS
<1>8. IsNext(b, t)' /\ b \in Calls /\ Finds(b, Head(todo[t]))
  BY <1>1, <1>3, <1>4, <1>6, <1>7 DEF IsNext
<1> QED BY <1>8

(***************************************************************************)
(* A thread that makes a call that is no /restore.                         *)
(***************************************************************************)
LEMMA CallHistory ==
    ASSUME TypeOK, HistoryInv, NEW t \in Threads, CallStore(t), ~split',
           NEW c \in Calls, c = Head(todo[t]), c.do # "restore"
    PROVE  MayMark(t)' /\ Answers(t)'
<1>1. /\ todo[t] # <<>> /\ Ordered(todo[t]) /\ IsNext(c, t)
      /\ Effect(c) /\ c.do \in {"put", "extend", "remove", "sync"}
      /\ c.do = "remove" => c.name[1] # "history"
      /\ todo'[t] = Tail(todo[t]) /\ seen' = seen
      /\ MayMark(t) /\ Answers(t)
  <2>1. /\ todo[t] # <<>> /\ Effect(c)
        /\ c.do \in {"put", "extend", "remove", "restore", "sync"}
    BY CallStoreFacts
  <2>2. Ordered(todo[t]) /\ ~split
    BY DEF HistoryInv, CallStore
  <2>3. todo'[t] = Tail(todo[t]) /\ seen' = seen
    BY DEF CallStore, TypeOK
  <2>4. IsNext(c, t) /\ 1 \in 1..Len(todo[t])
    BY <2>1, NextCall
  <2>5. c.do = "remove" => c.name[1] # "history"
    BY <2>2, <2>4 DEF Ordered, IsNext
  <2> QED BY <2>1, <2>2, <2>3, <2>4, <2>5 DEF HistoryInv
<1>2. ~WillFind(t)
  BY <1>1, NextCall DEF WillFind
<1>3. Answers(t)'
  BY <1>1, <1>2 DEF Answers
<1>4. ASSUME NEW b \in Calls, IsNext(b, t)', Marks(b)
      PROVE  Latest(b.store)'[HistoryOf(b)] # {}
  <2>1. Explains(c, b)
    BY <1>1, <1>4, Following
  <2>2. c.do = "extend" /\ b.store = c.store /\ c.name = HistoryOf(b)
    BY <2>1 DEF Explains
  <2>3. c.store \in Stores /\ c.name \in Names
    BY CallName
  <2>4. Result(c, c.store, Latest(c.store)')
    BY <1>1, <2>2, <2>3, NewVersions
  <2>5. PICK cells \in SUBSET Cells :
            /\ Latest(c.store)' = [Latest(c.store) EXCEPT ![c.name] = cells]
            /\ cells # {}
    BY <2>2, <2>4 DEF Result
  <2>6. Latest(c.store) \in [Names -> SUBSET Cells]
    BY <2>3, VersionsType DEF Version
  <2> QED BY <2>2, <2>3, <2>5, <2>6
<1> QED BY <1>3, <1>4 DEF MayMark

LEMMA CallKeepsExplained ==
    ASSUME TypeOK, HistoryInv, NEW t \in Threads, CallStore(t), ~split'
    PROVE  AllExplained'
<1>1. PICK c \in Calls : c = Head(todo[t]) /\ Effect(c) /\ IsNext(c, t)
  BY CallStoreFacts, NextCall
<1>2. /\ AllExplained /\ MayMark(t) /\ Ordered(todo[t]) /\ snap' = snap
      /\ 1 \in 1..Len(todo[t]) /\ todo[t][1] = c
  BY <1>1, NextCall DEF HistoryInv, CallStore, IsNext
<1>3. /\ Explained(snap)
      /\ Marks(c) => Latest(c.store)[HistoryOf(c)] # {}
      /\ c.do = "remove" => c.name[1] # "history"
  BY <1>1, <1>2 DEF AllExplained, MayMark, Ordered
<1>4. ASSUME NEW s \in Stores, NEW i \in 1..Len(Versions(s)')
      PROVE  Explained(Versions(s)'[i])
  <2>1. \/ \E j \in 1..Len(Versions(s)) : Versions(s)'[i] = Versions(s)[j]
        \/ Result(c, s, Versions(s)'[i])
    BY <1>1, NewVersions
  <2>2. Explained(Latest(s))
    BY <1>2, LatestExplained
  <2>3. CASE Result(c, s, Versions(s)'[i])
    <3>1. PICK v : v = Versions(s)'[i]
      OBVIOUS
    <3>2. Result(c, s, v)
      BY <2>3, <3>1
    <3>3. Explained(v)
      BY <1>3, <2>2, <3>2, ResultExplained
    <3> QED BY <3>1, <3>3
  <2>4. CASE \E j \in 1..Len(Versions(s)) : Versions(s)'[i] = Versions(s)[j]
    BY <1>2, <2>4 DEF AllExplained
  <2> QED BY <2>1, <2>3, <2>4
<1>5. Explained(snap')
  BY <1>2, <1>3
<1>6. \A s \in Stores : \A i \in 1..Len(Versions(s)') : Explained(Versions(s)'[i])
  BY <1>4
<1> QED BY <1>5, <1>6 DEF AllExplained, Explained

(***************************************************************************)
(* A read of a marker is followed by a read of the history, which is there *)
(* when the marker is.                                                     *)
(***************************************************************************)
LEMMA GetHistory ==
    ASSUME TypeOK, HistoryInv, NEW t \in Threads, CallGet(t), ~split
    PROVE  MayMark(t)' /\ Answers(t)'
<1>1. PICK c \in Calls : c = Head(todo[t]) /\ IsNext(c, t)
  BY NextCall DEF CallGet
<1> DEFINE found == Latest(c.store)[c.name] # {}
<1>2. /\ todo[t] # <<>> /\ Ordered(todo[t]) /\ c.do = "read"
      /\ AllExplained /\ Answers(t)
  BY <1>1 DEF CallGet, HistoryInv
<1>3. /\ seen'[t] = IF found THEN seen[t] \cup {c.name[1]} ELSE seen[t]
      /\ todo'[t] = IF c.stops /\ ~found THEN <<>> ELSE Tail(todo[t])
      /\ UNCHANGED stores
  BY <1>1 DEF CallGet, TypeOK
<1>4. c.store \in Stores /\ c.name \in Names /\ c.name = <<c.name[1], c.name[2]>>
      /\ c.name[2] \in Keys
  BY DEF Calls, Names
<1>5. \A s \in Stores : Latest(s)' = Latest(s)
  BY <1>3, StoresStay
<1>6. ASSUME NEW b \in Calls, IsNext(b, t)', Marks(b)
      PROVE  Latest(b.store)'[HistoryOf(b)] # {}
  <2>1. todo'[t] = Tail(todo[t])
    BY <1>3, <1>6 DEF IsNext
  <2>2. Explains(c, b)
    BY <1>1, <1>2, <1>6, <2>1, Following
  <2> QED BY <1>2, <2>2 DEF Explains
<1>7. CASE c.name[1] = "outdated"
  <2>1. Looks(c) /\ ~WillFind(t)
    BY <1>1, <1>2, <1>7, NextCall DEF Looks, WillFind
  <2>2. CASE ~found
    <3>1. seen'[t] = seen[t]
      BY <1>3, <2>2
    <3>2. Answers(t)'
      BY <1>2, <2>1, <3>1 DEF Answers
    <3> QED BY <1>6, <3>2 DEF MayMark
  <2>3. CASE found
    <3>1. todo'[t] = Tail(todo[t])
      BY <1>3, <2>3
    <3>2. PICK b \in Calls : IsNext(b, t)' /\ Finds(b, c)
      BY <1>1, <1>2, <2>1, <3>1, NewestFollows
    <3>3. b.do = "read" /\ b.store = c.store /\ b.name = <<"history", c.name[2]>>
      BY <3>2 DEF Finds, HistoryOf
    <3>4. Explained(Latest(c.store))
      BY <1>2, <1>4, LatestExplained
    <3>5. Latest(c.store)[<<"history", c.name[2]>>] # {}
      BY <1>4, <1>7, <2>3, <3>4 DEF Explained
    <3>6. Latest(b.store)'[b.name] # {}
      BY <1>4, <1>5, <3>3, <3>5
    <3>7. WillFind(t)'
      BY <3>2, <3>3, <3>6 DEF WillFind
    <3> QED BY <1>6, <3>7 DEF Answers, MayMark
  <2> QED BY <2>2, <2>3
<1>8. CASE c.name[1] # "outdated"
  <2>1. SUFFICES ASSUME "outdated" \in seen'[t]
                 PROVE  seen'[t] \cap {"history", "overtaken"} # {}
    BY <1>6 DEF Answers, MayMark
  <2>2. "outdated" \in seen[t] /\ seen[t] \subseteq seen'[t]
    BY <1>3, <1>8, <2>1
  <2>3. CASE WillFind(t)
    <3>1. c.name[1] = "history" /\ found
      BY <1>1, <1>2, <2>3, NextCall DEF WillFind
    <3> QED BY <1>3, <3>1
  <2>4. CASE ~WillFind(t)
    BY <1>2, <2>2, <2>4 DEF Answers
  <2> QED BY <2>3, <2>4
<1> QED BY <1>7, <1>8

(***************************************************************************)
(* A /restore of a snapshot, which overtakes every other thread.           *)
(***************************************************************************)
LEMMA RestoreHistory ==
    ASSUME TypeOK, HistoryInv, NEW t \in Threads, CallStore(t), ~split',
           Head(todo[t]).do = "restore", NEW u \in Threads
    PROVE  MayMark(u)' /\ Answers(u)'
<1>1. PICK c \in Calls : c = Head(todo[t]) /\ IsNext(c, t)
  BY NextCall DEF CallStore
<1>2. /\ todo[t] # <<>> /\ Ordered(todo[t]) /\ c.do = "restore" /\ ~split
      /\ todo' = [todo EXCEPT ![t] = Tail(@)] /\ seen' = Overtaken(t)
      /\ ~Splits(t)
  BY <1>1 DEF CallStore, HistoryInv, Writes
<1>3. CASE u = t
  <2>1. todo'[t] = Tail(todo[t]) /\ seen'[t] = seen[t]
    BY <1>2 DEF TypeOK, Overtaken
  <2>2. Answers(t) /\ ~WillFind(t)
    BY <1>1, <1>2, NextCall DEF HistoryInv, WillFind
  <2>3. Answers(t)'
    BY <2>1, <2>2 DEF Answers
  <2>4. \A b \in Calls : IsNext(b, t)' => ~Marks(b)
    BY <1>1, <1>2, <2>1, Following DEF Explains
  <2> QED BY <1>3, <2>3, <2>4 DEF MayMark
<1>4. CASE u # t
  <2>1. todo'[u] = todo[u] /\ "overtaken" \in seen'[u]
    BY <1>2, <1>4 DEF TypeOK, Overtaken
  <2>2. Answers(u)'
    BY <2>1 DEF Answers
  <2>3. ASSUME NEW b \in Calls, IsNext(b, u)' PROVE ~Marks(b)
    <3>1. todo[u] \in Seq(Calls) /\ todo[u] # <<>> /\ b = todo[u][1]
      BY <2>1, <2>3 DEF IsNext, TypeOK
    <3>2. 1 \in DOMAIN todo[u] /\ u \in Threads \ {t}
      BY <1>4, <3>1
    <3>3. b.name[1] # "outdated"
      BY <1>2, <3>1, <3>2 DEF Splits
    <3> QED BY <3>3 DEF Marks
  <2> QED BY <2>2, <2>3 DEF MayMark
<1> QED BY <1>3, <1>4

LEMMA NobodyWaits ==
    ASSUME \A t \in Threads : todo'[t] = <<>> /\ seen'[t] = {}, ~split => AllExplained',
           split' = split
    PROVE  HistoryInv'
<1>1. \A t \in Threads : MayMark(t)' /\ Answers(t)'
  BY DEF MayMark, Answers, IsNext
<1> QED BY <1>1, EmptyPlan DEF HistoryInv

LEMMA HistoryStep ==
    ASSUME TypeOK, HistoryInv, [Next]_vars
    PROVE  HistoryInv'
<1>0. /\ \A t \in Threads : Ordered(todo[t])
      /\ ~split => AllExplained /\ Explained(snap)
                   /\ \A t \in Threads : MayMark(t) /\ Answers(t)
  BY DEF HistoryInv, AllExplained
<1>1. ASSUME NEW t \in Threads, Accept(t) PROVE HistoryInv'
  <2>1. PICK op \in Ops, k \in Keys, pj \in BOOLEAN :
            \E calls \in Plans(k, Pick(k, pj))[op] :
                todo' = [todo EXCEPT ![t] = calls]
    BY <1>1 DEF Accept
  <2>2. PICK calls \in Plans(k, Pick(k, pj))[op] : todo' = [todo EXCEPT ![t] = calls]
    BY <2>1
  <2>3. Ordered(calls) /\ (calls # <<>> => ~Marks(calls[1]))
    <3>1. Pick(k, pj) \in Stores /\ op \in Requests
      BY PickType, MemoryAssumption
    <3>2. Planned(calls)
      BY <3>1, PlansPlanned
    <3> QED BY <3>2 DEF Planned
  <2>4. seen' = [seen EXCEPT ![t] = {}] /\ UNCHANGED <<stores, snap, split>>
    BY <1>1 DEF Accept
  <2>5. /\ todo'[t] = calls /\ seen'[t] = {}
        /\ \A u \in Threads : u # t => todo'[u] = todo[u] /\ seen'[u] = seen[u]
    BY <2>2, <2>4 DEF TypeOK
  <2>6. MayMark(t)' /\ Answers(t)'
    BY <2>3, <2>5 DEF MayMark, Answers, IsNext
  <2>7. Ordered(todo'[t]) /\ (~split => Explained(snap'))
    BY <1>0, <2>3, <2>4, <2>5
  <2> QED BY <2>4, <2>5, <2>6, <2>7, OthersWait
<1>2. ASSUME NEW t \in Threads, CallStore(t) PROVE HistoryInv'
  <2>1. PICK c \in Calls : c = Head(todo[t]) /\ IsNext(c, t) /\ Effect(c)
    BY <1>2, NextCall, CallStoreFacts DEF CallStore
  <2>2. /\ todo[t] # <<>> /\ todo'[t] = Tail(todo[t])
        /\ \A u \in Threads : u # t => todo'[u] = todo[u]
    BY <1>2 DEF CallStore, TypeOK
  <2>3. \A u \in Threads : Ordered(todo'[u])
    BY <1>0, <2>2, NextCall
  <2>4. ASSUME ~split', NEW u \in Threads PROVE MayMark(u)' /\ Answers(u)'
    <3>1. CASE c.do = "restore"
      BY <1>2, <2>1, <2>4, <3>1, RestoreHistory
    <3>2. CASE c.do # "restore" /\ u = t
      BY <1>2, <2>1, <2>4, <3>2, CallHistory
    <3>3. CASE c.do # "restore" /\ u # t
      <4>1. seen' = seen /\ ~split
        BY <1>2, <2>1, <2>4, <3>3 DEF CallStore
      <4>2. c.do = "remove" => c.name[1] # "history"
        <5>1. 1 \in 1..Len(todo[t]) /\ todo[t][1] = c
          BY <2>1, <2>2, NextCall DEF IsNext
        <5> QED BY <1>0, <5>1 DEF Ordered
      <4>3. \A s \in Stores : \A name \in Names :
                name[1] = "history" /\ Latest(s)[name] # {} => Latest(s)'[name] # {}
        BY <2>1, <3>3, <4>2, KeepsHistory
      <4>4. MayMark(u) /\ Answers(u) /\ todo'[u] = todo[u] /\ seen'[u] = seen[u]
        BY <1>0, <2>2, <3>3, <4>1
      <4> QED BY <4>3, <4>4, Waits
    <3> QED BY <3>1, <3>2, <3>3
  <2>5. ~split' => AllExplained'
    BY <1>2, CallKeepsExplained
  <2> QED BY <2>3, <2>4, <2>5 DEF HistoryInv
<1>3. ASSUME NEW t \in Threads, CallGet(t) PROVE HistoryInv'
  <2>1. /\ todo[t] # <<>> /\ todo'[t] \in {<<>>, Tail(todo[t])}
        /\ \A u \in Threads : u # t => todo'[u] = todo[u] /\ seen'[u] = seen[u]
        /\ UNCHANGED <<stores, snap, split>>
    BY <1>3 DEF CallGet, TypeOK
  <2>2. Ordered(todo'[t])
    BY <1>0, <2>1, NextCall
  <2>3. ~split => Explained(snap')
    BY <1>0, <2>1
  <2> QED BY <1>3, <2>1, <2>2, <2>3, GetHistory, OthersWait
<1>4. ASSUME NEW t \in Threads, CallSnapshot(t) PROVE HistoryInv'
  <2>1. PICK c \in Calls : c = Head(todo[t]) /\ IsNext(c, t) /\ c.do = "snapshot"
    BY <1>4, NextCall DEF CallSnapshot
  <2>2. /\ todo[t] # <<>> /\ todo'[t] = Tail(todo[t])
        /\ \A u \in Threads : u # t => todo'[u] = todo[u]
        /\ UNCHANGED <<stores, split, seen>> /\ snap' = Latest("main")
    BY <1>4 DEF CallSnapshot, TypeOK, Latest
  <2>3. Ordered(todo'[t])
    BY <1>0, <2>2, NextCall
  <2>4. ASSUME ~split PROVE Explained(snap') /\ MayMark(t)' /\ Answers(t)'
    <3>1. Explained(Latest("main"))
      BY <1>0, <2>4, LatestExplained DEF Stores
    <3>2. \A b \in Calls : IsNext(b, t)' => ~Marks(b)
      BY <1>0, <2>1, <2>2, Following DEF Explains
    <3>3. Answers(t) /\ ~WillFind(t)
      BY <1>0, <2>1, <2>2, <2>4, NextCall DEF WillFind
    <3>4. Answers(t)'
      BY <2>2, <3>3 DEF Answers
    <3> QED BY <2>2, <3>1, <3>2, <3>4 DEF MayMark
  <2> QED BY <2>2, <2>3, <2>4, OthersWait
<1>5. ASSUME NEW t \in Threads, SetFails(t) PROVE HistoryInv'
  <2>1. PICK c \in Calls : c = Head(todo[t]) /\ IsNext(c, t) /\ c.do \in {"put", "extend"}
    BY <1>5, NextCall DEF SetFails
  <2>2. /\ todo[t] # <<>> /\ todo'[t] = IF c.stops THEN <<>> ELSE Tail(todo[t])
        /\ \A u \in Threads : u # t => todo'[u] = todo[u]
        /\ UNCHANGED <<stores, snap, split, seen>>
    BY <1>5, <2>1 DEF SetFails, TypeOK
  <2>3. Ordered(todo'[t])
    BY <1>0, <2>2, NextCall
  <2>4. ASSUME ~split PROVE Explained(snap') /\ MayMark(t)' /\ Answers(t)'
    <3>1. \A b \in Calls : IsNext(b, t)' => ~Marks(b)
      BY <1>0, <2>1, <2>2, Following DEF Explains, IsNext
    <3>2. Answers(t) /\ ~WillFind(t)
      BY <1>0, <2>1, <2>2, <2>4, NextCall DEF WillFind
    <3>3. Answers(t)'
      BY <2>2, <3>2 DEF Answers
    <3> QED BY <1>0, <2>2, <2>4, <3>1, <3>3 DEF MayMark
  <2> QED BY <2>2, <2>3, <2>4, OthersWait
<1>6. ASSUME NEW t \in Threads, UNCHANGED <<stores, todo, seen, snap, split>>
      PROVE  HistoryInv'
  <2>1. ASSUME ~split PROVE MayMark(t)' /\ Answers(t)'
    <3>1. \A s \in Stores : Latest(s)' = Latest(s)
      BY <1>6, StoresStay
    <3> QED BY <1>0, <1>6, <2>1, <3>1, Waits
  <2>2. Ordered(todo'[t]) /\ (~split => Explained(snap'))
    BY <1>0, <1>6
  <2> QED BY <1>6, <2>1, <2>2, OthersWait
<1>7. ASSUME NEW t \in Threads, Reply(t) PROVE HistoryInv'
  BY <1>6, <1>7 DEF Reply
<1>8. CASE Kill
  <2>1. UNCHANGED stores /\ snap' = snap /\ split' = split
        /\ \A t \in Threads : todo'[t] = <<>> /\ seen'[t] = {}
    BY <1>8 DEF Kill, ThreadsGone
  <2>2. ~split => AllExplained'
    BY <1>0, <2>1, StoresStay
  <2> QED BY <2>1, <2>2, NobodyWaits
<1>9. CASE PowerLoss
  <2>1. PICK i \in 1..Len(main), j \in 1..Len(proj) :
            main' = <<main[i]>> /\ proj' = <<proj[j]>>
    BY <1>9 DEF PowerLoss
  <2>2. snap' = snap /\ split' = split
        /\ \A t \in Threads : todo'[t] = <<>> /\ seen'[t] = {}
    BY <1>9 DEF PowerLoss, ThreadsGone
  <2>3. ASSUME ~split PROVE AllExplained'
    <3>1. AllExplained /\ Explained(main[i]) /\ Explained(proj[j])
      BY <1>0, <2>3 DEF AllExplained, Versions, Stores
    <3>2. ASSUME NEW s \in Stores
          PROVE  \A n \in 1..Len(Versions(s)') : Explained(Versions(s)'[n])
      <4>1. PICK v : Versions(s)' = <<v>> /\ Explained(v)
        BY <2>1, <3>1 DEF Versions
      <4>2. \A n \in 1..Len(<<v>>) : <<v>>[n] = v
        OBVIOUS
      <4> QED BY <4>1, <4>2
    <3> QED BY <2>2, <3>1, <3>2 DEF AllExplained, Explained
  <2> QED BY <2>2, <2>3, NobodyWaits
<1>10. CASE UNCHANGED vars
  <2>1. UNCHANGED <<stores, todo, seen, snap, split>>
    BY <1>10 DEF vars, threads
  <2>2. \A s \in Stores : Latest(s)' = Latest(s)
    BY <2>1, StoresStay
  <2>3. ASSUME ~split, NEW u \in Threads PROVE MayMark(u)' /\ Answers(u)'
    BY <1>0, <2>1, <2>2, <2>3, Waits
  <2>4. ~split => AllExplained'
    BY <1>0, <2>1, StoresStay
  <2> QED BY <1>0, <2>1, <2>3, <2>4 DEF HistoryInv
<1> QED
  BY <1>1, <1>2, <1>3, <1>4, <1>5, <1>7, <1>8, <1>9, <1>10 DEF Next

(***************************************************************************)
(* http.c, /outdate: in whatever order the calls of the threads come,      *)
(* whichever append fails and whatever a crash brings back, a key marked   *)
(* outdated has its history, and a request that shows the marker shows it; *)
(* a /restore that splits an /outdate is the one exception.                *)
(***************************************************************************)
THEOREM OutdatedExplained == Spec => []OutdatedHasHistory
<1>1. Init => HistoryInv
  <2> SUFFICES ASSUME Init PROVE HistoryInv
    OBVIOUS
  <2>1. /\ main = <<Main!Empty>> /\ proj = <<Proj!Empty>> /\ snap = Main!Empty
        /\ \A t \in Threads : todo[t] = <<>> /\ seen[t] = {}
    BY DEF Init, Main!Init, Proj!Init
  <2>2. Explained(Main!Empty) /\ Explained(Proj!Empty)
    BY DEF Explained, Main!Empty, Proj!Empty, Names, Kinds
  <2>3. ASSUME NEW s \in Stores
        PROVE  \A n \in 1..Len(Versions(s)) : Explained(Versions(s)[n])
    <3>1. PICK v : Versions(s) = <<v>> /\ Explained(v)
      BY <2>1, <2>2 DEF Versions
    <3>2. \A n \in 1..Len(<<v>>) : <<v>>[n] = v
      OBVIOUS
    <3> QED BY <3>1, <3>2
  <2>4. \A t \in Threads : MayMark(t) /\ Answers(t) /\ Ordered(todo[t])
    BY <2>1, EmptyPlan DEF MayMark, Answers, IsNext
  <2> QED BY <2>1, <2>2, <2>3, <2>4 DEF HistoryInv, AllExplained
<1>2. TypeOK /\ HistoryInv /\ [Next]_vars => HistoryInv'
  BY HistoryStep
<1>3. TypeOK /\ HistoryInv => OutdatedHasHistory
  <2> SUFFICES ASSUME TypeOK, HistoryInv, ~split PROVE OutdatedHasHistory
    BY DEF OutdatedHasHistory
  <2>1. AllExplained /\ \A t \in Threads : Answers(t)
    BY DEF HistoryInv
  <2>2. \A t \in busy : t \in Threads
    BY DEF TypeOK
  <2>3. \A t \in busy : todo[t] = <<>> /\ "outdated" \in seen[t]
            => seen[t] \cap {"history", "overtaken"} # {}
    BY <2>1, <2>2 DEF Answers, WillFind, IsNext
  <2> QED BY <2>1, <2>3 DEF OutdatedHasHistory, AllExplained, Explained
<1> QED BY <1>1, <1>2, <1>3, TypeInvariant, PTL DEF Spec
=============================================================================
