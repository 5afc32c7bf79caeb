------------------------------ MODULE QmsProofs ------------------------------
(***************************************************************************)
(* Theorems about exoqms (Qms), as a part of Parts: the records of NCs and *)
(* audits through the overlap of requests, lost replies, the reload and    *)
(* restarts.  The invariant is Inv of Qms.                                 *)
(***************************************************************************)
EXTENDS PartsProofs

-----------------------------------------------------------------------------
(* Operators of the model *)

LEMMA QmsCardinality ==
    \A S : QmsPart!Cardinality(S) = Cardinality(S)
  BY Zenon DEF QmsPart!Cardinality, Cardinality

(* a registry has the record that is appended to it *)
LEMMA QmsAppended ==
    ASSUME NEW s \in Seq(QmsPart!Kept), NEW r \in QmsPart!Kept
    PROVE  /\ Append(s, r) \in Seq(QmsPart!Kept)
           /\ DOMAIN Append(s, r) = 1..(Len(s) + 1)
           /\ Append(s, r)[Len(s) + 1] = r
           /\ \A k \in 1..Len(s) : Append(s, r)[k] = s[k]
<1> DEFINE K == QmsPart!Kept
<1> HIDE DEF K
<1>1. s \in Seq(K) /\ r \in K
  BY DEF K
<1>2. /\ Append(s, r) \in Seq(K) /\ Len(Append(s, r)) = Len(s) + 1
      /\ \A i \in 1..Len(s) : Append(s, r)[i] = s[i]
      /\ Append(s, r)[Len(s) + 1] = r
  BY <1>1, AppendProperties
<1>3. DOMAIN Append(s, r) = 1..(Len(s) + 1)
  BY <1>2, LenProperties
<1> QED
  BY <1>2, <1>3 DEF K

LEMMA QmsAppendHas ==
    ASSUME NEW s \in Seq(QmsPart!Kept), NEW r \in QmsPart!Kept, NEW i, NEW x
    PROVE  /\ i # r.id /\ QmsPart!Lacks(s, i) => QmsPart!Lacks(Append(s, r), i)
           /\ i # r.id /\ QmsPart!HasOnly(s, i, x) => QmsPart!HasOnly(Append(s, r), i, x)
           /\ QmsPart!Lacks(s, r.id) => QmsPart!HasOnly(Append(s, r), r.id, r)
<1> DEFINE a == Append(s, r)
           n == Len(s)
<1>1. /\ DOMAIN a = 1..(n + 1) /\ a[n + 1] = r
      /\ \A k \in 1..n : a[k] = s[k]
  BY QmsAppended
<1>2. n \in Nat /\ DOMAIN s = 1..n
  BY LenProperties
<1> HIDE DEF a, n
<1>3. \A k \in DOMAIN a : k = n + 1 \/ k \in DOMAIN s
  BY <1>1, <1>2
<1>4. n + 1 \in DOMAIN a /\ n + 1 \notin DOMAIN s /\ DOMAIN s \subseteq DOMAIN a
  BY <1>1, <1>2
<1>5. \A k \in DOMAIN s : a[k] = s[k]
  BY <1>1, <1>2
<1>6. i # r.id /\ QmsPart!Lacks(s, i) => QmsPart!Lacks(a, i)
  BY <1>1, <1>3, <1>5 DEF QmsPart!Lacks
<1>7. ASSUME i # r.id, QmsPart!HasOnly(s, i, x)
      PROVE  QmsPart!HasOnly(a, i, x)
  <2>1. PICK k \in DOMAIN s : s[k] = x /\ \A l \in DOMAIN s : s[l].id = i <=> l = k
    BY <1>7 DEF QmsPart!HasOnly
  <2>2. k \in DOMAIN a /\ a[k] = x
    BY <2>1, <1>4, <1>5
  <2>3. ASSUME NEW l \in DOMAIN a PROVE a[l].id = i <=> l = k
    BY <2>1, <1>1, <1>3, <1>4, <1>5, <1>7
  <2> QED
    BY <2>2, <2>3 DEF QmsPart!HasOnly
<1>8. ASSUME QmsPart!Lacks(s, r.id)
      PROVE  QmsPart!HasOnly(a, r.id, r)
  <2>1. \A l \in DOMAIN a : a[l].id = r.id <=> l = n + 1
    BY <1>1, <1>3, <1>5, <1>8 DEF QmsPart!Lacks
  <2> QED
    BY <2>1, <1>1, <1>4 DEF QmsPart!HasOnly
<1> QED
  BY <1>6, <1>7, <1>8 DEF a

(* a record of a registry is put in the place of another one with its id *)
LEMMA QmsReplaceHas ==
    ASSUME NEW s \in Seq(QmsPart!Kept), NEW r \in QmsPart!Kept, NEW k \in DOMAIN s,
           s[k].id = r.id, NEW i, NEW x
    PROVE  LET z == [s EXCEPT ![k] = r]
           IN  /\ z \in Seq(QmsPart!Kept)
               /\ DOMAIN z = DOMAIN s /\ z[k] = r
               /\ \A l \in DOMAIN s : l # k => z[l] = s[l]
               /\ i # r.id /\ QmsPart!Lacks(s, i) => QmsPart!Lacks(z, i)
               /\ i # r.id /\ QmsPart!HasOnly(s, i, x) => QmsPart!HasOnly(z, i, x)
               /\ QmsPart!HasOnly(s, r.id, x) => QmsPart!HasOnly(z, r.id, r)
<1> DEFINE z == [s EXCEPT ![k] = r]
           K == QmsPart!Kept
<1>1. z \in Seq(K)
  <2> HIDE DEF K
  <2>1. s \in Seq(K) /\ r \in K
    BY DEF K
  <2>2. s \in [1..Len(s) -> K] /\ Len(s) \in Nat
    BY <2>1, LenProperties, SeqDef
  <2>3. z \in [1..Len(s) -> K]
    BY <2>1, <2>2
  <2> HIDE DEF z
  <2> QED
    BY <2>2, <2>3, SeqDef
<1>2. DOMAIN z = DOMAIN s /\ z[k] = r /\ \A l \in DOMAIN s : l # k => z[l] = s[l]
  OBVIOUS
<1> HIDE DEF z
<1>3. i # r.id /\ QmsPart!Lacks(s, i) => QmsPart!Lacks(z, i)
  BY <1>2 DEF QmsPart!Lacks
<1>4. ASSUME i # r.id, QmsPart!HasOnly(s, i, x)
      PROVE  QmsPart!HasOnly(z, i, x)
  <2>1. PICK m \in DOMAIN s : s[m] = x /\ \A l \in DOMAIN s : s[l].id = i <=> l = m
    BY <1>4 DEF QmsPart!HasOnly
  <2>2. m # k
    BY <2>1, <1>4
  <2>3. z[m] = x /\ \A l \in DOMAIN z : z[l].id = i <=> l = m
    BY <2>1, <2>2, <1>2, <1>4
  <2> QED
    BY <2>1, <2>3, <1>2 DEF QmsPart!HasOnly
<1>5. ASSUME QmsPart!HasOnly(s, r.id, x)
      PROVE  QmsPart!HasOnly(z, r.id, r)
  <2>1. \A l \in DOMAIN s : s[l].id = r.id <=> l = k
    BY <1>5 DEF QmsPart!HasOnly
  <2>2. \A l \in DOMAIN z : z[l].id = r.id <=> l = k
    BY <2>1, <1>2
  <2> QED
    BY <2>2, <1>2 DEF QmsPart!HasOnly
<1> QED
  BY <1>1, <1>2, <1>3, <1>4, <1>5 DEF z

(* nc_find finds a record with the id if there is one *)
LEMMA QmsFinds ==
    ASSUME v5 \in Seq(QmsPart!Kept), NEW i
    PROVE  /\ QmsPart!Find(i) = 0 \/ (/\ QmsPart!Find(i) \in DOMAIN v5
                                      /\ v5[QmsPart!Find(i)].id = i)
           /\ QmsPart!Find(i) = 0 => QmsPart!Lacks(v5, i)
<1> DEFINE P == {k \in DOMAIN v5 : v5[k].id = i}
           least == CHOOSE k \in P : \A l \in P : k <= l
<1>1. DOMAIN v5 = 1..Len(v5) /\ Len(v5) \in Nat
  BY LenProperties
<1>2. QmsPart!Find(i) = IF P = {} THEN 0 ELSE least
  BY DEF QmsPart!Find
<1>3. CASE P = {}
  BY <1>2, <1>3 DEF QmsPart!Lacks
<1>4. CASE P # {}
  <2>1. P \in SUBSET Nat /\ 0 \notin P
    BY <1>1
  <2>2. \E k \in P : \A l \in P : k <= l
    <3> HIDE DEF P
    <3> QED
      BY <2>1, <1>4, Least
  <2>3. least \in P
    <3> HIDE DEF P
    <3> QED
      BY <2>2
  <2> HIDE DEF least
  <2> QED
    BY <2>1, <2>3, <1>2, <1>4
<1> QED
  BY <1>3, <1>4

(* the reload lists what it has not read, one kind after the other *)
QmsKinds == {<<QmsObjIds, QmsNcIds, QmsAuditIds>>, <<QmsNcIds, QmsAuditIds>>,
             <<QmsAuditIds>>, <<>>}

LEMMA QmsKindsListed ==
    /\ UNION QmsPart!Range(<<>>) = {}
    /\ UNION QmsPart!Range(<<QmsObjIds, QmsNcIds, QmsAuditIds>>) = QmsPart!Ids
    /\ \A k \in QmsKinds : k # <<>> =>
        /\ Tail(k) \in QmsKinds /\ Head(k) \subseteq QmsPart!Ids
        /\ UNION QmsPart!Range(k) = Head(k) \cup UNION QmsPart!Range(Tail(k))
        /\ Head(k) \cap UNION QmsPart!Range(Tail(k)) = {}
<1> DEFINE O == QmsObjIds
           N == QmsNcIds
           A == QmsAuditIds
<1>1. QmsPart!Range(<<>>) = {}
  BY DEF QmsPart!Range
<1>2. QmsPart!Range(<<A>>) = {A}
  BY DEF QmsPart!Range
<1>3. QmsPart!Range(<<N, A>>) = {N, A}
  BY DEF QmsPart!Range
<1>4. QmsPart!Range(<<O, N, A>>) = {O, N, A}
  BY DEF QmsPart!Range
<1>5. /\ Head(<<A>>) = A /\ Tail(<<A>>) = <<>>
      /\ Head(<<N, A>>) = N /\ Tail(<<N, A>>) = <<A>>
      /\ Head(<<O, N, A>>) = O /\ Tail(<<O, N, A>>) = <<N, A>>
  OBVIOUS
<1>6. O \cap (N \cup A) = {} /\ N \cap A = {}
  BY QmsAssumption
<1>7. /\ UNION {A} = A /\ UNION {N, A} = N \cup A /\ UNION {O, N, A} = O \cup (N \cup A)
      /\ UNION {} = {}
  OBVIOUS
<1> QED
  BY <1>1, <1>2, <1>3, <1>4, <1>5, <1>6, <1>7 DEF QmsKinds, QmsPart!Ids

-----------------------------------------------------------------------------
LEMMA QmsNoRecord ==
    \E F \in BOOLEAN : QmsPart!NoRecord = [id |-> NoId, st |-> "none", ca |-> F, ev |-> F,
                                           findings |-> <<>>, at |-> 0]
  BY Zenon DEF QmsPart!NoRecord

LEMMA QmsRecords ==
    /\ \A i \in QmsPart!Ids :
        /\ QmsPart!NewRecord(i) \in QmsPart!Kept
        /\ QmsPart!NewRecord(i).id = i /\ QmsPart!NewRecord(i).st \in {"open", "kept"}
    /\ QmsPart!NoRecord.id = NoId /\ QmsPart!NoRecord.st = "none"
    /\ NoId \notin QmsPart!Ids
    /\ \A r \in QmsPart!Kept : r.id \in QmsPart!Ids /\ r # QmsPart!NoRecord
<1>1. PICK F \in BOOLEAN :
        QmsPart!NoRecord = [id |-> NoId, st |-> "none", ca |-> F, ev |-> F,
                            findings |-> <<>>, at |-> 0]
  BY QmsNoRecord
<1>2. NoId \notin QmsPart!Ids
  BY QmsAssumption DEF QmsPart!Ids
<1>3. \A r \in QmsPart!Kept : r.id \in QmsPart!Ids
  BY DEF QmsPart!Kept
<1>4. ASSUME NEW i \in QmsPart!Ids
      PROVE  /\ QmsPart!NewRecord(i) \in QmsPart!Kept
             /\ QmsPart!NewRecord(i).id = i /\ QmsPart!NewRecord(i).st \in {"open", "kept"}
  <2> DEFINE st == IF i \in QmsNcIds THEN "open" ELSE "kept"
  <2>1. QmsPart!NewRecord(i) = [QmsPart!NoRecord EXCEPT !.id = i, !.st = st]
    BY DEF QmsPart!NewRecord
  <2>2. st \in {"open", "kept"} /\ <<>> \in Seq(QmsPart!CheckFinding)
    OBVIOUS
  <2> HIDE DEF st
  <2>3. QmsPart!NewRecord(i).id = i /\ QmsPart!NewRecord(i).st = st
    BY <1>1, <2>1
  <2>4. QmsPart!NewRecord(i) \in QmsPart!Kept
    <3> DEFINE Any == [id : QmsPart!Ids \cup {NoId}, st : QmsPart!Statuses \cup {"none", "kept"},
                       ca : BOOLEAN, ev : BOOLEAN, findings : Seq(QmsPart!CheckFinding), at : Nat]
    <3>1. QmsPart!NoRecord \in Any
      BY <1>1, <2>2
    <3>2. st \in QmsPart!Statuses \cup {"kept"}
      BY <2>2 DEF QmsPart!Statuses
    <3> QED
      BY <2>1, <3>1, <3>2 DEF QmsPart!Kept
  <2> QED
    BY <2>2, <2>3, <2>4
<1> QED
  BY <1>1, <1>2, <1>3, <1>4

LEMMA QmsIdle ==
    /\ QmsPart!ThreadTypeOK(QmsPart!Idle) /\ QmsPart!ThreadShape(QmsPart!Idle)
    /\ QmsPart!Idle.rec = QmsPart!NoRecord /\ QmsPart!Idle.pc = "idle"
<1>1. <<>> \in Seq(QmsPart!CheckFinding)
  OBVIOUS
<1> QED
  BY <1>1 DEF QmsPart!Idle, QmsPart!ThreadTypeOK, QmsPart!ThreadShape, QmsPart!Telling,
              QmsPart!Making, QmsPart!After

QmsLoaders ==
    [on : BOOLEAN, ids : SUBSET QmsPart!Ids, fresh : Seq(QmsPart!Kept), kinds : QmsKinds]

LEMMA QmsFirstLoad ==
    /\ QmsPart!FirstLoad.on /\ QmsPart!FirstLoad.ids = {} /\ QmsPart!FirstLoad.fresh = <<>>
    /\ QmsPart!FirstLoad.kinds = <<QmsObjIds, QmsNcIds, QmsAuditIds>>
    /\ ~QmsPart!Unloaded.on /\ QmsPart!Unloaded.ids = {} /\ QmsPart!Unloaded.fresh = <<>>
    /\ QmsPart!Unloaded.kinds = <<>>
    /\ QmsPart!FirstLoad \in QmsLoaders /\ QmsPart!Unloaded \in QmsLoaders
<1>1. PICK F \in BOOLEAN :
        QmsPart!Unloaded = [on |-> F, kinds |-> <<>>, ids |-> {}, fresh |-> <<>>]
  BY Zenon DEF QmsPart!Unloaded
<1>2. PICK T \in BOOLEAN :
        QmsPart!FirstLoad = [QmsPart!Unloaded EXCEPT
                               !.on = T, !.kinds = <<QmsObjIds, QmsNcIds, QmsAuditIds>>]
  BY Zenon DEF QmsPart!FirstLoad
<1>3. <<>> \in Seq(QmsPart!Kept)
  OBVIOUS
<1>4. QmsPart!Unloaded \in QmsLoaders
  BY <1>1, <1>3 DEF QmsLoaders, QmsKinds
<1>5. QmsPart!FirstLoad \in QmsLoaders
  BY <1>2, <1>4 DEF QmsLoaders, QmsKinds
<1>6. QmsPart!FirstLoad.on /\ ~QmsPart!Unloaded.on
  BY DEF QmsPart!FirstLoad, QmsPart!Unloaded
<1>7. /\ QmsPart!FirstLoad.ids = {} /\ QmsPart!FirstLoad.fresh = <<>>
      /\ QmsPart!FirstLoad.kinds = <<QmsObjIds, QmsNcIds, QmsAuditIds>>
      /\ QmsPart!Unloaded.ids = {} /\ QmsPart!Unloaded.fresh = <<>>
      /\ QmsPart!Unloaded.kinds = <<>>
  BY <1>1, <1>2
<1> QED
  BY <1>4, <1>5, <1>6, <1>7

(* the NCs that exomind was given the status verify of *)
LEMMA QmsSameChanges ==
    ASSUME v10' = v10
    PROVE  QmsPart!Verified' = QmsPart!Verified
BY DEF QmsPart!Verified

LEMMA QmsGiven ==
    ASSUME NEW i, NEW s, NEW r, v10' = v10 \cup {<<i, s, r>>}
    PROVE  /\ QmsPart!Verified \subseteq QmsPart!Verified'
           /\ r = "verify" => i \in QmsPart!Verified'
<1>1. <<i, s, r>>[1] = i /\ <<i, s, r>>[3] = r /\ <<i, s, r>> \in v10'
  OBVIOUS
<1>2. \A c \in v10' : c[3] = "verify" => c[1] \in QmsPart!Verified'
  BY DEF QmsPart!Verified
<1>3. QmsPart!Verified \subseteq QmsPart!Verified'
  BY DEF QmsPart!Verified
<1>4. r = "verify" => i \in QmsPart!Verified'
  BY <1>1, <1>2
<1> QED
  BY <1>3, <1>4

LEMMA QmsBegins ==
    ASSUME QmsPart!Init
    PROVE  QmsPart!Inv
<1> USE QmsAssumption
<1>1. /\ v11 \in QmsScenarios
      /\ v1 = [i \in QmsPart!Ids |-> IF i \in v11.old THEN QmsPart!NewRecord(i)
                                                       ELSE QmsPart!NoRecord]
      /\ v4 = {} /\ v5 = <<>> /\ v7 = QmsPart!FirstLoad
      /\ v8 = [t \in QmsThreads |-> QmsPart!Idle] /\ v9 = {} /\ v10 = {}
  BY DEF QmsPart!Init
<1>2. /\ v7.on /\ v7.ids = {} /\ v7.fresh = <<>>
      /\ v7.kinds = <<QmsObjIds, QmsNcIds, QmsAuditIds>>
  BY <1>1, QmsFirstLoad
<1>3. <<>> \in Seq(QmsPart!Kept) /\ DOMAIN <<>> = {}
  BY EmptySeq
<1>4. QmsPart!TypeOK
  <2>1. v1 \in [QmsPart!Ids -> QmsPart!Kept \cup {QmsPart!NoRecord}]
    BY <1>1, QmsRecords
  <2>2. v7 \in QmsLoaders
    BY <1>1, QmsFirstLoad
  <2> QED
    BY <1>1, <1>3, <2>1, <2>2, QmsIdle DEF QmsPart!TypeOK, QmsLoaders, QmsKinds
<1>5. QmsPart!Unread = QmsPart!Ids
  BY <1>2, QmsKindsListed DEF QmsPart!Unread
<1>6. QmsPart!Shape
  <2>1. \A i \in QmsPart!Saved : v1[i].id = i
    BY <1>1, QmsRecords DEF QmsPart!Saved
  <2>2. QmsPart!Loading
    BY <1>2 DEF QmsPart!Loading
  <2> QED
    BY <2>1, <2>2, <1>1, <1>2, QmsIdle DEF QmsPart!Shape
<1>7. QmsPart!Evidence
  BY <1>1, <1>2, <1>3, QmsRecords, QmsIdle
     DEF QmsPart!Evidence, QmsPart!Sound, QmsPart!Known
<1>8. QmsPart!Settled
  <2>1. QmsPart!Loading
    BY <1>2 DEF QmsPart!Loading
  <2>2. \A i \in QmsPart!Ids : QmsPart!Handling(i) = {} /\ QmsPart!Lacks(v7.fresh, i)
    BY <1>1, <1>2, <1>3, QmsIdle, QmsRecords DEF QmsPart!Handling, QmsPart!Lacks
  <2> QED
    BY <2>1, <2>2, <1>5 DEF QmsPart!Settled
<1> QED
  BY <1>4, <1>6, <1>7, <1>8 DEF QmsPart!Inv

-----------------------------------------------------------------------------
(* The reload *)

LEMMA QmsLists ==
    ASSUME QmsPart!Inv, NEW o, QmsPart!List(o)
    PROVE  QmsPart!Inv'
<1> USE DEF QmsPart!exomind, QmsPart!history
<1>1. QmsPart!TypeOK /\ QmsPart!Shape /\ QmsPart!Evidence /\ QmsPart!Settled
  BY DEF QmsPart!Inv
<1>2. UNCHANGED <<v1, v4, v5, v8, v9, v10, v11>> /\ v7.kinds # <<>> /\ v7.ids = {}
  BY DEF QmsPart!List
<1>3. v7.kinds \in QmsKinds /\ v7.fresh \in Seq(QmsPart!Kept)
  BY <1>1 DEF QmsPart!TypeOK, QmsKinds
<1>4. QmsPart!Saved' = QmsPart!Saved /\ QmsPart!Saved \subseteq QmsPart!Ids
  BY <1>2 DEF QmsPart!Saved
<1>5. QmsPart!Loading /\ v7.on
  BY <1>1, <1>2 DEF QmsPart!Shape, QmsPart!Loading
<1>6. /\ \A t \in QmsThreads : v8'[t] = v8[t]
      /\ \A i : QmsPart!Handling(i)' = QmsPart!Handling(i)
  BY <1>2 DEF QmsPart!Handling
<1>7. /\ v7' \in QmsLoaders /\ v7'.on
      /\ v7'.ids \subseteq QmsPart!Saved
      /\ v7'.ids \cap UNION QmsPart!Range(v7'.kinds) = {}
      /\ \/ v7'.fresh = <<>> /\ QmsPart!Unread' = QmsPart!Ids
         \/ /\ v7'.fresh = v7.fresh
            /\ \A i \in QmsPart!Ids :
                 \/ i \in QmsPart!Unread /\ i \in QmsPart!Unread'
                 \/ i \notin QmsPart!Unread /\ i \notin QmsPart!Unread'
                 \/ i \in QmsPart!Unread /\ i \notin QmsPart!Unread' /\ i \notin QmsPart!Saved
  <2>1. CASE v7' = QmsPart!FirstLoad
    BY <2>1, QmsFirstLoad, QmsKindsListed DEF QmsPart!Unread
  <2>2. CASE v7' = [v7 EXCEPT !.kinds = Tail(v7.kinds), !.ids = Head(v7.kinds) \cap QmsPart!Saved]
    <3> DEFINE kinds == Tail(v7.kinds)
               ids == Head(v7.kinds) \cap QmsPart!Saved
    <3>1. kinds \in QmsKinds /\ ids \subseteq QmsPart!Ids /\ v7 \in QmsLoaders
      BY <1>1, <1>2, <1>3, QmsKindsListed DEF QmsPart!TypeOK, QmsLoaders, QmsKinds
    <3>2. v7' = [v7 EXCEPT !.kinds = kinds, !.ids = ids]
      BY <2>2
    <3>3. /\ UNION QmsPart!Range(v7.kinds) = Head(v7.kinds) \cup UNION QmsPart!Range(kinds)
          /\ Head(v7.kinds) \cap UNION QmsPart!Range(kinds) = {}
      BY <1>2, <1>3, QmsKindsListed
    <3>4. ids \subseteq QmsPart!Saved /\ ids \subseteq Head(v7.kinds)
          /\ \A i \in Head(v7.kinds) : i \in ids \/ i \notin QmsPart!Saved
      OBVIOUS
    <3> HIDE DEF kinds, ids
    <3>5. /\ v7' \in QmsLoaders /\ v7'.kinds = kinds /\ v7'.ids = ids
          /\ v7'.fresh = v7.fresh /\ (v7'.on <=> v7.on)
      BY <3>1, <3>2 DEF QmsLoaders
    <3>6. /\ QmsPart!Unread = UNION QmsPart!Range(v7.kinds)
          /\ QmsPart!Unread' = ids \cup UNION QmsPart!Range(kinds)
      BY <1>2, <3>5 DEF QmsPart!Unread
    <3> QED
      BY <1>5, <3>3, <3>4, <3>5, <3>6
  <2> QED
    BY <2>1, <2>2 DEF QmsPart!List
<1>8. QmsPart!TypeOK'
  BY <1>1, <1>2, <1>7 DEF QmsPart!TypeOK, QmsLoaders, QmsKinds
<1>9. QmsPart!Loading'
  BY <1>7 DEF QmsPart!Loading
<1>10. QmsPart!Shape'
  BY <1>1, <1>2, <1>4, <1>6, <1>7, <1>9 DEF QmsPart!Shape
<1>11. QmsPart!Evidence'
  <2>1. \A k \in DOMAIN v7'.fresh : k \in DOMAIN v7.fresh /\ v7'.fresh[k] = v7.fresh[k]
    BY <1>7
  <2> QED
    BY <1>1, <1>2, <2>1, QmsSameChanges DEF QmsPart!Evidence, QmsPart!Sound, QmsPart!Known
<1>12. QmsPart!Settled'
  <2> SUFFICES ASSUME NEW i \in QmsPart!Ids \ v9
               PROVE  /\ QmsPart!Handling(i)' = {}
                      /\ IF i \in QmsPart!Unread' THEN QmsPart!Lacks(v7'.fresh, i)
                                                  ELSE QmsPart!Mirrors(v7.fresh, i)'
    BY <1>2, <1>9 DEF QmsPart!Settled
  <2>1. /\ QmsPart!Handling(i) = {}
        /\ IF i \in QmsPart!Unread THEN QmsPart!Lacks(v7.fresh, i)
                                   ELSE QmsPart!Mirrors(v7.fresh, i)
    BY <1>1, <1>5 DEF QmsPart!Settled
  <2>2. QmsPart!Lacks(<<>>, i)
    BY DEF QmsPart!Lacks
  <2>3. i \notin QmsPart!Saved => QmsPart!Mirrors(v7.fresh, i)' <=> QmsPart!Lacks(v7'.fresh, i)
    BY <1>4 DEF QmsPart!Mirrors
  <2>4. v7'.fresh = v7.fresh => (QmsPart!Mirrors(v7.fresh, i)' <=> QmsPart!Mirrors(v7.fresh, i))
    BY <1>2, <1>4 DEF QmsPart!Mirrors
  <2> QED
    BY <2>1, <2>2, <2>3, <2>4, <1>6, <1>7
<1> QED
  BY <1>8, <1>10, <1>11, <1>12 DEF QmsPart!Inv

LEMMA QmsLoads ==
    ASSUME QmsPart!Inv, NEW o, QmsPart!Load(o)
    PROVE  QmsPart!Inv'
<1> USE DEF QmsPart!exomind
<1>1. QmsPart!TypeOK /\ QmsPart!Shape /\ QmsPart!Evidence /\ QmsPart!Settled
  BY DEF QmsPart!Inv
<1>2. PICK i \in v7.ids :
        /\ v7' = [v7 EXCEPT !.ids = @ \ {i},
                            !.fresh = IF o = "ok" THEN Append(@, v1[i]) ELSE @]
        /\ v9' = v9 \cup (IF o = "ok" THEN {} ELSE {i})
  BY DEF QmsPart!Load, QmsPart!Doubt
<1>3. UNCHANGED <<v1, v4, v5, v6, v8, v10, v11>>
  BY DEF QmsPart!Load
<1>4. QmsPart!Saved' = QmsPart!Saved /\ QmsPart!Saved \subseteq QmsPart!Ids
  BY <1>3 DEF QmsPart!Saved
<1>5. QmsPart!Loading /\ i \in QmsPart!Saved /\ i \in QmsPart!Ids
  BY <1>1, <1>2, <1>4 DEF QmsPart!Shape
<1>6. v1[i] \in QmsPart!Kept /\ v1[i].id = i
  BY <1>1, <1>5 DEF QmsPart!TypeOK, QmsPart!Shape, QmsPart!Saved
<1>7. v7 \in QmsLoaders
  BY <1>1 DEF QmsPart!TypeOK, QmsLoaders, QmsKinds
<1>8. v7.fresh \in Seq(QmsPart!Kept)
  BY <1>7 DEF QmsLoaders
<1> DEFINE fresh == IF o = "ok" THEN Append(v7.fresh, v1[i]) ELSE v7.fresh
<1>9. fresh \in Seq(QmsPart!Kept)
  BY <1>6, <1>8, QmsAppended
<1>10. v7' = [v7 EXCEPT !.ids = v7.ids \ {i}, !.fresh = fresh]
  BY <1>2
<1>11. o = "ok" => fresh = Append(v7.fresh, v1[i])
  OBVIOUS
<1>12. o # "ok" => fresh = v7.fresh
  OBVIOUS
<1> HIDE DEF fresh
<1>13. /\ v7' \in QmsLoaders /\ v7'.ids = v7.ids \ {i} /\ v7'.fresh = fresh
       /\ v7'.kinds = v7.kinds /\ (v7'.on <=> v7.on)
  BY <1>7, <1>9, <1>10 DEF QmsLoaders
<1>14. QmsPart!TypeOK'
  BY <1>1, <1>3, <1>13 DEF QmsPart!TypeOK, QmsLoaders, QmsKinds
<1>15. QmsPart!Loading'
  BY <1>5, <1>13 DEF QmsPart!Loading
<1>16. QmsPart!Shape'
  BY <1>1, <1>3, <1>4, <1>13, <1>15 DEF QmsPart!Shape
<1>17. QmsPart!Evidence'
  <2>1. ASSUME NEW k \in DOMAIN v7'.fresh
        PROVE  QmsPart!Sound(v7'.fresh[k]) /\ QmsPart!Known(v7'.fresh[k])
    <3>1. v7'.fresh[k] = v1[i] \/ (k \in DOMAIN v7.fresh /\ v7'.fresh[k] = v7.fresh[k])
      <4>1. CASE o = "ok"
        <5>1. v7'.fresh = Append(v7.fresh, v1[i])
          BY <4>1, <1>11, <1>13
        <5>2. /\ DOMAIN v7'.fresh = 1..(Len(v7.fresh) + 1)
              /\ v7'.fresh[Len(v7.fresh) + 1] = v1[i]
              /\ \A l \in 1..Len(v7.fresh) : v7'.fresh[l] = v7.fresh[l]
          BY <5>1, <1>6, <1>8, QmsAppended
        <5>3. DOMAIN v7.fresh = 1..Len(v7.fresh) /\ Len(v7.fresh) \in Nat
          BY <1>8, LenProperties
        <5> QED
          BY <5>2, <5>3
      <4>2. CASE o # "ok"
        BY <4>2, <1>12, <1>13
      <4> QED
        BY <4>1, <4>2
    <3> QED
      BY <3>1, <1>1, <1>5 DEF QmsPart!Evidence
  <2>2. \A r : (QmsPart!Sound(r)' <=> QmsPart!Sound(r)) /\ (QmsPart!Known(r)' <=> QmsPart!Known(r))
    BY <1>3, QmsSameChanges DEF QmsPart!Sound, QmsPart!Known
  <2> QED
    BY <2>1, <1>1, <1>3, QmsSameChanges DEF QmsPart!Evidence, QmsPart!Sound, QmsPart!Known
<1>18. QmsPart!Settled'
  <2> SUFFICES ASSUME NEW j \in QmsPart!Ids \ v9'
               PROVE  /\ QmsPart!Handling(j)' = {}
                      /\ IF j \in QmsPart!Unread' THEN QmsPart!Lacks(v7'.fresh, j)
                                                  ELSE QmsPart!Mirrors(v7.fresh, j)'
    BY <1>15 DEF QmsPart!Settled
  <2>1. j \notin v9
    BY <1>2
  <2>2. /\ QmsPart!Handling(j) = {}
        /\ IF j \in QmsPart!Unread THEN QmsPart!Lacks(v7.fresh, j)
                                   ELSE QmsPart!Mirrors(v7.fresh, j)
    BY <1>1, <1>5, <2>1 DEF QmsPart!Settled
  <2>3. QmsPart!Handling(j)' = {}
    BY <2>2, <1>3 DEF QmsPart!Handling
  <2>4. CASE j = i
    <3>1. o = "ok" /\ v7'.fresh = Append(v7.fresh, v1[i])
      BY <2>4, <1>2, <1>11, <1>13
    <3>2. i \in QmsPart!Unread /\ i \notin QmsPart!Unread'
      BY <1>1, <1>2, <1>13 DEF QmsPart!Unread, QmsPart!Shape
    <3>3. QmsPart!HasOnly(v7'.fresh, i, v1[i])
      BY <3>1, <3>2, <2>2, <2>4, <1>6, <1>8, QmsAppendHas
    <3> QED
      BY <2>3, <2>4, <3>2, <3>3, <1>3, <1>4, <1>5 DEF QmsPart!Mirrors
  <2>5. CASE j # i
    <3>1. j \in QmsPart!Unread <=> j \in QmsPart!Unread'
      BY <2>5, <1>13 DEF QmsPart!Unread
    <3> DEFINE a == Append(v7.fresh, v1[i])
    <3>2. /\ QmsPart!Lacks(v7.fresh, j) => QmsPart!Lacks(a, j)
          /\ QmsPart!HasOnly(v7.fresh, j, v1[j]) => QmsPart!HasOnly(a, j, v1[j])
      BY <2>5, <1>6, <1>8, QmsAppendHas
    <3>3. v7'.fresh = a \/ v7'.fresh = v7.fresh
      BY <1>11, <1>12, <1>13
    <3> HIDE DEF a
    <3> QED
      BY <2>2, <2>3, <3>1, <3>2, <3>3, <1>3, <1>4 DEF QmsPart!Mirrors
  <2> QED
    BY <2>4, <2>5
<1> QED
  BY <1>14, <1>16, <1>17, <1>18 DEF QmsPart!Inv

LEMMA QmsSwaps ==
    ASSUME QmsPart!Inv, QmsPart!Swap
    PROVE  QmsPart!Inv'
<1> USE DEF QmsPart!exomind, QmsPart!history, QmsPart!bounds
<1>1. QmsPart!TypeOK /\ QmsPart!Shape /\ QmsPart!Evidence /\ QmsPart!Settled
  BY DEF QmsPart!Inv
<1>2. /\ QmsPart!Loading /\ v7.kinds = <<>> /\ v7.ids = {} /\ v5' = v7.fresh
      /\ v7' = QmsPart!Unloaded /\ v6' = TRUE /\ UNCHANGED <<v1, v4, v8, v9, v10, v11>>
  BY DEF QmsPart!Swap
<1>3. QmsPart!Saved' = QmsPart!Saved
  BY <1>2 DEF QmsPart!Saved
<1>4. ~QmsPart!Loading' /\ QmsPart!Unread = {} /\ UNION QmsPart!Range(v7'.kinds) = {}
  BY <1>2, QmsFirstLoad, QmsKindsListed DEF QmsPart!Loading, QmsPart!Unread
<1>5. QmsPart!TypeOK'
  <2>1. v7' \in QmsLoaders /\ v5' \in Seq(QmsPart!Kept)
    BY <1>1, <1>2, QmsFirstLoad DEF QmsPart!TypeOK
  <2> QED
    BY <2>1, <1>1, <1>2 DEF QmsPart!TypeOK, QmsLoaders, QmsKinds
<1>6. QmsPart!Shape'
  BY <1>1, <1>2, <1>3, <1>4, QmsFirstLoad DEF QmsPart!Shape
<1>7. QmsPart!Evidence'
  BY <1>1, <1>2, QmsFirstLoad, QmsSameChanges DEF QmsPart!Evidence, QmsPart!Sound, QmsPart!Known
<1>8. QmsPart!Settled'
  <2> SUFFICES ASSUME NEW i \in QmsPart!Ids \ v9
               PROVE  QmsPart!Handling(i)' = {} /\ QmsPart!Mirrors(v5, i)'
    BY <1>2, <1>4 DEF QmsPart!Settled
  <2>1. QmsPart!Handling(i) = {} /\ QmsPart!Mirrors(v7.fresh, i)
    BY <1>1, <1>2, <1>4 DEF QmsPart!Settled
  <2> QED
    BY <2>1, <1>2, <1>3 DEF QmsPart!Handling, QmsPart!Mirrors
<1> QED
  BY <1>5, <1>6, <1>7, <1>8 DEF QmsPart!Inv

LEMMA QmsRestarts ==
    ASSUME QmsPart!Inv, QmsPart!Restart
    PROVE  QmsPart!Inv'
<1> USE DEF QmsPart!exomind
<1>1. QmsPart!TypeOK /\ QmsPart!Shape /\ QmsPart!Evidence /\ QmsPart!Settled
  BY DEF QmsPart!Inv
<1>2. /\ v5' = <<>> /\ v7' = QmsPart!FirstLoad /\ UNCHANGED <<v1, v4, v10, v11>>
      /\ v8' = [t \in QmsThreads |-> QmsPart!Idle]
  BY DEF QmsPart!Restart
<1>3. v9' = v9 \cup {v8[t].rec.id : t \in {u \in QmsThreads : v8[u] # QmsPart!Idle}}
  BY DEF QmsPart!Restart, QmsPart!Doubt
<1>4. QmsPart!Saved' = QmsPart!Saved
  BY <1>2 DEF QmsPart!Saved
<1>5. QmsPart!Loading' /\ QmsPart!Unread' = QmsPart!Ids /\ v7'.ids = {} /\ v7'.fresh = <<>>
  BY <1>2, QmsFirstLoad, QmsKindsListed DEF QmsPart!Loading, QmsPart!Unread
<1>6. <<>> \in Seq(QmsPart!Kept) /\ DOMAIN <<>> = {}
  BY EmptySeq
<1>7. QmsPart!TypeOK'
  <2>1. v7' \in QmsLoaders
    BY <1>2, QmsFirstLoad
  <2> QED
    BY <2>1, <1>1, <1>2, <1>6, QmsIdle DEF QmsPart!TypeOK, QmsLoaders, QmsKinds
<1>8. QmsPart!Shape'
  BY <1>1, <1>2, <1>4, <1>5, QmsIdle DEF QmsPart!Shape
<1>9. QmsPart!Evidence'
  <2>1. \A t \in QmsThreads : QmsPart!Sound(v8[t].rec)' /\ v8'[t].pc = "idle"
    BY <1>2, QmsIdle, QmsRecords DEF QmsPart!Sound
  <2> QED
    BY <2>1, <1>1, <1>2, <1>5, <1>6, QmsSameChanges DEF QmsPart!Evidence, QmsPart!Sound, QmsPart!Known
<1>10. \A i \in QmsPart!Ids : QmsPart!Handling(i)' = {}
  BY <1>2, QmsIdle, QmsRecords DEF QmsPart!Handling
<1>11. QmsPart!Settled'
  BY <1>5, <1>6, <1>10 DEF QmsPart!Settled, QmsPart!Lacks
<1> QED
  BY <1>7, <1>8, <1>9, <1>11 DEF QmsPart!Inv

-----------------------------------------------------------------------------
(* The requests *)

(***************************************************************************)
(* What is to be shown of a step of thread t that leaves exomind and the   *)
(* registry alone and puts the thread in state l.                          *)
(***************************************************************************)
LEMMA QmsThreadSteps ==
    ASSUME QmsPart!Inv, NEW t \in QmsThreads, NEW l, v8' = [v8 EXCEPT ![t] = l],
           UNCHANGED <<v1, v5, v6, v7, v10, v11>>, v9 \subseteq v9',
           QmsPart!ThreadTypeOK(l), QmsPart!ThreadShape(l), QmsPart!Sound(l.rec),
           l.pc # "commit",
           \A j \in QmsPart!Ids \ v9' :
             /\ l.rec.id = j => /\ ~QmsPart!Loading
                                /\ \A u \in QmsThreads \ {t} : v8[u].rec.id # j
                                /\ QmsPart!Stage(t, j)'
             /\ v8[t].rec.id = j /\ l.rec.id # j /\ ~QmsPart!Loading => QmsPart!Mirrors(v5, j)
    PROVE  QmsPart!Inv'
<1>1. QmsPart!TypeOK /\ QmsPart!Shape /\ QmsPart!Evidence /\ QmsPart!Settled
  BY DEF QmsPart!Inv
<1>2. DOMAIN v8 = QmsThreads
  BY <1>1 DEF QmsPart!TypeOK
<1>3. DOMAIN v8' = QmsThreads /\ v8'[t] = l /\ \A u \in QmsThreads \ {t} : v8'[u] = v8[u]
  BY <1>2
<1>4. QmsPart!Saved' = QmsPart!Saved /\ QmsPart!Saved \subseteq QmsPart!Ids
  BY DEF QmsPart!Saved
<1>5. QmsPart!Unread' = QmsPart!Unread /\ (QmsPart!Loading' <=> QmsPart!Loading)
  BY DEF QmsPart!Unread, QmsPart!Loading
<1>6. QmsPart!TypeOK'
  <2>1. \A u \in QmsThreads : QmsPart!ThreadTypeOK(v8'[u])
    BY <1>1, <1>3 DEF QmsPart!TypeOK
  <2> QED
    BY <2>1, <1>1, <1>3 DEF QmsPart!TypeOK
<1>7. QmsPart!Shape'
  <2>1. \A u \in QmsThreads : QmsPart!ThreadShape(v8'[u])
    BY <1>1, <1>3 DEF QmsPart!Shape
  <2> QED
    BY <2>1, <1>1, <1>4, <1>5 DEF QmsPart!Shape
<1>8. QmsPart!Evidence'
  <2>1. \A u \in QmsThreads : QmsPart!Sound(v8'[u].rec)
                              /\ (v8'[u].pc = "commit" => QmsPart!Known(v8'[u].rec))
    BY <1>1, <1>3 DEF QmsPart!Evidence
  <2> QED
    BY <2>1, <1>1, QmsSameChanges DEF QmsPart!Evidence, QmsPart!Sound, QmsPart!Known
<1>9. QmsPart!Settled'
  <2> SUFFICES ASSUME NEW j \in QmsPart!Ids, j \notin v9'
               PROVE  (/\ QmsPart!Loading =>
                            /\ QmsPart!Handling(j) = {}
                            /\ IF j \in QmsPart!Unread THEN QmsPart!Lacks(v7.fresh, j)
                                                       ELSE QmsPart!Mirrors(v7.fresh, j)
                       /\ ~QmsPart!Loading =>
                            /\ QmsPart!Handling(j) = {} => QmsPart!Mirrors(v5, j)
                            /\ \A u \in QmsPart!Handling(j) :
                                 QmsPart!Handling(j) = {u} /\ QmsPart!Stage(u, j))'
    BY DEF QmsPart!Settled
  <2>1. j \in QmsPart!Ids \ v9 /\ j \in QmsPart!Ids \ v9'
    OBVIOUS
  <2>2. /\ QmsPart!Loading =>
             /\ QmsPart!Handling(j) = {}
             /\ IF j \in QmsPart!Unread THEN QmsPart!Lacks(v7.fresh, j)
                                        ELSE QmsPart!Mirrors(v7.fresh, j)
        /\ ~QmsPart!Loading =>
             /\ QmsPart!Handling(j) = {} => QmsPart!Mirrors(v5, j)
             /\ \A u \in QmsPart!Handling(j) :
                  QmsPart!Handling(j) = {u} /\ QmsPart!Stage(u, j)
    BY <2>1, <1>1 DEF QmsPart!Settled
  <2>3. /\ \A u : u \in QmsPart!Handling(j) <=> u \in QmsThreads /\ v8[u].rec.id = j
        /\ \A u : u \in QmsPart!Handling(j)' <=> u \in QmsThreads /\ v8'[u].rec.id = j
    BY DEF QmsPart!Handling
  <2>4. /\ QmsPart!Mirrors(v5, j)' <=> QmsPart!Mirrors(v5, j)
        /\ QmsPart!Mirrors(v7.fresh, j)' <=> QmsPart!Mirrors(v7.fresh, j)
    BY <1>4 DEF QmsPart!Mirrors
  <2>5. /\ l.rec.id = j => /\ ~QmsPart!Loading
                           /\ \A u \in QmsThreads \ {t} : v8[u].rec.id # j
                           /\ QmsPart!Stage(t, j)'
        /\ v8[t].rec.id = j /\ l.rec.id # j /\ ~QmsPart!Loading => QmsPart!Mirrors(v5, j)
    BY <2>1
  <2>6. CASE QmsPart!Loading
    <3>1. QmsPart!Handling(j)' = {}
      BY <2>2, <2>3, <2>5, <2>6, <1>3
    <3> QED
      BY <3>1, <2>2, <2>4, <2>6, <1>5
  <2>7. CASE ~QmsPart!Loading
    <3>1. QmsPart!Handling(j)' = {} => QmsPart!Mirrors(v5, j)'
      BY <2>2, <2>3, <2>4, <2>5, <2>7, <1>3
    <3>2. ASSUME NEW u \in QmsPart!Handling(j)'
          PROVE  QmsPart!Handling(j)' = {u} /\ QmsPart!Stage(u, j)'
      <4>1. CASE u = t
        BY <4>1, <3>2, <2>3, <2>5, <1>3
      <4>2. CASE u # t
        <5>1. u \in QmsThreads /\ v8'[u] = v8[u] /\ v8[u].rec.id = j /\ l.rec.id # j
          BY <4>2, <3>2, <2>3, <2>5, <1>3
        <5>2. QmsPart!Handling(j) = {u} /\ QmsPart!Stage(u, j)
          BY <5>1, <2>2, <2>3, <2>7
        <5>3. QmsPart!Handling(j)' = {u}
          BY <5>1, <5>2, <2>3, <1>3
        <5>4. QmsPart!Stage(u, j)'
          BY <5>1, <5>2, <1>4 DEF QmsPart!Stage
        <5> QED
          BY <5>3, <5>4
      <4> QED
        BY <4>1, <4>2
    <3> QED
      BY <3>1, <3>2, <2>7, <1>5
  <2> QED
    BY <2>6, <2>7
<1> QED
  BY <1>6, <1>7, <1>8, <1>9 DEF QmsPart!Inv

(* an audit goes on without a change of its record or its stage *)
LEMMA QmsGoesOn ==
    ASSUME QmsPart!Inv, NEW t \in QmsThreads, NEW l, v8' = [v8 EXCEPT ![t] = l],
           UNCHANGED <<v1, v4, v5, v6, v7, v10, v11>>, v9 \subseteq v9',
           QmsPart!ThreadTypeOK(l), l.act = v8[t].act,
           l.rec.id = v8[t].rec.id, l.rec.st = v8[t].rec.st,
           l.rec.ca = v8[t].rec.ca, l.rec.ev = v8[t].rec.ev,
           l.pc = "issue" => Len(l.rec.findings) < Len(l.found),
           \E P \in {{"check", "issue"}, {"fails", "store fails", "history"}} :
               v8[t].pc \in P /\ l.pc \in P
    PROVE  QmsPart!Inv'
<1>1. QmsPart!TypeOK /\ QmsPart!Shape /\ QmsPart!Evidence /\ QmsPart!Settled
  BY DEF QmsPart!Inv
<1>2. v8[t].act = "audit" /\ v8[t].rec \in QmsPart!Kept
  <2>1. v8[t].pc \in {"check", "issue", "fails", "store fails", "history"}
    OBVIOUS
  <2>2. QmsPart!ThreadTypeOK(v8[t]) /\ QmsPart!ThreadShape(v8[t])
    BY <1>1 DEF QmsPart!TypeOK, QmsPart!Shape
  <2> QED
    BY <2>1, <2>2 DEF QmsPart!ThreadTypeOK, QmsPart!ThreadShape
<1>3. QmsPart!ThreadShape(l)
  <2>1. l.rec # QmsPart!NoRecord
    BY <1>2, QmsRecords
  <2> QED
    BY <2>1, <1>2 DEF QmsPart!ThreadShape, QmsPart!After
<1>4. QmsPart!Sound(l.rec)
  BY Zenon, <1>1 DEF QmsPart!Evidence, QmsPart!Sound
<1>5. l.pc # "commit" /\ v8[t].pc \notin {"commit", "note"}
  OBVIOUS
<1>6. v8'[t] = l /\ QmsPart!Saved' = QmsPart!Saved
  BY <1>1 DEF QmsPart!TypeOK, QmsPart!Saved
<1>7. ASSUME NEW j \in QmsPart!Ids \ v9', l.rec.id = j
      PROVE  /\ ~QmsPart!Loading
             /\ \A u \in QmsThreads \ {t} : v8[u].rec.id # j
             /\ QmsPart!Stage(t, j)'
  <2>1. t \in QmsPart!Handling(j) /\ j \in QmsPart!Ids \ v9
    BY <1>7 DEF QmsPart!Handling
  <2>2. ~QmsPart!Loading /\ QmsPart!Handling(j) = {t} /\ QmsPart!Stage(t, j)
    BY <2>1, <1>1 DEF QmsPart!Settled
  <2>3. QmsPart!Stage(t, j)'
    BY <2>2, <1>2, <1>5, <1>6
       DEF QmsPart!Stage, QmsPart!Making, QmsPart!After, QmsPart!Telling
  <2> QED
    BY <2>2, <2>3 DEF QmsPart!Handling
<1> QED
  BY <1>3, <1>4, <1>5, <1>7, QmsThreadSteps

(* what every check returns *)
QmsChecks == {"component-tests", "doc-compliance", "dogfood", "ui-audit", "metrics",
              "code-safety", "asset-logic", "kit-fidelity", "agent-health",
              "memory-awareness", "docs-coverage"}

LEMMA QmsResults ==
    /\ \A c \in DOMAIN QmsPart!Outcomes : QmsPart!Outcomes[c] \subseteq QmsPart!Results
    /\ \A e, b, s, n : QmsPart!ScanResult(e, b, s, n) \in QmsPart!Results
    /\ \A r, a, n, m : QmsPart!Rework(r, a, n, m) \in QmsPart!Results
    /\ \A r, S : QmsPart!IssueTracking(r, S) \in QmsPart!Results
<1>1. \A ok : QmsPart!PassIf(ok) \in QmsPart!Results
  BY DEF QmsPart!PassIf, QmsPart!Results
<1>2. "skip" \in QmsPart!Results /\ "fail" \in QmsPart!Results
  BY DEF QmsPart!Results
<1>3. /\ \A e, b, s, n : QmsPart!ScanResult(e, b, s, n) \in QmsPart!Results
      /\ \A r, a, n, m : QmsPart!Rework(r, a, n, m) \in QmsPart!Results
      /\ \A r, S : QmsPart!IssueTracking(r, S) \in QmsPart!Results
  BY <1>1, <1>2 DEF QmsPart!ScanResult, QmsPart!Rework, QmsPart!IssueTracking
<1>4. /\ \A m, d, u : QmsPart!ComponentTests(m, d, u) \in QmsPart!Results
      /\ \A m, p, n : QmsPart!DocCompliance(m, p, n) \in QmsPart!Results
      /\ \A r, s, n : QmsPart!Dogfood(r, s, n, 1) \in QmsPart!Results
      /\ \A b, t, e : QmsPart!UiAudit(b, t, e) \in QmsPart!Results
  BY <1>1, <1>2 DEF QmsPart!ComponentTests, QmsPart!DocCompliance, QmsPart!Dogfood,
                    QmsPart!UiAudit
<1>5. /\ \A r, v : QmsPart!Metrics(r, v) \in QmsPart!Results
      /\ \A b, e, x, y : QmsPart!Analysed(b, e, x, y) \in QmsPart!Results
      /\ \A b, e, n : QmsPart!KitFidelity(b, e, n) \in QmsPart!Results
  BY <1>1, <1>2 DEF QmsPart!Metrics, QmsPart!Analysed, QmsPart!KitFidelity
<1>6. /\ \A r, S : QmsPart!AgentHealth(r, S) \in QmsPart!Results
      /\ \A r, m, p : QmsPart!MemoryAwareness(r, m, p) \in QmsPart!Results
      /\ \A M : QmsPart!DocsCoverage(M) \in QmsPart!Results
  BY <1>1, <1>2 DEF QmsPart!AgentHealth, QmsPart!MemoryAwareness, QmsPart!DocsCoverage
<1> DEFINE e1 == {QmsPart!ComponentTests(m, d, u) : m \in BOOLEAN,
                                                  d \in QmsPart!Few, u \in QmsPart!Few}
           e2 == {QmsPart!DocCompliance(m, p, n) : m \in BOOLEAN, p \in QmsPart!Marks,
                                                 n \in QmsPart!NoSummary..1}
           e3 == {QmsPart!Dogfood(r, s, n, 1) : r \in BOOLEAN, s \in QmsPart!Marks, n \in 0..2}
           e4 == {QmsPart!UiAudit(b, t, e) : b, t \in BOOLEAN, e \in QmsPart!Endings}
           e5 == {QmsPart!Metrics(r, v) : r \in BOOLEAN,
                                           v \in UNION {[1..n -> 0..1] : n \in 0..3}}
           e6 == {QmsPart!Analysed(b, e, x, y) : b \in BOOLEAN, e \in QmsPart!Endings,
                                                  x, y \in 0..1}
           e7 == {QmsPart!KitFidelity(b, e, n) : b \in BOOLEAN, e \in QmsPart!Endings, n \in 0..1}
           e8 == {QmsPart!AgentHealth(r, S) : r \in BOOLEAN, 
                      S \in {{}} \cup {{a} : a \in QmsPart!Agents}}
           e9 == {QmsPart!MemoryAwareness(r, m, p) : r, m \in BOOLEAN, p \in QmsPart!Marks}
           e10 == {QmsPart!DocsCoverage(M) : M \in {{}} \cup {{p} : p \in QmsPart!Parts}}
<1>7. QmsPart!Outcomes =
        [c \in QmsChecks |->
                CASE c = "component-tests" -> e1
                     [] c = "doc-compliance" -> e2
                     [] c = "dogfood" -> e3
                     [] c = "ui-audit" -> e4
                     [] c = "metrics" -> e5
                     [] c \in {"code-safety", "asset-logic"} -> e6
                     [] c = "kit-fidelity" -> e7
                     [] c = "agent-health" -> e8
                     [] c = "memory-awareness" -> e9
                     [] c = "docs-coverage" -> e10]
  BY DEF QmsPart!Outcomes, QmsChecks
<1>8. /\ e1 \subseteq QmsPart!Results /\ e2 \subseteq QmsPart!Results
      /\ e3 \subseteq QmsPart!Results /\ e4 \subseteq QmsPart!Results
  BY <1>4
<1>9. /\ e5 \subseteq QmsPart!Results /\ e6 \subseteq QmsPart!Results
      /\ e7 \subseteq QmsPart!Results
  BY <1>5
<1>10. /\ e8 \subseteq QmsPart!Results /\ e9 \subseteq QmsPart!Results
       /\ e10 \subseteq QmsPart!Results
  BY <1>6
<1> HIDE DEF e1, e2, e3, e4, e5, e6, e7, e8, e9, e10
<1>11. ASSUME NEW c \in DOMAIN QmsPart!Outcomes
       PROVE  QmsPart!Outcomes[c] \subseteq QmsPart!Results
  <2>1. c \in QmsChecks
    BY <1>7
  <2>2. QmsPart!Outcomes[c] \in {e1, e2, e3, e4, e5, e6, e7, e8, e9, e10}
    BY <1>7, <2>1 DEF QmsChecks
  <2> QED
    BY <2>2, <1>8, <1>9, <1>10
<1> QED
  BY <1>3, <1>11

(* one more finding of an audit *)
QmsOneMore(l, c, r) == [l EXCEPT !.todo = Tail(@), !.found = Append(@, <<c, r>>)]

LEMMA QmsFound ==
    ASSUME NEW l, QmsPart!ThreadTypeOK(l), NEW c \in QmsPart!CheckNames, NEW r \in QmsPart!Results,
           NEW scan, NEW m,
           m = QmsOneMore(l, c, r) \/ m = [QmsOneMore(l, c, r) EXCEPT !.scan = scan]
    PROVE  QmsPart!ThreadTypeOK(m) /\ m.pc = l.pc /\ m.act = l.act /\ m.rec = l.rec
<1> DEFINE todo == Tail(l.todo)
           found == Append(l.found, <<c, r>>)
<1>1. found \in Seq(QmsPart!CheckFinding)
  <2>1. <<c, r>> \in QmsPart!CheckFinding /\ l.found \in Seq(QmsPart!CheckFinding)
    BY DEF QmsPart!CheckFinding, QmsPart!ThreadTypeOK
  <2> HIDE DEF found
  <2>2. found = Append(l.found, <<c, r>>)
    BY DEF found
  <2> QED
    BY <2>1, <2>2, AppendProperties
<1>2. \/ m = [l EXCEPT !.todo = todo, !.found = found]
      \/ m = [[l EXCEPT !.todo = todo, !.found = found] EXCEPT !.scan = scan]
  BY DEF QmsOneMore
<1> HIDE DEF todo, found
<1>3. /\ DOMAIN m = {"pc", "act", "rec", "from", "todo", "scan", "found", "old", "seen"}
      /\ m.pc = l.pc /\ m.act = l.act /\ m.rec = l.rec /\ m.found = found
  BY <1>2 DEF QmsPart!ThreadTypeOK
<1> QED
  BY <1>1, <1>3 DEF QmsPart!ThreadTypeOK

(* the checks of an audit, and its fails *)
LEMMA QmsCheckSteps ==
    ASSUME QmsPart!Inv, NEW t \in QmsThreads, NEW o,
           \/ QmsPart!CheckOutside(t) \/ QmsPart!CheckScan(t)
           \/ QmsPart!CheckRework(t, o) \/ QmsPart!CheckIssues(t, o)
    PROVE  QmsPart!Inv'
<1>1. QmsPart!ThreadTypeOK(v8[t])
  BY DEF QmsPart!Inv, QmsPart!TypeOK
<1>2. v8[t].pc = "check" /\ UNCHANGED <<v1, v4, v5, v6, v7, v9, v10, v11>>
  BY DEF QmsPart!CheckOutside, QmsPart!CheckScan, QmsPart!CheckRework, QmsPart!CheckIssues,
         QmsPart!NextCheck, QmsPart!CheckOnly, QmsPart!history
<1>3. /\ DOMAIN QmsPart!Outcomes \subseteq QmsPart!CheckNames
      /\ QmsPart!ScanChecks \subseteq QmsPart!CheckNames
      /\ {"rework", "issue-tracking"} \subseteq QmsPart!CheckNames
  BY DEF QmsPart!CheckNames
<1>4. ASSUME NEW c \in QmsPart!CheckNames, NEW r \in QmsPart!Results, NEW scan, NEW l,
             l = QmsOneMore(v8[t], c, r) \/ l = [QmsOneMore(v8[t], c, r) EXCEPT !.scan = scan],
             QmsPart!Same(t, l)
      PROVE  QmsPart!Inv'
  <2>1. QmsPart!ThreadTypeOK(l) /\ l.pc = v8[t].pc /\ l.act = v8[t].act /\ l.rec = v8[t].rec
    BY <1>1, <1>4, QmsFound
  <2>2. v8' = [v8 EXCEPT ![t] = l]
    BY <1>4 DEF QmsPart!Same
  <2> QED
    BY <2>1, <2>2, <1>2, QmsGoesOn
<1>5. CASE QmsPart!CheckOutside(t)
  <2>1. PICK c \in DOMAIN QmsPart!Outcomes :
          \E r \in QmsPart!Outcomes[c] : QmsPart!Same(t, QmsOneMore(v8[t], c, r))
    BY Zenon, <1>5 DEF QmsPart!CheckOutside, QmsPart!Found, QmsOneMore
  <2>2. c \in QmsPart!CheckNames /\ QmsPart!Outcomes[c] \subseteq QmsPart!Results
    BY <1>3, QmsResults
  <2>3. PICK r \in QmsPart!Results : QmsPart!Same(t, QmsOneMore(v8[t], c, r))
    BY <2>1, <2>2
  <2> QED
    BY Zenon, <2>2, <2>3, <1>4
<1>6. CASE QmsPart!CheckScan(t)
  <2>1. \E c \in QmsPart!ScanChecks : \E enabled, before, scan :
          QmsPart!Same(t, [QmsOneMore(v8[t], c, QmsPart!ScanResult(
                             enabled, before, scan, QmsPart!Threshold(c)))
                           EXCEPT !.scan = scan])
    BY Zenon, <1>6 DEF QmsPart!CheckScan, QmsPart!Found, QmsOneMore
  <2>2. PICK c \in QmsPart!CheckNames, r \in QmsPart!Results :
          \E scan : QmsPart!Same(t, [QmsOneMore(v8[t], c, r) EXCEPT !.scan = scan])
    BY Zenon, <2>1, <1>3, QmsResults
  <2> QED
    BY Zenon, <2>2, <1>4
<1>7. CASE QmsPart!CheckRework(t, o)
  <2>1. PICK A :
          LET n == QmsPart!Cardinality(A)
              rate == IF n = 0 THEN 0 ELSE (QmsPart!Sum(A) * 1000) \div n
          IN  QmsPart!Same(t, QmsPart!Found(t, "rework",
                QmsPart!Rework(o # "refused", n, rate, QmsPart!MaxRate)))
    BY <1>7 DEF QmsPart!CheckRework
  <2> DEFINE n == QmsPart!Cardinality(A)
             rate == IF n = 0 THEN 0 ELSE (QmsPart!Sum(A) * 1000) \div n
             r == QmsPart!Rework(o # "refused", n, rate, QmsPart!MaxRate)
  <2>2. QmsPart!Same(t, QmsOneMore(v8[t], "rework", r))
    BY Zenon, <2>1 DEF QmsPart!Found, QmsOneMore
  <2>3. r \in QmsPart!Results /\ "rework" \in QmsPart!CheckNames
    BY <1>3, QmsResults
  <2> HIDE DEF r
  <2>4. PICK l : l = QmsOneMore(v8[t], "rework", r) /\ QmsPart!Same(t, l)
    BY <2>2
  <2> QED
    BY <2>3, <2>4, <1>4
<1>8. CASE QmsPart!CheckIssues(t, o)
  <2>1. PICK S :
          QmsPart!Same(t, QmsOneMore(v8[t], "issue-tracking",
                                     QmsPart!IssueTracking(o # "refused", S)))
    BY Zenon, <1>8 DEF QmsPart!CheckIssues, QmsPart!Found, QmsOneMore
  <2>2. "issue-tracking" \in QmsPart!CheckNames
    BY <1>3
  <2> QED
    BY Zenon, <2>1, <2>2, QmsResults, <1>4
<1> QED
  BY <1>5, <1>6, <1>7, <1>8

LEMMA QmsRecorded ==
    ASSUME NEW t \in QmsThreads, QmsPart!ThreadTypeOK(v8[t]), v8[t].rec \in QmsPart!Kept,
           Len(v8[t].rec.findings) < Len(v8[t].found)
    PROVE  /\ QmsPart!ThreadTypeOK(QmsPart!Recorded(t))
           /\ QmsPart!Recorded(t).pc = "check" /\ QmsPart!Recorded(t).act = v8[t].act
           /\ QmsPart!Recorded(t).rec.id = v8[t].rec.id
           /\ QmsPart!Recorded(t).rec.st = v8[t].rec.st
           /\ QmsPart!Recorded(t).rec.ca = v8[t].rec.ca
           /\ QmsPart!Recorded(t).rec.ev = v8[t].rec.ev
<1> DEFINE f == v8[t].rec.findings
           g == Append(f, QmsPart!Finding(t))
           rec == [v8[t].rec EXCEPT !.findings = g]
           l == QmsPart!Recorded(t)
<1>1. f \in Seq(QmsPart!CheckFinding) /\ v8[t].found \in Seq(QmsPart!CheckFinding)
  BY DEF QmsPart!ThreadTypeOK, QmsPart!Kept
<1>2. g \in Seq(QmsPart!CheckFinding)
  <2> HIDE DEF f
  <2>1. Len(f) \in Nat /\ Len(v8[t].found) \in Nat /\ Len(f) < Len(v8[t].found)
    BY <1>1, LenProperties DEF f
  <2>2. Len(f) + 1 \in 1..Len(v8[t].found)
    BY <2>1
  <2>3. v8[t].found[Len(f) + 1] \in QmsPart!CheckFinding
    BY <1>1, <2>2, ElementOfSeq
  <2>4. QmsPart!Finding(t) \in QmsPart!CheckFinding
    BY <2>3 DEF QmsPart!Finding, f
  <2> QED
    BY <1>1, <2>4, AppendProperties
<1>3. l = [v8[t] EXCEPT !.rec = rec, !.pc = "check"]
  BY DEF QmsPart!Recorded
<1> HIDE DEF g, l
<1>4. /\ rec \in QmsPart!Kept /\ rec.id = v8[t].rec.id /\ rec.st = v8[t].rec.st
      /\ rec.ca = v8[t].rec.ca /\ rec.ev = v8[t].rec.ev
  BY <1>2 DEF QmsPart!Kept
<1> HIDE DEF rec
<1>5. /\ DOMAIN l = {"pc", "act", "rec", "from", "todo", "scan", "found", "old", "seen"}
      /\ l.pc = "check" /\ l.act = v8[t].act /\ l.rec = rec /\ l.found = v8[t].found
  BY <1>3 DEF QmsPart!ThreadTypeOK
<1> QED
  BY <1>4, <1>5 DEF QmsPart!ThreadTypeOK, l

LEMMA QmsIssueSteps ==
    ASSUME QmsPart!Inv, NEW t \in QmsThreads, NEW o,
           QmsPart!IssueGet(t, o) \/ QmsPart!IssueSet(t, o)
    PROVE  QmsPart!Inv'
<1> USE DEF QmsPart!exomind
<1>1. QmsPart!ThreadTypeOK(v8[t]) /\ QmsPart!ThreadShape(v8[t])
  BY DEF QmsPart!Inv, QmsPart!TypeOK, QmsPart!Shape
<1>2. UNCHANGED <<v1, v4, v5, v6, v7, v10, v11>> /\ v9 \subseteq v9'
  BY DEF QmsPart!IssueGet, QmsPart!IssueSet, QmsPart!Doubt
<1>3. /\ v8[t].pc \in {"check", "issue"} /\ v8[t].rec \in QmsPart!Kept
      /\ Len(v8[t].rec.findings) < Len(v8[t].found)
  BY <1>1 DEF QmsPart!IssueGet, QmsPart!IssueSet, QmsPart!Registering, QmsPart!ThreadShape,
              QmsPart!ThreadTypeOK
<1>4. CASE v8' = [v8 EXCEPT ![t] = QmsPart!Recorded(t)]
  BY <1>1, <1>2, <1>3, <1>4, QmsRecorded, QmsGoesOn
<1>5. ASSUME NEW old, v8' = [v8 EXCEPT ![t] = [v8[t] EXCEPT !.pc = "issue", !.old = old]]
      PROVE  QmsPart!Inv'
  <2> DEFINE l == [v8[t] EXCEPT !.pc = "issue", !.old = old]
  <2>1. /\ DOMAIN l = {"pc", "act", "rec", "from", "todo", "scan", "found", "old", "seen"}
        /\ l.pc = "issue" /\ l.act = v8[t].act /\ l.rec = v8[t].rec /\ l.found = v8[t].found
    BY <1>1 DEF QmsPart!ThreadTypeOK
  <2>2. v8' = [v8 EXCEPT ![t] = l]
    BY <1>5
  <2> HIDE DEF l
  <2>3. QmsPart!ThreadTypeOK(l)
    BY <2>1, <1>1 DEF QmsPart!ThreadTypeOK
  <2> QED
    BY <2>1, <2>2, <2>3, <1>2, <1>3, QmsGoesOn
<1> QED
  BY <1>4, <1>5 DEF QmsPart!IssueGet, QmsPart!IssueSet, QmsPart!Same

LEMMA QmsFailsSteps ==
    ASSUME QmsPart!Inv, NEW t \in QmsThreads, NEW o,
           QmsPart!LastFails(t, o) \/ QmsPart!StoreFails(t, o)
    PROVE  QmsPart!Inv'
<1> USE DEF QmsPart!exomind, QmsPart!history
<1>1. QmsPart!ThreadTypeOK(v8[t])
  BY DEF QmsPart!Inv, QmsPart!TypeOK
<1>2. /\ UNCHANGED <<v1, v4, v5, v6, v7, v9, v10, v11>>
      /\ v8[t].pc \in {"fails", "store fails", "history"}
  BY DEF QmsPart!LastFails, QmsPart!StoreFails
<1>3. PICK l :
        /\ v8' = [v8 EXCEPT ![t] = l]
        /\ \/ \E seen : l = [v8[t] EXCEPT !.pc = "store fails", !.seen = seen]
           \/ l = [v8[t] EXCEPT !.pc = "history"]
  BY DEF QmsPart!LastFails, QmsPart!StoreFails, QmsPart!Same
<1>4. /\ DOMAIN l = {"pc", "act", "rec", "from", "todo", "scan", "found", "old", "seen"}
      /\ l.pc \in {"store fails", "history"}
      /\ l.act = v8[t].act /\ l.rec = v8[t].rec /\ l.found = v8[t].found
  BY <1>1, <1>3 DEF QmsPart!ThreadTypeOK
<1>5. QmsPart!ThreadTypeOK(l)
  BY <1>1, <1>4 DEF QmsPart!ThreadTypeOK, QmsPart!Telling
<1> QED
  BY <1>2, <1>3, <1>4, <1>5, QmsGoesOn

(* what is to be shown of the start of a request *)
LEMMA QmsStarts ==
    ASSUME QmsPart!Inv, NEW t \in QmsThreads, NEW l, QmsPart!Begin(t, l), v9 \subseteq v9',
           QmsPart!ThreadTypeOK(l), QmsPart!ThreadShape(l), QmsPart!Sound(l.rec),
           l.pc # "commit",
           \A j \in QmsPart!Ids \ v9' : l.rec.id = j =>
               /\ ~QmsPart!Loading
               /\ QmsPart!Handling(j) = {}
               /\ QmsPart!Stage(t, j)'
    PROVE  QmsPart!Inv'
<1> USE DEF QmsPart!exomind
<1>1. /\ v8' = [v8 EXCEPT ![t] = l] /\ UNCHANGED <<v1, v4, v5, v6, v7, v10, v11>>
      /\ v8[t] = QmsPart!Idle
  BY DEF QmsPart!Begin, QmsPart!Same
<1>2. v8[t].rec.id = NoId /\ NoId \notin QmsPart!Ids /\ v8[t].pc = "idle"
  BY <1>1, QmsIdle, QmsRecords
<1>3. QmsPart!Saved \subseteq QmsPart!Ids
  BY DEF QmsPart!Saved
<1>4. \A j : QmsPart!Handling(j) = {} => \A u \in QmsThreads \ {t} : v8[u].rec.id # j
  BY DEF QmsPart!Handling
<1> QED
  BY <1>1, <1>2, <1>3, <1>4, QmsThreadSteps

(* a new id is one that neither exomind nor the registry has *)
LEMMA QmsMakes ==
    ASSUME QmsPart!Inv, NEW S \in SUBSET v11.new, NEW i, QmsPart!MakeId(S, i)
    PROVE  /\ i \in QmsPart!Ids /\ i \notin QmsPart!Saved /\ QmsPart!Handling(i) = {}
           /\ i \notin v9 /\ ~QmsPart!Loading => QmsPart!Lacks(v5, i)
<1>1. i \in QmsPart!Fresh(S)
  BY DEF QmsPart!MakeId
<1>2. v11 \in QmsScenarios
  BY DEF QmsPart!Inv, QmsPart!TypeOK
<1>3. /\ i \in QmsPart!Ids /\ i \notin QmsPart!Saved /\ QmsPart!Handling(i) = {}
  BY <1>1, <1>2, QmsAssumption DEF QmsPart!Fresh, QmsPart!Ids
<1> QED
  BY <1>3 DEF QmsPart!Inv, QmsPart!Settled, QmsPart!Mirrors

LEMMA QmsMakings ==
    ASSUME QmsPart!Inv, NEW t \in QmsThreads, QmsPart!Create(t) \/ QmsPart!Audit(t)
    PROVE  QmsPart!Inv'
<1>1. PICK i, l :
        /\ \E S \in SUBSET v11.new : QmsPart!MakeId(S, i)
        /\ QmsPart!Begin(t, l)
        /\ DOMAIN l = DOMAIN QmsPart!Idle
        /\ l.pc \in {"check", "save"} /\ l.act \in QmsPart!Making
        /\ l.pc = "check" => l.act = "audit"
        /\ l.rec = QmsPart!NewRecord(i) /\ l.found = QmsPart!Idle.found
        /\ v9 \subseteq v9' /\ (QmsPart!Loading => i \in v9')
  <2>1. ASSUME QmsPart!Create(t)
        PROVE  \E i, l : /\ QmsPart!MakeId(v11.new \ QmsAuditIds, i)
                         /\ QmsPart!Begin(t, l)
                         /\ l = [QmsPart!Idle EXCEPT !.pc = "save", !.act = "create",
                                                     !.rec = QmsPart!NewRecord(i)]
                         /\ v9 \subseteq v9' /\ (QmsPart!Loading => i \in v9')
    BY <2>1 DEF QmsPart!Create, QmsPart!Doubt
  <2>2. ASSUME QmsPart!Audit(t)
        PROVE  \E i, l : /\ QmsPart!MakeId(v11.new \cap QmsAuditIds, i)
                         /\ QmsPart!Begin(t, l)
                         /\ l = [QmsPart!Idle EXCEPT !.pc = "check", !.act = "audit",
                                                     !.rec = QmsPart!NewRecord(i),
                                                     !.todo = v11.program]
                         /\ v9 \subseteq v9' /\ (QmsPart!Loading => i \in v9')
    BY <2>2 DEF QmsPart!Audit, QmsPart!Doubt
  <2>3. DOMAIN QmsPart!Idle = {"pc", "act", "rec", "from", "todo", "scan", "found", "old", "seen"}
    BY QmsIdle DEF QmsPart!ThreadTypeOK
  <2>4. CASE QmsPart!Create(t)
    <3>1. PICK i, l :
            /\ QmsPart!MakeId(v11.new \ QmsAuditIds, i)
            /\ QmsPart!Begin(t, l)
            /\ l = [QmsPart!Idle EXCEPT !.pc = "save", !.act = "create",
                                        !.rec = QmsPart!NewRecord(i)]
            /\ v9 \subseteq v9' /\ (QmsPart!Loading => i \in v9')
      BY <2>1, <2>4
    <3>2. /\ DOMAIN l = DOMAIN QmsPart!Idle
          /\ l.pc = "save" /\ l.act = "create" /\ l.rec = QmsPart!NewRecord(i)
          /\ l.found = QmsPart!Idle.found
      BY <3>1, <2>3
    <3>3. \E S \in SUBSET v11.new : QmsPart!MakeId(S, i)
      <4>1. (v11.new \ QmsAuditIds) \in SUBSET v11.new
        OBVIOUS
      <4> QED
        BY Zenon, <4>1, <3>1
    <3> QED
      BY <3>1, <3>2, <3>3 DEF QmsPart!Making
  <2>5. CASE QmsPart!Audit(t)
    <3>1. PICK i, l :
            /\ QmsPart!MakeId(v11.new \cap QmsAuditIds, i)
            /\ QmsPart!Begin(t, l)
            /\ l = [QmsPart!Idle EXCEPT !.pc = "check", !.act = "audit",
                                        !.rec = QmsPart!NewRecord(i), !.todo = v11.program]
            /\ v9 \subseteq v9' /\ (QmsPart!Loading => i \in v9')
      BY <2>2, <2>5
    <3>2. /\ DOMAIN l = DOMAIN QmsPart!Idle
          /\ l.pc = "check" /\ l.act = "audit" /\ l.rec = QmsPart!NewRecord(i)
          /\ l.found = QmsPart!Idle.found
      BY <3>1, <2>3
    <3>3. \E S \in SUBSET v11.new : QmsPart!MakeId(S, i)
      <4>1. (v11.new \cap QmsAuditIds) \in SUBSET v11.new
        OBVIOUS
      <4> QED
        BY Zenon, <4>1, <3>1
    <3> QED
      BY <3>1, <3>2, <3>3 DEF QmsPart!Making
  <2> QED
    BY <2>4, <2>5
<1>2. /\ i \in QmsPart!Ids /\ i \notin QmsPart!Saved /\ QmsPart!Handling(i) = {}
      /\ i \notin v9 /\ ~QmsPart!Loading => QmsPart!Lacks(v5, i)
  BY <1>1, QmsMakes
<1>3. /\ l.rec \in QmsPart!Kept /\ l.rec.id = i /\ l.rec.st \in {"open", "kept"}
      /\ l.rec # QmsPart!NoRecord
  BY <1>1, <1>2, QmsRecords
<1>4. QmsPart!ThreadTypeOK(l)
  BY <1>1, <1>3, QmsIdle DEF QmsPart!ThreadTypeOK, QmsPart!Making
<1>5. QmsPart!ThreadShape(l)
  BY <1>1, <1>3 DEF QmsPart!ThreadShape, QmsPart!After, QmsPart!Making
<1>6. QmsPart!Sound(l.rec)
  BY <1>3 DEF QmsPart!Sound
<1>7. v8'[t] = l /\ QmsPart!Saved' = QmsPart!Saved /\ v5' = v5
  BY <1>1 DEF QmsPart!Begin, QmsPart!Same, QmsPart!Inv, QmsPart!TypeOK, QmsPart!Saved,
              QmsPart!exomind
<1>8. ASSUME i \notin v9'
      PROVE  ~QmsPart!Loading /\ QmsPart!Handling(i) = {} /\ QmsPart!Stage(t, i)'
  <2>1. ~QmsPart!Loading /\ QmsPart!Lacks(v5, i) /\ QmsPart!Lacks(v5, i)'
    BY <1>8, <1>1, <1>2, <1>7 DEF QmsPart!Lacks
  <2> QED
    BY <2>1, <1>1, <1>2, <1>7
       DEF QmsPart!Stage, QmsPart!Making, QmsPart!After, QmsPart!Telling
<1> QED
  BY <1>1, <1>3, <1>4, <1>5, <1>6, <1>8, QmsStarts

QmsActs == {"analyse", "correct", "verify", "close"}

LEMMA QmsAfter ==
    /\ DOMAIN QmsPart!After = QmsActs
    /\ DOMAIN QmsPart!Before = {"analyse", "correct", "verify"}
    /\ \A a \in QmsActs :
        /\ QmsPart!After[a] \in QmsPart!Statuses
        /\ QmsPart!After[a] = "closed" <=> a = "close"
        /\ a \notin QmsPart!Making /\ a # "audit" /\ a # "none"
  BY DEF QmsPart!After, QmsPart!Before, QmsActs, QmsPart!Statuses, QmsPart!Making

(* a transition that is allowed: what it makes of a record *)
LEMMA QmsMoves ==
    ASSUME NEW r \in QmsPart!Kept, NEW a \in QmsActs, NEW ca \in BOOLEAN, NEW ev \in BOOLEAN,
           QmsPart!Allowed(r, a, ca, ev), NEW s, s = QmsPart!Moved(r, a, ca, ev)
    PROVE  /\ s \in QmsPart!Kept /\ s.id = r.id
           /\ QmsPart!Lifecycle(r, s)
           /\ QmsPart!Sound(r) /\ QmsPart!Known(r) => QmsPart!Sound(s)
<1>1. PICK c \in BOOLEAN, e \in BOOLEAN :
        /\ s = [r EXCEPT !.st = QmsPart!After[a], !.ca = c, !.ev = e]
        /\ (ca => c) /\ (ev => e)
  <2>1. PICK c, e : /\ c = (r.ca \/ ca) /\ e = (r.ev \/ ev)
                    /\ s = [r EXCEPT !.st = QmsPart!After[a], !.ca = c, !.ev = e]
    BY Zenon DEF QmsPart!Moved
  <2>2. c \in BOOLEAN /\ e \in BOOLEAN
    BY Zenon, <2>1
  <2>3. (ca => c) /\ (ev => e)
    BY Zenon, <2>1
  <2> QED
    BY Zenon, <2>1, <2>2, <2>3
<1>2. QmsPart!After[a] \in QmsPart!Statuses
  BY QmsAfter
<1>3. /\ s \in QmsPart!Kept /\ s.id = r.id /\ s.st = QmsPart!After[a] /\ s.ca = c /\ s.ev = e
  BY <1>1, <1>2 DEF QmsPart!Kept
<1>4. CASE a = "close"
  <2>1. s.st = "closed" /\ (r.st = "verify" \/ (ca /\ ev))
    BY <1>3, <1>4, QmsAfter DEF QmsPart!Allowed
  <2>2. r.st = "verify" \/ (s.ca /\ s.ev)
    BY Zenon, <2>1, <1>1, <1>3
  <2>3. QmsPart!Lifecycle(r, s)
    BY Zenon, <2>1, <2>2 DEF QmsPart!Lifecycle
  <2>4. QmsPart!Known(r) => QmsPart!Sound(s)
    BY Zenon, <2>2, <1>3 DEF QmsPart!Sound, QmsPart!Known
  <2> QED
    BY Zenon, <1>3, <2>3, <2>4
<1>5. CASE a # "close"
  <2>1. s.st # "closed" /\ a \in DOMAIN QmsPart!Before /\ r.st = QmsPart!Before[a]
    BY <1>3, <1>5, QmsAfter DEF QmsPart!Allowed, QmsActs
  <2>2. QmsPart!Lifecycle(r, s)
    BY Zenon, <2>1, <1>3 DEF QmsPart!Lifecycle
  <2>3. QmsPart!Sound(s)
    BY Zenon, <2>1 DEF QmsPart!Sound
  <2> QED
    BY Zenon, <1>3, <2>2, <2>3
<1> QED
  BY <1>4, <1>5

LEMMA QmsTransitions ==
    ASSUME QmsPart!Inv, NEW t \in QmsThreads, QmsPart!Transition(t)
    PROVE  QmsPart!Inv'
<1>1. QmsPart!TypeOK /\ QmsPart!Evidence /\ QmsPart!Settled
  BY DEF QmsPart!Inv
<1>2. PICK i \in QmsNcIds, a \in v11.acts, ca \in BOOLEAN, ev \in BOOLEAN :
        /\ QmsPart!Find(i) # 0
        /\ QmsPart!Allowed(v5[QmsPart!Find(i)], a, ca, ev)
        /\ QmsPart!Begin(t, [QmsPart!Idle EXCEPT
               !.pc = "save", !.act = a, !.from = v5[QmsPart!Find(i)].st,
               !.rec = QmsPart!Moved(v5[QmsPart!Find(i)], a, ca, ev)])
        /\ QmsPart!Doubt(IF QmsPart!Raced(t, i) THEN {i} ELSE {})
  BY Zenon DEF QmsPart!Transition
<1> DEFINE k == QmsPart!Find(i)
           r == v5[k]
           s == QmsPart!Moved(r, a, ca, ev)
           l == [QmsPart!Idle EXCEPT !.pc = "save", !.act = a, !.from = r.st, !.rec = s]
<1>3. v5 \in Seq(QmsPart!Kept) /\ i \in QmsPart!Ids /\ a \in QmsActs
  BY <1>1, QmsAssumption DEF QmsPart!TypeOK, QmsPart!Ids, QmsActs
<1>4. k \in DOMAIN v5 /\ r.id = i /\ r \in QmsPart!Kept
  <2>1. k \in DOMAIN v5 /\ r.id = i
    BY <1>2, <1>3, QmsFinds
  <2>2. r \in QmsPart!Kept
    <3> HIDE DEF k
    <3> QED
      BY <1>3, <2>1, ElementOfSeq
  <2> QED
    BY <2>1, <2>2
<1>5. QmsPart!Sound(r) /\ QmsPart!Known(r)
  BY <1>1, <1>4 DEF QmsPart!Evidence
<1>6. /\ QmsPart!Begin(t, l) /\ QmsPart!Allowed(r, a, ca, ev)
      /\ QmsPart!Doubt(IF QmsPart!Raced(t, i) THEN {i} ELSE {})
  BY Zenon, <1>2
<1> HIDE DEF k, r
<1>7. /\ s \in QmsPart!Kept /\ s.id = i /\ QmsPart!Lifecycle(r, s) /\ QmsPart!Sound(s)
  <2>1. s = QmsPart!Moved(r, a, ca, ev)
    OBVIOUS
  <2>2. /\ r \in QmsPart!Kept /\ r.id = i /\ a \in QmsActs /\ ca \in BOOLEAN /\ ev \in BOOLEAN
        /\ QmsPart!Allowed(r, a, ca, ev)
    BY <1>3, <1>4, <1>6
  <2> HIDE DEF s
  <2>3. /\ s \in QmsPart!Kept /\ s.id = r.id /\ QmsPart!Lifecycle(r, s)
        /\ QmsPart!Sound(r) /\ QmsPart!Known(r) => QmsPart!Sound(s)
    BY <2>1, <2>2, QmsMoves
  <2> QED
    BY Zenon, <2>2, <2>3, <1>5
<1> HIDE DEF s
<1>8. /\ DOMAIN l = {"pc", "act", "rec", "from", "todo", "scan", "found", "old", "seen"}
      /\ l.pc = "save" /\ l.act = a /\ l.rec = s /\ l.found = QmsPart!Idle.found
  BY QmsIdle DEF QmsPart!ThreadTypeOK
<1> HIDE DEF l
<1>9. QmsPart!ThreadTypeOK(l)
  BY <1>3, <1>7, <1>8, QmsIdle, QmsAfter DEF QmsPart!ThreadTypeOK
<1>10. QmsPart!ThreadShape(l)
  <2>1. s # QmsPart!NoRecord
    BY <1>7, QmsRecords
  <2> QED
    BY <2>1, <1>2, <1>3, <1>7, <1>8, QmsAfter DEF QmsPart!ThreadShape
<1>11. /\ v8[t] = QmsPart!Idle /\ UNCHANGED <<v1, v5, v7>> /\ v8' = [v8 EXCEPT ![t] = l]
  BY <1>6 DEF QmsPart!Begin, QmsPart!Same, QmsPart!exomind
<1>12. v8'[t] = l /\ QmsPart!Saved' = QmsPart!Saved
  BY <1>1, <1>11 DEF QmsPart!TypeOK, QmsPart!Saved
<1>13. v9' = v9 \cup (IF QmsPart!Raced(t, i) THEN {i} ELSE {})
  BY <1>6 DEF QmsPart!Doubt
<1>14. ASSUME i \notin v9'
       PROVE  ~QmsPart!Loading /\ QmsPart!Handling(i) = {} /\ QmsPart!Stage(t, i)'
  <2>1. ~QmsPart!Raced(t, i) /\ i \notin v9
    BY <1>13, <1>14
  <2>2. ~QmsPart!Loading /\ QmsPart!Handling(i) \ {t} = {}
    BY <2>1 DEF QmsPart!Raced
  <2>3. t \notin QmsPart!Handling(i)
    BY <1>3, <1>11, QmsIdle, QmsRecords DEF QmsPart!Handling
  <2>4. QmsPart!Handling(i) = {}
    BY <2>2, <2>3
  <2>5. QmsPart!Mirrors(v5, i)
    BY <2>1, <2>2, <2>4, <1>1, <1>3 DEF QmsPart!Settled
  <2>6. i \in QmsPart!Saved /\ QmsPart!HasOnly(v5, i, v1[i])
    BY <2>5, <1>4 DEF QmsPart!Mirrors, QmsPart!Lacks, r
  <2>7. r = v1[i]
    BY <2>6, <1>4 DEF QmsPart!HasOnly, r
  <2>8. QmsPart!HasOnly(v5, i, v1[i])'
    BY <2>6, <1>11 DEF QmsPart!HasOnly
  <2>9. QmsPart!Lifecycle(v1'[i], v8'[t].rec)
    BY <2>7, <1>7, <1>8, <1>11, <1>12
  <2> QED
    BY <2>2, <2>4, <2>6, <2>8, <2>9, <1>3, <1>7, <1>8, <1>11, <1>12, QmsAfter
       DEF QmsPart!Stage, QmsPart!Telling
<1> QED
  BY <1>6, <1>7, <1>8, <1>9, <1>10, <1>13, <1>14, QmsStarts

(* the note on a change, and the end of an audit *)
LEMMA QmsNotes ==
    ASSUME QmsPart!Inv, NEW t \in QmsThreads, NEW o,
           QmsPart!Note(t, o) \/ QmsPart!StoreRework(t, o)
    PROVE  QmsPart!Inv'
<1> USE DEF QmsPart!exomind, QmsPart!history
<1>1. QmsPart!TypeOK /\ QmsPart!Shape /\ QmsPart!Evidence /\ QmsPart!Settled
  BY DEF QmsPart!Inv
<1>2. /\ v8[t].pc \in {"note", "history"} /\ UNCHANGED <<v1, v5, v6, v7, v10, v11>>
      /\ v9' = v9
  BY DEF QmsPart!Note, QmsPart!StoreRework
<1>3. QmsPart!ThreadTypeOK(v8[t]) /\ QmsPart!ThreadShape(v8[t])
  BY <1>1 DEF QmsPart!TypeOK, QmsPart!Shape
<1>4. /\ v8[t].rec # QmsPart!NoRecord /\ v8[t].rec \in QmsPart!Kept
  BY <1>2, <1>3 DEF QmsPart!ThreadShape, QmsPart!ThreadTypeOK
<1>5. PICK l : /\ v8' = [v8 EXCEPT ![t] = l]
               /\ \/ l = QmsPart!Idle
                  \/ /\ l = [v8[t] EXCEPT !.pc = "fails"]
                     /\ v8[t].act = "audit"
  BY DEF QmsPart!Note, QmsPart!StoreRework, QmsPart!Same
<1>6. \/ l = QmsPart!Idle
      \/ /\ DOMAIN l = {"pc", "act", "rec", "from", "todo", "scan", "found", "old", "seen"}
         /\ l.pc = "fails" /\ l.act = v8[t].act /\ l.rec = v8[t].rec /\ l.found = v8[t].found
         /\ v8[t].act = "audit"
  BY <1>3, <1>5 DEF QmsPart!ThreadTypeOK
<1>7. QmsPart!ThreadTypeOK(l) /\ QmsPart!ThreadShape(l) /\ l.pc # "commit"
  <2>1. CASE l = QmsPart!Idle
    BY <2>1, QmsIdle
  <2>2. CASE l # QmsPart!Idle
    BY <2>2, <1>3, <1>4, <1>6
       DEF QmsPart!ThreadTypeOK, QmsPart!ThreadShape, QmsPart!Telling, QmsPart!After
  <2> QED
    BY <2>1, <2>2
<1>8. QmsPart!Sound(l.rec)
  <2>1. QmsPart!Sound(QmsPart!Idle.rec)
    BY QmsIdle, QmsRecords DEF QmsPart!Sound
  <2> QED
    BY <2>1, <1>1, <1>6 DEF QmsPart!Evidence
<1>9. QmsPart!Saved' = QmsPart!Saved /\ QmsPart!Saved \subseteq QmsPart!Ids /\ v8'[t] = l
  BY <1>1, <1>2, <1>5 DEF QmsPart!TypeOK, QmsPart!Saved
<1>10. ASSUME NEW j \in QmsPart!Ids \ v9', v8[t].rec.id = j, ~QmsPart!Loading
       PROVE  /\ \A u \in QmsThreads \ {t} : v8[u].rec.id # j
              /\ j \in QmsPart!Saved /\ QmsPart!HasOnly(v5, j, v1[j])
              /\ QmsPart!Stage(t, j)
  <2>1. t \in QmsPart!Handling(j) /\ j \in QmsPart!Ids \ v9
    BY <1>10, <1>2 DEF QmsPart!Handling
  <2>2. QmsPart!Handling(j) = {t} /\ QmsPart!Stage(t, j)
    BY <2>1, <1>10, <1>1 DEF QmsPart!Settled
  <2>3. \A u \in QmsThreads \ {t} : v8[u].rec.id # j
    BY <2>2 DEF QmsPart!Handling
  <2>4. v8[t].pc \in QmsPart!Telling
    BY <1>2 DEF QmsPart!Telling
  <2> QED
    BY <2>2, <2>3, <2>4 DEF QmsPart!Stage
<1>11. ASSUME NEW j \in QmsPart!Ids \ v9', l.rec.id = j
       PROVE  /\ ~QmsPart!Loading
              /\ \A u \in QmsThreads \ {t} : v8[u].rec.id # j
              /\ QmsPart!Stage(t, j)'
  <2>1. l # QmsPart!Idle
    BY <1>11, QmsIdle, QmsRecords
  <2>2. l.rec = v8[t].rec /\ l.pc = "fails"
    BY <2>1, <1>6
  <2>3. ~QmsPart!Loading
    BY <2>2, <1>11, <1>1, <1>2 DEF QmsPart!Settled, QmsPart!Handling
  <2>4. /\ \A u \in QmsThreads \ {t} : v8[u].rec.id # j
        /\ j \in QmsPart!Saved /\ QmsPart!HasOnly(v5, j, v1[j])
    BY <2>2, <2>3, <1>10, <1>11
  <2> QED
    BY <2>2, <2>3, <2>4, <1>2, <1>9 DEF QmsPart!Stage
<1>12. ASSUME NEW j \in QmsPart!Ids \ v9', v8[t].rec.id = j, l.rec.id # j, ~QmsPart!Loading
       PROVE  QmsPart!Mirrors(v5, j)
  BY <1>10, <1>12 DEF QmsPart!Mirrors
<1> QED
  BY <1>2, <1>5, <1>7, <1>8, <1>11, <1>12, QmsThreadSteps

(* a record is as it may be, given the NCs that have been verified *)
QmsFit(q, V) ==
    /\ q.id \in QmsNcIds /\ q.st = "closed" => (q.ca /\ q.ev) \/ q.id \in V
    /\ q.id \in QmsNcIds /\ q.st = "verify" => q.id \in V
QmsSound(q, V) ==
    q.id \in QmsNcIds /\ q.st = "closed" => (q.ca /\ q.ev) \/ q.id \in V

LEMMA QmsFitStays ==
    ASSUME NEW q, NEW V, NEW W, V \subseteq W
    PROVE  /\ QmsFit(q, V) => QmsFit(q, W) /\ QmsSound(q, W)
           /\ QmsSound(q, V) => QmsSound(q, W)
<1>1. q.id \in V => q.id \in W
  OBVIOUS
<1> QED
  BY Zenon, <1>1 DEF QmsFit, QmsSound

LEMMA QmsFits ==
    /\ QmsPart!Evidence <=>
         /\ \A i \in QmsPart!Ids : QmsFit(v1[i], QmsPart!Verified)
         /\ \A k \in DOMAIN v5 : QmsFit(v5[k], QmsPart!Verified)
         /\ \A k \in DOMAIN v7.fresh : QmsFit(v7.fresh[k], QmsPart!Verified)
         /\ \A t \in QmsThreads : /\ QmsSound(v8[t].rec, QmsPart!Verified)
                                  /\ v8[t].pc = "commit" => QmsFit(v8[t].rec, QmsPart!Verified)
    /\ QmsPart!Evidence' <=>
         /\ \A i \in QmsPart!Ids : QmsFit(v1'[i], QmsPart!Verified')
         /\ \A k \in DOMAIN v5' : QmsFit(v5'[k], QmsPart!Verified')
         /\ \A k \in DOMAIN v7'.fresh : QmsFit(v7'.fresh[k], QmsPart!Verified')
         /\ \A t \in QmsThreads : /\ QmsSound(v8'[t].rec, QmsPart!Verified')
                                  /\ v8'[t].pc = "commit" => QmsFit(v8'[t].rec, QmsPart!Verified')
  BY Zenon DEF QmsPart!Evidence, QmsPart!Sound, QmsPart!Known, QmsFit, QmsSound

(* the record a request stores, and the state its thread is in then *)
LEMMA QmsStores ==
    ASSUME QmsPart!Inv, NEW t \in QmsThreads, NEW o, QmsPart!Save(t, o)
    PROVE  \E r \in QmsPart!Kept :
             /\ v8[t].rec \in QmsPart!Kept /\ v8[t].rec.id \in QmsPart!Ids
             /\ r.id = v8[t].rec.id /\ r.st = v8[t].rec.st
             /\ r.ca = v8[t].rec.ca /\ r.ev = v8[t].rec.ev
             /\ v1' = IF QmsPart!Done(o) THEN [v1 EXCEPT ![v8[t].rec.id] = r] ELSE v1
             /\ v10' = IF QmsPart!Done(o)
                       THEN v10 \cup {<<v8[t].rec.id, v1[v8[t].rec.id].st, r.st>>} ELSE v10
             /\ QmsPart!Same(t, QmsPart!Stored(t, o, r))
<1>1. QmsPart!ThreadTypeOK(v8[t]) /\ QmsPart!ThreadShape(v8[t])
  BY DEF QmsPart!Inv, QmsPart!TypeOK, QmsPart!Shape
<1>2. v8[t].pc \in {"save", "check"}
  BY DEF QmsPart!Save, QmsPart!Collected
<1>3. v8[t].rec \in QmsPart!Kept
  BY <1>1, <1>2 DEF QmsPart!ThreadTypeOK, QmsPart!ThreadShape
<1>4. v8[t].rec.id \in QmsPart!Ids
  BY <1>3, QmsRecords
<1> DEFINE n == QmsPart!Cardinality(QmsAuditIds \cap QmsPart!Saved) + 1
           i == v8[t].rec.id
           r == IF i \in QmsAuditIds THEN [v8[t].rec EXCEPT !.at = n] ELSE v8[t].rec
<1>5. n \in Nat
  <2>1. IsFiniteSet(QmsAuditIds \cap QmsPart!Saved)
    BY QmsAssumption, FS_Intersection
  <2>2. Cardinality(QmsAuditIds \cap QmsPart!Saved) \in Nat
    BY <2>1, FS_CardinalityType
  <2> QED
    BY <2>2, QmsCardinality
<1>6. /\ v1' = IF QmsPart!Done(o) THEN [v1 EXCEPT ![i] = r] ELSE v1
      /\ v10' = IF QmsPart!Done(o) THEN v10 \cup {<<i, v1[i].st, r.st>>} ELSE v10
      /\ QmsPart!Same(t, QmsPart!Stored(t, o, r))
  BY Zenon DEF QmsPart!Save
<1> HIDE DEF n
<1>7. /\ r \in QmsPart!Kept /\ r.id = i /\ r.st = v8[t].rec.st
      /\ r.ca = v8[t].rec.ca /\ r.ev = v8[t].rec.ev
  BY <1>3, <1>5 DEF QmsPart!Kept
<1> HIDE DEF r
<1> QED
  BY <1>3, <1>4, <1>6, <1>7

LEMMA QmsSaves ==
    ASSUME QmsPart!Inv, NEW t \in QmsThreads, NEW o, QmsPart!Save(t, o), QmsPart!Done(o)
    PROVE  QmsPart!Inv'
<1>1. QmsPart!TypeOK /\ QmsPart!Shape /\ QmsPart!Evidence /\ QmsPart!Settled
  BY DEF QmsPart!Inv
<1>2. QmsPart!ThreadTypeOK(v8[t]) /\ QmsPart!ThreadShape(v8[t])
  BY <1>1 DEF QmsPart!TypeOK, QmsPart!Shape
<1> DEFINE i == v8[t].rec.id
<1>3. PICK r \in QmsPart!Kept :
        /\ i \in QmsPart!Ids
        /\ r.id = i /\ r.st = v8[t].rec.st /\ r.ca = v8[t].rec.ca /\ r.ev = v8[t].rec.ev
        /\ v1' = [v1 EXCEPT ![i] = r]
        /\ v10' = v10 \cup {<<i, v1[i].st, r.st>>}
        /\ QmsPart!Same(t, QmsPart!Stored(t, o, r))
  <2>1. PICK r \in QmsPart!Kept :
          /\ i \in QmsPart!Ids
          /\ r.id = i /\ r.st = v8[t].rec.st /\ r.ca = v8[t].rec.ca /\ r.ev = v8[t].rec.ev
          /\ v1' = IF QmsPart!Done(o) THEN [v1 EXCEPT ![i] = r] ELSE v1
          /\ v10' = IF QmsPart!Done(o) THEN v10 \cup {<<i, v1[i].st, r.st>>} ELSE v10
          /\ QmsPart!Same(t, QmsPart!Stored(t, o, r))
    BY Zenon, QmsStores
  <2> QED
    BY <2>1
<1>4. /\ v8[t].pc \in {"save", "check"} /\ UNCHANGED <<v4, v5, v6, v7, v11>>
      /\ v9' = v9 \cup (IF o = "lost" \/ QmsPart!Raced(t, i) THEN {i} ELSE {})
  BY <1>3 DEF QmsPart!Save, QmsPart!Collected, QmsPart!Doubt
<1>5. v8[t].act # "none" /\ (v8[t].act \in DOMAIN QmsPart!After => i \in QmsNcIds)
  BY <1>2, <1>3, <1>4 DEF QmsPart!ThreadShape
<1>6. v1' \in [QmsPart!Ids -> QmsPart!Kept \cup {QmsPart!NoRecord}] /\ v1'[i] = r
      /\ \A j \in QmsPart!Ids \ {i} : v1'[j] = v1[j]
  BY <1>1, <1>3 DEF QmsPart!TypeOK
<1>7. QmsPart!Saved' = QmsPart!Saved \cup {i} /\ QmsPart!Saved \subseteq QmsPart!Ids
  BY <1>3, <1>6, QmsRecords DEF QmsPart!Saved
<1>8. PICK l : /\ v8' = [v8 EXCEPT ![t] = l]
               /\ l = IF o = "ok" THEN [v8[t] EXCEPT !.pc = "commit", !.rec = r]
                                  ELSE QmsPart!Idle
  BY <1>3 DEF QmsPart!Same, QmsPart!Stored
<1>9. IF o = "ok"
      THEN /\ DOMAIN l = {"pc", "act", "rec", "from", "todo", "scan", "found", "old", "seen"}
           /\ l.pc = "commit" /\ l.act = v8[t].act /\ l.rec = r /\ l.found = v8[t].found
      ELSE l = QmsPart!Idle
  BY <1>2, <1>8 DEF QmsPart!ThreadTypeOK
<1>10. QmsPart!ThreadTypeOK(l) /\ QmsPart!ThreadShape(l)
  <2>1. CASE o = "ok"
    <3>1. r # QmsPart!NoRecord
      BY QmsRecords
    <3> QED
      BY <3>1, <2>1, <1>2, <1>3, <1>5, <1>9
         DEF QmsPart!ThreadTypeOK, QmsPart!ThreadShape, QmsPart!Telling
  <2>2. CASE o # "ok"
    BY <2>2, <1>9, QmsIdle
  <2> QED
    BY <2>1, <2>2
<1>11. DOMAIN v8' = QmsThreads /\ v8'[t] = l /\ \A u \in QmsThreads \ {t} : v8'[u] = v8[u]
  BY <1>1, <1>8 DEF QmsPart!TypeOK
<1>12. o # "ok" => i \in v9'
  BY <1>4 DEF QmsPart!Save, QmsPart!Outcome, QmsPart!Outcomes3, QmsPart!Done
<1>13. l.rec.id = i \/ l.rec.id = NoId
  BY <1>3, <1>9, QmsIdle, QmsRecords
<1>14. QmsPart!Unread' = QmsPart!Unread /\ (QmsPart!Loading' <=> QmsPart!Loading)
  BY <1>4 DEF QmsPart!Unread, QmsPart!Loading
<1>15. NoId \notin QmsPart!Ids
  BY QmsRecords
<1>16. ASSUME NEW j \in QmsPart!Ids, j # i
       PROVE  /\ QmsPart!Handling(j)' = QmsPart!Handling(j)
              /\ \A u \in QmsPart!Handling(j) : u # t /\ v8'[u] = v8[u]
              /\ j \in QmsPart!Saved' <=> j \in QmsPart!Saved
              /\ v1'[j] = v1[j]
              /\ QmsPart!Mirrors(v5, j)' <=> QmsPart!Mirrors(v5, j)
              /\ QmsPart!Mirrors(v7.fresh, j)' <=> QmsPart!Mirrors(v7.fresh, j)
  <2>1. \A u \in QmsThreads : v8'[u].rec.id = j <=> v8[u].rec.id = j
    BY <1>3, <1>11, <1>13, <1>15, <1>16
  <2>2. QmsPart!Handling(j)' = QmsPart!Handling(j)
    BY <2>1 DEF QmsPart!Handling
  <2>3. \A u \in QmsPart!Handling(j) : u # t /\ v8'[u] = v8[u]
    BY <1>3, <1>11, <1>16 DEF QmsPart!Handling
  <2>4. v1'[j] = v1[j] /\ (j \in QmsPart!Saved' <=> j \in QmsPart!Saved)
    BY <1>6, <1>7, <1>16
  <2> QED
    BY <2>2, <2>3, <2>4, <1>4 DEF QmsPart!Mirrors, QmsPart!HasOnly, QmsPart!Lacks
<1>17. QmsPart!TypeOK'
  <2>1. \A u \in QmsThreads : QmsPart!ThreadTypeOK(v8'[u])
    BY <1>1, <1>10, <1>11 DEF QmsPart!TypeOK
  <2> QED
    BY <2>1, <1>1, <1>4, <1>6, <1>11 DEF QmsPart!TypeOK
<1>18. QmsPart!Shape'
  <2>1. \A u \in QmsThreads : QmsPart!ThreadShape(v8'[u])
    BY <1>1, <1>10, <1>11 DEF QmsPart!Shape
  <2>2. \A j \in QmsPart!Saved' : v1'[j].id = j
    BY <1>1, <1>3, <1>6, <1>7 DEF QmsPart!Shape
  <2> QED
    BY <2>1, <2>2, <1>1, <1>4, <1>7, <1>14 DEF QmsPart!Shape
<1>19. QmsPart!Evidence'
  <2>1. QmsPart!Verified \subseteq QmsPart!Verified' /\ QmsFit(r, QmsPart!Verified')
    <3>1. QmsPart!Sound(v8[t].rec)
      BY <1>1 DEF QmsPart!Evidence
    <3>2. /\ QmsPart!Verified \subseteq QmsPart!Verified'
          /\ r.st = "verify" => r.id \in QmsPart!Verified'
      BY <1>3, QmsGiven
    <3> QED
      BY Zenon, <3>1, <3>2, <1>3 DEF QmsPart!Sound, QmsFit
  <2>2. ASSUME NEW j \in QmsPart!Ids
        PROVE  QmsFit(v1'[j], QmsPart!Verified')
    <3>1. QmsFit(v1[j], QmsPart!Verified)
      BY <1>1, QmsFits
    <3>2. v1'[j] = v1[j] \/ v1'[j] = r
      BY <1>6
    <3> QED
      BY <3>1, <3>2, <2>1, QmsFitStays
  <2>3. ASSUME NEW u \in QmsThreads
        PROVE  /\ QmsSound(v8'[u].rec, QmsPart!Verified')
               /\ v8'[u].pc = "commit" => QmsFit(v8'[u].rec, QmsPart!Verified')
    <3>1. CASE u # t
      <4>1. /\ QmsSound(v8[u].rec, QmsPart!Verified)
            /\ v8[u].pc = "commit" => QmsFit(v8[u].rec, QmsPart!Verified)
        BY <1>1, QmsFits
      <4>2. v8'[u] = v8[u]
        BY <3>1, <1>11
      <4> QED
        BY <4>1, <4>2, <2>1, QmsFitStays
    <3>2. CASE u = t /\ o = "ok"
      <4>1. v8'[u].rec = r
        BY <3>2, <1>9, <1>11
      <4> QED
        BY <4>1, <2>1, QmsFitStays
    <3>3. CASE u = t /\ o # "ok"
      <4>1. v8'[u].rec.st = "none" /\ v8'[u].pc = "idle"
        BY <3>3, <1>9, <1>11, QmsIdle, QmsRecords
      <4> QED
        BY <4>1 DEF QmsSound
    <3> QED
      BY <3>1, <3>2, <3>3
  <2>4. \A k \in DOMAIN v5' : QmsFit(v5'[k], QmsPart!Verified')
    BY <1>1, <1>4, <2>1, QmsFits, QmsFitStays
  <2>5. \A k \in DOMAIN v7'.fresh : QmsFit(v7'.fresh[k], QmsPart!Verified')
    BY <1>1, <1>4, <2>1, QmsFits, QmsFitStays
  <2> QED
    BY <2>2, <2>3, <2>4, <2>5, QmsFits
<1>20. QmsPart!Settled'
  <2> SUFFICES ASSUME NEW j \in QmsPart!Ids, j \notin v9'
               PROVE  (/\ QmsPart!Loading =>
                            /\ QmsPart!Handling(j) = {}
                            /\ IF j \in QmsPart!Unread THEN QmsPart!Lacks(v7.fresh, j)
                                                       ELSE QmsPart!Mirrors(v7.fresh, j)
                       /\ ~QmsPart!Loading =>
                            /\ QmsPart!Handling(j) = {} => QmsPart!Mirrors(v5, j)
                            /\ \A u \in QmsPart!Handling(j) :
                                 QmsPart!Handling(j) = {u} /\ QmsPart!Stage(u, j))'
    BY DEF QmsPart!Settled
  <2>1. j \in QmsPart!Ids \ v9
    BY <1>4
  <2>2. /\ QmsPart!Loading =>
             /\ QmsPart!Handling(j) = {}
             /\ IF j \in QmsPart!Unread THEN QmsPart!Lacks(v7.fresh, j)
                                        ELSE QmsPart!Mirrors(v7.fresh, j)
        /\ ~QmsPart!Loading =>
             /\ QmsPart!Handling(j) = {} => QmsPart!Mirrors(v5, j)
             /\ \A u \in QmsPart!Handling(j) :
                  QmsPart!Handling(j) = {u} /\ QmsPart!Stage(u, j)
    BY <2>1, <1>1 DEF QmsPart!Settled
  <2>3. CASE j # i
    <3>1. \A u \in QmsPart!Handling(j) : QmsPart!Stage(u, j) => QmsPart!Stage(u, j)'
      <4> SUFFICES ASSUME NEW u \in QmsPart!Handling(j), QmsPart!Stage(u, j)
                   PROVE  QmsPart!Stage(u, j)'
        OBVIOUS
      <4>1. v8'[u] = v8[u] /\ v1'[j] = v1[j] /\ (j \in QmsPart!Saved' <=> j \in QmsPart!Saved)
        BY <2>3, <1>16
      <4> QED
        BY <4>1, <1>4 DEF QmsPart!Stage, QmsPart!Lacks, QmsPart!HasOnly
    <3>2. QmsPart!Lacks(v7.fresh, j)' <=> QmsPart!Lacks(v7.fresh, j)
      BY <1>4 DEF QmsPart!Lacks
    <3> QED
      BY <3>1, <3>2, <2>2, <2>3, <1>14, <1>16
  <2>4. CASE j = i
    <3>1. o = "ok" /\ ~QmsPart!Raced(t, i)
      BY <2>4, <1>4, <1>12
    <3>2. t \in QmsPart!Handling(j) /\ QmsPart!Handling(j) \subseteq {t} /\ ~QmsPart!Loading
      BY <2>4, <3>1 DEF QmsPart!Raced, QmsPart!Handling
    <3>3. QmsPart!Stage(t, j)
      BY <3>2, <2>2, <2>4
    <3>4. l.rec = r /\ l.pc = "commit" /\ l.act = v8[t].act
      BY <3>1, <1>9
    <3>5. QmsPart!Handling(j)' = {t}
      BY <2>4, <3>2, <3>4, <1>3, <1>11 DEF QmsPart!Handling
    <3>6. v8[t].act \in QmsPart!Making \cup DOMAIN QmsPart!After
      BY <1>2, <1>5 DEF QmsPart!ThreadTypeOK
    <3>7. v8[t].act \in DOMAIN QmsPart!After => v8[t].pc = "save"
      BY <1>2, <1>4 DEF QmsPart!ThreadShape
    <3>8. /\ v8[t].act \in QmsPart!Making => QmsPart!Lacks(v5, j)
          /\ v8[t].act \in DOMAIN QmsPart!After =>
               \E k \in DOMAIN v5 : QmsPart!HasOnly(v5, j, v5[k])
      BY <3>3, <3>7, <1>4 DEF QmsPart!Stage, QmsPart!HasOnly
    <3>9. QmsPart!Stage(t, j)'
      <4>1. v8'[t] = l /\ v1'[j] = l.rec /\ v5' = v5
        BY <2>4, <3>4, <1>4, <1>6, <1>11
      <4>2. /\ l.act \in QmsPart!Making => QmsPart!Lacks(v5, j)'
            /\ l.act \in DOMAIN QmsPart!After =>
                 (\E k \in DOMAIN v5 : QmsPart!HasOnly(v5, j, v5[k]))'
        BY <3>4, <3>8, <4>1 DEF QmsPart!Lacks, QmsPart!HasOnly
      <4> QED
        BY <3>4, <4>1, <4>2 DEF QmsPart!Stage, QmsPart!Telling
    <3> QED
      BY <2>4, <3>2, <3>5, <3>9, <1>14
  <2> QED
    BY <2>3, <2>4
<1> QED
  BY <1>17, <1>18, <1>19, <1>20 DEF QmsPart!Inv

(* a record that could not be stored *)
LEMMA QmsRefused ==
    ASSUME QmsPart!Inv, NEW t \in QmsThreads, NEW o, QmsPart!Save(t, o), ~QmsPart!Done(o)
    PROVE  QmsPart!Inv'
<1>1. QmsPart!TypeOK /\ QmsPart!Shape /\ QmsPart!Settled
  BY DEF QmsPart!Inv
<1>2. QmsPart!ThreadTypeOK(v8[t]) /\ QmsPart!ThreadShape(v8[t])
  BY <1>1 DEF QmsPart!TypeOK, QmsPart!Shape
<1>3. /\ v8[t].pc \in {"save", "check"} /\ UNCHANGED <<v4, v5, v6, v7, v11>>
      /\ v9 \subseteq v9'
  BY DEF QmsPart!Save, QmsPart!Collected, QmsPart!Doubt
<1>4. PICK r : /\ UNCHANGED <<v1, v10>>
               /\ QmsPart!Same(t, QmsPart!Stored(t, o, r))
  BY QmsStores
<1>5. v8' = [v8 EXCEPT ![t] = QmsPart!Idle]
  BY <1>4 DEF QmsPart!Same, QmsPart!Stored, QmsPart!Done
<1>6. v8[t].act \in QmsPart!Making \cup DOMAIN QmsPart!After
  BY <1>2, <1>3 DEF QmsPart!ThreadTypeOK, QmsPart!ThreadShape
<1>7. v8[t].act \in DOMAIN QmsPart!After => v8[t].pc = "save"
  BY <1>2, <1>3 DEF QmsPart!ThreadShape
<1>8. ASSUME NEW j \in QmsPart!Ids \ v9', v8[t].rec.id = j, ~QmsPart!Loading
      PROVE  QmsPart!Mirrors(v5, j)
  <2>1. t \in QmsPart!Handling(j) /\ j \in QmsPart!Ids \ v9
    BY <1>3, <1>8 DEF QmsPart!Handling
  <2>2. QmsPart!Stage(t, j)
    BY <2>1, <1>1, <1>8 DEF QmsPart!Settled
  <2> QED
    BY <2>2, <1>3, <1>6, <1>7 DEF QmsPart!Stage, QmsPart!Mirrors
<1>9. /\ QmsPart!ThreadTypeOK(QmsPart!Idle) /\ QmsPart!ThreadShape(QmsPart!Idle)
      /\ QmsPart!Idle.pc # "commit" /\ QmsPart!Idle.rec.id = NoId /\ NoId \notin QmsPart!Ids
      /\ QmsPart!Sound(QmsPart!Idle.rec)
  BY QmsIdle, QmsRecords DEF QmsPart!Sound
<1> QED
  BY <1>3, <1>4, <1>5, <1>8, <1>9, QmsThreadSteps

(* what a commit makes of the registry *)
LEMMA QmsRegisters ==
    ASSUME QmsPart!Inv, NEW t \in QmsThreads, QmsPart!Commit(t), NEW i, i = v8[t].rec.id,
           NEW j, NEW x
    PROVE  /\ v5' \in Seq(QmsPart!Kept)
           /\ \A k \in DOMAIN v5' : v5'[k] = v8[t].rec \/ \E m \in DOMAIN v5 : v5'[k] = v5[m]
           /\ j # i /\ QmsPart!Lacks(v5, j) => QmsPart!Lacks(v5', j)
           /\ j # i /\ QmsPart!HasOnly(v5, j, x) => QmsPart!HasOnly(v5', j, x)
           /\ v8[t].act \in QmsPart!Making /\ QmsPart!Lacks(v5, i)
                => QmsPart!HasOnly(v5', i, v8[t].rec)
           /\ v8[t].act \in DOMAIN QmsPart!After /\ (\E k \in DOMAIN v5 : QmsPart!HasOnly(v5, i, v5[k]))
                => QmsPart!HasOnly(v5', i, v8[t].rec)
<1> DEFINE r == v8[t].rec
           k == QmsPart!Find(i)
<1>1. QmsPart!ThreadTypeOK(v8[t]) /\ QmsPart!ThreadShape(v8[t])
  BY DEF QmsPart!Inv, QmsPart!TypeOK, QmsPart!Shape
<1>2. r \in QmsPart!Kept /\ v5 \in Seq(QmsPart!Kept) /\ r.id = i
  BY <1>1 DEF QmsPart!Inv, QmsPart!TypeOK, QmsPart!Commit, QmsPart!ThreadShape, QmsPart!ThreadTypeOK
<1>3. v5' = IF v8[t].act \in DOMAIN QmsPart!After
            THEN IF k = 0 THEN v5 ELSE [v5 EXCEPT ![k] = r]
            ELSE Append(v5, r)
  BY Zenon DEF QmsPart!Commit
<1>4. /\ k = 0 \/ (k \in DOMAIN v5 /\ v5[k].id = i)
      /\ k = 0 => QmsPart!Lacks(v5, i)
  BY <1>2, QmsFinds
<1>5. QmsPart!Making \cap DOMAIN QmsPart!After = {}
  BY QmsAfter
<1> HIDE DEF k, r
<1>6. CASE v8[t].act \notin DOMAIN QmsPart!After
  <2>1. v5' = Append(v5, r)
    BY <1>3, <1>6
  <2>2. /\ v5' \in Seq(QmsPart!Kept) /\ DOMAIN v5' = 1..(Len(v5) + 1)
        /\ v5'[Len(v5) + 1] = r /\ \A m \in 1..Len(v5) : v5'[m] = v5[m]
    BY <2>1, <1>2, QmsAppended
  <2>3. DOMAIN v5 = 1..Len(v5) /\ Len(v5) \in Nat
    BY <1>2, LenProperties
  <2>4. \A m \in DOMAIN v5' : v5'[m] = r \/ \E n \in DOMAIN v5 : v5'[m] = v5[n]
    BY <2>2, <2>3
  <2>5. /\ j # i /\ QmsPart!Lacks(v5, j) => QmsPart!Lacks(v5', j)
        /\ j # i /\ QmsPart!HasOnly(v5, j, x) => QmsPart!HasOnly(v5', j, x)
        /\ QmsPart!Lacks(v5, i) => QmsPart!HasOnly(v5', i, r)
    BY Zenon, <2>1, <1>2, QmsAppendHas
  <2> QED
    BY <2>2, <2>4, <2>5, <1>6 DEF r
<1>7. CASE v8[t].act \in DOMAIN QmsPart!After /\ k = 0
  <2>1. v5' = v5 /\ QmsPart!Lacks(v5, i)
    BY <1>3, <1>4, <1>7
  <2>2. ~ \E m \in DOMAIN v5 : QmsPart!HasOnly(v5, i, v5[m])
    BY <2>1 DEF QmsPart!Lacks, QmsPart!HasOnly
  <2>3. \A m \in DOMAIN v5' : \E n \in DOMAIN v5 : v5'[m] = v5[n]
    BY <2>1
  <2> QED
    BY <2>1, <2>2, <2>3, <1>2, <1>5, <1>7
<1>8. CASE v8[t].act \in DOMAIN QmsPart!After /\ k # 0
  <2>1. v5' = [v5 EXCEPT ![k] = r] /\ k \in DOMAIN v5 /\ v5[k].id = r.id
    BY <1>2, <1>3, <1>4, <1>8
  <2>2. \A y, z : LET s == [v5 EXCEPT ![k] = r]
                  IN  /\ s \in Seq(QmsPart!Kept)
                      /\ DOMAIN s = DOMAIN v5 /\ s[k] = r
                      /\ \A l \in DOMAIN v5 : l # k => s[l] = v5[l]
                      /\ y # r.id /\ QmsPart!Lacks(v5, y) => QmsPart!Lacks(s, y)
                      /\ y # r.id /\ QmsPart!HasOnly(v5, y, z) => QmsPart!HasOnly(s, y, z)
                      /\ QmsPart!HasOnly(v5, r.id, z) => QmsPart!HasOnly(s, r.id, r)
    BY Zenon, <2>1, <1>2, QmsReplaceHas
  <2>3. PICK s : s = v5' /\ s = [v5 EXCEPT ![k] = r]
    BY <2>1
  <2>4. \A y, z : /\ s \in Seq(QmsPart!Kept)
                  /\ DOMAIN s = DOMAIN v5 /\ s[k] = r
                  /\ \A l \in DOMAIN v5 : l # k => s[l] = v5[l]
                  /\ y # r.id /\ QmsPart!Lacks(v5, y) => QmsPart!Lacks(s, y)
                  /\ y # r.id /\ QmsPart!HasOnly(v5, y, z) => QmsPart!HasOnly(s, y, z)
                  /\ QmsPart!HasOnly(v5, r.id, z) => QmsPart!HasOnly(s, r.id, r)
    BY Zenon, <2>2, <2>3
  <2>5. \A m \in DOMAIN s : s[m] = r \/ \E n \in DOMAIN v5 : s[m] = v5[n]
    BY <2>4
  <2>6. /\ j # i /\ QmsPart!Lacks(v5, j) => QmsPart!Lacks(s, j)
        /\ j # i /\ QmsPart!HasOnly(v5, j, x) => QmsPart!HasOnly(s, j, x)
    BY Zenon, <2>4, <1>2
  <2>7. (\E m \in DOMAIN v5 : QmsPart!HasOnly(v5, i, v5[m])) => QmsPart!HasOnly(s, i, r)
    BY Zenon, <2>4, <1>2
  <2>8. s \in Seq(QmsPart!Kept)
    BY Zenon, <2>4
  <2> QED
    BY <2>3, <2>5, <2>6, <2>7, <2>8, <1>5, <1>8 DEF r
<1> QED
  BY <1>6, <1>7, <1>8

LEMMA QmsCommits ==
    ASSUME QmsPart!Inv, NEW t \in QmsThreads, QmsPart!Commit(t)
    PROVE  QmsPart!Inv'
<1> USE DEF QmsPart!exomind, QmsPart!bounds
<1>1. QmsPart!TypeOK /\ QmsPart!Shape /\ QmsPart!Evidence /\ QmsPart!Settled
  BY DEF QmsPart!Inv
<1>2. QmsPart!ThreadTypeOK(v8[t]) /\ QmsPart!ThreadShape(v8[t])
  BY <1>1 DEF QmsPart!TypeOK, QmsPart!Shape
<1>3. PICK i : i = v8[t].rec.id
  OBVIOUS
<1>4. /\ v8[t].pc = "commit" /\ UNCHANGED <<v1, v4, v6, v7, v10, v11>>
      /\ v9' = v9 \cup (IF QmsPart!Raced(t, i) THEN {i} ELSE {})
      /\ QmsPart!Same(t, QmsPart!Committed(t, QmsPart!Find(i)))
  BY <1>3 DEF QmsPart!Commit, QmsPart!Doubt
<1>5. v8[t].rec \in QmsPart!Kept /\ i \in QmsPart!Ids
  BY <1>2, <1>3, <1>4, QmsRecords DEF QmsPart!ThreadTypeOK, QmsPart!ThreadShape
<1>6. PICK l, from :
        /\ v8' = [v8 EXCEPT ![t] = l]
        /\ l = [v8[t] EXCEPT !.pc = "note", !.from = from]
  BY <1>4 DEF QmsPart!Same, QmsPart!Committed
<1>7. /\ DOMAIN l = {"pc", "act", "rec", "from", "todo", "scan", "found", "old", "seen"}
      /\ l.pc = "note" /\ l.act = v8[t].act /\ l.rec = v8[t].rec /\ l.found = v8[t].found
  BY <1>2, <1>6 DEF QmsPart!ThreadTypeOK
<1>8. QmsPart!ThreadTypeOK(l) /\ QmsPart!ThreadShape(l)
  BY <1>2, <1>4, <1>7 DEF QmsPart!ThreadTypeOK, QmsPart!ThreadShape, QmsPart!Telling
<1>9. DOMAIN v8' = QmsThreads /\ v8'[t] = l /\ \A u \in QmsThreads \ {t} : v8'[u] = v8[u]
  BY <1>1, <1>6 DEF QmsPart!TypeOK
<1>10. /\ \A j : QmsPart!Handling(j)' = QmsPart!Handling(j)
       /\ QmsPart!Saved' = QmsPart!Saved /\ QmsPart!Unread' = QmsPart!Unread
       /\ QmsPart!Loading' <=> QmsPart!Loading
  BY <1>4, <1>7, <1>9 DEF QmsPart!Handling, QmsPart!Saved, QmsPart!Unread, QmsPart!Loading
<1>11. /\ v5' \in Seq(QmsPart!Kept)
       /\ \A k \in DOMAIN v5' : v5'[k] = v8[t].rec \/ \E m \in DOMAIN v5 : v5'[k] = v5[m]
  BY <1>3, QmsRegisters
<1>12. /\ \A j : j # i /\ QmsPart!Lacks(v5, j) => QmsPart!Lacks(v5', j)
       /\ \A j, x : j # i /\ QmsPart!HasOnly(v5, j, x) => QmsPart!HasOnly(v5', j, x)
       /\ v8[t].act \in QmsPart!Making /\ QmsPart!Lacks(v5, i)
            => QmsPart!HasOnly(v5', i, v8[t].rec)
       /\ v8[t].act \in DOMAIN QmsPart!After
            /\ (\E k \in DOMAIN v5 : QmsPart!HasOnly(v5, i, v5[k]))
            => QmsPart!HasOnly(v5', i, v8[t].rec)
  BY Zenon, <1>3, QmsRegisters
<1>13. QmsPart!TypeOK'
  <2>1. \A u \in QmsThreads : QmsPart!ThreadTypeOK(v8'[u])
    BY <1>1, <1>8, <1>9 DEF QmsPart!TypeOK
  <2> QED
    BY <2>1, <1>1, <1>4, <1>9, <1>11 DEF QmsPart!TypeOK
<1>14. QmsPart!Shape'
  <2>1. \A u \in QmsThreads : QmsPart!ThreadShape(v8'[u])
    BY <1>1, <1>8, <1>9 DEF QmsPart!Shape
  <2> QED
    BY <2>1, <1>1, <1>4, <1>10 DEF QmsPart!Shape
<1>15. QmsPart!Evidence'
  <2> USE QmsSameChanges
  <2>1. QmsFit(v8[t].rec, QmsPart!Verified) /\ QmsSound(v8[t].rec, QmsPart!Verified)
    BY <1>1, <1>4, QmsFits
  <2>2. \A k \in DOMAIN v5' : QmsFit(v5'[k], QmsPart!Verified')
    BY <2>1, <1>1, <1>4, <1>11, QmsFits
  <2>3. ASSUME NEW u \in QmsThreads
        PROVE  /\ QmsSound(v8'[u].rec, QmsPart!Verified')
               /\ v8'[u].pc = "commit" => QmsFit(v8'[u].rec, QmsPart!Verified')
    <3>1. CASE u = t
      BY <3>1, <2>1, <1>4, <1>7, <1>9
    <3>2. CASE u # t
      BY <3>2, <1>1, <1>4, <1>9, QmsFits
    <3> QED
      BY <3>1, <3>2
  <2>4. \A k \in DOMAIN v7'.fresh : QmsFit(v7'.fresh[k], QmsPart!Verified')
    BY <1>1, <1>4, QmsFits
  <2>5. \A k \in QmsPart!Ids : QmsFit(v1'[k], QmsPart!Verified')
    BY <1>1, <1>4, QmsFits
  <2> QED
    BY <2>2, <2>3, <2>4, <2>5, QmsFits
<1>16. QmsPart!Settled'
  <2> SUFFICES ASSUME NEW j \in QmsPart!Ids, j \notin v9'
               PROVE  (/\ QmsPart!Loading =>
                            /\ QmsPart!Handling(j) = {}
                            /\ IF j \in QmsPart!Unread THEN QmsPart!Lacks(v7.fresh, j)
                                                       ELSE QmsPart!Mirrors(v7.fresh, j)
                       /\ ~QmsPart!Loading =>
                            /\ QmsPart!Handling(j) = {} => QmsPart!Mirrors(v5, j)
                            /\ \A u \in QmsPart!Handling(j) :
                                 QmsPart!Handling(j) = {u} /\ QmsPart!Stage(u, j))'
    BY DEF QmsPart!Settled
  <2>1. j \in QmsPart!Ids \ v9
    BY <1>4
  <2>2. /\ QmsPart!Loading =>
             /\ QmsPart!Handling(j) = {}
             /\ IF j \in QmsPart!Unread THEN QmsPart!Lacks(v7.fresh, j)
                                        ELSE QmsPart!Mirrors(v7.fresh, j)
        /\ ~QmsPart!Loading =>
             /\ QmsPart!Handling(j) = {} => QmsPart!Mirrors(v5, j)
             /\ \A u \in QmsPart!Handling(j) :
                  QmsPart!Handling(j) = {u} /\ QmsPart!Stage(u, j)
    BY <2>1, <1>1 DEF QmsPart!Settled
  <2>3. CASE QmsPart!Loading
    <3>1. /\ QmsPart!Lacks(v7.fresh, j)' <=> QmsPart!Lacks(v7.fresh, j)
          /\ QmsPart!Mirrors(v7.fresh, j)' <=> QmsPart!Mirrors(v7.fresh, j)
      BY <1>4, <1>10 DEF QmsPart!Lacks, QmsPart!HasOnly, QmsPart!Mirrors
    <3> QED
      BY <3>1, <2>2, <2>3, <1>10
  <2>4. CASE ~QmsPart!Loading /\ j # i
    <3>1. t \notin QmsPart!Handling(j)
      BY <2>4, <1>3 DEF QmsPart!Handling
    <3>2. QmsPart!Mirrors(v5, j) => QmsPart!Mirrors(v5, j)'
      BY <2>4, <1>4, <1>10, <1>12 DEF QmsPart!Mirrors
    <3>3. ASSUME NEW u \in QmsPart!Handling(j), QmsPart!Stage(u, j)
          PROVE  QmsPart!Stage(u, j)'
      <4>1. v8'[u] = v8[u] /\ v1'[j] = v1[j]
        BY <3>1, <3>3, <1>4, <1>9 DEF QmsPart!Handling
      <4>2. /\ QmsPart!Lacks(v5, j) => QmsPart!Lacks(v5', j)
            /\ \A x : QmsPart!HasOnly(v5, j, x) => QmsPart!HasOnly(v5', j, x)
        BY <2>4, <1>12
      <4>3. (\E k \in DOMAIN v5 : QmsPart!HasOnly(v5, j, v5[k]))
              => \E k \in DOMAIN v5' : QmsPart!HasOnly(v5', j, v5'[k])
        <5> SUFFICES ASSUME NEW k \in DOMAIN v5, QmsPart!HasOnly(v5, j, v5[k])
                     PROVE  \E m \in DOMAIN v5' : QmsPart!HasOnly(v5', j, v5'[m])
          OBVIOUS
        <5>1. PICK x : x = v5[k]
          OBVIOUS
        <5>2. QmsPart!HasOnly(v5', j, x)
          BY <5>1, <4>2
        <5>3. PICK m \in DOMAIN v5' : v5'[m] = x
          BY <5>2 DEF QmsPart!HasOnly
        <5> QED
          BY <5>2, <5>3
      <4> QED
        BY <3>3, <4>1, <4>2, <4>3, <1>10 DEF QmsPart!Stage
    <3> QED
      BY <2>2, <2>4, <3>2, <3>3, <1>10
  <2>5. CASE ~QmsPart!Loading /\ j = i
    <3>1. t \in QmsPart!Handling(j) /\ QmsPart!Handling(j) = {t} /\ QmsPart!Stage(t, j)
      <4>1. t \in QmsPart!Handling(j)
        BY <2>5, <1>3 DEF QmsPart!Handling
      <4> QED
        BY <4>1, <2>2, <2>5
    <3>2. /\ v1[j] = v8[t].rec
          /\ v8[t].act \in QmsPart!Making => QmsPart!Lacks(v5, j)
          /\ v8[t].act \in DOMAIN QmsPart!After =>
               \E k \in DOMAIN v5 : QmsPart!HasOnly(v5, j, v5[k])
      BY <3>1, <1>4 DEF QmsPart!Stage
    <3>3. v8[t].act \in QmsPart!Making \cup DOMAIN QmsPart!After
      BY <1>2, <1>4 DEF QmsPart!ThreadTypeOK, QmsPart!ThreadShape
    <3>4. QmsPart!HasOnly(v5', j, v8[t].rec)
      BY <2>5, <3>2, <3>3, <1>12
    <3>5. j \in QmsPart!Saved /\ v1' = v1
      BY <3>2, <1>4, <1>5, QmsRecords DEF QmsPart!Saved
    <3>6. QmsPart!Stage(t, j)'
      BY <3>2, <3>4, <3>5, <1>7, <1>9, <1>10 DEF QmsPart!Stage
    <3> QED
      BY <2>5, <3>1, <3>6, <1>10
  <2> QED
    BY <2>3, <2>4, <2>5
<1> QED
  BY <1>13, <1>14, <1>15, <1>16 DEF QmsPart!Inv

QmsOutcomes == {"ok", "refused", "lost"}

LEMMA QmsStep ==
    ASSUME QmsPart!Inv, QmsPart!Next \/ UNCHANGED QmsPart!vars
    PROVE  QmsPart!Inv'
<1>1. CASE UNCHANGED QmsPart!vars
  <2>1. UNCHANGED <<v1, v2, v3, v4, v5, v6, v7, v8, v9, v10, v11>>
    BY <1>1 DEF QmsPart!vars, QmsPart!exomind, QmsPart!history, QmsPart!bounds
  <2>2. QmsPart!TypeOK' /\ QmsPart!Shape'
    BY <2>1 DEF QmsPart!Inv, QmsPart!TypeOK, QmsPart!Shape, QmsPart!Saved, QmsPart!Loading
  <2>3. QmsPart!Evidence'
    BY <2>1, QmsSameChanges DEF QmsPart!Inv, QmsPart!Evidence, QmsPart!Sound, QmsPart!Known
  <2>4. QmsPart!Settled'
    BY <2>1 DEF QmsPart!Inv, QmsPart!Settled, QmsPart!Saved, QmsPart!Loading, QmsPart!Unread,
                QmsPart!Handling, QmsPart!Mirrors, QmsPart!Stage
  <2> QED
    BY <2>2, <2>3, <2>4 DEF QmsPart!Inv
<1>2. ASSUME NEW o \in QmsOutcomes, QmsPart!List(o) \/ QmsPart!Load(o)
      PROVE  QmsPart!Inv'
  BY <1>2, QmsLists, QmsLoads
<1>3. CASE QmsPart!Swap \/ QmsPart!Restart
  BY <1>3, QmsSwaps, QmsRestarts
<1>4. ASSUME NEW t \in QmsThreads, QmsPart!Step(t)
      PROVE  QmsPart!Inv'
  <2>1. CASE QmsPart!Create(t) \/ QmsPart!Audit(t)
    BY <2>1, QmsMakings
  <2>2. CASE QmsPart!Transition(t)
    BY <2>2, QmsTransitions
  <2>3. CASE QmsPart!CheckOutside(t) \/ QmsPart!CheckScan(t)
    BY <2>3, QmsCheckSteps
  <2>4. CASE QmsPart!Commit(t)
    BY <2>4, QmsCommits
  <2>5. ASSUME NEW o \in QmsOutcomes,
               \/ QmsPart!CheckRework(t, o) \/ QmsPart!CheckIssues(t, o)
               \/ QmsPart!IssueGet(t, o) \/ QmsPart!IssueSet(t, o)
               \/ QmsPart!LastFails(t, o) \/ QmsPart!StoreFails(t, o)
        PROVE  QmsPart!Inv'
    BY <2>5, QmsCheckSteps, QmsIssueSteps, QmsFailsSteps
  <2>6. ASSUME NEW o \in QmsOutcomes,
               QmsPart!Save(t, o) \/ QmsPart!Note(t, o) \/ QmsPart!StoreRework(t, o)
        PROVE  QmsPart!Inv'
    BY <2>6, QmsSaves, QmsRefused, QmsNotes
  <2> QED
    BY <1>4, <2>1, <2>2, <2>3, <2>4, <2>5, <2>6 DEF QmsPart!Step, QmsOutcomes
<1> QED
  BY <1>1, <1>2, <1>3, <1>4 DEF QmsPart!Next, QmsOutcomes

(* only storing a record changes exomind, and then as the lifecycle has it *)
LEMMA QmsStoresRight ==
    ASSUME QmsPart!Inv, NEW t \in QmsThreads, NEW o, QmsPart!Save(t, o),
           NEW i \in QmsNcIds, i \notin v9', v1[i] # QmsPart!NoRecord, v1'[i] # v1[i]
    PROVE  QmsPart!Lifecycle(v1[i], v1'[i])
<1>1. QmsPart!TypeOK /\ QmsPart!Shape /\ QmsPart!Settled
  BY DEF QmsPart!Inv
<1>2. i \in QmsPart!Ids /\ i \in QmsPart!Saved
  BY DEF QmsPart!Ids, QmsPart!Saved
<1>3. PICK r \in QmsPart!Kept :
        /\ r.id = v8[t].rec.id /\ r.st = v8[t].rec.st
        /\ r.ca = v8[t].rec.ca /\ r.ev = v8[t].rec.ev
        /\ v1' = IF QmsPart!Done(o) THEN [v1 EXCEPT ![v8[t].rec.id] = r] ELSE v1
  BY Zenon, QmsStores
<1>4. QmsPart!Done(o) /\ v8[t].rec.id = i /\ v1'[i] = r
  BY <1>1, <1>2, <1>3 DEF QmsPart!TypeOK
<1>5. /\ v8[t].pc \in {"save", "check"}
      /\ v9' = v9 \cup (IF o = "lost" \/ QmsPart!Raced(t, i) THEN {i} ELSE {})
  BY <1>4 DEF QmsPart!Save, QmsPart!Collected, QmsPart!Doubt
<1>6. ~QmsPart!Loading /\ t \in QmsPart!Handling(i) /\ i \notin v9
  BY <1>4, <1>5 DEF QmsPart!Raced, QmsPart!Handling
<1>7. QmsPart!Stage(t, i)
  BY <1>1, <1>2, <1>6 DEF QmsPart!Settled
<1>8. QmsPart!ThreadTypeOK(v8[t]) /\ QmsPart!ThreadShape(v8[t])
  BY <1>1 DEF QmsPart!TypeOK, QmsPart!Shape
<1>9. v8[t].act \in DOMAIN QmsPart!After /\ v8[t].pc = "save"
  BY <1>2, <1>5, <1>7, <1>8 DEF QmsPart!ThreadTypeOK, QmsPart!ThreadShape, QmsPart!Stage
<1>10. QmsPart!Lifecycle(v1[i], v8[t].rec)
  BY <1>7, <1>9 DEF QmsPart!Stage
<1> QED
  BY Zenon, <1>3, <1>4, <1>10 DEF QmsPart!Lifecycle

LEMMA QmsActsRight ==
    ASSUME QmsPart!Inv, QmsPart!Next \/ UNCHANGED QmsPart!vars
    PROVE  QmsPart!LifecycleStep
<1>1. UNCHANGED v1 \/ \E t \in QmsThreads, o \in QmsOutcomes : QmsPart!Save(t, o)
  <2>1. CASE UNCHANGED QmsPart!vars
    BY <2>1 DEF QmsPart!vars, QmsPart!exomind
  <2>2. ASSUME NEW o \in QmsOutcomes, QmsPart!List(o) \/ QmsPart!Load(o)
        PROVE  UNCHANGED v1
    BY <2>2 DEF QmsPart!List, QmsPart!Load, QmsPart!exomind
  <2>3. CASE QmsPart!Swap \/ QmsPart!Restart
    BY <2>3 DEF QmsPart!Swap, QmsPart!Restart, QmsPart!exomind
  <2>4. ASSUME NEW t \in QmsThreads, QmsPart!Step(t)
        PROVE  UNCHANGED v1 \/ \E o \in QmsOutcomes : QmsPart!Save(t, o)
    <3>1. CASE QmsPart!Create(t) \/ QmsPart!Transition(t) \/ QmsPart!Audit(t)
      BY <3>1 DEF QmsPart!Create, QmsPart!Transition, QmsPart!Audit, QmsPart!Begin,
                  QmsPart!exomind
    <3>2. CASE QmsPart!CheckOutside(t) \/ QmsPart!CheckScan(t) \/ QmsPart!Commit(t)
      BY <3>2 DEF QmsPart!CheckOutside, QmsPart!CheckScan, QmsPart!Commit,
                  QmsPart!CheckOnly, QmsPart!exomind
    <3>3. ASSUME NEW o \in QmsOutcomes,
                 \/ QmsPart!CheckRework(t, o) \/ QmsPart!CheckIssues(t, o)
                 \/ QmsPart!IssueGet(t, o) \/ QmsPart!IssueSet(t, o)
                 \/ QmsPart!Note(t, o) \/ QmsPart!LastFails(t, o)
                 \/ QmsPart!StoreFails(t, o) \/ QmsPart!StoreRework(t, o)
          PROVE  UNCHANGED v1
      BY <3>3 DEF QmsPart!CheckRework, QmsPart!CheckIssues, QmsPart!IssueGet,
                  QmsPart!IssueSet, QmsPart!Note, QmsPart!LastFails, QmsPart!StoreFails,
                  QmsPart!StoreRework, QmsPart!CheckOnly, QmsPart!exomind
    <3> QED
      BY <2>4, <3>1, <3>2, <3>3 DEF QmsPart!Step, QmsOutcomes
  <2> QED
    BY <2>1, <2>2, <2>3, <2>4 DEF QmsPart!Next, QmsOutcomes
<1> QED
  BY <1>1, QmsStoresRight DEF QmsPart!LifecycleStep

LEMMA QmsHolds ==
    ASSUME QmsPart!Inv
    PROVE  QmsPart!ClosedHasEvidence /\ QmsPart!QuietAgreement
<1>1. QmsPart!TypeOK /\ QmsPart!Shape /\ QmsPart!Evidence /\ QmsPart!Settled
  BY DEF QmsPart!Inv
<1>2. QmsPart!ClosedHasEvidence
  <2> SUFFICES ASSUME NEW i \in QmsNcIds, v1[i].st = "closed"
               PROVE  (v1[i].ca /\ v1[i].ev) \/ i \in QmsPart!Verified
    BY DEF QmsPart!ClosedHasEvidence
  <2>1. i \in QmsPart!Saved /\ i \in QmsPart!Ids
    BY QmsRecords DEF QmsPart!Ids, QmsPart!Saved
  <2>2. v1[i].id = i /\ QmsPart!Sound(v1[i])
    BY <2>1, <1>1 DEF QmsPart!Shape, QmsPart!Evidence
  <2> QED
    BY Zenon, <2>2 DEF QmsPart!Sound
<1>3. QmsPart!QuietAgreement
  <2> SUFFICES ASSUME ~QmsPart!Loading, NEW i \in QmsPart!Ids \ v9, QmsPart!Handling(i) = {}
               PROVE  LET P == {k \in DOMAIN v5 : v5[k].id = i}
                      IN  /\ {k \in DOMAIN v5 : v5[k] = v1[i]} = P
                          /\ QmsPart!Cardinality(P) = IF i \in QmsPart!Saved THEN 1 ELSE 0
    BY DEF QmsPart!QuietAgreement
  <2> DEFINE P == {k \in DOMAIN v5 : v5[k].id = i}
  <2>1. QmsPart!Mirrors(v5, i)
    BY <1>1 DEF QmsPart!Settled
  <2>2. CASE i \in QmsPart!Saved
    <3>1. PICK k \in DOMAIN v5 : v5[k] = v1[i] /\ \A l \in DOMAIN v5 : v5[l].id = i <=> l = k
      BY <2>1, <2>2 DEF QmsPart!Mirrors, QmsPart!HasOnly
    <3>2. P = {k} /\ {m \in DOMAIN v5 : v5[m] = v1[i]} = {k}
      <4>1. v1[i].id = i
        BY <2>2, <1>1 DEF QmsPart!Shape
      <4> QED
        BY <3>1, <4>1
    <3>3. Cardinality(P) = 1
      BY <3>2, FS_Singleton
    <3> QED
      BY <2>2, <3>2, <3>3, QmsCardinality
  <2>3. CASE i \notin QmsPart!Saved
    <3>1. P = {}
      BY <2>1, <2>3 DEF QmsPart!Mirrors, QmsPart!Lacks
    <3>2. v1[i] = QmsPart!NoRecord
      BY <2>3 DEF QmsPart!Saved
    <3>3. \A k \in DOMAIN v5 : v5[k] # v1[i]
      <4>1. v5 \in Seq(QmsPart!Kept)
        BY <1>1 DEF QmsPart!TypeOK
      <4>2. \A k \in DOMAIN v5 : v5[k] \in QmsPart!Kept
        BY <4>1
      <4> QED
        BY <3>2, <4>2, QmsRecords
    <3>4. Cardinality(P) = 0
      BY <3>1, FS_EmptySet
    <3> QED
      BY <2>3, <3>1, <3>3, <3>4, QmsCardinality
  <2> QED
    BY <2>2, <2>3
<1> QED
  BY <1>2, <1>3

-----------------------------------------------------------------------------
(* The note feed *)

(* a change is told of: c is in the trail, with thread t, or among the untold *)
QmsTold(c) ==
    \/ QmsPart!Told(c)
    \/ \E t \in QmsThreads : QmsPart!Teller(t, c)
    \/ <<c[1], c[3]>> \in v14

LEMMA QmsToldAre ==
    /\ QmsPart!TrailComplete <=> \A c \in v10 : QmsTold(c)
    /\ QmsPart!TrailComplete' <=> \A c \in v10' : QmsTold(c)'
  BY Zenon DEF QmsPart!TrailComplete, QmsTold

(***************************************************************************)
(* A step tells of what was told of before it, when what is known stays    *)
(* known and a thread that was about to tell still is, or has, or cannot.  *)
(***************************************************************************)
LEMMA QmsToldStays ==
    ASSUME NEW c, QmsTold(c), v4 \subseteq v4', v14 \subseteq v14',
           \A t \in QmsThreads : QmsPart!Teller(t, c) =>
             QmsPart!Teller(t, c)' \/ QmsPart!Told(c)' \/ <<c[1], c[3]>> \in v14'
    PROVE  QmsTold(c)'
<1>1. QmsPart!Told(c) => QmsPart!Told(c)'
  BY DEF QmsPart!Told
<1> QED
  BY <1>1 DEF QmsTold

(* a step that changes no thread that has stored a record *)
LEMMA QmsTrailSame ==
    ASSUME QmsPart!TrailComplete, v10' = v10, v4 \subseteq v4', v14 \subseteq v14',
           \A t \in QmsThreads :
             v8[t].pc \in {"commit", "note"} =>
               v8'[t].pc \in {"commit", "note"} /\ v8'[t].rec = v8[t].rec
    PROVE  QmsPart!TrailComplete'
<1>1. ASSUME NEW c \in v10, NEW t \in QmsThreads, QmsPart!Teller(t, c)
      PROVE  QmsPart!Teller(t, c)'
  BY <1>1 DEF QmsPart!Teller
<1> QED
  BY <1>1, QmsToldAre, QmsToldStays

(* a thread does a step of its own, and was not about to tell *)
LEMMA QmsTrailAside ==
    ASSUME QmsPart!Inv, QmsPart!TrailComplete, NEW t \in QmsThreads,
           UNCHANGED <<v4, v10, v14>>, v8[t].pc \notin {"commit", "note"},
           NEW l, QmsPart!Same(t, l)
    PROVE  QmsPart!TrailComplete'
<1>1. \A u \in QmsThreads \ {t} : v8'[u] = v8[u]
  BY DEF QmsPart!Inv, QmsPart!TypeOK, QmsPart!Same
<1> QED
  BY <1>1, QmsTrailSame

LEMMA QmsTrailSaves ==
    ASSUME QmsPart!Inv, QmsPart!TrailComplete, NEW t \in QmsThreads,
           NEW o \in QmsOutcomes, QmsPart!Save(t, o)
    PROVE  QmsPart!TrailComplete'
<1>1. PICK r \in QmsPart!Kept :
        /\ r.id = v8[t].rec.id
        /\ v10' = IF QmsPart!Done(o)
                  THEN v10 \cup {<<v8[t].rec.id, v1[v8[t].rec.id].st, r.st>>} ELSE v10
        /\ r.st = v8[t].rec.st
        /\ QmsPart!Same(t, QmsPart!Stored(t, o, r))
  BY QmsStores
<1>2. /\ v4' = v4 /\ v8[t].pc \in {"save", "check"}
      /\ v14' = IF o = "lost" THEN v14 \cup {<<r.id, r.st>>} ELSE v14
  <2>1. v14' = IF o = "lost" THEN v14 \cup {<<v8[t].rec.id, v8[t].rec.st>>} ELSE v14
    <3> DEFINE i == v8[t].rec.id
               n == QmsPart!Cardinality(QmsAuditIds \cap QmsPart!Saved) + 1
               q == IF i \in QmsAuditIds THEN [v8[t].rec EXCEPT !.at = n] ELSE v8[t].rec
    <3>1. v14' = IF o = "lost" THEN v14 \cup {<<i, q.st>>} ELSE v14
      BY Zenon DEF QmsPart!Save
    <3> HIDE DEF n
    <3>2. v8[t].rec \in QmsPart!Kept
      BY QmsStores
    <3>3. q.st = v8[t].rec.st
      BY <3>2 DEF QmsPart!Kept
    <3> QED
      BY <3>1, <3>3
  <2>2. v4' = v4 /\ v8[t].pc \in {"save", "check"}
    BY DEF QmsPart!Save, QmsPart!Collected
  <2> QED
    BY <1>1, <2>1, <2>2
<1>3. \A u \in QmsThreads \ {t} : v8'[u] = v8[u]
  BY <1>1 DEF QmsPart!Inv, QmsPart!TypeOK, QmsPart!Same
<1>4. ASSUME NEW c \in v10
      PROVE  QmsTold(c)'
  <2>1. \A u \in QmsThreads : QmsPart!Teller(u, c) => QmsPart!Teller(u, c)'
    BY <1>2, <1>3 DEF QmsPart!Teller
  <2> QED
    BY <2>1, <1>2, QmsToldAre, QmsToldStays
<1>5. ASSUME NEW c, c = <<v8[t].rec.id, v1[v8[t].rec.id].st, r.st>>, QmsPart!Done(o)
      PROVE  QmsTold(c)'
  <2>1. c[1] = r.id /\ c[3] = r.st
    BY <1>1, <1>5
  <2>2. CASE o = "ok"
    <3>1. v8'[t].pc = "commit" /\ v8'[t].rec = r
      BY <2>2, <1>1 DEF QmsPart!Inv, QmsPart!TypeOK, QmsPart!ThreadTypeOK, QmsPart!Same,
                        QmsPart!Stored
    <3> QED
      BY <3>1, <2>1 DEF QmsTold, QmsPart!Teller
  <2>3. CASE o = "lost"
    <3>1. <<c[1], c[3]>> \in v14'
      BY <2>1, <2>3, <1>2
    <3> QED
      BY <3>1 DEF QmsTold
  <2> QED
    BY <2>2, <2>3, <1>5 DEF QmsPart!Done, QmsOutcomes
<1>6. ASSUME NEW c \in v10'
      PROVE  QmsTold(c)'
  BY <1>1, <1>4, <1>5
<1> QED
  BY <1>6, QmsToldAre

LEMMA QmsTrailNotes ==
    ASSUME QmsPart!Inv, QmsPart!TrailComplete, NEW t \in QmsThreads, NEW o, QmsPart!Note(t, o)
    PROVE  QmsPart!TrailComplete'
<1> DEFINE r == v8[t].rec
<1>1. /\ v10' = v10
      /\ v4' = IF QmsPart!Done(o) THEN v4 \cup {<<r.id, v8[t].from, r.st>>} ELSE v4
      /\ v14' = IF QmsPart!Done(o) THEN v14 ELSE v14 \cup {<<r.id, r.st>>}
  BY DEF QmsPart!Note
<1>2. \A u \in QmsThreads \ {t} : v8'[u] = v8[u]
  BY DEF QmsPart!Inv, QmsPart!TypeOK, QmsPart!Note, QmsPart!Same
<1>3. ASSUME NEW c, c[1] = r.id, c[3] = r.st
      PROVE  QmsPart!Told(c)' \/ <<c[1], c[3]>> \in v14'
  <2>1. CASE QmsPart!Done(o)
    <3>1. PICK n : n = <<r.id, v8[t].from, r.st>>
      OBVIOUS
    <3>2. n \in v4' /\ n[1] = c[1] /\ n[3] = c[3]
      BY <3>1, <2>1, <1>1, <1>3
    <3> QED
      BY <3>2 DEF QmsPart!Told
  <2>2. CASE ~QmsPart!Done(o)
    BY <2>2, <1>1, <1>3
  <2> QED
    BY <2>1, <2>2
<1>4. ASSUME NEW c \in v10, NEW u \in QmsThreads, QmsPart!Teller(u, c)
      PROVE  QmsPart!Teller(u, c)' \/ QmsPart!Told(c)' \/ <<c[1], c[3]>> \in v14'
  <2>1. CASE u = t
    BY <2>1, <1>3, <1>4 DEF QmsPart!Teller
  <2>2. CASE u # t
    BY <2>2, <1>2, <1>4 DEF QmsPart!Teller
  <2> QED
    BY <2>1, <2>2
<1>5. v4 \subseteq v4' /\ v14 \subseteq v14'
  BY <1>1
<1> HIDE DEF r
<1> QED
  BY <1>1, <1>4, <1>5, QmsToldAre, QmsToldStays

LEMMA QmsTrailCommits ==
    ASSUME QmsPart!Inv, QmsPart!TrailComplete, NEW t \in QmsThreads, QmsPart!Commit(t)
    PROVE  QmsPart!TrailComplete'
<1>1. QmsPart!ThreadTypeOK(v8[t]) /\ DOMAIN v8 = QmsThreads
  BY DEF QmsPart!Inv, QmsPart!TypeOK
<1>2. PICK from : v8' = [v8 EXCEPT ![t] = [v8[t] EXCEPT !.pc = "note", !.from = from]]
  BY DEF QmsPart!Commit, QmsPart!Same, QmsPart!Committed
<1>3. /\ v8'[t].pc = "note" /\ v8'[t].rec = v8[t].rec
      /\ \A u \in QmsThreads \ {t} : v8'[u] = v8[u]
  BY <1>1, <1>2 DEF QmsPart!ThreadTypeOK
<1>4. UNCHANGED <<v4, v10, v14>>
  BY DEF QmsPart!Commit, QmsPart!exomind
<1> QED
  BY <1>3, <1>4, QmsTrailSame

LEMMA QmsTrailRestarts ==
    ASSUME QmsPart!Inv, QmsPart!TrailComplete, QmsPart!Restart
    PROVE  QmsPart!TrailComplete'
<1>1. /\ UNCHANGED <<v4, v10>>
      /\ v14' = v14 \cup {<<v8[t].rec.id, v8[t].rec.st>> :
                          t \in {u \in QmsThreads : v8[u].pc \in {"commit", "note"}}}
  BY DEF QmsPart!Restart, QmsPart!exomind
<1>2. ASSUME NEW c \in v10, NEW t \in QmsThreads, QmsPart!Teller(t, c)
      PROVE  <<c[1], c[3]>> \in v14'
  BY <1>1, <1>2 DEF QmsPart!Teller
<1> QED
  BY <1>1, <1>2, QmsToldAre, QmsToldStays

LEMMA QmsTrailKept ==
    ASSUME QmsPart!Inv, QmsPart!TrailComplete, QmsPart!Next \/ UNCHANGED QmsPart!vars
    PROVE  QmsPart!TrailComplete'
<1> USE DEF QmsPart!exomind, QmsPart!history, QmsPart!bounds
<1>1. CASE UNCHANGED QmsPart!vars
  BY <1>1, QmsTrailSame DEF QmsPart!vars
<1>2. ASSUME NEW o, QmsPart!List(o) \/ QmsPart!Load(o)
      PROVE  QmsPart!TrailComplete'
  <2>1. UNCHANGED <<v4, v8, v10, v14>>
    BY <1>2 DEF QmsPart!List, QmsPart!Load
  <2> QED
    BY <2>1, QmsTrailSame
<1>3. CASE QmsPart!Swap
  BY <1>3, QmsTrailSame DEF QmsPart!Swap
<1>4. ASSUME NEW t \in QmsThreads, QmsPart!Step(t)
      PROVE  QmsPart!TrailComplete'
  <2>1. CASE QmsPart!Create(t) \/ QmsPart!Transition(t) \/ QmsPart!Audit(t)
    <3>1. PICK l : QmsPart!Begin(t, l)
      BY <2>1 DEF QmsPart!Create, QmsPart!Transition, QmsPart!Audit
    <3>2. /\ UNCHANGED <<v4, v10, v14>> /\ v8[t].pc = "idle" /\ QmsPart!Same(t, l)
      BY <3>1, QmsIdle DEF QmsPart!Begin
    <3> QED
      BY <3>2, QmsTrailAside
  <2>2. CASE QmsPart!CheckOutside(t) \/ QmsPart!CheckScan(t)
    <3>1. /\ UNCHANGED <<v4, v10, v14>> /\ v8[t].pc = "check"
          /\ \E l : QmsPart!Same(t, l)
      BY <2>2 DEF QmsPart!CheckOutside, QmsPart!CheckScan, QmsPart!NextCheck,
                  QmsPart!CheckOnly
    <3> QED
      BY <3>1, QmsTrailAside
  <2>3. CASE QmsPart!Commit(t)
    BY <2>3, QmsTrailCommits
  <2>4. ASSUME NEW o \in QmsOutcomes, QmsPart!CheckRework(t, o) \/ QmsPart!CheckIssues(t, o)
        PROVE  QmsPart!TrailComplete'
    <3>1. UNCHANGED <<v4, v10, v14>> /\ v8[t].pc = "check"
      BY <2>4 DEF QmsPart!CheckRework, QmsPart!CheckIssues, QmsPart!NextCheck,
                  QmsPart!CheckOnly
    <3>2. \E l : QmsPart!Same(t, l)
      <4>1. CASE QmsPart!CheckRework(t, o)
        <5>1. PICK A :
                LET n == QmsPart!Cardinality(A)
                    rate == IF n = 0 THEN 0 ELSE (QmsPart!Sum(A) * 1000) \div n
                IN  QmsPart!Same(t, QmsPart!Found(t, "rework",
                      QmsPart!Rework(o # "refused", n, rate, QmsPart!MaxRate)))
          BY <4>1 DEF QmsPart!CheckRework
        <5> DEFINE n == QmsPart!Cardinality(A)
                   rate == IF n = 0 THEN 0 ELSE (QmsPart!Sum(A) * 1000) \div n
                   l == QmsPart!Found(t, "rework",
                          QmsPart!Rework(o # "refused", n, rate, QmsPart!MaxRate))
        <5>2. QmsPart!Same(t, l)
          BY <5>1
        <5> HIDE DEF l
        <5> QED
          BY <5>2
      <4>2. CASE QmsPart!CheckIssues(t, o)
        BY Zenon, <4>2 DEF QmsPart!CheckIssues
      <4> QED
        BY <2>4, <4>1, <4>2
    <3> QED
      BY <3>1, <3>2, QmsTrailAside
  <2>5. ASSUME NEW o \in QmsOutcomes, QmsPart!IssueGet(t, o) \/ QmsPart!IssueSet(t, o)
        PROVE  QmsPart!TrailComplete'
    <3>1. /\ UNCHANGED <<v4, v10, v14>> /\ v8[t].pc \in {"check", "issue"}
          /\ \E l : QmsPart!Same(t, l)
      BY <2>5 DEF QmsPart!IssueGet, QmsPart!IssueSet, QmsPart!Registering
    <3> QED
      BY <3>1, QmsTrailAside
  <2>6. ASSUME NEW o \in QmsOutcomes,
               \/ QmsPart!LastFails(t, o) \/ QmsPart!StoreFails(t, o)
               \/ QmsPart!StoreRework(t, o)
        PROVE  QmsPart!TrailComplete'
    <3>1. /\ UNCHANGED <<v4, v10, v14>> /\ v8[t].pc \in {"fails", "store fails", "history"}
          /\ \E l : QmsPart!Same(t, l)
      BY <2>6 DEF QmsPart!LastFails, QmsPart!StoreFails, QmsPart!StoreRework
    <3> QED
      BY <3>1, QmsTrailAside
  <2>7. ASSUME NEW o \in QmsOutcomes, QmsPart!Save(t, o) \/ QmsPart!Note(t, o)
        PROVE  QmsPart!TrailComplete'
    BY <2>7, QmsTrailSaves, QmsTrailNotes
  <2> QED
    BY <1>4, <2>1, <2>2, <2>3, <2>4, <2>5, <2>6, <2>7 DEF QmsPart!Step, QmsOutcomes
<1> QED
  BY <1>1, <1>2, <1>3, <1>4, QmsTrailRestarts DEF QmsPart!Next

-----------------------------------------------------------------------------
(* The theorems *)

(***************************************************************************)
(* The invariant of exoqms: what a request has done of storing a record    *)
(* and committing it, what the reload has read, and that every record of a *)
(* closed NC, in exomind, in the registry or with a request, has its       *)
(* evidence or is one of an NC that was verified.                          *)
(***************************************************************************)
QmsInvariant == part = "qms" => QmsPart!Inv

LEMMA QmsInvariantHolds == Spec => []QmsInvariant
<1>1. Init => QmsInvariant
  BY QmsBegins DEF Init, QmsInvariant
<1>2. QmsInvariant /\ [Next]_vars => QmsInvariant'
  BY QmsStep DEF Next, vars, QmsPart!vars, QmsPart!exomind, QmsPart!history,
                 QmsPart!bounds, QmsInvariant
<1> QED
  BY <1>1, <1>2, PTL DEF Spec

(***************************************************************************)
(* An NC is never closed in exomind without corrective action and evidence *)
(* unless it has been in status verify, whatever requests overlap, replies *)
(* are lost and restarts happen (nc_transition).                           *)
(***************************************************************************)
THEOREM QmsClosedHaveEvidence == Spec => []QmsClosed
<1>1. QmsInvariant => QmsClosed
  BY QmsHolds DEF QmsInvariant, QmsClosed
<1> QED
  BY <1>1, QmsInvariantHolds, PTL

(***************************************************************************)
(* While no request is at work on a record and none was left in doubt, the *)
(* registry has it once and as exomind has it, or neither has it.          *)
(***************************************************************************)
THEOREM QmsRegistryAgrees == Spec => []QmsAgrees
<1>1. QmsInvariant => QmsAgrees
  BY QmsHolds DEF QmsInvariant, QmsAgrees
<1> QED
  BY <1>1, QmsInvariantHolds, PTL

(***************************************************************************)
(* Every status that an NC, an objective or an audit was ever given in     *)
(* exomind is named by a note on it, or will be by the request that stored *)
(* it; unless the note failed, the store's reply was lost or a restart     *)
(* ended the request (exo_persist, exo_note).                              *)
(***************************************************************************)
THEOREM QmsTrailIsComplete == Spec => []QmsTrail
<1>1. Init => QmsTrail
  BY DEF Init, QmsTrail, QmsPart!Init, QmsPart!TrailComplete
<1>2. QmsInvariant /\ QmsTrail /\ [Next]_vars => QmsTrail'
  BY QmsTrailKept DEF Next, vars, QmsPart!vars, QmsPart!exomind, QmsPart!history,
                      QmsPart!bounds, QmsInvariant, QmsTrail
<1> QED
  BY <1>1, <1>2, QmsInvariantHolds, PTL DEF Spec

(***************************************************************************)
(* A step changes the durable status of an NC only as its lifecycle has    *)
(* it, unless a second request on it, a reload or a lost reply came        *)
(* between the check of the transition and its storing (nc_transition).    *)
(***************************************************************************)
THEOREM QmsLifecycleKept == Spec => QmsLifecycle
<1>1. QmsInvariant /\ [Next]_vars => [part = "qms" => QmsPart!LifecycleStep]_vars
  BY QmsActsRight DEF Next, vars, QmsInvariant
<1> QED
  BY <1>1, QmsInvariantHolds, PTL DEF Spec, QmsLifecycle

-----------------------------------------------------------------------------
(* Cycles *)

QmsCycling(F, P) == {p \in F : QmsPart!Mended(QmsPart!Earlier(F, p), QmsPart!Earlier(P, p))}

(* what a result after all others adds to the cycles *)
LEMMA QmsCycles ==
    ASSUME NEW F, NEW P, NEW n, QmsPart!Precedes(n, n) = FALSE,
           \A p \in F \cup P : QmsPart!Precedes(p, n) /\ ~QmsPart!Precedes(n, p)
    PROVE  /\ QmsCycling(F, P \cup {n}) = QmsCycling(F, P)
           /\ QmsCycling(F \cup {n}, P)
                = QmsCycling(F, P) \cup (IF QmsPart!Mended(F, P) THEN {n} ELSE {})
           /\ ~QmsPart!Mended(F \cup {n}, P)
<1>1. \A p \in F : QmsPart!Earlier(P \cup {n}, p) = QmsPart!Earlier(P, p)
                   /\ QmsPart!Earlier(F \cup {n}, p) = QmsPart!Earlier(F, p)
  BY DEF QmsPart!Earlier
<1>2. QmsPart!Earlier(F \cup {n}, n) = F /\ QmsPart!Earlier(P, n) = P
  BY DEF QmsPart!Earlier
<1>3. ~QmsPart!Mended(F \cup {n}, P)
  BY DEF QmsPart!Mended
<1>4. QmsCycling(F, P \cup {n}) = QmsCycling(F, P)
  BY <1>1 DEF QmsCycling
<1>5. n \notin F
  OBVIOUS
<1>6. QmsCycling(F \cup {n}, P)
        = QmsCycling(F, P) \cup (IF QmsPart!Mended(F, P) THEN {n} ELSE {})
  BY <1>1, <1>2, <1>5 DEF QmsCycling
<1> QED
  BY <1>3, <1>4, <1>6

LEMMA QmsFinite ==
    \A S : QmsPart!IsFiniteSet(S) <=> IsFiniteSet(S)
  BY Zenon DEF QmsPart!IsFiniteSet, IsFiniteSet

LEMMA QmsCyclesAre ==
    ASSUME NEW A, NEW c
    PROVE  QmsPart!Cycles(A, c)
             = Cardinality(QmsCycling(QmsPart!Places(A, c, "fail"), QmsPart!Places(A, c, "pass")))
  BY Zenon, QmsCardinality DEF QmsPart!Cycles, QmsCycling

(* an entry that has the cycles of F and P *)
QmsCovers(e, F, P) ==
    /\ IsFiniteSet(F) /\ e \in QmsPart!Issue
    /\ F # {} => e.st # "none"
    /\ Cardinality(QmsCycling(F, P))
         + (IF QmsPart!Mended(F, P) /\ e.st # "closed" THEN 1 ELSE 0) <= e.reopens

LEMMA QmsCoversAre ==
    ASSUME NEW e, NEW A, NEW c
    PROVE  QmsPart!Covers(e, A, c)
             <=> QmsCovers(e, QmsPart!Places(A, c, "fail"), QmsPart!Places(A, c, "pass"))
  BY Zenon, QmsFinite, QmsCyclesAre DEF QmsPart!Covers, QmsCovers

(***************************************************************************)
(* issue_register keeps up with a result that comes after all others, and  *)
(* with the audits without it.                                             *)
(***************************************************************************)
LEMMA QmsCoversMore ==
    ASSUME NEW e, NEW F, NEW P, NEW n, QmsPart!Precedes(n, n) = FALSE,
           \A p \in F \cup P : QmsPart!Precedes(p, n) /\ ~QmsPart!Precedes(n, p),
           QmsCovers(e, F, P)
    PROVE  /\ QmsCovers(QmsPart!Registered(e, TRUE), F \cup {n}, P)
           /\ QmsCovers(QmsPart!Registered(e, FALSE), F, P \cup {n})
           /\ e.st = "none" => QmsCovers(e, F, P \cup {n})
<1> DEFINE C == QmsCycling(F, P)
           k == IF QmsPart!Mended(F, P) THEN 1 ELSE 0
<1>1. IsFiniteSet(F) /\ IsFiniteSet(F \cup {n}) /\ IsFiniteSet(C) /\ Cardinality(C) \in Nat
  <2>1. IsFiniteSet(F)
    BY DEF QmsCovers
  <2>2. C \subseteq F
    BY DEF QmsCycling
  <2> QED
    BY <2>1, <2>2, FS_Subset, FS_AddElement, FS_CardinalityType
<1>2. /\ QmsCycling(F, P \cup {n}) = C
      /\ QmsCycling(F \cup {n}, P) = C \cup (IF QmsPart!Mended(F, P) THEN {n} ELSE {})
      /\ ~QmsPart!Mended(F \cup {n}, P)
  BY QmsCycles
<1> DEFINE D == QmsCycling(F \cup {n}, P)
<1>3. Cardinality(D) \in Nat /\ Cardinality(D) <= Cardinality(C) + k
  <2> HIDE DEF C, D
  <2>1. CASE QmsPart!Mended(F, P)
    <3>1. D = C \cup {n}
      BY <1>2, <2>1 DEF C, D
    <3>2. Cardinality(D) \in {Cardinality(C), Cardinality(C) + 1}
      <4>1. Cardinality(C \cup {n}) = IF n \in C THEN Cardinality(C) ELSE Cardinality(C) + 1
        BY <1>1, FS_AddElement
      <4> QED
        BY <3>1, <4>1
    <3>3. k = 1
      BY <2>1
    <3> QED
      BY <3>2, <3>3, <1>1
  <2>2. CASE ~QmsPart!Mended(F, P)
    <3>1. D = C
      BY <1>2, <2>2 DEF C, D
    <3>2. k = 0
      BY <2>2
    <3> QED
      BY <3>1, <3>2, <1>1
  <2> QED
    BY <2>1, <2>2
<1>0. e \in QmsPart!Issue
  BY DEF QmsCovers
<1>4. /\ e.reopens \in Nat /\ (F # {} => e.st # "none")
      /\ Cardinality(C) + (IF QmsPart!Mended(F, P) /\ e.st # "closed" THEN 1 ELSE 0) <= e.reopens
  BY DEF QmsCovers, QmsPart!Issue
<1>5. QmsCovers(QmsPart!Registered(e, TRUE), F \cup {n}, P)
  <2>1. PICK f : f = QmsPart!Registered(e, TRUE)
    OBVIOUS
  <2>2. /\ f \in QmsPart!Issue /\ f.st = "open"
        /\ f.reopens = e.reopens + (IF e.st = "closed" THEN 1 ELSE 0)
    BY <2>1, <1>0 DEF QmsPart!Registered, QmsPart!Issue
  <2>3. Cardinality(D) <= f.reopens
    <3> HIDE DEF C, D
    <3> QED
      BY <2>2, <1>1, <1>3, <1>4
  <2>4. QmsCovers(f, F \cup {n}, P)
    BY <2>2, <2>3, <1>1, <1>2, <1>3 DEF QmsCovers
  <2> QED
    BY <2>1, <2>4
<1>6. QmsCovers(QmsPart!Registered(e, FALSE), F, P \cup {n})
  <2>1. PICK f : f = QmsPart!Registered(e, FALSE)
    OBVIOUS
  <2>2. f \in QmsPart!Issue /\ f.st = "closed" /\ f.reopens = e.reopens
    BY <2>1, <1>0 DEF QmsPart!Registered, QmsPart!Issue
  <2>3. Cardinality(QmsCycling(F, P \cup {n})) <= f.reopens
    <3>1. Cardinality(C) <= e.reopens
      <4> HIDE DEF C
      <4> QED
        BY <1>1, <1>4
    <3> QED
      BY <2>2, <3>1, <1>2
  <2>4. F # {} => f.st # "none"
    BY <2>2
  <2>5. Cardinality(QmsCycling(F, P \cup {n})) \in Nat
    BY <1>1, <1>2
  <2>6. QmsCovers(f, F, P \cup {n})
    BY <2>2, <2>3, <2>4, <2>5, <1>1 DEF QmsCovers
  <2> QED
    BY <2>1, <2>6
<1>7. ASSUME e.st = "none"
      PROVE  QmsCovers(e, F, P \cup {n})
  <2>1. F = {}
    BY <1>4, <1>7
  <2>2. ~QmsPart!Mended(F, P \cup {n})
    BY <2>1 DEF QmsPart!Mended
  <2> QED
    BY <2>1, <2>2, <1>0, <1>1, <1>2, <1>4 DEF QmsCovers
<1> QED
  BY <1>5, <1>6, <1>7

LEMMA QmsCoversStill ==
    ASSUME NEW e, NEW F, NEW P, QmsCovers(e, F, P)
    PROVE  /\ QmsCovers(QmsPart!Registered(e, TRUE), F, P)
           /\ QmsCovers(QmsPart!Registered(e, FALSE), F, P)
<1> DEFINE C == QmsCycling(F, P)
<1>1. IsFiniteSet(F) /\ Cardinality(C) \in Nat /\ e \in QmsPart!Issue
  <2>1. IsFiniteSet(F) /\ e \in QmsPart!Issue
    BY DEF QmsCovers
  <2>2. C \subseteq F
    BY DEF QmsCycling
  <2> QED
    BY <2>1, <2>2, FS_Subset, FS_CardinalityType
<1>2. PICK f, g : f = QmsPart!Registered(e, TRUE) /\ g = QmsPart!Registered(e, FALSE)
  OBVIOUS
<1>3. /\ f \in QmsPart!Issue /\ f.st = "open"
      /\ f.reopens = e.reopens + (IF e.st = "closed" THEN 1 ELSE 0)
  BY <1>1, <1>2 DEF QmsPart!Registered, QmsPart!Issue
<1>4. /\ g \in QmsPart!Issue /\ g.st = "closed" /\ g.reopens = e.reopens
  BY <1>1, <1>2 DEF QmsPart!Registered, QmsPart!Issue
<1>5. /\ e.reopens \in Nat /\ (F # {} => e.st # "none")
      /\ Cardinality(C) + (IF QmsPart!Mended(F, P) /\ e.st # "closed" THEN 1 ELSE 0) <= e.reopens
  BY DEF QmsCovers, QmsPart!Issue
<1> HIDE DEF C
<1>6. Cardinality(C) + (IF QmsPart!Mended(F, P) THEN 1 ELSE 0) <= f.reopens
      /\ Cardinality(C) <= g.reopens
  BY <1>1, <1>3, <1>4, <1>5
<1>7. QmsCovers(f, F, P) /\ QmsCovers(g, F, P)
  BY <1>1, <1>3, <1>4, <1>6 DEF QmsCovers, C
<1> QED
  BY <1>2, <1>7

-----------------------------------------------------------------------------
(* The places of results *)

QmsWith(A, b) == A \cup {b}
QmsNextPlace(b) == <<b.at, Len(b.findings) + 1>>

LEMMA QmsPlaces ==
    ASSUME NEW A, NEW b \in QmsPart!Kept, NEW f \in QmsPart!CheckFinding, NEW c, NEW r,
           NEW g, g.at = b.at, g.findings = Append(b.findings, f)
    PROVE  QmsPart!Places(QmsWith(A, g), c, r)
             = QmsPart!Places(QmsWith(A, b), c, r)
                 \cup (IF f = <<c, r>> THEN {QmsNextPlace(b)} ELSE {})
<1> DEFINE m == Len(b.findings)
           n == <<b.at, m + 1>>
           In(p, a) == \E i \in DOMAIN a.findings : a.findings[i] = <<c, r>> /\ p = <<a.at, i>>
<1>1. \A B, p : p \in QmsPart!Places(B, c, r) <=> \E a \in B : In(p, a)
  BY DEF QmsPart!Places
<1>2. b.findings \in Seq(QmsPart!CheckFinding)
  BY DEF QmsPart!Kept
<1>3. g.at = b.at /\ g.findings = Append(b.findings, f)
  OBVIOUS
<1>4. /\ DOMAIN b.findings = 1..m /\ m \in Nat
      /\ DOMAIN g.findings = 1..(m + 1)
      /\ g.findings[m + 1] = f
      /\ \A i \in 1..m : g.findings[i] = b.findings[i]
  <2>1. \A q \in Seq(QmsPart!CheckFinding) :
          /\ DOMAIN q = 1..Len(q) /\ Len(q) \in Nat
          /\ Append(q, f) \in Seq(QmsPart!CheckFinding) /\ Len(Append(q, f)) = Len(q) + 1
          /\ \A i \in 1..Len(q) : Append(q, f)[i] = q[i]
          /\ Append(q, f)[Len(q) + 1] = f
    BY AppendProperties, LenProperties
  <2>2. DOMAIN Append(b.findings, f) = 1..(Len(b.findings) + 1)
    BY <2>1, <1>2
  <2> QED
    BY <2>1, <2>2, <1>2, <1>3
<1> HIDE DEF m
<1>5. \A p : In(p, g) <=> In(p, b) \/ (f = <<c, r>> /\ p = n)
  BY <1>3, <1>4
<1> HIDE DEF In
<1>6. \A p : p \in QmsPart!Places(QmsWith(A, g), c, r)
              <=> p \in QmsPart!Places(QmsWith(A, b), c, r) \/ (f = <<c, r>> /\ p = n)
  BY <1>1, <1>5 DEF QmsWith
<1>7. CASE f = <<c, r>>
  BY <1>6, <1>7 DEF m, QmsNextPlace
<1>8. CASE f # <<c, r>>
  BY <1>6, <1>8
<1> QED
  BY <1>7, <1>8

LEMMA QmsComesLast ==
    ASSUME NEW A, NEW b \in QmsPart!Kept, \A a \in A : a \in QmsPart!Kept /\ a.at < b.at,
           NEW c, NEW r, NEW p \in QmsPart!Places(QmsWith(A, b), c, r),
           NEW n, n = QmsNextPlace(b)
    PROVE  QmsPart!Precedes(p, n) /\ ~QmsPart!Precedes(n, p) /\ ~QmsPart!Precedes(n, n)
<1>1. PICK a \in A \cup {b} : \E i \in DOMAIN a.findings : p = <<a.at, i>>
  BY DEF QmsPart!Places, QmsWith
<1>2. PICK i \in DOMAIN a.findings : p = <<a.at, i>>
  BY <1>1
<1>3. /\ a.at \in Nat /\ b.at \in Nat
      /\ a.findings \in Seq(QmsPart!CheckFinding) /\ b.findings \in Seq(QmsPart!CheckFinding)
      /\ a = b \/ a.at < b.at
  BY DEF QmsPart!Kept
<1>4. i \in 1..Len(a.findings) /\ Len(a.findings) \in Nat /\ Len(b.findings) \in Nat
  BY <1>2, <1>3, LenProperties
<1>5. p[1] = a.at /\ p[2] = i /\ n[1] = b.at /\ n[2] = Len(b.findings) + 1
  BY <1>2 DEF QmsNextPlace
<1> QED
  BY <1>3, <1>4, <1>5 DEF QmsPart!Precedes

(* what a registered finding does to the counts of check c *)
LEMMA QmsCountsNext ==
    ASSUME NEW A, NEW b \in QmsPart!Kept, \A a \in A : a \in QmsPart!Kept /\ a.at < b.at,
           NEW f \in QmsPart!CheckFinding, NEW c, NEW e,
           QmsPart!Covers(e, A, c), QmsPart!Covers(e, QmsWith(A, b), c),
           NEW g, g.at = b.at, g.findings = Append(b.findings, f)
    PROVE  /\ f[1] # c => QmsPart!Covers(e, QmsWith(A, g), c)
           /\ f[1] = c =>
                /\ QmsPart!Covers(QmsPart!Registered(e, f[2] = "fail"), A, c)
                /\ QmsPart!Covers(QmsPart!Registered(e, f[2] = "fail"), QmsWith(A, g), c)
           /\ f[2] # "fail" /\ e.st = "none" => QmsPart!Covers(e, QmsWith(A, g), c)
<1> DEFINE F == QmsPart!Places(QmsWith(A, b), c, "fail")
           P == QmsPart!Places(QmsWith(A, b), c, "pass")
           n == QmsNextPlace(b)
           G == QmsPart!Places(QmsWith(A, g), c, "fail")
           Q == QmsPart!Places(QmsWith(A, g), c, "pass")
<1>1. QmsCovers(e, F, P)
  BY QmsCoversAre
<1>2. /\ G = F \cup (IF f = <<c, "fail">> THEN {n} ELSE {})
      /\ Q = P \cup (IF f = <<c, "pass">> THEN {n} ELSE {})
  <2>1. \A r : QmsPart!Places(QmsWith(A, g), c, r)
                = QmsPart!Places(QmsWith(A, b), c, r) \cup (IF f = <<c, r>> THEN {n} ELSE {})
    BY QmsPlaces
  <2> QED
    BY <2>1
<1>3. \A p \in F \cup P : QmsPart!Precedes(p, n) /\ ~QmsPart!Precedes(n, p)
  <2> SUFFICES ASSUME NEW r, NEW p \in QmsPart!Places(QmsWith(A, b), c, r)
               PROVE  QmsPart!Precedes(p, n) /\ ~QmsPart!Precedes(n, p)
    OBVIOUS
  <2> QED
    BY QmsComesLast
<1>4. QmsPart!Precedes(n, n) = FALSE
  <2>1. b.at \in Nat
    BY DEF QmsPart!Kept
  <2>2. Len(b.findings) \in Nat
    BY LenProperties DEF QmsPart!Kept
  <2> QED
    BY <2>1, <2>2 DEF QmsPart!Precedes, QmsNextPlace
<1> HIDE DEF F, P, n, G, Q
<1>5. /\ QmsCovers(QmsPart!Registered(e, TRUE), F \cup {n}, P)
      /\ QmsCovers(QmsPart!Registered(e, FALSE), F, P \cup {n})
      /\ e.st = "none" => QmsCovers(e, F, P \cup {n})
  BY <1>1, <1>3, <1>4, QmsCoversMore
<1>6. /\ f = <<f[1], f[2]>> /\ f[2] \in {"pass", "fail", "skip"}
  BY DEF QmsPart!CheckFinding, QmsPart!Results
<1>7. f[1] # c \/ f[2] = "skip" => G = F /\ Q = P
  BY <1>2, <1>6
<1>8. ASSUME f[1] # c
      PROVE  QmsCovers(e, G, Q)
  BY <1>1, <1>7, <1>8
<1>9. ASSUME f[1] = c
      PROVE  QmsCovers(QmsPart!Registered(e, f[2] = "fail"), G, Q)
  <2>1. CASE f[2] = "fail"
    <3>1. G = F \cup {n} /\ Q = P
      BY <1>2, <1>6, <1>9, <2>1
    <3>2. (f[2] = "fail") = TRUE
      BY <2>1
    <3> QED
      BY <3>1, <3>2, <1>5
  <2>2. CASE f[2] = "pass"
    <3>1. G = F /\ Q = P \cup {n}
      BY <1>2, <1>6, <1>9, <2>2
    <3>2. (f[2] = "fail") = FALSE
      BY <2>2
    <3> QED
      BY <3>1, <3>2, <1>5
  <2>3. CASE f[2] = "skip"
    <3>1. (f[2] = "fail") = FALSE
      BY <2>3
    <3> QED
      BY <3>1, <2>3, <1>1, <1>7, QmsCoversStill
  <2> QED
    BY <2>1, <2>2, <2>3, <1>6
<1>10. ASSUME f[2] # "fail", e.st = "none"
       PROVE  QmsCovers(e, G, Q)
  <2>1. CASE f[1] # c \/ f[2] = "skip"
    BY <2>1, <1>1, <1>7
  <2>2. CASE f[1] = c /\ f[2] = "pass"
    <3>1. G = F /\ Q = P \cup {n}
      BY <1>2, <1>6, <2>2
    <3> QED
      BY <3>1, <1>5, <1>10
  <2> QED
    BY <2>1, <2>2, <1>6, <1>10
<1>11. QmsPart!Covers(QmsPart!Registered(e, f[2] = "fail"), A, c)
  <2>1. (f[2] = "fail") = TRUE \/ (f[2] = "fail") = FALSE
    OBVIOUS
  <2> QED
    BY <2>1, QmsCoversAre, QmsCoversStill
<1> QED
  BY <1>8, <1>9, <1>10, <1>11, QmsCoversAre DEF G, Q

-----------------------------------------------------------------------------
(* The steps *)

QmsAudited == {"check", "issue"}

LEMMA QmsAuditFacts ==
    ASSUME QmsPart!Inv, QmsPart!Counted
    PROVE  /\ QmsPart!Cardinality(QmsAuditIds \cap QmsPart!Saved) \in Nat
           /\ \A a \in QmsPart!Audits :
                /\ a \in QmsPart!Kept
                /\ a.at <= QmsPart!Cardinality(QmsAuditIds \cap QmsPart!Saved)
           /\ \A t \in QmsPart!Auditing :
                /\ v8[t].rec \in QmsPart!Kept
                /\ QmsPart!Coming(t) \in QmsPart!Kept
                /\ QmsPart!Coming(t).at = QmsPart!Cardinality(QmsAuditIds \cap QmsPart!Saved) + 1
                /\ QmsPart!Coming(t).findings = v8[t].rec.findings
                /\ \A a \in QmsPart!Audits : a.at < QmsPart!Coming(t).at
<1> DEFINE n == QmsPart!Cardinality(QmsAuditIds \cap QmsPart!Saved)
<1>1. n \in Nat
  <2>1. IsFiniteSet(QmsAuditIds \cap QmsPart!Saved)
    BY QmsAssumption, FS_Intersection
  <2>2. Cardinality(QmsAuditIds \cap QmsPart!Saved) \in Nat
    BY <2>1, FS_CardinalityType
  <2> QED
    BY <2>2, QmsCardinality
<1>2. \A t \in QmsPart!Auditing : QmsPart!Coming(t) = [v8[t].rec EXCEPT !.at = n + 1]
  BY DEF QmsPart!Coming
<1>3. \A i \in QmsAuditIds \cap QmsPart!Saved : v1[i].at \in 0..n
  BY DEF QmsPart!Counted
<1> HIDE DEF n
<1>4. ASSUME NEW a \in QmsPart!Audits
      PROVE  a \in QmsPart!Kept /\ a.at <= n
  <2>1. PICK i \in QmsAuditIds \cap QmsPart!Saved : a = v1[i]
    BY DEF QmsPart!Audits
  <2>2. v1[i] \in QmsPart!Kept
    BY DEF QmsPart!Inv, QmsPart!TypeOK, QmsPart!Saved
  <2> QED
    BY <2>1, <2>2, <1>1, <1>3
<1>5. ASSUME NEW t \in QmsPart!Auditing
      PROVE  /\ v8[t].rec \in QmsPart!Kept
             /\ QmsPart!Coming(t) \in QmsPart!Kept
             /\ QmsPart!Coming(t).at = n + 1
             /\ QmsPart!Coming(t).findings = v8[t].rec.findings
  <2>1. t \in QmsThreads /\ v8[t].pc \in QmsAudited
    BY DEF QmsPart!Auditing, QmsAudited
  <2>2. v8[t].rec \in QmsPart!Kept
    BY <2>1 DEF QmsPart!Inv, QmsPart!TypeOK, QmsPart!Shape, QmsPart!ThreadTypeOK,
                QmsPart!ThreadShape, QmsAudited
  <2> QED
    BY <2>2, <1>1, <1>2 DEF QmsPart!Kept
<1>6. \A t \in QmsPart!Auditing : \A a \in QmsPart!Audits : a.at < QmsPart!Coming(t).at
  <2> SUFFICES ASSUME NEW t \in QmsPart!Auditing, NEW a \in QmsPart!Audits
               PROVE  a.at < QmsPart!Coming(t).at
    OBVIOUS
  <2>1. a.at \in Nat /\ a.at <= n /\ QmsPart!Coming(t).at = n + 1
    BY <1>4, <1>5 DEF QmsPart!Kept
  <2> QED
    BY <2>1, <1>1
<1> QED
  BY <1>1, <1>4, <1>5, <1>6 DEF n

LEMMA QmsCountsKept ==
    ASSUME QmsPart!Inv, QmsPart!Counted, v2' = v2, v9 \subseteq v9',
           \A i \in QmsAuditIds : v1'[i] = v1[i],
           \A t \in QmsThreads :
             /\ v8'[t].pc \in QmsAudited => v8[t].pc \in QmsAudited /\ v8'[t].rec = v8[t].rec
             /\ v8'[t].pc = "issue" =>
                  v8[t].pc = "issue" /\ v8'[t].found = v8[t].found /\ v8'[t].old = v8[t].old
             /\ v8'[t].rec.id \in QmsAuditIds =>
                  v8'[t].rec.id = v8[t].rec.id /\ (v8'[t].pc = "save" => v8[t].pc = "save")
    PROVE  QmsPart!Counted'
<1>1. QmsAuditIds \cap QmsPart!Saved' = QmsAuditIds \cap QmsPart!Saved
  BY DEF QmsPart!Saved, QmsPart!Ids
<1>2. QmsPart!Audits' = QmsPart!Audits
  BY <1>1 DEF QmsPart!Audits
<1>3. /\ QmsPart!Auditing' \subseteq QmsPart!Auditing
      /\ \A t \in QmsPart!Auditing' :
           /\ t \in QmsThreads /\ v8'[t].pc \in QmsAudited
           /\ v8'[t].rec = v8[t].rec
           /\ QmsPart!Coming(t)' = QmsPart!Coming(t)
  BY <1>1 DEF QmsPart!Auditing, QmsPart!Coming, QmsAudited
<1>4. ASSUME NEW i \in QmsAuditIds \cap QmsPart!Saved'
      PROVE  v1'[i].at \in 0..QmsPart!Cardinality(QmsAuditIds \cap QmsPart!Saved')
  BY <1>1, <1>4 DEF QmsPart!Counted
<1>5. ASSUME NEW t \in QmsThreads, v8'[t].pc = "save"
      PROVE  v8'[t].rec.id \notin QmsAuditIds
  BY <1>5 DEF QmsPart!Counted
<1>6. ASSUME NEW t \in QmsPart!Auditing'
      PROVE  /\ v8'[t].rec.id \in QmsAuditIds \ QmsPart!Saved'
             /\ QmsPart!Handling(v8[t].rec.id)' = {t}
  <2>1. v8[t].rec.id \in QmsAuditIds \ QmsPart!Saved /\ QmsPart!Handling(v8[t].rec.id) = {t}
    BY <1>3, <1>6 DEF QmsPart!Counted
  <2>2. v8'[t].rec.id = v8[t].rec.id /\ v8'[t].rec.id \in QmsAuditIds
    BY <2>1, <1>3, <1>6
  <2>3. \A u \in QmsThreads : v8'[u].rec.id = v8'[t].rec.id => v8[u].rec.id = v8[t].rec.id
    BY <2>2
  <2>4. QmsPart!Handling(v8[t].rec.id)' = {u \in QmsThreads : v8'[u].rec.id = v8'[t].rec.id}
    BY DEF QmsPart!Handling
  <2>5. QmsPart!Handling(v8[t].rec.id) = {u \in QmsThreads : v8[u].rec.id = v8[t].rec.id}
    BY DEF QmsPart!Handling
  <2>6. t \in QmsThreads
    BY <1>3, <1>6
  <2> QED
    BY <2>1, <2>2, <2>3, <2>4, <2>5, <2>6, <1>1
<1>7. ASSUME NEW c \in DOMAIN v2' \ v9'
      PROVE  /\ QmsPart!Covers(v2'[c], QmsPart!Audits', c)
             /\ \A t \in QmsPart!Auditing' :
                  /\ QmsPart!Auditing' = {t}
                  /\ QmsPart!Covers(v2'[c], QmsPart!Audits' \cup {QmsPart!Coming(t)'}, c)
                  /\ v8'[t].pc = "issue" /\ QmsPart!Finding(t)'[1] = c => v8'[t].old = v2'[c]
  <2>1. c \in DOMAIN v2 \ v9
    BY <1>7
  <2>2. QmsPart!Covers(v2'[c], QmsPart!Audits', c)
    BY <2>1, <1>2 DEF QmsPart!Counted
  <2>3. ASSUME NEW t \in QmsPart!Auditing'
        PROVE  /\ QmsPart!Auditing' = {t}
               /\ QmsPart!Covers(v2'[c], QmsPart!Audits' \cup {QmsPart!Coming(t)'}, c)
               /\ v8'[t].pc = "issue" /\ QmsPart!Finding(t)'[1] = c => v8'[t].old = v2'[c]
    <3>1. /\ t \in QmsPart!Auditing /\ QmsPart!Auditing = {t}
          /\ QmsPart!Covers(v2[c], QmsPart!Audits \cup {QmsPart!Coming(t)}, c)
          /\ v8[t].pc = "issue" /\ QmsPart!Finding(t)[1] = c => v8[t].old = v2[c]
      BY <2>1, <2>3, <1>3 DEF QmsPart!Counted
    <3>2. QmsPart!Covers(v2'[c], QmsPart!Audits' \cup {QmsPart!Coming(t)'}, c)
      BY <3>1, <2>3, <1>2, <1>3
    <3>3. ASSUME v8'[t].pc = "issue", QmsPart!Finding(t)'[1] = c
          PROVE  v8'[t].old = v2'[c]
      <4>1. QmsPart!Finding(t)' = QmsPart!Finding(t) /\ v8[t].pc = "issue" /\ v8'[t].old = v8[t].old
        BY <3>3, <2>3, <1>3 DEF QmsPart!Finding
      <4> QED
        BY <4>1, <3>1, <3>3
    <3> QED
      BY <3>1, <3>2, <3>3, <2>3, <1>3
  <2> QED
    BY <2>2, <2>3
<1> QED
  BY <1>4, <1>5, <1>6, <1>7 DEF QmsPart!Counted

LEMMA QmsNothingFound ==
    ASSUME NEW e, NEW A, NEW b, b.findings = <<>>, NEW c, QmsPart!Covers(e, A, c)
    PROVE  QmsPart!Covers(e, A \cup {b}, c)
<1>1. DOMAIN b.findings = {}
  OBVIOUS
<1>2. PICK B : B = A \cup {b}
  OBVIOUS
<1>3. \A r : QmsPart!Places(B, c, r) = QmsPart!Places(A, c, r)
  BY <1>1, <1>2 DEF QmsPart!Places
<1>4. QmsPart!Covers(e, B, c)
  BY <1>3, QmsCoversAre
<1> QED
  BY <1>2, <1>4

LEMMA QmsAuditBegins ==
    ASSUME QmsPart!Inv, QmsPart!Counted, NEW t \in QmsThreads, QmsPart!Audit(t)
    PROVE  QmsPart!Counted'
<1>1. PICK i \in v11.new \cap QmsAuditIds :
        /\ QmsPart!MakeId(v11.new \cap QmsAuditIds, i)
        /\ QmsPart!Begin(t, [QmsPart!Idle EXCEPT !.pc = "check", !.act = "audit",
                                                !.rec = QmsPart!NewRecord(i),
                                                !.todo = v11.program])
        /\ LET other == \E u \in QmsThreads : v8[u].act = "audit" IN
             QmsPart!Doubt((IF other THEN DOMAIN v2 ELSE {})
                           \cup (IF QmsPart!Loading THEN {i} ELSE {}))
  BY Zenon DEF QmsPart!Audit
<1> DEFINE l == [QmsPart!Idle EXCEPT !.pc = "check", !.act = "audit",
                                     !.rec = QmsPart!NewRecord(i), !.todo = v11.program]
<1>2. l.pc = "check" /\ l.rec = QmsPart!NewRecord(i)
  BY QmsIdle DEF QmsPart!ThreadTypeOK
<1>3. /\ v8' = [v8 EXCEPT ![t] = l] /\ v8[t] = QmsPart!Idle /\ v1' = v1 /\ v2' = v2
  BY <1>1 DEF QmsPart!Begin, QmsPart!Same, QmsPart!exomind
<1> HIDE DEF l
<1>4. v8'[t] = l /\ \A u \in QmsThreads \ {t} : v8'[u] = v8[u]
  BY <1>3 DEF QmsPart!Inv, QmsPart!TypeOK
<1>5. /\ i \in QmsAuditIds \ QmsPart!Saved /\ QmsPart!Handling(i) = {}
      /\ i \in QmsPart!Ids
  BY <1>1 DEF QmsPart!MakeId, QmsPart!Fresh, QmsPart!Ids
<1>6. l.rec.id = i /\ l.rec.findings = <<>> /\ l.rec \in QmsPart!Kept
  <2>1. PICK F \in BOOLEAN :
          QmsPart!NoRecord = [id |-> NoId, st |-> "none", ca |-> F, ev |-> F,
                              findings |-> <<>>, at |-> 0]
    BY QmsNoRecord
  <2>2. QmsPart!NewRecord(i).findings = <<>>
    BY <2>1 DEF QmsPart!NewRecord
  <2> QED
    BY <2>2, <1>2, <1>5, QmsRecords
<1>7. v8[t].pc = "idle" /\ v8[t].rec.id = NoId
  BY <1>3, QmsIdle, QmsRecords
<1>8. QmsPart!Saved' = QmsPart!Saved /\ QmsPart!Audits' = QmsPart!Audits
  BY <1>3 DEF QmsPart!Saved, QmsPart!Audits
<1>9. /\ QmsPart!Auditing' = QmsPart!Auditing \cup {t}
      /\ t \notin QmsPart!Auditing
  BY <1>2, <1>4, <1>7 DEF QmsPart!Auditing
<1>10. \A u \in QmsPart!Auditing : u \in QmsThreads /\ v8'[u] = v8[u] /\ v8[u].rec.id # i
  BY <1>4, <1>5, <1>9 DEF QmsPart!Auditing, QmsPart!Handling
<1>11. ASSUME NEW j \in QmsAuditIds \cap QmsPart!Saved'
       PROVE  v1'[j].at \in 0..QmsPart!Cardinality(QmsAuditIds \cap QmsPart!Saved')
  BY <1>3, <1>8, <1>11 DEF QmsPart!Counted
<1>12. ASSUME NEW u \in QmsThreads, v8'[u].pc = "save"
       PROVE  v8'[u].rec.id \notin QmsAuditIds
  BY <1>2, <1>4, <1>12 DEF QmsPart!Counted
<1>13. ASSUME NEW u \in QmsPart!Auditing'
       PROVE  /\ v8'[u].rec.id \in QmsAuditIds \ QmsPart!Saved'
              /\ QmsPart!Handling(v8[u].rec.id)' = {u}
  <2>1. \A j : QmsPart!Handling(j) = {w \in QmsThreads : v8[w].rec.id = j}
    BY DEF QmsPart!Handling
  <2>2. QmsPart!Handling(v8[u].rec.id)' = {w \in QmsThreads : v8'[w].rec.id = v8'[u].rec.id}
    BY DEF QmsPart!Handling
  <2>3. CASE u = t
    BY <2>1, <2>2, <2>3, <1>4, <1>5, <1>6, <1>8
  <2>4. CASE u # t
    <3>1. u \in QmsPart!Auditing
      BY <2>4, <1>9, <1>13
    <3>2. v8[u].rec.id \in QmsAuditIds \ QmsPart!Saved /\ QmsPart!Handling(v8[u].rec.id) = {u}
      BY <3>1 DEF QmsPart!Counted
    <3> QED
      BY <3>1, <3>2, <2>1, <2>2, <1>4, <1>6, <1>8, <1>10
  <2> QED
    BY <2>3, <2>4
<1>14. ASSUME NEW c \in DOMAIN v2' \ v9'
       PROVE  /\ QmsPart!Covers(v2'[c], QmsPart!Audits', c)
              /\ \A u \in QmsPart!Auditing' :
                   /\ QmsPart!Auditing' = {u}
                   /\ QmsPart!Covers(v2'[c], QmsPart!Audits' \cup {QmsPart!Coming(u)'}, c)
                   /\ v8'[u].pc = "issue" /\ QmsPart!Finding(u)'[1] = c => v8'[u].old = v2'[c]
  <2>1. c \in DOMAIN v2 \ v9 /\ ~\E u \in QmsThreads : v8[u].act = "audit"
    BY <1>1, <1>3, <1>14 DEF QmsPart!Doubt
  <2>2. QmsPart!Covers(v2'[c], QmsPart!Audits', c)
    BY <2>1, <1>3, <1>8 DEF QmsPart!Counted
  <2>3. QmsPart!Auditing = {}
    BY <2>1 DEF QmsPart!Auditing, QmsPart!Inv, QmsPart!Shape, QmsPart!ThreadShape
  <2>4. QmsPart!Auditing' = {t}
    BY <2>3, <1>9
  <2>5. QmsPart!Coming(t)'.findings = <<>>
    <3>1. QmsPart!Coming(t)' = [v8'[t].rec EXCEPT !.at =
                                 QmsPart!Cardinality(QmsAuditIds \cap QmsPart!Saved') + 1]
      BY DEF QmsPart!Coming
    <3> QED
      BY <3>1, <1>4, <1>6 DEF QmsPart!Kept
  <2>6. QmsPart!Covers(v2'[c], QmsPart!Audits' \cup {QmsPart!Coming(t)'}, c)
    BY <2>2, <2>5, QmsNothingFound
  <2> QED
    BY <2>2, <2>4, <2>6, <1>2, <1>4
<1> QED
  BY <1>11, <1>12, <1>13, <1>14 DEF QmsPart!Counted

(* storing the record of an audit adds to the audits what was to come *)
LEMMA QmsAuditStores ==
    ASSUME QmsPart!Inv, QmsPart!Counted, NEW t \in QmsThreads, NEW o, QmsPart!Save(t, o),
           QmsPart!Done(o), v8[t].rec.id \in QmsAuditIds
    PROVE  QmsPart!Counted'
<1> DEFINE i == v8[t].rec.id
           n == QmsPart!Cardinality(QmsAuditIds \cap QmsPart!Saved)
           r == QmsPart!Coming(t)
<1>1. t \in QmsPart!Auditing /\ v8[t].pc # "save"
  BY DEF QmsPart!Counted, QmsPart!Save, QmsPart!Collected, QmsPart!Auditing
<1>2. i \in QmsAuditIds \ QmsPart!Saved /\ QmsPart!Handling(i) = {t} /\ i \in QmsPart!Ids
  BY <1>1 DEF QmsPart!Counted, QmsPart!Ids
<1>3. /\ r \in QmsPart!Kept /\ r.at = n + 1 /\ n \in Nat
      /\ v8[t].rec \in QmsPart!Kept
  BY <1>1, QmsAuditFacts
<1>4. /\ v1' = [v1 EXCEPT ![i] = r]
      /\ QmsPart!Same(t, QmsPart!Stored(t, o, r))
      /\ v2' = v2 /\ v9 \subseteq v9'
  <2>1. /\ LET q == IF i \in QmsAuditIds
                    THEN [v8[t].rec EXCEPT !.at = n + 1] ELSE v8[t].rec
           IN  /\ v1' = IF QmsPart!Done(o) THEN [v1 EXCEPT ![i] = q] ELSE v1
               /\ QmsPart!Same(t, QmsPart!Stored(t, o, q))
        /\ v2' = v2 /\ v9 \subseteq v9'
    BY DEF QmsPart!Save, QmsPart!Doubt
  <2>2. r = [v8[t].rec EXCEPT !.at = n + 1]
    BY DEF QmsPart!Coming
  <2> QED
    BY Zenon, <2>1, <2>2, <1>2
<1> HIDE DEF r, n
<1>5. v1'[i] = r /\ \A j \in QmsPart!Ids \ {i} : v1'[j] = v1[j]
  BY <1>2, <1>4 DEF QmsPart!Inv, QmsPart!TypeOK
<1>6. QmsPart!Saved' = QmsPart!Saved \cup {i}
  BY <1>2, <1>3, <1>5, QmsRecords DEF QmsPart!Saved
<1>7. QmsAuditIds \subseteq QmsPart!Ids
  BY DEF QmsPart!Ids
<1>8. QmsPart!Audits' = QmsPart!Audits \cup {r}
  BY <1>2, <1>5, <1>6, <1>7 DEF QmsPart!Audits
<1>9. QmsPart!Cardinality(QmsAuditIds \cap QmsPart!Saved') = n + 1
  <2>1. IsFiniteSet(QmsAuditIds \cap QmsPart!Saved)
    BY QmsAssumption, FS_Intersection
  <2>2. QmsAuditIds \cap QmsPart!Saved' = (QmsAuditIds \cap QmsPart!Saved) \cup {i}
    BY <1>2, <1>6
  <2>3. i \notin QmsAuditIds \cap QmsPart!Saved
    BY <1>2
  <2>4. Cardinality((QmsAuditIds \cap QmsPart!Saved) \cup {i})
          = Cardinality(QmsAuditIds \cap QmsPart!Saved) + 1
    BY <2>1, <2>3, FS_AddElement
  <2> QED
    BY <2>2, <2>4, QmsCardinality DEF n
<1>10. PICK l : /\ v8' = [v8 EXCEPT ![t] = l] /\ l.pc \in {"commit", "idle"}
  <2>1. v8' = [v8 EXCEPT ![t] = QmsPart!Stored(t, o, r)]
    BY <1>4 DEF QmsPart!Same
  <2>2. QmsPart!Stored(t, o, r).pc \in {"commit", "idle"}
    BY QmsIdle DEF QmsPart!Stored, QmsPart!Inv, QmsPart!TypeOK, QmsPart!ThreadTypeOK
  <2> QED
    BY <2>1, <2>2
<1>11. v8'[t] = l /\ \A u \in QmsThreads \ {t} : v8'[u] = v8[u]
  BY <1>10 DEF QmsPart!Inv, QmsPart!TypeOK
<1>12. QmsPart!Auditing' = QmsPart!Auditing \ {t}
  BY <1>10, <1>11 DEF QmsPart!Auditing
<1>13. ASSUME NEW j \in QmsAuditIds \cap QmsPart!Saved'
       PROVE  v1'[j].at \in 0..QmsPart!Cardinality(QmsAuditIds \cap QmsPart!Saved')
  <2>1. CASE j = i
    BY <2>1, <1>3, <1>5, <1>9
  <2>2. CASE j # i
    <3>1. v1'[j] = v1[j] /\ v1[j].at \in 0..n
      BY <2>2, <1>5, <1>6, <1>7, <1>13 DEF QmsPart!Counted, n
    <3> QED
      BY <3>1, <1>3, <1>9
  <2> QED
    BY <2>1, <2>2
<1>14. ASSUME NEW u \in QmsThreads, v8'[u].pc = "save"
       PROVE  v8'[u].rec.id \notin QmsAuditIds
  BY <1>10, <1>11, <1>14 DEF QmsPart!Counted
<1>15. ASSUME NEW u \in QmsPart!Auditing'
       PROVE  /\ v8'[u].rec.id \in QmsAuditIds \ QmsPart!Saved'
              /\ QmsPart!Handling(v8[u].rec.id)' = {u}
  <2>1. u \in QmsPart!Auditing /\ u # t /\ u \in QmsThreads /\ v8'[u] = v8[u]
    BY <1>11, <1>12, <1>15 DEF QmsPart!Auditing
  <2>2. \A j : QmsPart!Handling(j) = {w \in QmsThreads : v8[w].rec.id = j}
    BY DEF QmsPart!Handling
  <2>3. QmsPart!Handling(v8[u].rec.id)' = {w \in QmsThreads : v8'[w].rec.id = v8'[u].rec.id}
    BY DEF QmsPart!Handling
  <2>4. v8[u].rec.id \in QmsAuditIds \ QmsPart!Saved /\ QmsPart!Handling(v8[u].rec.id) = {u}
    BY <2>1 DEF QmsPart!Counted
  <2>5. v8[u].rec.id # i
    BY <2>1, <2>4, <1>2
  <2>6. v8'[t].rec.id = i \/ v8'[t].rec.id = NoId
    <3>1. QmsPart!Stored(t, o, r).rec.id \in {i, NoId}
      <4>1. r.id = i
        BY <1>3 DEF r, QmsPart!Coming, QmsPart!Kept
      <4> QED
        BY <4>1, QmsIdle, QmsRecords
           DEF QmsPart!Stored, QmsPart!Inv, QmsPart!TypeOK, QmsPart!ThreadTypeOK
    <3>2. v8'[t] = QmsPart!Stored(t, o, r)
      BY <1>4 DEF QmsPart!Same, QmsPart!Inv, QmsPart!TypeOK
    <3> QED
      BY <3>1, <3>2
  <2>7. NoId \notin QmsAuditIds
    BY QmsAssumption
  <2> QED
    BY <2>1, <2>2, <2>3, <2>4, <2>5, <2>6, <2>7, <1>6, <1>11
<1>16. ASSUME NEW c \in DOMAIN v2' \ v9'
       PROVE  /\ QmsPart!Covers(v2'[c], QmsPart!Audits', c)
              /\ QmsPart!Auditing' = {}
  <2>1. c \in DOMAIN v2 \ v9
    BY <1>4, <1>16
  <2>2. QmsPart!Auditing = {t} /\ QmsPart!Covers(v2[c], QmsPart!Audits \cup {r}, c)
    BY <2>1, <1>1 DEF QmsPart!Counted, r
  <2> QED
    BY <2>2, <1>4, <1>8, <1>12
<1> QED
  BY <1>13, <1>14, <1>15, <1>16 DEF QmsPart!Counted

(* a finding is registered, and is among those of the record *)
LEMMA QmsAuditRegisters ==
    ASSUME QmsPart!Inv, QmsPart!Counted, NEW t \in QmsPart!Auditing,
           v8' = [v8 EXCEPT ![t] = QmsPart!Recorded(t)], v1' = v1, v9 \subseteq v9',
           Len(v8[t].rec.findings) < Len(v8[t].found),
           DOMAIN v2' = DOMAIN v2,
           NEW f, f = QmsPart!Finding(t),
           \A c \in DOMAIN v2 \ v9' :
             \/ c # f[1] /\ v2'[c] = v2[c]
             \/ c = f[1] /\ v2'[c] = QmsPart!Registered(v2[c], f[2] = "fail")
             \/ v2'[c] = v2[c] /\ f[2] # "fail" /\ v2[c].st = "none"
    PROVE  QmsPart!Counted'
<1> DEFINE A == QmsPart!Audits
           b == QmsPart!Coming(t)
           g == QmsPart!Coming(t)'
           l == QmsPart!Recorded(t)
<1>1. t \in QmsThreads /\ v8[t].pc \in QmsAudited
  BY DEF QmsPart!Auditing, QmsAudited
<1>2. QmsPart!ThreadTypeOK(v8[t]) /\ v8[t].rec \in QmsPart!Kept
  BY <1>1, QmsAuditFacts DEF QmsPart!Inv, QmsPart!TypeOK
<1>3. f \in QmsPart!CheckFinding
  <2>1. v8[t].rec.findings \in Seq(QmsPart!CheckFinding)
        /\ v8[t].found \in Seq(QmsPart!CheckFinding)
    BY <1>2 DEF QmsPart!ThreadTypeOK, QmsPart!Kept
  <2>2. Len(v8[t].rec.findings) \in Nat /\ Len(v8[t].found) \in Nat
    BY <2>1, LenProperties
  <2>3. Len(v8[t].rec.findings) + 1 \in 1..Len(v8[t].found)
    <3>1. PICK m, n : m = Len(v8[t].rec.findings) /\ n = Len(v8[t].found)
      OBVIOUS
    <3>2. m \in Nat /\ n \in Nat /\ m < n
      BY <2>2, <3>1
    <3> QED
      BY <3>1, <3>2
  <2> QED
    BY <2>1, <2>3, ElementOfSeq DEF QmsPart!Finding
<1>4. /\ l.pc = "check" /\ l.rec.id = v8[t].rec.id
      /\ l.rec = [v8[t].rec EXCEPT !.findings = Append(v8[t].rec.findings, f)]
  BY <1>2 DEF QmsPart!Recorded, QmsPart!ThreadTypeOK, QmsPart!Kept
<1>5. v8'[t] = l /\ \A u \in QmsThreads \ {t} : v8'[u] = v8[u]
  BY <1>1 DEF QmsPart!Inv, QmsPart!TypeOK
<1> HIDE DEF l
<1>6. QmsPart!Saved' = QmsPart!Saved /\ QmsPart!Audits' = A
  BY DEF QmsPart!Saved, QmsPart!Audits
<1>7. QmsPart!Auditing' = QmsPart!Auditing
  BY <1>1, <1>4, <1>5 DEF QmsPart!Auditing, QmsAudited
<1>8. /\ b \in QmsPart!Kept
      /\ \A a \in A : a \in QmsPart!Kept /\ a.at < b.at
  BY QmsAuditFacts
<1>9. g.at = b.at /\ g.findings = Append(b.findings, f)
  <2> DEFINE n == QmsPart!Cardinality(QmsAuditIds \cap QmsPart!Saved)
  <2>1. g = [v8'[t].rec EXCEPT !.at = n + 1] /\ b = [v8[t].rec EXCEPT !.at = n + 1]
    BY <1>6 DEF QmsPart!Coming
  <2> HIDE DEF n
  <2> QED
    BY <2>1, <1>2, <1>4, <1>5 DEF QmsPart!Kept
<1>10. ASSUME NEW j \in QmsAuditIds \cap QmsPart!Saved'
       PROVE  v1'[j].at \in 0..QmsPart!Cardinality(QmsAuditIds \cap QmsPart!Saved')
  BY <1>6, <1>10 DEF QmsPart!Counted
<1>11. ASSUME NEW u \in QmsThreads, v8'[u].pc = "save"
       PROVE  v8'[u].rec.id \notin QmsAuditIds
  BY <1>4, <1>5, <1>11 DEF QmsPart!Counted
<1>12. ASSUME NEW u \in QmsPart!Auditing'
       PROVE  /\ v8'[u].rec.id \in QmsAuditIds \ QmsPart!Saved'
              /\ QmsPart!Handling(v8[u].rec.id)' = {u}
  <2>1. u \in QmsPart!Auditing /\ u \in QmsThreads
    BY <1>7, <1>12 DEF QmsPart!Auditing
  <2>2. \A j : QmsPart!Handling(j) = {w \in QmsThreads : v8[w].rec.id = j}
    BY DEF QmsPart!Handling
  <2>3. QmsPart!Handling(v8[u].rec.id)' = {w \in QmsThreads : v8'[w].rec.id = v8'[u].rec.id}
    BY DEF QmsPart!Handling
  <2>4. v8[u].rec.id \in QmsAuditIds \ QmsPart!Saved /\ QmsPart!Handling(v8[u].rec.id) = {u}
    BY <2>1 DEF QmsPart!Counted
  <2>5. \A w \in QmsThreads : v8'[w].rec.id = v8[w].rec.id
    BY <1>4, <1>5
  <2> QED
    BY <2>1, <2>2, <2>3, <2>4, <2>5, <1>6
<1>13. ASSUME NEW c \in DOMAIN v2' \ v9'
       PROVE  /\ QmsPart!Covers(v2'[c], QmsPart!Audits', c)
              /\ \A u \in QmsPart!Auditing' :
                   /\ QmsPart!Auditing' = {u}
                   /\ QmsPart!Covers(v2'[c], QmsPart!Audits' \cup {QmsPart!Coming(u)'}, c)
                   /\ v8'[u].pc = "issue" /\ QmsPart!Finding(u)'[1] = c => v8'[u].old = v2'[c]
  <2>1. c \in DOMAIN v2 \ v9
    BY <1>13
  <2>2. /\ QmsPart!Covers(v2[c], A, c) /\ QmsPart!Auditing = {t}
        /\ QmsPart!Covers(v2[c], A \cup {b}, c)
    BY <2>1 DEF QmsPart!Counted
  <2>3. /\ f[1] # c => QmsPart!Covers(v2[c], QmsWith(A, g), c)
        /\ f[1] = c =>
             /\ QmsPart!Covers(QmsPart!Registered(v2[c], f[2] = "fail"), A, c)
             /\ QmsPart!Covers(QmsPart!Registered(v2[c], f[2] = "fail"), QmsWith(A, g), c)
        /\ f[2] # "fail" /\ v2[c].st = "none" => QmsPart!Covers(v2[c], QmsWith(A, g), c)
    <3>1. QmsPart!Covers(v2[c], QmsWith(A, b), c)
      BY <2>2 DEF QmsWith
    <3> HIDE DEF A, b, g
    <3> QED
      BY <2>2, <3>1, <1>3, <1>8, <1>9, QmsCountsNext
  <2> HIDE DEF A, b, g
  <2>4. QmsPart!Covers(v2'[c], A, c) /\ QmsPart!Covers(v2'[c], QmsWith(A, g), c)
    <3>1. CASE c # f[1] /\ v2'[c] = v2[c]
      BY <2>2, <2>3, <3>1
    <3>2. CASE c = f[1] /\ v2'[c] = QmsPart!Registered(v2[c], f[2] = "fail")
      BY Zenon, <2>3, <3>2
    <3>3. CASE v2'[c] = v2[c] /\ f[2] # "fail" /\ v2[c].st = "none"
      BY <2>2, <2>3, <3>3
    <3> QED
      BY <3>1, <3>2, <3>3, <2>1, <1>13
  <2>5. \A u \in QmsPart!Auditing' : u = t /\ v8'[u].pc = "check"
    BY <2>2, <1>4, <1>5, <1>7
  <2> QED
    BY <2>2, <2>4, <2>5, <1>6, <1>7 DEF QmsWith, g
<1> QED
  BY <1>10, <1>11, <1>12, <1>13 DEF QmsPart!Counted

LEMMA QmsAuditFinds ==
    ASSUME QmsPart!Inv, QmsPart!Counted, NEW t \in QmsThreads, NEW o,
           QmsPart!IssueGet(t, o) \/ QmsPart!IssueSet(t, o)
    PROVE  QmsPart!Counted'
<1> DEFINE f == QmsPart!Finding(t)
<1>1. t \in QmsPart!Auditing /\ Len(v8[t].rec.findings) < Len(v8[t].found)
  BY DEF QmsPart!IssueGet, QmsPart!IssueSet, QmsPart!Registering, QmsPart!Auditing,
         QmsPart!Inv, QmsPart!Shape, QmsPart!ThreadShape
<1>2. v1' = v1 /\ v9 \subseteq v9'
  BY DEF QmsPart!IssueGet, QmsPart!IssueSet, QmsPart!Doubt, QmsPart!exomind
<1>3. v8[t].rec \in QmsPart!Kept /\ QmsPart!ThreadTypeOK(v8[t])
  BY <1>1, QmsAuditFacts DEF QmsPart!Inv, QmsPart!TypeOK
<1>4. CASE QmsPart!IssueGet(t, o)
  <2> DEFINE old == IF o = "ok" THEN v2[f[1]] ELSE QmsPart!NoIssue
  <2>1. /\ v2' = v2
        /\ v9' = v9 \cup (IF o = "ok" THEN {} ELSE {f[1]})
        /\ IF f[2] # "fail" /\ old = QmsPart!NoIssue
           THEN v8' = [v8 EXCEPT ![t] = QmsPart!Recorded(t)]
           ELSE v8' = [v8 EXCEPT ![t] = [v8[t] EXCEPT !.pc = "issue", !.old = old]]
    BY <1>4 DEF QmsPart!IssueGet, QmsPart!exomind, QmsPart!Same, QmsPart!Doubt
  <2>2. CASE f[2] # "fail" /\ old = QmsPart!NoIssue
    <3>1. \A c \in DOMAIN v2 \ v9' : c = f[1] => v2[c].st = "none"
      BY <2>1, <2>2 DEF QmsPart!NoIssue
    <3>2. \A c \in DOMAIN v2 \ v9' :
            \/ c # f[1] /\ v2'[c] = v2[c]
            \/ v2'[c] = v2[c] /\ f[2] # "fail" /\ v2[c].st = "none"
      BY <2>1, <2>2, <3>1
    <3> QED
      BY <2>1, <2>2, <3>2, <1>1, <1>2, QmsAuditRegisters
  <2>3. CASE ~(f[2] # "fail" /\ old = QmsPart!NoIssue)
    <3> DEFINE l == [v8[t] EXCEPT !.pc = "issue", !.old = old]
    <3>1. v8' = [v8 EXCEPT ![t] = l]
      BY <2>1, <2>3
    <3>2. /\ l.pc = "issue" /\ l.old = old /\ l.rec = v8[t].rec /\ l.found = v8[t].found
      BY <1>3 DEF QmsPart!ThreadTypeOK
    <3> HIDE DEF l, old
    <3>3. v8'[t] = l /\ \A u \in QmsThreads \ {t} : v8'[u] = v8[u]
      BY <3>1 DEF QmsPart!Inv, QmsPart!TypeOK
    <3>4. QmsPart!Auditing' = QmsPart!Auditing
      BY <3>2, <3>3, <1>1 DEF QmsPart!Auditing
    <3>5. QmsPart!Saved' = QmsPart!Saved /\ QmsPart!Audits' = QmsPart!Audits
      BY <1>2 DEF QmsPart!Saved, QmsPart!Audits
    <3>6. /\ \A u \in QmsThreads : v8'[u].rec = v8[u].rec /\ v8'[u].found = v8[u].found
          /\ \A u \in QmsPart!Auditing : QmsPart!Coming(u)' = QmsPart!Coming(u)
          /\ \A u \in QmsPart!Auditing : QmsPart!Finding(u)' = QmsPart!Finding(u)
      BY <3>2, <3>3, <3>5 DEF QmsPart!Coming, QmsPart!Finding, QmsPart!Auditing
    <3>7. \A j \in QmsAuditIds \cap QmsPart!Saved' :
            v1'[j].at \in 0..QmsPart!Cardinality(QmsAuditIds \cap QmsPart!Saved')
      BY <3>5, <1>2 DEF QmsPart!Counted
    <3>8. \A u \in QmsThreads : v8'[u].pc = "save" => v8'[u].rec.id \notin QmsAuditIds
      BY <3>2, <3>3 DEF QmsPart!Counted
    <3>9. ASSUME NEW u \in QmsPart!Auditing'
          PROVE  /\ v8'[u].rec.id \in QmsAuditIds \ QmsPart!Saved'
                 /\ QmsPart!Handling(v8[u].rec.id)' = {u}
      <4>1. v8[u].rec.id \in QmsAuditIds \ QmsPart!Saved /\ QmsPart!Handling(v8[u].rec.id) = {u}
        BY <3>4, <3>9 DEF QmsPart!Counted
      <4>2. u \in QmsThreads
        BY <3>4, <3>9 DEF QmsPart!Auditing
      <4> QED
        BY <4>1, <4>2, <3>5, <3>6 DEF QmsPart!Handling
    <3>10. ASSUME NEW c \in DOMAIN v2' \ v9'
           PROVE  /\ QmsPart!Covers(v2'[c], QmsPart!Audits', c)
                  /\ \A u \in QmsPart!Auditing' :
                      /\ QmsPart!Auditing' = {u}
                      /\ QmsPart!Covers(v2'[c], QmsPart!Audits' \cup {QmsPart!Coming(u)'}, c)
                      /\ v8'[u].pc = "issue" /\ QmsPart!Finding(u)'[1] = c => v8'[u].old = v2'[c]
      <4>1. c \in DOMAIN v2 \ v9 /\ v2'[c] = v2[c]
        BY <3>10, <2>1
      <4>2. /\ QmsPart!Covers(v2[c], QmsPart!Audits, c) /\ QmsPart!Auditing = {t}
            /\ QmsPart!Covers(v2[c], QmsPart!Audits \cup {QmsPart!Coming(t)}, c)
        BY <4>1, <1>1 DEF QmsPart!Counted
      <4>3. f[1] = c => old = v2[c]
        BY <3>10, <2>1 DEF old
      <4> QED
        BY <4>1, <4>2, <4>3, <3>2, <3>3, <3>4, <3>5, <3>6
    <3> QED
      BY <3>7, <3>8, <3>9, <3>10 DEF QmsPart!Counted
  <2> QED
    BY <2>2, <2>3
<1>5. CASE QmsPart!IssueSet(t, o)
  <2>1. /\ v8[t].pc = "issue"
        /\ v2' = IF QmsPart!Done(o)
                 THEN [v2 EXCEPT ![f[1]] = QmsPart!Registered(v8[t].old, f[2] = "fail")] ELSE v2
        /\ v9' = v9 \cup (IF o = "ok" THEN {} ELSE {f[1]})
        /\ v8' = [v8 EXCEPT ![t] = QmsPart!Recorded(t)]
    BY Zenon, <1>5 DEF QmsPart!IssueSet, QmsPart!Same, QmsPart!Doubt
  <2>2. DOMAIN v2' = DOMAIN v2
    BY <2>1
  <2>3. ASSUME NEW c \in DOMAIN v2 \ v9'
        PROVE  \/ c # f[1] /\ v2'[c] = v2[c]
               \/ c = f[1] /\ v2'[c] = QmsPart!Registered(v2[c], f[2] = "fail")
    <3>1. CASE c # f[1]
      BY <2>1, <3>1
    <3>2. CASE c = f[1]
      <4>1. o = "ok" /\ c \notin v9
        BY <2>1, <2>3, <3>2
      <4>2. v8[t].old = v2[c]
        BY <4>1, <2>1, <2>3, <3>2, <1>1 DEF QmsPart!Counted
      <4>3. v2' = [v2 EXCEPT ![c] = QmsPart!Registered(v2[c], f[2] = "fail")]
        BY Zenon, <4>1, <4>2, <2>1, <3>2 DEF QmsPart!Done
      <4>4. PICK x : x = QmsPart!Registered(v2[c], f[2] = "fail")
        OBVIOUS
      <4> QED
        BY <4>3, <4>4, <2>3, <3>2
    <3> QED
      BY <3>1, <3>2
  <2> QED
    BY <2>1, <2>2, <2>3, <1>1, <1>2, QmsAuditRegisters
<1> QED
  BY <1>4, <1>5

LEMMA QmsCountBegins ==
    ASSUME QmsPart!Init
    PROVE  QmsPart!Counted
<1> USE QmsAssumption
<1>1. /\ v11 \in QmsScenarios
      /\ v1 = [i \in QmsPart!Ids |-> IF i \in v11.old THEN QmsPart!NewRecord(i)
                                                       ELSE QmsPart!NoRecord]
      /\ v2 = [c \in QmsPart!Range(v11.program) |-> QmsPart!NoIssue]
      /\ v8 = [t \in QmsThreads |-> QmsPart!Idle]
  BY DEF QmsPart!Init
<1>2. \A t \in QmsThreads : v8[t].pc = "idle"
  BY <1>1, QmsIdle
<1>3. QmsPart!Auditing = {}
  BY <1>2 DEF QmsPart!Auditing
<1>4. ASSUME NEW i \in QmsAuditIds \cap QmsPart!Saved
      PROVE  v1[i].at = 0 /\ v1[i].findings = <<>>
  <2>1. v1[i] = QmsPart!NewRecord(i)
    BY <1>1, <1>4 DEF QmsPart!Saved
  <2>2. PICK F \in BOOLEAN :
          QmsPart!NoRecord = [id |-> NoId, st |-> "none", ca |-> F, ev |-> F,
                              findings |-> <<>>, at |-> 0]
    BY QmsNoRecord
  <2> QED
    BY <2>1, <2>2 DEF QmsPart!NewRecord
<1>5. \A i \in QmsAuditIds \cap QmsPart!Saved :
        v1[i].at \in 0..QmsPart!Cardinality(QmsAuditIds \cap QmsPart!Saved)
  <2>1. IsFiniteSet(QmsAuditIds \cap QmsPart!Saved)
    BY QmsAssumption, FS_Intersection
  <2>2. QmsPart!Cardinality(QmsAuditIds \cap QmsPart!Saved) \in Nat
    BY <2>1, FS_CardinalityType, QmsCardinality
  <2> QED
    BY <2>2, <1>4
<1>6. \A c \in DOMAIN v2 : QmsPart!Covers(v2[c], QmsPart!Audits, c)
  <2> SUFFICES ASSUME NEW c \in DOMAIN v2 PROVE QmsPart!Covers(v2[c], QmsPart!Audits, c)
    OBVIOUS
  <2>1. v2[c] = QmsPart!NoIssue /\ v2[c] \in QmsPart!Issue /\ v2[c].reopens = 0
    BY <1>1 DEF QmsPart!NoIssue, QmsPart!Issue
  <2>2. \A r : QmsPart!Places(QmsPart!Audits, c, r) = {}
    BY <1>4 DEF QmsPart!Places, QmsPart!Audits
  <2>3. QmsCycling({}, {}) = {} /\ ~QmsPart!Mended({}, {})
    BY DEF QmsCycling, QmsPart!Mended
  <2>4. IsFiniteSet({}) /\ Cardinality({}) = 0
    BY FS_EmptySet
  <2>5. QmsCovers(v2[c], {}, {})
    BY <2>1, <2>3, <2>4 DEF QmsCovers
  <2> QED
    BY <2>2, <2>5, QmsCoversAre
<1> QED
  BY <1>2, <1>3, <1>5, <1>6 DEF QmsPart!Counted

(* a request that is no audit begins *)
LEMMA QmsOthersBegin ==
    ASSUME QmsPart!Inv, QmsPart!Counted, NEW t \in QmsThreads,
           QmsPart!Create(t) \/ QmsPart!Transition(t)
    PROVE  QmsPart!Counted'
<1>1. PICK l : /\ QmsPart!Begin(t, l) /\ v9 \subseteq v9'
               /\ l.pc = "save" /\ l.rec.id \notin QmsAuditIds
  <2>1. CASE QmsPart!Create(t)
    <3>1. PICK i \in v11.new \ QmsAuditIds :
            /\ QmsPart!MakeId(v11.new \ QmsAuditIds, i)
            /\ QmsPart!Begin(t, [QmsPart!Idle EXCEPT !.pc = "save", !.act = "create",
                                                    !.rec = QmsPart!NewRecord(i)])
            /\ v9 \subseteq v9'
      BY <2>1 DEF QmsPart!Create, QmsPart!Doubt
    <3>2. PICK l : l = [QmsPart!Idle EXCEPT !.pc = "save", !.act = "create",
                                            !.rec = QmsPart!NewRecord(i)]
      OBVIOUS
    <3>3. l.pc = "save" /\ l.rec = QmsPart!NewRecord(i)
      BY <3>2, QmsIdle DEF QmsPart!ThreadTypeOK
    <3>4. i \in QmsPart!Ids
      BY QmsAssumption DEF QmsPart!Inv, QmsPart!TypeOK, QmsPart!Ids
    <3>5. QmsPart!Begin(t, l) /\ v9 \subseteq v9'
      BY Zenon, <3>1, <3>2
    <3>6. i \notin QmsAuditIds
      BY <3>1
    <3> QED
      BY <3>3, <3>4, <3>5, <3>6, QmsRecords
  <2>2. CASE QmsPart!Transition(t)
    <3>1. PICK i \in QmsNcIds, a \in v11.acts, ca \in BOOLEAN, ev \in BOOLEAN :
            /\ QmsPart!Find(i) # 0
            /\ QmsPart!Allowed(v5[QmsPart!Find(i)], a, ca, ev)
            /\ QmsPart!Begin(t, [QmsPart!Idle EXCEPT !.pc = "save", !.act = a,
                                    !.from = v5[QmsPart!Find(i)].st,
                                    !.rec = QmsPart!Moved(v5[QmsPart!Find(i)], a, ca, ev)])
            /\ v9 \subseteq v9'
      BY Zenon, <2>2 DEF QmsPart!Transition, QmsPart!Doubt
    <3>2. PICK r, s, l :
            /\ r = v5[QmsPart!Find(i)] /\ s = QmsPart!Moved(r, a, ca, ev)
            /\ l = [QmsPart!Idle EXCEPT !.pc = "save", !.act = a, !.from = r.st, !.rec = s]
      OBVIOUS
    <3>3. r \in QmsPart!Kept /\ r.id = i
      <4>1. v5 \in Seq(QmsPart!Kept)
        BY DEF QmsPart!Inv, QmsPart!TypeOK
      <4>2. QmsPart!Find(i) \in DOMAIN v5 /\ v5[QmsPart!Find(i)].id = i
        BY <3>1, <4>1, QmsFinds
      <4>3. \A k \in DOMAIN v5 : v5[k] \in QmsPart!Kept
        BY <4>1
      <4> QED
        BY <3>2, <4>2, <4>3
    <3>4. a \in QmsActs /\ QmsPart!Allowed(r, a, ca, ev)
      BY <3>1, <3>2, QmsAssumption DEF QmsPart!Inv, QmsPart!TypeOK, QmsActs
    <3>5. s.id = i
      BY <3>2, <3>3, <3>4, QmsMoves
    <3>6. l.pc = "save" /\ l.rec = s
      BY <3>2, QmsIdle DEF QmsPart!ThreadTypeOK
    <3>7. QmsPart!Begin(t, l)
      BY Zenon, <3>1, <3>2
    <3>8. i \notin QmsAuditIds
      BY QmsAssumption
    <3> QED
      BY <3>1, <3>5, <3>6, <3>7, <3>8
  <2> QED
    BY <2>1, <2>2
<1>2. v8' = [v8 EXCEPT ![t] = l] /\ UNCHANGED <<v1, v2>>
  BY <1>1 DEF QmsPart!Begin, QmsPart!Same, QmsPart!exomind
<1>3. v8'[t] = l /\ \A u \in QmsThreads \ {t} : v8'[u] = v8[u]
  BY <1>2 DEF QmsPart!Inv, QmsPart!TypeOK
<1> QED
  BY <1>1, <1>2, <1>3, QmsCountsKept DEF QmsAudited

(* steps that leave what a thread registers alone *)
LEMMA QmsThreadGoesOn ==
    ASSUME QmsPart!Inv, QmsPart!Counted, NEW t \in QmsThreads, NEW l,
           v8' = [v8 EXCEPT ![t] = l], v2' = v2, v9 \subseteq v9',
           \A i \in QmsAuditIds : v1'[i] = v1[i],
           l.pc \notin {"issue", "save"},
           l.pc \in QmsAudited => v8[t].pc \in QmsAudited,
           l.rec = v8[t].rec \/ l.pc \notin QmsAudited,
           l.rec.id = v8[t].rec.id \/ l.rec.id \notin QmsAuditIds
    PROVE  QmsPart!Counted'
<1>1. v8'[t] = l /\ \A u \in QmsThreads \ {t} : v8'[u] = v8[u]
  BY DEF QmsPart!Inv, QmsPart!TypeOK
<1> QED
  BY <1>1, QmsCountsKept

LEMMA QmsCountChecks ==
    ASSUME QmsPart!Inv, QmsPart!Counted, NEW t \in QmsThreads, NEW o,
           \/ QmsPart!CheckOutside(t) \/ QmsPart!CheckScan(t)
           \/ QmsPart!CheckRework(t, o) \/ QmsPart!CheckIssues(t, o)
    PROVE  QmsPart!Counted'
<1>1. v8[t].pc = "check" /\ UNCHANGED <<v1, v2, v9>>
  BY DEF QmsPart!CheckOutside, QmsPart!CheckScan, QmsPart!CheckRework, QmsPart!CheckIssues,
         QmsPart!NextCheck, QmsPart!CheckOnly, QmsPart!history
<1>2. \E c, r, scan : \/ v8' = [v8 EXCEPT ![t] = QmsPart!Found(t, c, r)]
                      \/ v8' = [v8 EXCEPT ![t] = [QmsPart!Found(t, c, r) EXCEPT !.scan = scan]]
  <2>1. CASE QmsPart!CheckOutside(t)
    BY Zenon, <2>1 DEF QmsPart!CheckOutside, QmsPart!Same
  <2>2. CASE QmsPart!CheckScan(t)
    <3>1. \E c \in QmsPart!ScanChecks : \E scan, r :
            QmsPart!Same(t, [QmsPart!Found(t, c, r) EXCEPT !.scan = scan])
      BY Zenon, <2>2 DEF QmsPart!CheckScan
    <3> QED
      BY Zenon, <3>1 DEF QmsPart!Same
  <2>3. CASE QmsPart!CheckRework(t, o)
    <3>1. \E r : QmsPart!Same(t, QmsPart!Found(t, "rework", r))
      BY <2>3 DEF QmsPart!CheckRework
    <3> QED
      BY Zenon, <3>1 DEF QmsPart!Same
  <2>4. CASE QmsPart!CheckIssues(t, o)
    BY Zenon, <2>4 DEF QmsPart!CheckIssues, QmsPart!Same
  <2> QED
    BY <2>1, <2>2, <2>3, <2>4
<1>3. PICK c, r, scan, l :
        /\ v8' = [v8 EXCEPT ![t] = l]
        /\ l = QmsPart!Found(t, c, r) \/ l = [QmsPart!Found(t, c, r) EXCEPT !.scan = scan]
  BY Zenon, <1>2
<1>4. l.pc = v8[t].pc /\ l.rec = v8[t].rec
  BY <1>3 DEF QmsPart!Found, QmsPart!Inv, QmsPart!TypeOK, QmsPart!ThreadTypeOK
<1> QED
  BY <1>1, <1>3, <1>4, QmsThreadGoesOn DEF QmsAudited

LEMMA QmsCountRest ==
    ASSUME QmsPart!Inv, QmsPart!Counted, NEW t \in QmsThreads, NEW o \in QmsOutcomes,
           \/ QmsPart!Save(t, o) /\ (~QmsPart!Done(o) \/ v8[t].rec.id \notin QmsAuditIds)
           \/ QmsPart!Commit(t) \/ QmsPart!Note(t, o) \/ QmsPart!LastFails(t, o)
           \/ QmsPart!StoreFails(t, o) \/ QmsPart!StoreRework(t, o)
    PROVE  QmsPart!Counted'
<1>0. QmsPart!ThreadTypeOK(v8[t])
  BY DEF QmsPart!Inv, QmsPart!TypeOK
<1>1. QmsPart!Idle.pc = "idle" /\ QmsPart!Idle.rec.id \notin QmsAuditIds
  BY QmsIdle, QmsRecords DEF QmsPart!Ids
<1>2. CASE QmsPart!Save(t, o) /\ (~QmsPart!Done(o) \/ v8[t].rec.id \notin QmsAuditIds)
  <2>1. PICK r \in QmsPart!Kept :
          /\ v8[t].rec.id \in QmsPart!Ids /\ r.id = v8[t].rec.id
          /\ v1' = IF QmsPart!Done(o) THEN [v1 EXCEPT ![v8[t].rec.id] = r] ELSE v1
          /\ QmsPart!Same(t, QmsPart!Stored(t, o, r))
    BY Zenon, <1>2, QmsStores
  <2>2. v2' = v2 /\ v9 \subseteq v9'
    BY <1>2 DEF QmsPart!Save, QmsPart!Doubt
  <2>3. \A i \in QmsAuditIds : v1'[i] = v1[i]
    BY <2>1, <1>2
  <2>4. PICK l : v8' = [v8 EXCEPT ![t] = l] /\ l = QmsPart!Stored(t, o, r)
    BY <2>1 DEF QmsPart!Same
  <2>5. \/ l = QmsPart!Idle
        \/ l.pc = "commit" /\ l.rec = r
    BY <2>4, <1>0 DEF QmsPart!Stored, QmsPart!ThreadTypeOK
  <2> QED
    BY <2>1, <2>2, <2>3, <2>4, <2>5, <1>1, QmsThreadGoesOn DEF QmsAudited
<1>3. CASE \/ QmsPart!Commit(t) \/ QmsPart!Note(t, o) \/ QmsPart!LastFails(t, o)
           \/ QmsPart!StoreFails(t, o) \/ QmsPart!StoreRework(t, o)
  <2>1. UNCHANGED <<v1, v2>> /\ v9 \subseteq v9'
    BY <1>3 DEF QmsPart!Commit, QmsPart!Note, QmsPart!LastFails, QmsPart!StoreFails,
                QmsPart!StoreRework, QmsPart!Doubt, QmsPart!exomind, QmsPart!history
  <2>2. \E l : /\ v8' = [v8 EXCEPT ![t] = l]
               /\ \/ l = QmsPart!Idle
                  \/ l.pc \in QmsPart!Telling /\ l.rec = v8[t].rec
    <3>1. CASE QmsPart!Commit(t)
      <4>1. PICK l : v8' = [v8 EXCEPT ![t] = l] /\ l = QmsPart!Committed(t, QmsPart!Find(v8[t].rec.id))
        BY <3>1 DEF QmsPart!Commit, QmsPart!Same
      <4>2. l.pc = "note" /\ l.rec = v8[t].rec
        BY <4>1, <1>0 DEF QmsPart!Committed, QmsPart!ThreadTypeOK
      <4> QED
        BY <4>1, <4>2 DEF QmsPart!Telling
    <3>2. CASE QmsPart!Note(t, o)
      <4>1. PICK l : /\ v8' = [v8 EXCEPT ![t] = l]
                     /\ l = QmsPart!Idle \/ l = [v8[t] EXCEPT !.pc = "fails"]
        BY <3>2 DEF QmsPart!Note, QmsPart!Same
      <4>2. l = QmsPart!Idle \/ (l.pc = "fails" /\ l.rec = v8[t].rec)
        BY <4>1, <1>0 DEF QmsPart!ThreadTypeOK
      <4> QED
        BY <4>1, <4>2 DEF QmsPart!Telling
    <3>3. CASE QmsPart!LastFails(t, o)
      <4>1. PICK l, x : /\ v8' = [v8 EXCEPT ![t] = l]
                        /\ l = [v8[t] EXCEPT !.pc = "store fails", !.seen = x]
        BY <3>3 DEF QmsPart!LastFails, QmsPart!Same
      <4>2. l.pc = "store fails" /\ l.rec = v8[t].rec
        BY <4>1, <1>0 DEF QmsPart!ThreadTypeOK
      <4> QED
        BY <4>1, <4>2 DEF QmsPart!Telling
    <3>4. CASE QmsPart!StoreFails(t, o)
      <4>1. PICK l : v8' = [v8 EXCEPT ![t] = l] /\ l = [v8[t] EXCEPT !.pc = "history"]
        BY <3>4 DEF QmsPart!StoreFails, QmsPart!Same
      <4>2. l.pc = "history" /\ l.rec = v8[t].rec
        BY <4>1, <1>0 DEF QmsPart!ThreadTypeOK
      <4> QED
        BY <4>1, <4>2 DEF QmsPart!Telling
    <3>5. CASE QmsPart!StoreRework(t, o)
      BY <3>5 DEF QmsPart!StoreRework, QmsPart!Same
    <3> QED
      BY <1>3, <3>1, <3>2, <3>3, <3>4, <3>5
  <2> QED
    BY <2>1, <2>2, <1>1, QmsThreadGoesOn DEF QmsPart!Telling, QmsAudited
<1> QED
  BY <1>2, <1>3

LEMMA QmsCountStep ==
    ASSUME QmsPart!Inv, QmsPart!Counted, QmsPart!Next \/ UNCHANGED QmsPart!vars
    PROVE  QmsPart!Counted'
<1> USE DEF QmsOutcomes
<1>1. CASE UNCHANGED QmsPart!vars
  BY <1>1, QmsCountsKept DEF QmsPart!vars, QmsPart!exomind, QmsPart!history
<1>2. ASSUME NEW o \in QmsOutcomes, QmsPart!List(o) \/ QmsPart!Load(o)
      PROVE  QmsPart!Counted'
  <2>1. UNCHANGED <<v1, v2, v8>> /\ v9 \subseteq v9'
    BY <1>2 DEF QmsPart!List, QmsPart!Load, QmsPart!exomind, QmsPart!history, QmsPart!Doubt
  <2> QED
    BY <2>1, QmsCountsKept
<1>3. CASE QmsPart!Swap
  BY <1>3, QmsCountsKept DEF QmsPart!Swap, QmsPart!exomind, QmsPart!history
<1>4. CASE QmsPart!Restart
  <2>1. UNCHANGED <<v1, v2>> /\ v9 \subseteq v9' /\ v8' = [t \in QmsThreads |-> QmsPart!Idle]
    BY <1>4 DEF QmsPart!Restart, QmsPart!exomind, QmsPart!Doubt
  <2>2. \A t \in QmsThreads : v8'[t].pc = "idle" /\ v8'[t].rec.id \notin QmsAuditIds
    BY <2>1, QmsIdle, QmsRecords DEF QmsPart!Ids
  <2> QED
    BY <2>1, <2>2, QmsCountsKept DEF QmsAudited
<1>5. ASSUME NEW t \in QmsThreads, QmsPart!Step(t)
      PROVE  QmsPart!Counted'
  <2>1. CASE QmsPart!Create(t) \/ QmsPart!Transition(t)
    BY <2>1, QmsOthersBegin
  <2>2. CASE QmsPart!Audit(t)
    BY <2>2, QmsAuditBegins
  <2>3. ASSUME NEW o \in QmsOutcomes,
               \/ QmsPart!CheckOutside(t) \/ QmsPart!CheckScan(t)
               \/ QmsPart!CheckRework(t, o) \/ QmsPart!CheckIssues(t, o)
        PROVE  QmsPart!Counted'
    BY <2>3, QmsCountChecks
  <2>4. ASSUME NEW o \in QmsOutcomes, QmsPart!IssueGet(t, o) \/ QmsPart!IssueSet(t, o)
        PROVE  QmsPart!Counted'
    BY <2>4, QmsAuditFinds
  <2>5. ASSUME NEW o \in QmsOutcomes,
               \/ QmsPart!Save(t, o) \/ QmsPart!Commit(t) \/ QmsPart!Note(t, o)
               \/ QmsPart!LastFails(t, o) \/ QmsPart!StoreFails(t, o) \/ QmsPart!StoreRework(t, o)
        PROVE  QmsPart!Counted'
    BY <2>5, QmsAuditStores, QmsCountRest
  <2> QED
    BY <1>5, <2>1, <2>2, <2>3, <2>4, <2>5 DEF QmsPart!Step
<1> QED
  BY <1>1, <1>2, <1>3, <1>4, <1>5 DEF QmsPart!Next

(***************************************************************************)
(* What is registered of the findings of an audit keeps up with the cycles *)
(* of the audits, those in exomind and the one under way.                  *)
(***************************************************************************)
QmsCountInvariant == part = "qms" => QmsPart!Counted

(***************************************************************************)
(* The registry of issues has at least the cycles the audits show: for     *)
(* checks of audits that did not overlap and whose entries could be read   *)
(* and written, a check that failed again after it had passed was reopened *)
(* (issue_register, check_rework).                                         *)
(***************************************************************************)
THEOREM QmsReopensCoverRework == Spec => []QmsReopens
<1>1. Init => QmsCountInvariant
  BY QmsCountBegins DEF Init, QmsCountInvariant
<1>2. QmsInvariant /\ QmsCountInvariant /\ [Next]_vars => QmsCountInvariant'
  BY QmsCountStep DEF Next, vars, QmsPart!vars, QmsPart!exomind, QmsPart!history,
                      QmsPart!bounds, QmsInvariant, QmsCountInvariant
<1>3. QmsCountInvariant => QmsReopens
  <2> SUFFICES ASSUME QmsPart!Counted
               PROVE  QmsPart!ReopensCoverRework
    BY DEF QmsCountInvariant, QmsReopens
  <2> SUFFICES ASSUME NEW c \in DOMAIN v2 \ v9
               PROVE  QmsPart!Cycles(QmsPart!Audits, c) <= v2[c].reopens
    BY DEF QmsPart!ReopensCoverRework
  <2> DEFINE F == QmsPart!Places(QmsPart!Audits, c, "fail")
             P == QmsPart!Places(QmsPart!Audits, c, "pass")
             n == Cardinality(QmsCycling(F, P))
  <2>1. QmsCovers(v2[c], F, P)
    BY QmsCoversAre DEF QmsPart!Counted
  <2>2. n \in Nat
    <3>1. IsFiniteSet(F) /\ QmsCycling(F, P) \subseteq F
      BY <2>1 DEF QmsCovers, QmsCycling
    <3> QED
      BY <3>1, FS_Subset, FS_CardinalityType
  <2>3. v2[c].reopens \in Nat /\ n + (IF QmsPart!Mended(F, P) /\ v2[c].st # "closed" THEN 1 ELSE 0)
                                   <= v2[c].reopens
    BY <2>1 DEF QmsCovers, QmsPart!Issue
  <2>4. QmsPart!Cycles(QmsPart!Audits, c) = n
    BY QmsCyclesAre
  <2> HIDE DEF n
  <2> QED
    BY <2>2, <2>3, <2>4
<1> QED
  BY <1>1, <1>2, <1>3, QmsInvariantHolds, PTL DEF Spec
=============================================================================
