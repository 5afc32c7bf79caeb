---------------------------- MODULE StoreProofs ----------------------------
(***************************************************************************)
(* Proofs about Store, for every choice of its constants: first lemmas     *)
(* about logs and slots; then the index of a store, which agrees with its  *)
(* log (IndexMatchesLog) when the faults are those the code tolerates; and *)
(* then what the store keeps beside them: the candidates of prefix queries *)
(* (KixCoversIndex), the records that are known to be on stable storage    *)
(* (LoadKeepsSynced), the vector mirror (VectorsMirrored) and the count of *)
(* garbage (DeadBytesCoverGarbage).                                        *)
(***************************************************************************)
EXTENDS Store, SequenceTheorems, FiniteSetTheorems, TLAPS

-----------------------------------------------------------------------------
(* Logs and slots *)

(***************************************************************************)
(* Log u is log s, cut to its first n records, with rec written after them *)
(* (store.c, write_rec_at).                                                *)
(***************************************************************************)
Extends(u, s, n, rec) ==
    /\ \A i \in 1..n : u[i] = s[i]
    /\ u[n + 1] = rec

(***************************************************************************)
(* A record for one key does not change the last record of another.        *)
(***************************************************************************)
LEMMA LatestOther ==
    ASSUME NEW s, NEW u, NEW n \in Nat, NEW rec, Extends(u, s, n, rec),
           NEW k, k # rec.key
    PROVE  /\ \A i : Latest(k, i, u, n + 1) <=> Latest(k, i, s, n)
           /\ Mentions(k, u, n + 1) <=> Mentions(k, s, n)
<1>1. ASSUME NEW i PROVE Latest(k, i, u, n + 1) <=> Latest(k, i, s, n)
  <2>1. CASE i \in 1..n
    BY <2>1 DEF Latest, Extends
  <2>2. CASE i \notin 1..n
    <3>1. ~Latest(k, i, s, n)
      BY <2>2 DEF Latest
    <3>2. i = n + 1 => u[i].key # k
      BY DEF Extends
    <3>3. i \in 1..(n + 1) => i = n + 1
      BY <2>2
    <3> QED BY <3>1, <3>2, <3>3 DEF Latest
  <2> QED BY <2>1, <2>2
<1>2. Mentions(k, u, n + 1) <=> Mentions(k, s, n)
  BY DEF Mentions, Extends
<1> QED BY <1>1, <1>2

(***************************************************************************)
(* The record just written is the last one for its key.                    *)
(***************************************************************************)
LEMMA LatestOwn ==
    ASSUME NEW s, NEW u, NEW n \in Nat, NEW rec, Extends(u, s, n, rec)
    PROVE  \A i : Latest(rec.key, i, u, n + 1) <=> i = n + 1
BY DEF Latest, Extends

(***************************************************************************)
(* What a write does to the agreement of slots with the log: the slots of  *)
(* the other keys still agree, a slot that refers to the new put agrees,   *)
(* and so does an empty slot after a tombstone.                            *)
(***************************************************************************)
LEMMA WriteAgrees ==
    ASSUME NEW s, NEW u, NEW n \in Nat, NEW rec, Extends(u, s, n, rec),
           NEW t, NEW k, NEW e
    PROVE  /\ k # rec.key /\ Agrees(e, k, s, n, t) => Agrees(e, k, u, n + 1, t)
           /\ /\ k = rec.key
              /\ rec.kind = "put"
              /\ e.off = n + 1
              /\ e.ts = rec.ts
              /\ e.exp = ExpiresAt(rec.ts, rec.ttl)
              => RefersTo(e, k, u, n + 1)
           /\ k = rec.key /\ rec.kind = "tomb" /\ e.off = 0
                => Agrees(e, k, u, n + 1, t)
<1>1. ASSUME k # rec.key, Agrees(e, k, s, n, t)
      PROVE  Agrees(e, k, u, n + 1, t)
  <2>1. /\ \A i : Latest(k, i, u, n + 1) <=> Latest(k, i, s, n)
        /\ Mentions(k, u, n + 1) <=> Mentions(k, s, n)
    BY <1>1, LatestOther
  <2>2. \A i : Latest(k, i, s, n) => i \in 1..n /\ u[i] = s[i]
    BY DEF Latest, Extends
  <2>3. RefersTo(e, k, s, n) => RefersTo(e, k, u, n + 1)
    BY <2>1, <2>2 DEF RefersTo
  <2>4. (\A i \in 1..n : Latest(k, i, s, n) => s[i].kind = "tomb")
          => (\A i \in 1..(n + 1) : Latest(k, i, u, n + 1) => u[i].kind = "tomb")
    BY <2>1, <2>2
  <2> QED BY <1>1, <2>1, <2>3, <2>4 DEF Agrees
<1>2. ASSUME k = rec.key, rec.kind = "put", e.off = n + 1, e.ts = rec.ts,
             e.exp = ExpiresAt(rec.ts, rec.ttl)
      PROVE  RefersTo(e, k, u, n + 1)
  BY <1>2, LatestOwn DEF RefersTo, Extends
<1>3. ASSUME k = rec.key, rec.kind = "tomb", e.off = 0
      PROVE  Agrees(e, k, u, n + 1, t)
  <2>1. \A i : Latest(k, i, u, n + 1) <=> i = n + 1
    BY <1>3, LatestOwn
  <2>2. u[n + 1].kind = "tomb"
    BY <1>3 DEF Extends
  <2> QED BY <1>3, <2>1, <2>2 DEF Agrees
<1> QED BY <1>1, <1>2, <1>3

(***************************************************************************)
(* Agreement looks only at the first n records.                            *)
(***************************************************************************)
LEMMA PrefixAgrees ==
    ASSUME NEW s, NEW u, NEW n \in Nat, \A i \in 1..n : u[i] = s[i],
           NEW t, NEW k, NEW e, Agrees(e, k, s, n, t)
    PROVE  Agrees(e, k, u, n, t)
<1>1. \A i : Latest(k, i, u, n) <=> Latest(k, i, s, n)
  BY DEF Latest
<1>2. Mentions(k, u, n) <=> Mentions(k, s, n)
  BY DEF Mentions
<1>3. \A i : Latest(k, i, s, n) => u[i] = s[i]
  BY DEF Latest
<1> QED BY <1>1, <1>2, <1>3 DEF Agrees, RefersTo

(***************************************************************************)
(* An expired slot stays expired as the clock advances.                    *)
(***************************************************************************)
LEMMA LaterAgrees ==
    ASSUME NEW s, NEW n, NEW t \in Nat, NEW k, NEW e \in Slot,
           Agrees(e, k, s, n, t)
    PROVE  Agrees(e, k, s, n, t + 1)
BY DEF Agrees, ExpiredAt, Slot

(***************************************************************************)
(* Every slot of an empty log agrees when it is empty.                     *)
(***************************************************************************)
LEMMA EmptyAgrees ==
    ASSUME NEW s, NEW t, NEW k, NEW e, e.off = 0
    PROVE  Agrees(e, k, s, 0, t)
BY DEF Agrees, Latest

-----------------------------------------------------------------------------
(* The type invariant *)

(***************************************************************************)
(* The part of the log the process knows of is in the file and complete.   *)
(***************************************************************************)
LogInv ==
    /\ size <= Len(file)
    /\ \A i \in 1..size : file[i] \in Record

TypeInv == TypeOK /\ LogInv

LEMMA TornIsNoRecord == Torn \notin Record
BY DEF Torn, Record

LEMMA PutRecType ==
    ASSUME NEW k \in Keys, NEW v \in Values, NEW t \in Nat, NEW ttl \in Nat
    PROVE  /\ PutRec(k, v, t, ttl) \in Record
           /\ PutRec(k, v, t, ttl).kind = "put"
           /\ PutRec(k, v, t, ttl).key = k
           /\ PutRec(k, v, t, ttl).val = v
           /\ PutRec(k, v, t, ttl).ts = t
           /\ PutRec(k, v, t, ttl).ttl = ttl
BY DEF PutRec, Record

LEMMA TombRecType ==
    ASSUME NEW k \in Keys
    PROVE  /\ TombRec(k) \in Record
           /\ TombRec(k).kind = "tomb"
           /\ TombRec(k).key = k
BY DEF TombRec, Record, Values

(***************************************************************************)
(* Writing an item after the first n of a log.                             *)
(***************************************************************************)
LEMMA WriteAfter ==
    ASSUME NEW s \in Seq(Item), NEW n \in Nat, n <= Len(s), NEW x \in Item
    PROVE  /\ Append(SubSeq(s, 1, n), x) \in Seq(Item)
           /\ Len(Append(SubSeq(s, 1, n), x)) = n + 1
           /\ Extends(Append(SubSeq(s, 1, n), x), s, n, x)
<1>1. \A i \in 1..n : s[i] \in Item
  BY ElementOfSeq
<1>2. /\ SubSeq(s, 1, n) \in Seq(Item)
      /\ Len(SubSeq(s, 1, n)) = n
      /\ \A i \in 1..n : SubSeq(s, 1, n)[i] = s[i]
  BY <1>1, SubSeqProperties
<1> QED BY <1>2, AppendProperties DEF Extends

LEMMA AppendsEffect ==
    ASSUME TypeInv, phase # "down", NEW rec \in Item, Appends(rec)
    PROVE  /\ file' \in Seq(Item)
           /\ size' = size + 1
           /\ size' <= Len(file')
           /\ Extends(file', file, size, rec)
<1> DEFINE u == Append(SubSeq(file, 1, size), rec)
<1>1. PICK tail \in {<<>>, <<Torn>>} : file' = u \o tail
  BY DEF Appends
<1>2. /\ u \in Seq(Item)
      /\ Len(u) = size + 1
      /\ Extends(u, file, size, rec)
  BY WriteAfter DEF TypeInv, TypeOK, LogInv
<1>3. tail \in Seq(Item)
  <2>1. <<>> \in Seq(Item) /\ <<Torn>> \in Seq(Item)
    BY DEF Item
  <2> QED BY <1>1, <2>1
<1>4. /\ u \o tail \in Seq(Item)
      /\ Len(u \o tail) = Len(u) + Len(tail)
      /\ \A i \in 1..Len(u) : (u \o tail)[i] = u[i]
  BY <1>2, <1>3, ConcatProperties
<1>5. Extends(u \o tail, file, size, rec)
  BY <1>2, <1>4 DEF Extends, TypeInv, TypeOK
<1>6. Len(tail) \in Nat
  BY <1>3
<1>7. size' = size + 1 /\ size \in Nat
  BY DEF Appends, TypeInv, TypeOK
<1> HIDE DEF u
<1> QED BY <1>1, <1>2, <1>4, <1>5, <1>6, <1>7

LEMMA TearsEffect ==
    ASSUME TypeInv, phase # "down", AppendTears
    PROVE  /\ file' \in Seq(Item)
           /\ size' = size
           /\ size' <= Len(file')
           /\ \A i \in 1..size : file'[i] = file[i]
<1> DEFINE u == Append(SubSeq(file, 1, size), Torn)
<1>1. /\ file \in Seq(Item) /\ size \in Nat /\ size <= Len(file)
      /\ Torn \in Item
  BY DEF TypeInv, TypeOK, LogInv, Item
<1>2. /\ u \in Seq(Item)
      /\ Len(u) = size + 1
      /\ Extends(u, file, size, Torn)
  BY <1>1, WriteAfter
<1>3. file' = u /\ size' = size
  BY DEF AppendTears
<1> HIDE DEF u
<1> QED BY <1>1, <1>2, <1>3 DEF Extends

(***************************************************************************)
(* The in-memory structures keep their types.                              *)
(***************************************************************************)
LEMMA UpsertType ==
    ASSUME TypeOK, NEW k \in Keys, NEW off \in Nat, NEW t \in Nat,
           NEW ttl \in Nat, Upsert(k, off, t, ttl)
    PROVE  index' \in [Keys -> Slot] /\ dead_bytes' \in Nat
BY DEF TypeOK, Upsert, Slot, ExpiresAt, Held

LEMMA DropSlotType ==
    ASSUME TypeOK, NEW k \in Keys, DropSlot(k)
    PROVE  index' \in [Keys -> Slot] /\ dead_bytes' \in Nat
BY DEF TypeOK, DropSlot, Slot, NoSlot, Held

Vectors == [val : Values, exp : Nat]

LEMMA VecAddType ==
    ASSUME TypeOK, NEW k \in Keys, NEW v \in Values, NEW exp \in Nat,
           VecAdd(k, v, exp)
    PROVE  vec' \in [Keys -> SUBSET Vectors]
BY DEF TypeOK, VecAdd, Vectors

LEMMA VecDelType ==
    ASSUME TypeOK, NEW k \in Keys, VecDel(k)
    PROVE  vec' \in [Keys -> SUBSET Vectors]
BY DEF TypeOK, VecDel, Vectors

LEMMA ExpiryType ==
    ASSUME NEW t \in Nat, NEW ttl \in Nat
    PROVE  ExpiresAt(t, ttl) \in Nat
BY DEF ExpiresAt

LEMMA ApplyType ==
    ASSUME TypeOK, NEW rec \in Record, NEW off \in Nat, Apply(rec, off)
    PROVE  /\ index' \in [Keys -> Slot]
           /\ dead_bytes' \in Nat
           /\ vec' \in [Keys -> SUBSET Vectors]
<1>1. /\ rec.key \in Keys /\ rec.val \in Values
      /\ rec.ts \in Nat /\ rec.ttl \in Nat
  BY DEF Record
<1>2. CASE rec.kind = "put"
  BY <1>1, <1>2, UpsertType, VecAddType, ExpiryType DEF Apply
<1>3. CASE rec.kind = "tomb"
  <2>1. DropSlot(rec.key) /\ (VecDel(rec.key) \/ UNCHANGED vec)
    BY <1>3 DEF Apply
  <2> QED BY <1>1, <2>1, DropSlotType, VecDelType DEF TypeOK, Vectors
<1> QED BY <1>2, <1>3 DEF Apply

LEMMA MaybeCompactType ==
    ASSUME TypeOK, MaybeCompact
    PROVE  /\ phase' \in {phase, "compact"}
           /\ tmp' \in Seq(Record)
           /\ pending' \in SUBSET Keys
<1>1. CASE tmp' = <<>> /\ phase' = "compact"
           /\ pending' = {k \in Keys : index'[k].off # 0}
  <2>1. <<>> \in Seq(Record)
    OBVIOUS
  <2>2. {k \in Keys : index'[k].off # 0} \in SUBSET Keys
    OBVIOUS
  <2> QED BY <1>1, <2>1, <2>2
<1>2. CASE UNCHANGED <<phase, tmp, pending>>
  BY <1>2 DEF TypeOK
<1> QED BY <1>1, <1>2 DEF MaybeCompact

LEMMA WrittenType ==
    ASSUME TypeOK, NEW k \in Keys, NEW c \in Chunks, NEW append
    PROVE  Written(k, c, append) \in Values
<1>1. <<c>> \in Values
  BY DEF Values
<1>2. ASSUME Readable(k) PROVE Append(ReadVal(k), c) \in Values
  <2>1. file[index[k].off] \in Item /\ file[index[k].off] # Torn
    BY <1>2, ElementOfSeq DEF Readable, TypeOK
  <2>2. file[index[k].off].val \in Seq(Chunks)
    BY <2>1 DEF Item, Record, Values
  <2> QED BY <2>2 DEF ReadVal, Values
<1> QED BY <1>1, <1>2 DEF Written

(***************************************************************************)
(* What an append followed by maybe_compact does to the log invariant.     *)
(***************************************************************************)
LEMMA AppendKeepsLog ==
    ASSUME TypeInv, phase = "ready", NEW rec \in Record, Appends(rec)
    PROVE  file' \in Seq(Item) /\ size' \in Nat /\ LogInv'
<1>1. /\ file' \in Seq(Item)
      /\ size' = size + 1
      /\ size' <= Len(file')
      /\ Extends(file', file, size, rec)
  BY AppendsEffect DEF Item
<1>2. /\ size \in Nat
      /\ \A i \in 1..size : file[i] \in Record
  BY DEF TypeInv, TypeOK, LogInv
<1> QED BY <1>1, <1>2 DEF LogInv, Extends

LEMMA TearKeepsLog ==
    ASSUME TypeInv, phase = "ready", AppendTears
    PROVE  file' \in Seq(Item) /\ size' \in Nat /\ LogInv'
<1>1. /\ file' \in Seq(Item)
      /\ size' = size
      /\ size' <= Len(file')
      /\ \A i \in 1..size : file'[i] = file[i]
  BY TearsEffect
<1>2. /\ size \in Nat
      /\ \A i \in 1..size : file[i] \in Record
  BY DEF TypeInv, TypeOK, LogInv
<1> QED BY <1>1, <1>2 DEF LogInv

LEMMA ImportsType ==
    ASSUME TypeOK, NEW rec \in Imports
    PROVE  rec \in Record
<1>1. CASE \E k \in Keys, c \in Chunks, d \in {d \in Delays : d < now},
              ttl \in TTLs : rec = PutRec(k, <<c>>, now - d, ttl)
  <2>1. PICK k \in Keys, c \in Chunks, d \in {d \in Delays : d < now},
              ttl \in TTLs : rec = PutRec(k, <<c>>, now - d, ttl)
    BY <1>1
  <2>2. <<c>> \in Values /\ now - d \in Nat /\ ttl \in Nat
    BY LogAssumption, StoreAssumption DEF Values, TypeOK
  <2> QED BY <2>1, <2>2, PutRecType
<1>2. CASE \E k \in Keys : rec = TombRec(k)
  BY <1>2, TombRecType
<1> QED BY <1>1, <1>2 DEF Imports

LEMMA RestoredType ==
    ASSUME TypeOK, NEW kvs \in Snapshots
    PROVE  /\ Len(kvs) \in Nat
           /\ [i \in 1..Len(kvs) |-> PutRec(kvs[i][1], <<kvs[i][2]>>, now, 0)]
                \in Seq(Item)
<1>1. PICK n \in 0..MaxRestore : kvs \in [1..n -> Keys \X Chunks]
  BY DEF Snapshots
<1>2. n \in Nat /\ Len(kvs) = n
  BY <1>1, StoreAssumption
<1>3. \A i \in 1..n : PutRec(kvs[i][1], <<kvs[i][2]>>, now, 0) \in Item
  <2>1. TAKE i \in 1..n
  <2>2. kvs[i][1] \in Keys /\ <<kvs[i][2]>> \in Values
    BY <1>1 DEF Values
  <2> QED BY <2>2, PutRecType DEF TypeOK, Item
<1> QED BY <1>2, <1>3

LEMMA GoneType ==
    ASSUME TypeOK, ProcessGone, file' \in Seq(Item), synced' \in Nat
    PROVE  TypeInv'
<1>1. /\ phase' \in Phases /\ size' = 0 /\ index' \in [Keys -> Slot]
      /\ dead_bytes' = 0 /\ kix' = {} /\ kix_dirty' = FALSE
      /\ tmp' = <<>> /\ pending' = {} /\ now' \in Nat
  BY DEF TypeOK, ProcessGone, Phases, Slot, NoSlot
<1>2. vec' \in [Keys -> SUBSET [val : Values, exp : Nat]]
  BY DEF ProcessGone
<1>3. size' <= Len(file') /\ \A i \in 1..size' : file'[i] \in Record
  BY <1>1
<1>4. /\ size' \in Nat /\ dead_bytes' \in Nat
      /\ kix' \in SUBSET Keys /\ pending' \in SUBSET Keys
      /\ tmp' \in Seq(Record)
  BY DEF ProcessGone
<1>5. kix_dirty' \in BOOLEAN
  BY DEF ProcessGone
<1>6. TypeOK'
  BY <1>1, <1>2, <1>4, <1>5 DEF TypeOK
<1> QED BY <1>3, <1>6 DEF TypeInv, LogInv

(***************************************************************************)
(* One step of the store keeps the types and the log invariant.            *)
(***************************************************************************)
LEMMA TypeInvStep ==
    ASSUME TypeInv, [Next]_vars
    PROVE  TypeInv'
<1> USE DEF TypeInv
<1>1. CASE Open
  BY <1>1 DEF Open, TypeOK, LogInv, Phases
<1>2. CASE LoadRecord
  <2>1. size + 1 \in 1..Len(file) /\ file[size + 1] \in Record
    <3>1. size + 1 \in 1..Len(file) /\ file[size + 1].kind # "torn"
      BY <1>2 DEF LoadRecord, AtLoadable, Loadable, TypeOK
    <3>2. file[size + 1] \in Item
      BY <3>1, ElementOfSeq DEF TypeOK
    <3> QED BY <3>1, <3>2 DEF Item, Torn
  <2>2. /\ index' \in [Keys -> Slot]
        /\ dead_bytes' \in Nat
        /\ vec' \in [Keys -> SUBSET Vectors]
    BY <1>2, <2>1, ApplyType DEF LoadRecord, TypeOK
  <2> QED BY <1>2, <2>1, <2>2 DEF LoadRecord, TypeOK, LogInv, Vectors
<1>3. CASE LoadDone
  <2>1. phase = "load" /\ file' = SubSeq(file, 1, size) /\ size' = size
        /\ phase' = "ready" /\ synced' \in Nat
    BY <1>3 DEF LoadDone, mem, TypeOK
  <2>2. /\ size \in Nat /\ size <= Len(file)
        /\ \A i \in 1..size : file[i] \in Record /\ file[i] \in Item
    BY <2>1 DEF LogInv, TypeOK, Item
  <2>3. /\ file' \in Seq(Item)
        /\ Len(file') = size
        /\ \A i \in 1..size : file'[i] = file[i]
    BY <2>1, <2>2, SubSeqProperties
  <2> QED BY <1>3, <2>1, <2>2, <2>3 DEF LoadDone, TypeOK, LogInv, Phases, mem
<1>4. ASSUME NEW k \in Keys, NEW c \in Chunks, NEW ttl \in TTLs,
             NEW append \in BOOLEAN, Set(k, c, ttl, append)
      PROVE  TypeInv'
  <2> DEFINE v == Written(k, c, append)
  <2>1. v \in Values /\ ttl \in Nat /\ now \in Nat
    BY WrittenType, LogAssumption DEF TypeOK
  <2>2. PutRec(k, v, now, ttl) \in Record
    BY <2>1, PutRecType
  <2>3. /\ phase = "ready" /\ Appends(PutRec(k, v, now, ttl))
        /\ Upsert(k, size + 1, now, ttl) /\ VecAdd(k, v, ExpiresAt(now, ttl))
        /\ KixInsert(k) /\ MaybeCompact /\ UNCHANGED <<synced, kix_dirty, now>>
    BY <1>4 DEF Set
  <2> HIDE DEF v
  <2>4. file' \in Seq(Item) /\ size' \in Nat /\ LogInv'
    BY <2>2, <2>3, AppendKeepsLog
  <2>5. index' \in [Keys -> Slot] /\ dead_bytes' \in Nat
    BY <2>1, <2>3, UpsertType DEF TypeOK
  <2>6. vec' \in [Keys -> SUBSET Vectors]
    BY <2>1, <2>3, VecAddType, ExpiryType
  <2>7. phase' \in Phases /\ tmp' \in Seq(Record) /\ pending' \in SUBSET Keys
    BY <2>3, MaybeCompactType DEF Phases
  <2>8. kix' \in SUBSET Keys
    BY <2>3 DEF KixInsert, TypeOK
  <2> QED BY <2>3, <2>4, <2>5, <2>6, <2>7, <2>8 DEF TypeOK, Vectors
<1>5. CASE SetFails
  BY <1>5, TearKeepsLog DEF SetFails, TypeOK
<1>6. ASSUME NEW k \in Keys, Del(k) PROVE TypeInv'
  <2>1. /\ phase = "ready"
        /\ DropSlot(k)
        /\ VecDel(k) \/ UNCHANGED vec
        /\ KixRemove(k)
        /\ MaybeCompact
        /\ UNCHANGED <<synced, kix_dirty, now>>
        /\ Appends(TombRec(k)) \/ AppendTears
    BY <1>6 DEF Del
  <2>2. file' \in Seq(Item) /\ size' \in Nat /\ LogInv'
    BY <1>6, <2>1, TombRecType, AppendKeepsLog, TearKeepsLog DEF Del
  <2>3. index' \in [Keys -> Slot] /\ dead_bytes' \in Nat
    BY <1>6, DropSlotType DEF Del
  <2>4. vec' \in [Keys -> SUBSET Vectors]
    BY <1>6, VecDelType DEF Del, TypeOK, Vectors
  <2>5. phase' \in Phases /\ tmp' \in Seq(Record) /\ pending' \in SUBSET Keys
    BY <1>6, MaybeCompactType DEF Del, Phases
  <2> QED BY <1>6, <2>2, <2>3, <2>4, <2>5 DEF Del, KixRemove, TypeOK, Vectors
<1>7. ASSUME NEW rec \in Imports, ImportRaw(rec) PROVE TypeInv'
  <2>1. rec \in Record /\ rec.key \in Keys
    BY ImportsType DEF Record
  <2>2. file' \in Seq(Item) /\ size' \in Nat /\ LogInv'
    BY <1>7, <2>1, AppendKeepsLog DEF ImportRaw
  <2>3. /\ index' \in [Keys -> Slot]
        /\ dead_bytes' \in Nat
        /\ vec' \in [Keys -> SUBSET Vectors]
    BY <1>7, <2>1, ApplyType DEF ImportRaw, TypeOK
  <2>4. phase' \in Phases /\ tmp' \in Seq(Record) /\ pending' \in SUBSET Keys
    BY <1>7, MaybeCompactType DEF ImportRaw, Phases
  <2>5. kix' \in SUBSET Keys
    BY <1>7, <2>1 DEF ImportRaw, KixInsert, KixRemove, TypeOK
  <2> QED BY <1>7, <2>2, <2>3, <2>4, <2>5 DEF ImportRaw, TypeOK, Vectors
<1>8. ASSUME NEW rec \in Imports, ImportFails(rec) PROVE TypeInv'
  <2>1. file' \in Seq(Item) /\ size' \in Nat /\ LogInv'
    BY <1>8, ImportsType, AppendKeepsLog, TearKeepsLog DEF ImportFails
  <2> QED BY <1>8, <2>1 DEF ImportFails, TypeOK
<1>9. CASE Sync
  BY <1>9 DEF Sync, TypeOK, LogInv, mem
<1>10. CASE ListPrefix
  BY <1>10 DEF ListPrefix, TypeOK, LogInv, HeldKeys
<1>11. ASSUME NEW kvs \in Snapshots, Restore(kvs) PROVE TypeInv'
  <2>1. file' \in Seq(Item) /\ synced' \in Nat
    BY <1>11, RestoredType DEF Restore
  <2> QED BY <1>11, <2>1 DEF Restore, TypeOK, LogInv, Phases, Slot, NoSlot
<1>12. CASE Reset
  BY <1>12 DEF Reset, TypeOK, LogInv, Phases, Slot, NoSlot
<1>13. ASSUME NEW k \in Keys, CompactSlot(k) PROVE TypeInv'
  <2>1. CASE CompactSkip(k)
    BY <1>13, <2>1 DEF CompactSlot, CompactSkip, TypeOK, LogInv
  <2>2. CASE CompactWrite(k)
    <3>1. ReadVal(k) \in Values
      <4>1. file[index[k].off] \in Item /\ file[index[k].off] # Torn
        BY <2>2, ElementOfSeq DEF CompactWrite, Readable, TypeOK
      <4> QED BY <4>1 DEF Item, Record, ReadVal
    <3>2. Rewritten(k) \in Record
      BY <3>1, PutRecType DEF Rewritten, TypeOK, Slot
    <3>3. tmp' \in Seq(Record) /\ Len(tmp) + 1 \in Nat
      BY <2>2, <3>2, AppendProperties DEF CompactWrite, TypeOK
    <3>4. index' \in [Keys -> Slot]
      BY <2>2, <3>3 DEF CompactWrite, TypeOK, Slot
    <3> QED BY <1>13, <3>3, <3>4 DEF CompactSlot, TypeOK, LogInv
  <2> QED BY <1>13, <2>1, <2>2 DEF CompactSlot
<1>14. CASE CompactEnd
  <2>1. tmp \in Seq(Item) /\ Len(tmp) \in Nat
        /\ \A i \in 1..Len(tmp) : tmp[i] \in Record
    BY SeqMonotonic, ElementOfSeq DEF TypeOK, Item
  <2>2. /\ phase' = "ready" /\ tmp' = <<>>
        /\ UNCHANGED <<index, vec, kix, kix_dirty, pending, now>>
    BY <1>14 DEF CompactEnd
  <2>3. CASE /\ file' = tmp /\ size' = Len(tmp) /\ dead_bytes' = 0
             /\ synced' = Len(tmp) \/ synced' = 0
    BY <2>1, <2>2, <2>3 DEF TypeOK, LogInv, Phases
  <2>4. CASE UNCHANGED <<file, size, dead_bytes, synced>>
    BY <1>14, <2>2, <2>4 DEF CompactEnd, TypeOK, LogInv, Phases
  <2> QED BY <1>14, <2>3, <2>4 DEF CompactEnd
<1>15. CASE Close
  BY <1>15, GoneType DEF Close, TypeOK
<1>16. CASE Kill
  <2>1. phase = "ready" /\ file' = Append(SubSeq(file, 1, size), Torn)
          => file' \in Seq(Item)
    BY WriteAfter DEF TypeOK, LogInv, Item
  <2> QED BY <1>16, <2>1, GoneType DEF Kill, TypeOK
<1>17. CASE PowerLoss
  <2>1. PICK n \in synced..Len(file), tail \in {<<>>, <<Torn>>} :
            file' = SubSeq(file, 1, n) \o tail /\ synced' = n
    BY <1>17 DEF PowerLoss
  <2>2. n \in Nat /\ n <= Len(file) /\ \A i \in 1..n : file[i] \in Item
    BY ElementOfSeq DEF TypeOK
  <2>3. SubSeq(file, 1, n) \in Seq(Item)
    BY <2>2, SubSeqProperties
  <2>4. <<>> \in Seq(Item) /\ <<Torn>> \in Seq(Item)
    BY DEF Item
  <2>5. file' \in Seq(Item)
    BY <2>1, <2>3, <2>4, ConcatProperties
  <2> QED BY <1>17, <2>1, <2>2, <2>5, GoneType DEF PowerLoss
<1>18. CASE Tick
  BY <1>18 DEF Tick, TypeOK, LogInv, mem
<1>19. CASE UNCHANGED vars
  BY <1>19 DEF vars, mem, TypeOK, LogInv
<1> QED
  BY <1>1, <1>2, <1>3, <1>4, <1>5, <1>6, <1>7, <1>8, <1>9, <1>10, <1>11,
     <1>12, <1>13, <1>14, <1>15, <1>16, <1>17, <1>18, <1>19 DEF Next, Operate

LEMMA TypeInvInit == Init => TypeInv
<1>1. SUFFICES ASSUME Init PROVE TypeInv
  OBVIOUS
<1>2. index \in [Keys -> Slot] /\ phase \in Phases
  BY <1>1 DEF Init, Phases, Slot, NoSlot
<1>3. vec \in [Keys -> SUBSET [val : Values, exp : Nat]]
  BY <1>1 DEF Init
<1>4. file \in Seq(Item) /\ tmp \in Seq(Record) /\ Len(file) = 0
  BY <1>1 DEF Init
<1>5. /\ kix \in SUBSET Keys /\ pending \in SUBSET Keys
      /\ kix_dirty \in BOOLEAN
      /\ synced \in Nat /\ size \in Nat /\ dead_bytes \in Nat /\ now \in Nat
  BY <1>1 DEF Init
<1>6. TypeOK
  BY <1>2, <1>3, <1>4, <1>5 DEF TypeOK
<1> QED BY <1>1, <1>4, <1>6 DEF Init, TypeInv, LogInv

LEMMA TypeInvariant == Spec => []TypeInv
BY TypeInvInit, TypeInvStep, PTL DEF Spec

(***************************************************************************)
(* Type correctness: every variable keeps its type in every reachable      *)
(* state, whatever fails.                                                  *)
(***************************************************************************)
THEOREM TypeCorrect == Spec => []TypeOK
<1>1. TypeInv => TypeOK
  BY DEF TypeInv
<1> QED BY <1>1, TypeInvariant, PTL

-----------------------------------------------------------------------------
(* The inductive invariant *)

(***************************************************************************)
(* The faults after which the index no longer agrees with the log:         *)
(* store_del has dropped the slot when its tombstone cannot be written     *)
(* (store.c:858), store_import_raw has advanced the size when fdatasync    *)
(* fails (store.c:604), and compact leaves slots with offsets of one file  *)
(* while the process goes on with the other (store.c:389).                 *)
(***************************************************************************)
Untolerated == {"del", "import_sync", "compact_read", "compact_write",
                "compact_rename"}

(***************************************************************************)
(* A slot compact has still to visit agrees with the old log, and the new  *)
(* one says nothing of its key; the slots it has visited, and the empty    *)
(* ones, agree with the new log already.                                   *)
(***************************************************************************)
CompactingAgrees(k) ==
    IF k \in pending
    THEN /\ Held(k)
         /\ Agrees(index[k], k, file, size, now)
         /\ ~Mentions(k, tmp, Len(tmp))
    ELSE Agrees(index[k], k, tmp, Len(tmp), now)

IndexInv ==
    \A k \in Keys : IF phase = "compact"
                    THEN CompactingAgrees(k)
                    ELSE Agrees(index[k], k, file, size, now)

(***************************************************************************)
(* The agreement that holds after an operation survives the question       *)
(* whether to compact.                                                     *)
(***************************************************************************)
LEMMA MaybeCompactAgrees ==
    ASSUME phase = "ready", MaybeCompact,
           \A k \in Keys : Agrees(index'[k], k, file', size', now')
    PROVE  IndexInv'
<1>1. CASE phase' = "compact" /\ tmp' = <<>>
           /\ pending' = {k \in Keys : index'[k].off # 0}
  <2>1. Len(tmp') = 0
    BY <1>1
  <2>2. ASSUME NEW k \in Keys PROVE CompactingAgrees(k)'
    <3>1. ~Mentions(k, tmp', Len(tmp'))
      BY <2>1 DEF Mentions
    <3>2. k \notin pending' => Agrees(index'[k], k, tmp', Len(tmp'), now')
      BY <1>1, <2>1, EmptyAgrees
    <3> QED BY <1>1, <3>1, <3>2 DEF CompactingAgrees, Held
  <2> QED BY <1>1, <2>2 DEF IndexInv
<1>2. CASE UNCHANGED <<phase, tmp, pending>>
  BY <1>2 DEF IndexInv
<1> QED BY <1>1, <1>2 DEF MaybeCompact

(***************************************************************************)
(* Writing and applying a record keeps the agreement.                      *)
(***************************************************************************)
LEMMA UpsertAgrees ==
    ASSUME TypeInv, IndexInv, phase \in {"load", "ready"},
           NEW rec \in Record, rec.kind = "put",
           Extends(file', file, size, rec), size' = size + 1, now' = now,
           Upsert(rec.key, size + 1, rec.ts, rec.ttl)
    PROVE  \A k \in Keys : Agrees(index'[k], k, file', size', now')
<1>1. TAKE k \in Keys
<1>2. /\ size \in Nat /\ rec.key \in Keys
      /\ Agrees(index[k], k, file, size, now)
      /\ index' = [index EXCEPT ![rec.key] =
                      [off |-> size + 1, ts |-> rec.ts,
                       exp |-> ExpiresAt(rec.ts, rec.ttl)]]
      /\ index \in [Keys -> Slot]
  BY DEF TypeInv, TypeOK, IndexInv, Record, Upsert
<1>3. CASE k = rec.key
  <2>1. /\ index'[k].off = size + 1
        /\ index'[k].ts = rec.ts
        /\ index'[k].exp = ExpiresAt(rec.ts, rec.ttl)
    BY <1>2, <1>3
  <2>2. RefersTo(index'[k], k, file', size + 1)
    BY <1>2, <1>3, <2>1, WriteAgrees
  <2> QED BY <2>2 DEF Agrees
<1>4. CASE k # rec.key
  <2>1. index'[k] = index[k]
    BY <1>2, <1>4
  <2> QED BY <1>2, <1>4, <2>1, WriteAgrees
<1> QED BY <1>3, <1>4

LEMMA DropAgrees ==
    ASSUME TypeInv, IndexInv, phase \in {"load", "ready"},
           NEW rec \in Record, rec.kind = "tomb",
           Extends(file', file, size, rec), size' = size + 1, now' = now,
           DropSlot(rec.key)
    PROVE  \A k \in Keys : Agrees(index'[k], k, file', size', now')
<1>1. TAKE k \in Keys
<1>2. /\ size \in Nat /\ rec.key \in Keys
      /\ Agrees(index[k], k, file, size, now)
      /\ index' = [index EXCEPT ![rec.key] = NoSlot]
      /\ index \in [Keys -> Slot]
  BY DEF TypeInv, TypeOK, IndexInv, Record, DropSlot
<1>3. CASE k = rec.key
  <2>1. index'[k].off = 0
    BY <1>2, <1>3 DEF NoSlot
  <2> QED BY <1>2, <1>3, <2>1, WriteAgrees
<1>4. CASE k # rec.key
  <2>1. index'[k] = index[k]
    BY <1>2, <1>4
  <2> QED BY <1>2, <1>4, <2>1, WriteAgrees
<1> QED BY <1>3, <1>4

LEMMA ApplyAgrees ==
    ASSUME TypeInv, IndexInv, phase \in {"load", "ready"},
           NEW rec \in Record,
           Extends(file', file, size, rec), size' = size + 1, now' = now,
           Apply(rec, size + 1)
    PROVE  \A k \in Keys : Agrees(index'[k], k, file', size', now')
BY UpsertAgrees, DropAgrees DEF Apply

(***************************************************************************)
(* A step that keeps the slots and the records before size keeps IndexInv, *)
(* as long as it keeps the clock.                                          *)
(***************************************************************************)
LEMMA PrefixKeeps ==
    ASSUME TypeInv, IndexInv, phase # "compact", phase' # "compact",
           \A i \in 1..size : file'[i] = file[i],
           UNCHANGED <<size, index, now>>
    PROVE  IndexInv'
<1>1. ASSUME NEW k \in Keys PROVE Agrees(index'[k], k, file', size', now')
  <2>1. Agrees(index[k], k, file, size, now) /\ size \in Nat
    BY DEF IndexInv, TypeInv, TypeOK
  <2>2. Agrees(index[k], k, file', size, now)
    BY <2>1, PrefixAgrees
  <2> QED BY <2>2
<1> QED BY <1>1 DEF IndexInv

(***************************************************************************)
(* With an empty memory and nothing scanned, IndexInv holds.               *)
(***************************************************************************)
LEMMA EmptyMemory ==
    ASSUME phase' # "compact", size' = 0, index' = [k \in Keys |-> NoSlot]
    PROVE  IndexInv'
BY EmptyAgrees DEF IndexInv, NoSlot

(***************************************************************************)
(* A slot that has not expired can be read: it refers to a complete put.   *)
(***************************************************************************)
LEMMA LiveIsReadable ==
    ASSUME TypeInv, NEW k \in Keys, Held(k), ~Expired(k),
           Agrees(index[k], k, file, size, now)
    PROVE  Readable(k) /\ RefersTo(index[k], k, file, size)
<1>1. RefersTo(index[k], k, file, size)
  BY DEF Agrees, Held, Expired
<1>2. index[k].off \in 1..size
  BY <1>1 DEF RefersTo, Latest
<1>3. file[index[k].off] \in Record /\ index[k].off \in 1..Len(file)
  BY <1>2 DEF TypeInv, TypeOK, LogInv
<1> QED BY <1>1, <1>3, TornIsNoRecord DEF Readable

(***************************************************************************)
(* The slot of a key compaction has just rewritten agrees with the new     *)
(* log, and it keeps its write time and its expiry.                        *)
(***************************************************************************)
LEMMA RewrittenAgrees ==
    ASSUME TypeInv, NEW k \in Keys, RefersTo(index[k], k, file, size),
           CompactWrite(k)
    PROVE  RefersTo(index'[k], k, tmp', Len(tmp) + 1)
<1> DEFINE rec == Rewritten(k)
           e   == index[k]
<1>1. /\ e \in Slot /\ index \in [Keys -> Slot] /\ tmp \in Seq(Record)
      /\ file[e.off] \in Record
      /\ e.ts = file[e.off].ts
      /\ e.exp = ExpiresAt(file[e.off].ts, file[e.off].ttl)
  BY DEF TypeInv, TypeOK, LogInv, RefersTo, Latest
<1>2. file[e.off].ts \in Nat /\ file[e.off].ttl \in Nat
  BY <1>1 DEF Record
<1>3. /\ rec.kind = "put" /\ rec.key = k /\ rec.ts = e.ts
      /\ rec.ttl = IF e.exp = 0 THEN 0 ELSE e.exp - e.ts
  BY DEF Rewritten, PutRec
<1>4. ExpiresAt(rec.ts, rec.ttl) = e.exp
  BY <1>1, <1>2, <1>3 DEF ExpiresAt
<1>5. /\ index'[k].off = Len(tmp) + 1
      /\ index'[k].ts = e.ts
      /\ index'[k].exp = e.exp
  BY <1>1 DEF CompactWrite, Slot
<1>6. tmp' = Append(tmp, rec) /\ Len(tmp) \in Nat
  BY <1>1 DEF CompactWrite
<1>7. Extends(tmp', tmp, Len(tmp), rec)
  BY <1>1, <1>6 DEF Extends
<1> HIDE DEF rec, e
<1> QED BY <1>3, <1>4, <1>5, <1>6, <1>7, WriteAgrees

(***************************************************************************)
(* One turn of compact's loop.                                             *)
(***************************************************************************)
LEMMA CompactSlotAgrees ==
    ASSUME TypeInv, IndexInv, Faults \cap Untolerated = {},
           NEW k \in Keys, CompactSlot(k)
    PROVE  IndexInv'
<1>1. /\ phase = "compact" /\ phase' = "compact" /\ k \in pending
      /\ pending' = pending \ {k}
      /\ UNCHANGED <<file, size, now>>
      /\ Held(k) /\ Agrees(index[k], k, file, size, now)
      /\ ~Mentions(k, tmp, Len(tmp))
      /\ index \in [Keys -> Slot] /\ tmp \in Seq(Record)
  BY DEF CompactSlot, IndexInv, CompactingAgrees, TypeInv, TypeOK
<1>2. SUFFICES ASSUME NEW j \in Keys PROVE CompactingAgrees(j)'
  BY <1>1 DEF IndexInv
<1>3. CompactingAgrees(j)
  BY <1>1 DEF IndexInv
<1>4. CASE CompactSkip(k)
  <2>1. Expired(k)
    <3>1. Faults \cap {"compact_read", "compact_write"} = {}
      BY DEF Untolerated
    <3> QED BY <1>1, <1>4, <3>1, LiveIsReadable DEF CompactSkip
  <2>2. UNCHANGED <<index, tmp>>
    BY <1>4 DEF CompactSkip
  <2>3. Agrees(index[k], k, tmp, Len(tmp), now)
    BY <1>1, <2>1 DEF Agrees, Held, Expired
  <2>4. CASE j = k
    BY <1>1, <2>2, <2>3, <2>4 DEF CompactingAgrees
  <2>5. CASE j # k
    BY <1>1, <1>3, <2>2, <2>5 DEF CompactingAgrees, Held
  <2> QED BY <2>4, <2>5
<1>5. CASE CompactWrite(k)
  <2> DEFINE rec == Rewritten(k)
  <2>1. RefersTo(index[k], k, file, size)
    BY <1>1, <1>5, LiveIsReadable DEF CompactWrite
  <2>2. /\ rec.key = k
        /\ tmp' = Append(tmp, rec)
        /\ index' = [index EXCEPT ![k].off = Len(tmp) + 1]
    BY <1>5 DEF CompactWrite, Rewritten, PutRec
  <2> HIDE DEF rec
  <2>3. /\ Len(tmp) \in Nat /\ Len(tmp') = Len(tmp) + 1
        /\ Extends(tmp', tmp, Len(tmp), rec)
    BY <1>1, <2>2 DEF Extends
  <2>4. CASE j = k
    <3>1. RefersTo(index'[k], k, tmp', Len(tmp'))
      BY <1>5, <2>1, <2>3, RewrittenAgrees
    <3> QED BY <1>1, <2>4, <3>1 DEF CompactingAgrees, Agrees
  <2>5. CASE j # k
    <3>1. index'[j] = index[j]
      BY <1>1, <2>2, <2>5
    <3>2. /\ Mentions(j, tmp', Len(tmp')) <=> Mentions(j, tmp, Len(tmp))
          /\ Agrees(index[j], j, tmp, Len(tmp), now)
               => Agrees(index[j], j, tmp', Len(tmp'), now)
      BY <2>2, <2>3, <2>5, LatestOther, WriteAgrees
    <3> QED BY <1>1, <1>3, <2>5, <3>1, <3>2 DEF CompactingAgrees, Held
  <2> QED BY <2>4, <2>5
<1> QED BY <1>4, <1>5 DEF CompactSlot

-----------------------------------------------------------------------------
(* Every step keeps the invariant *)

LEMMA IndexInvStep ==
    ASSUME TypeInv, IndexInv, [Next]_vars, Faults \cap Untolerated = {}
    PROVE  IndexInv'
<1>1. CASE Open
  BY <1>1, PrefixKeeps DEF Open
<1>2. CASE LoadRecord
  <2>1. /\ phase = "load" /\ phase' = "load" /\ size' = size + 1
        /\ Apply(file[size + 1], size + 1)
        /\ UNCHANGED <<file, now>>
        /\ size + 1 \in 1..Len(file) /\ file[size + 1].kind # "torn"
    BY <1>2 DEF LoadRecord, AtLoadable, Loadable, TypeInv, TypeOK
  <2>2. file[size + 1] \in Record
    <3>1. file[size + 1] \in Item
      BY <2>1, ElementOfSeq DEF TypeInv, TypeOK
    <3> QED BY <2>1, <3>1 DEF Item, Torn
  <2>3. Extends(file', file, size, file[size + 1])
    BY <2>1 DEF Extends
  <2> QED BY <2>1, <2>2, <2>3, ApplyAgrees DEF IndexInv
<1>3. CASE LoadDone
  <2>1. /\ phase = "load" /\ phase' = "ready"
        /\ file' = SubSeq(file, 1, size)
        /\ UNCHANGED <<size, index, now>>
    BY <1>3 DEF LoadDone, mem
  <2>2. \A i \in 1..size : file'[i] = file[i]
    BY <2>1, SubSeqProperties DEF TypeInv, TypeOK, LogInv, Item
  <2> QED BY <2>1, <2>2, PrefixKeeps
<1>4. ASSUME NEW k \in Keys, NEW c \in Chunks, NEW ttl \in TTLs,
             NEW append \in BOOLEAN, Set(k, c, ttl, append)
      PROVE  IndexInv'
  <2> DEFINE rec == PutRec(k, Written(k, c, append), now, ttl)
  <2>1. /\ rec \in Record /\ rec.kind = "put" /\ rec.key = k
        /\ rec.ts = now /\ rec.ttl = ttl
    BY WrittenType, PutRecType, LogAssumption DEF TypeInv, TypeOK
  <2>2. /\ phase = "ready" /\ Appends(rec)
        /\ Upsert(k, size + 1, now, ttl) /\ MaybeCompact /\ now' = now
    BY <1>4 DEF Set
  <2> HIDE DEF rec
  <2>3. Extends(file', file, size, rec) /\ size' = size + 1
    BY <2>1, <2>2, AppendsEffect DEF Item
  <2>4. Upsert(rec.key, size + 1, rec.ts, rec.ttl)
    BY <2>1, <2>2
  <2> QED BY <2>1, <2>2, <2>3, <2>4, UpsertAgrees, MaybeCompactAgrees
<1>5. CASE SetFails
  BY <1>5, TearsEffect, PrefixKeeps DEF SetFails
<1>6. ASSUME NEW k \in Keys, Del(k) PROVE IndexInv'
  <2>1. "del" \notin Faults
    BY DEF Untolerated
  <2>2. /\ phase = "ready" /\ Appends(TombRec(k)) /\ DropSlot(k)
        /\ MaybeCompact /\ now' = now
    BY <1>6, <2>1 DEF Del
  <2>3. /\ TombRec(k) \in Record /\ TombRec(k).kind = "tomb"
        /\ TombRec(k).key = k
    BY TombRecType
  <2>4. Extends(file', file, size, TombRec(k)) /\ size' = size + 1
    BY <2>2, <2>3, AppendsEffect DEF Item
  <2>5. DropSlot(TombRec(k).key)
    BY <2>2, <2>3
  <2> QED BY <2>2, <2>3, <2>4, <2>5, DropAgrees, MaybeCompactAgrees
<1>7. ASSUME NEW rec \in Imports, ImportRaw(rec) PROVE IndexInv'
  <2>1. /\ phase = "ready" /\ Appends(rec) /\ Apply(rec, size + 1)
        /\ MaybeCompact /\ now' = now
    BY <1>7 DEF ImportRaw
  <2>2. rec \in Record
    BY ImportsType DEF TypeInv
  <2>3. Extends(file', file, size, rec) /\ size' = size + 1
    BY <2>1, <2>2, AppendsEffect DEF Item
  <2> QED BY <2>1, <2>2, <2>3, ApplyAgrees, MaybeCompactAgrees
<1>8. ASSUME NEW rec \in Imports, ImportFails(rec) PROVE IndexInv'
  <2>1. "import_sync" \notin Faults
    BY DEF Untolerated
  <2>2. AppendTears /\ phase = "ready" /\ UNCHANGED <<phase, index, now>>
    BY <1>8, <2>1 DEF ImportFails
  <2> QED BY <2>2, TearsEffect, PrefixKeeps
<1>9. CASE Sync
  BY <1>9, PrefixKeeps DEF Sync, mem
<1>10. CASE ListPrefix
  BY <1>10, PrefixKeeps DEF ListPrefix
<1>11. ASSUME NEW kvs \in Snapshots, Restore(kvs) PROVE IndexInv'
  BY <1>11, EmptyMemory DEF Restore
<1>12. CASE Reset
  BY <1>12, EmptyMemory DEF Reset
<1>13. ASSUME NEW k \in Keys, CompactSlot(k) PROVE IndexInv'
  BY <1>13, CompactSlotAgrees
<1>14. CASE CompactEnd
  <2>1. /\ phase = "compact" /\ phase' = "ready" /\ pending = {}
        /\ file' = tmp /\ size' = Len(tmp) /\ UNCHANGED <<index, now>>
    BY <1>14 DEF CompactEnd, Untolerated
  <2> QED BY <2>1 DEF IndexInv, CompactingAgrees
<1>15. CASE Close
  BY <1>15, EmptyMemory DEF Close, ProcessGone
<1>16. CASE Kill
  BY <1>16, EmptyMemory DEF Kill, ProcessGone
<1>17. CASE PowerLoss
  BY <1>17, EmptyMemory DEF PowerLoss, ProcessGone
<1>18. CASE Tick
  <2>1. phase # "compact" /\ now' = now + 1
        /\ UNCHANGED <<phase, file, size, index>>
    BY <1>18 DEF Tick, mem
  <2>2. now \in Nat /\ \A k \in Keys : index[k] \in Slot
    BY DEF TypeInv, TypeOK
  <2> QED BY <2>1, <2>2, LaterAgrees DEF IndexInv
<1>19. CASE UNCHANGED vars
  BY <1>19 DEF vars, mem, IndexInv, CompactingAgrees, Held
<1> QED
  BY <1>1, <1>2, <1>3, <1>4, <1>5, <1>6, <1>7, <1>8, <1>9, <1>10, <1>11,
     <1>12, <1>13, <1>14, <1>15, <1>16, <1>17, <1>18, <1>19 DEF Next, Operate

(***************************************************************************)
(* The index agrees with the log whenever the store serves: after any      *)
(* sequence of sets, deletes, imports, compactions, restores, kills and    *)
(* power failures, a read returns what a restart would return.             *)
(***************************************************************************)
THEOREM IndexCorrect ==
    ASSUME Faults \cap Untolerated = {}
    PROVE  Spec => []IndexMatchesLog
<1>1. ASSUME Init PROVE IndexInv
  <2>1. phase # "compact" /\ size = 0
    BY <1>1 DEF Init
  <2>2. ASSUME NEW k \in Keys PROVE Agrees(index[k], k, file, 0, now)
    <3>1. index[k].off = 0
      BY <1>1 DEF Init, NoSlot
    <3> QED BY <3>1, EmptyAgrees
  <2> QED BY <2>1, <2>2 DEF IndexInv
<1>2. TypeInv /\ IndexInv /\ [Next]_vars => IndexInv'
  BY IndexInvStep
<1>3. IndexInv => IndexMatchesLog
  BY DEF IndexInv, IndexMatchesLog
<1> QED BY <1>1, <1>2, <1>3, TypeInvariant, PTL DEF Spec

-----------------------------------------------------------------------------
(* The prefix candidates *)

(***************************************************************************)
(* KixCoversIndex speaks of a store that serves.  A load fills the index   *)
(* without the candidates, which is sound because they are dirty then; and *)
(* a compaction moves slots but makes none.                                *)
(***************************************************************************)
KixInv ==
    /\ phase = "load" => kix_dirty
    /\ ~kix_dirty => HeldKeys \subseteq kix

LEMMA MaybeCompactPhase ==
    ASSUME phase = "ready", MaybeCompact
    PROVE  phase' \in {"ready", "compact"}
BY DEF MaybeCompact

LEMMA UpsertHeld ==
    ASSUME TypeOK, NEW k \in Keys, NEW off \in Nat, NEW t, NEW ttl,
           Upsert(k, off, t, ttl)
    PROVE  HeldKeys' \subseteq HeldKeys \cup {k}
BY DEF Upsert, HeldKeys, Held, TypeOK

LEMMA DropSlotHeld ==
    ASSUME TypeOK, NEW k \in Keys, DropSlot(k)
    PROVE  HeldKeys' \subseteq HeldKeys \ {k}
BY DEF DropSlot, HeldKeys, Held, NoSlot, TypeOK

LEMMA NothingHeld ==
    ASSUME index' = [k \in Keys |-> NoSlot]
    PROVE  HeldKeys' = {}
BY DEF HeldKeys, Held, NoSlot

LEMMA KixInvStep ==
    ASSUME TypeInv, KixInv, [Next]_vars
    PROVE  KixInv'
<1> USE DEF TypeInv, KixInv
<1>1. CASE Open
  BY <1>1 DEF Open
<1>2. CASE LoadRecord
  BY <1>2 DEF LoadRecord
<1>3. CASE LoadDone
  BY <1>3 DEF LoadDone, mem, HeldKeys, Held
<1>4. ASSUME NEW k \in Keys, NEW c \in Chunks, NEW ttl \in TTLs,
             NEW append \in BOOLEAN, Set(k, c, ttl, append)
      PROVE  KixInv'
  <2>1. phase' # "load" /\ kix_dirty' = kix_dirty /\ KixInsert(k)
    BY <1>4, MaybeCompactPhase DEF Set
  <2>2. HeldKeys' \subseteq HeldKeys \cup {k}
    BY <1>4, UpsertHeld DEF Set, TypeOK
  <2> QED BY <2>1, <2>2 DEF KixInsert
<1>5. CASE SetFails
  BY <1>5 DEF SetFails, HeldKeys, Held
<1>6. ASSUME NEW k \in Keys, Del(k) PROVE KixInv'
  <2>1. phase' # "load" /\ kix_dirty' = kix_dirty /\ KixRemove(k)
    BY <1>6, MaybeCompactPhase DEF Del
  <2>2. HeldKeys' \subseteq HeldKeys \ {k}
    BY <1>6, DropSlotHeld DEF Del
  <2> QED BY <2>1, <2>2 DEF KixRemove
<1>7. ASSUME NEW rec \in Imports, ImportRaw(rec) PROVE KixInv'
  <2>1. rec \in Record /\ rec.key \in Keys
    BY ImportsType DEF Record
  <2>2. phase' # "load" /\ kix_dirty' = kix_dirty
    BY <1>7, MaybeCompactPhase DEF ImportRaw
  <2>3. CASE rec.kind = "put"
    <3>1. HeldKeys' \subseteq HeldKeys \cup {rec.key}
      BY <1>7, <2>1, <2>3, UpsertHeld DEF ImportRaw, Apply, TypeOK
    <3>2. KixInsert(rec.key)
      BY <1>7, <2>3 DEF ImportRaw
    <3> QED BY <2>2, <3>1, <3>2 DEF KixInsert
  <2>4. CASE rec.kind = "tomb"
    <3>1. HeldKeys' \subseteq HeldKeys \ {rec.key}
      BY <1>7, <2>1, <2>4, DropSlotHeld DEF ImportRaw, Apply
    <3>2. KixRemove(rec.key)
      BY <1>7, <2>4 DEF ImportRaw
    <3> QED BY <2>2, <3>1, <3>2 DEF KixRemove
  <2> QED BY <2>1, <2>3, <2>4 DEF Record
<1>8. ASSUME NEW rec \in Imports, ImportFails(rec) PROVE KixInv'
  BY <1>8 DEF ImportFails, HeldKeys, Held
<1>9. CASE Sync
  BY <1>9 DEF Sync, mem, HeldKeys, Held
<1>10. CASE ListPrefix
  BY <1>10 DEF ListPrefix, HeldKeys, Held
<1>11. ASSUME NEW kvs \in Snapshots, Restore(kvs) PROVE KixInv'
  BY <1>11 DEF Restore
<1>12. CASE Reset
  BY <1>12 DEF Reset
<1>13. ASSUME NEW k \in Keys, CompactSlot(k) PROVE KixInv'
  <2>1. UNCHANGED <<phase, kix, kix_dirty>>
    BY <1>13 DEF CompactSlot
  <2>2. HeldKeys' \subseteq HeldKeys
    <3>1. CASE CompactSkip(k)
      BY <3>1 DEF CompactSkip, HeldKeys, Held
    <3>2. CASE CompactWrite(k)
      <4>1. Held(k)
        BY <3>2 DEF CompactWrite, Readable, Held
      <4>2. \A q \in Keys : q # k => index'[q] = index[q]
        BY <3>2 DEF CompactWrite, TypeOK
      <4> QED BY <4>1, <4>2 DEF HeldKeys, Held
    <3> QED BY <1>13, <3>1, <3>2 DEF CompactSlot
  <2> QED BY <2>1, <2>2
<1>14. CASE CompactEnd
  BY <1>14 DEF CompactEnd, HeldKeys, Held
<1>15. CASE ProcessGone
  BY <1>15, NothingHeld DEF ProcessGone
<1>16. CASE Tick
  BY <1>16 DEF Tick, mem, HeldKeys, Held
<1>17. CASE UNCHANGED vars
  BY <1>17 DEF vars, mem, HeldKeys, Held
<1> QED
  BY <1>1, <1>2, <1>3, <1>4, <1>5, <1>6, <1>7, <1>8, <1>9, <1>10, <1>11,
     <1>12, <1>13, <1>14, <1>15, <1>16, <1>17
     DEF Next, Operate, Close, Kill, PowerLoss

(***************************************************************************)
(* A prefix query (store_query over kix) misses no key of the index, for   *)
(* all constants and whatever calls fail.                                  *)
(***************************************************************************)
THEOREM KixCorrect == Spec => []KixCoversIndex
<1>1. Init => KixInv
  BY DEF Init, KixInv, HeldKeys, Held, NoSlot
<1>2. TypeInv /\ KixInv /\ [Next]_vars => KixInv'
  BY KixInvStep
<1>3. KixInv => KixCoversIndex
  BY DEF KixInv, KixCoversIndex
<1> QED BY <1>1, <1>2, <1>3, TypeInvariant, PTL DEF Spec

-----------------------------------------------------------------------------
(* What is on stable storage *)

(***************************************************************************)
(* What the scan of a load steps over, or stops at because it is torn.     *)
(***************************************************************************)
Fit(x) == x # Torn => Len(x.val) <= MaxVal

(***************************************************************************)
(* LoadKeepsSynced speaks of the last step of a load.  It needs that every *)
(* record in the file is one that a load accepts, that none of the synced  *)
(* ones is torn, and, for the appends that overwrite what lies behind      *)
(* size, that a store that serves has synced no more than size records.    *)
(***************************************************************************)
SyncInv ==
    /\ synced <= Len(file)
    /\ \A i \in 1..synced : file[i] # Torn
    /\ phase \in {"ready", "compact"} => synced <= size
    /\ \A i \in 1..Len(file) : Fit(file[i])
    /\ \A i \in 1..Len(tmp) : Fit(tmp[i])

LEMMA FitIsLoadable ==
    ASSUME NEW x \in Item, Fit(x), x # Torn
    PROVE  Loadable(x)
BY DEF Item, Record, Torn, Fit, Loadable

(***************************************************************************)
(* Every item of the file after an append is an old one, the new one, or   *)
(* the end of an earlier, failed append.                                   *)
(***************************************************************************)
LEMMA AppendsFit ==
    ASSUME TypeInv, SyncInv, phase = "ready", NEW rec \in Record, Fit(rec),
           Appends(rec)
    PROVE  /\ synced <= size /\ size' = size + 1 /\ size' <= Len(file')
           /\ \A i \in 1..synced : file'[i] # Torn
           /\ \A i \in 1..Len(file') : Fit(file'[i])
           /\ rec # Torn /\ file'[size + 1] = rec
<1> DEFINE u == Append(SubSeq(file, 1, size), rec)
<1>1. PICK tail \in {<<>>, <<Torn>>} : file' = u \o tail
  BY DEF Appends
<1>2. /\ size \in Nat /\ synced \in Nat /\ file \in Seq(Item)
      /\ size <= Len(file) /\ rec \in Item /\ synced <= size
  BY DEF TypeInv, TypeOK, LogInv, Item, SyncInv
<1>3. u \in Seq(Item) /\ Len(u) = size + 1 /\ Extends(u, file, size, rec)
  BY <1>2, WriteAfter
<1>4. /\ size' = size + 1 /\ size' <= Len(file')
      /\ Extends(file', file, size, rec)
  BY <1>2, AppendsEffect
<1>5. tail \in Seq(Item) /\ \A i \in 1..Len(tail) : Fit(tail[i])
  <2>1. Torn \in Item /\ Fit(Torn)
    BY DEF Fit, Item
  <2>2. CASE tail = <<>>
    BY <2>2
  <2>3. CASE tail = <<Torn>>
    <3>1. tail \in Seq(Item) /\ Len(tail) = 1 /\ tail[1] = Torn
      BY <2>1, <2>3
    <3> QED BY <2>1, <3>1
  <2> QED BY <1>1, <2>2, <2>3
<1>6. \A i \in 1..Len(u) : Fit(u[i])
  BY SMTT(30), <1>2, <1>3 DEF Extends, SyncInv
<1>7. \A i \in 1..Len(file') : Fit(file'[i])
  <2> HIDE DEF u
  <2>1. TAKE i \in 1..Len(file')
  <2>2. /\ Len(u \o tail) = Len(u) + Len(tail)
        /\ i <= Len(u) => (u \o tail)[i] = u[i]
        /\ i > Len(u) => (u \o tail)[i] = tail[i - Len(u)]
    <3>1. /\ u \in Seq(Item) /\ tail \in Seq(Item) /\ Len(u) \in Nat /\ Len(tail) \in Nat
          /\ i \in 1..Len(u \o tail)
      BY <1>1, <1>3, <1>5, LenProperties
    <3>2. /\ Len(u \o tail) = Len(u) + Len(tail)
          /\ \A j \in 1..(Len(u) + Len(tail)) :
               (u \o tail)[j] = IF j <= Len(u) THEN u[j] ELSE tail[j - Len(u)]
      BY <3>1, ConcatProperties
    <3> QED BY <3>1, <3>2
  <2>3. Len(u) \in Nat /\ Len(tail) \in Nat
    BY <1>3, <1>5
  <2>4. CASE i <= Len(u)
    BY <1>1, <1>6, <2>2, <2>3, <2>4
  <2>5. CASE i > Len(u)
    <3>1. i - Len(u) \in 1..Len(tail)
      BY <1>1, <2>2, <2>3, <2>5
    <3> QED BY <1>1, <1>5, <2>2, <2>5, <3>1
  <2> QED BY <2>3, <2>4, <2>5
<1>8. \A i \in 1..synced : file'[i] # Torn
  BY <1>2, <1>4 DEF Extends, SyncInv
<1> QED BY <1>2, <1>4, <1>7, <1>8, TornIsNoRecord DEF Extends

LEMMA TearsFit ==
    ASSUME TypeInv, SyncInv, phase = "ready", AppendTears
    PROVE  /\ synced <= size /\ size' = size /\ size' <= Len(file')
           /\ \A i \in 1..synced : file'[i] # Torn
           /\ \A i \in 1..Len(file') : Fit(file'[i])
<1>1. /\ size \in Nat /\ synced \in Nat /\ file \in Seq(Item)
      /\ size <= Len(file) /\ Torn \in Item /\ synced <= size
  BY DEF TypeInv, TypeOK, LogInv, Item, SyncInv
<1>2. /\ file' = Append(SubSeq(file, 1, size), Torn) /\ size' = size
  BY DEF AppendTears
<1>3. Len(file') = size + 1 /\ Extends(file', file, size, Torn)
  BY <1>1, <1>2, WriteAfter
<1>4. Fit(Torn)
  BY DEF Fit
<1> QED BY <1>1, <1>2, <1>3, <1>4 DEF Extends, SyncInv

LEMMA MaybeCompactFit ==
    ASSUME SyncInv, MaybeCompact
    PROVE  \A i \in 1..Len(tmp') : Fit(tmp'[i])
BY DEF MaybeCompact, SyncInv

(***************************************************************************)
(* What a slot refers to is a record, and it fits.                         *)
(***************************************************************************)
LEMMA ReadFits ==
    ASSUME TypeInv, SyncInv, NEW k \in Keys, Readable(k)
    PROVE  Len(ReadVal(k)) <= MaxVal
BY DEF Readable, ReadVal, SyncInv, Fit

LEMMA WrittenFits ==
    ASSUME NEW k, NEW v, NEW t, NEW ttl, Len(v) <= MaxVal
    PROVE  Fit(PutRec(k, v, t, ttl))
BY DEF Fit, PutRec

LEMMA TombFits == ASSUME NEW k PROVE Fit(TombRec(k))
BY LogAssumption DEF Fit, TombRec

LEMMA ImportFits ==
    ASSUME NEW rec, Loadable(rec)
    PROVE  Fit(rec)
BY DEF Fit, Loadable

LEMMA SyncInvStep ==
    ASSUME MaxGrown <= MaxVal, TypeInv, SyncInv, [Next]_vars
    PROVE  SyncInv'
<1> DEFINE Rest == /\ synced' <= Len(file')
                   /\ \A i \in 1..synced' : file'[i] # Torn
                   /\ \A i \in 1..Len(file') : Fit(file'[i])
<1>0. /\ file \in Seq(Item) /\ tmp \in Seq(Record)
      /\ synced \in Nat /\ size \in Nat /\ size <= Len(file)
      /\ \A i \in 1..size : file[i] \in Record
  BY DEF TypeInv, TypeOK, LogInv
<1>1. CASE Open
  BY <1>1 DEF Open, SyncInv
<1>2. CASE LoadRecord
  BY <1>2 DEF LoadRecord, SyncInv
<1>3. CASE LoadDone
  <2>1. file' = SubSeq(file, 1, size) /\ UNCHANGED <<size, tmp>>
        /\ synced' = IF synced > size THEN size ELSE synced
    BY <1>3 DEF LoadDone, mem
  <2>2. Len(file') = size /\ \A i \in 1..size : file'[i] = file[i]
    <3>1. \A i \in 1..size : file[i] \in Item
      BY <1>0 DEF Item
    <3> QED BY <1>0, <2>1, <3>1, SubSeqProperties
  <2>3. \A i \in 1..size : file'[i] # Torn
    BY <1>0, <2>2, TornIsNoRecord
  <2> QED BY <1>0, <2>1, <2>2, <2>3 DEF SyncInv
<1>4. ASSUME NEW k \in Keys, NEW c \in Chunks, NEW ttl \in TTLs,
             NEW append \in BOOLEAN, Set(k, c, ttl, append)
      PROVE  SyncInv'
  <2> DEFINE v == Written(k, c, append)
             rec == PutRec(k, v, now, ttl)
  <2>1. phase = "ready" /\ Len(v) <= MaxGrown /\ Appends(rec)
        /\ MaybeCompact /\ synced' = synced
    BY <1>4 DEF Set
  <2>2. v \in Values /\ now \in Nat /\ ttl \in Nat
    BY WrittenType, LogAssumption DEF TypeInv, TypeOK
  <2> HIDE DEF v
  <2>3. rec \in Record
    BY <2>2, PutRecType
  <2>4. Fit(rec)
    <3>1. Len(v) \in Nat
      BY <2>2 DEF Values
    <3>2. Len(v) <= MaxVal
      BY <2>1, <3>1, LogAssumption, StoreAssumption
    <3> QED BY <3>2, WrittenFits
  <2> HIDE DEF rec
  <2>5. Rest /\ synced' <= size'
    BY <1>0, <2>1, <2>3, <2>4, AppendsFit
  <2> QED BY <2>1, <2>5, MaybeCompactFit DEF SyncInv
<1>5. CASE SetFails
  BY <1>0, <1>5, TearsFit DEF SetFails, SyncInv
<1>6. ASSUME NEW k \in Keys, Del(k) PROVE SyncInv'
  <2>1. phase = "ready" /\ MaybeCompact /\ synced' = synced
        /\ (Appends(TombRec(k)) \/ AppendTears)
    BY <1>6 DEF Del
  <2>2. Rest /\ synced' <= size'
    BY <1>0, <2>1, TombRecType, TombFits, AppendsFit, TearsFit
  <2> QED BY <2>1, <2>2, MaybeCompactFit DEF SyncInv
<1>7. ASSUME NEW rec \in Imports, ImportRaw(rec) PROVE SyncInv'
  <2>1. phase = "ready" /\ MaybeCompact /\ synced' = size' /\ Appends(rec)
        /\ rec \in Record /\ Fit(rec)
    BY <1>7, ImportsType, ImportFits DEF ImportRaw, TypeInv
  <2>2. /\ synced <= size /\ size' = size + 1 /\ size' <= Len(file')
        /\ \A i \in 1..Len(file') : Fit(file'[i])
        /\ Extends(file', file, size, rec)
    BY <1>0, <2>1, AppendsFit, AppendsEffect DEF Item
  <2>3. \A i \in 1..size' : file'[i] # Torn
    BY <1>0, <2>1, <2>2, TornIsNoRecord DEF Extends
  <2> QED BY <1>0, <2>1, <2>2, <2>3, MaybeCompactFit DEF SyncInv
<1>8. ASSUME NEW rec \in Imports, ImportFails(rec) PROVE SyncInv'
  <2>1. phase = "ready" /\ UNCHANGED <<phase, synced, tmp>>
        /\ rec \in Record /\ Fit(rec) /\ (Appends(rec) \/ AppendTears)
    BY <1>8, ImportsType, ImportFits DEF ImportFails, TypeInv
  <2>2. Rest /\ synced' <= size'
    BY <1>0, <2>1, AppendsFit, TearsFit
  <2> QED BY <2>1, <2>2 DEF SyncInv
<1>9. CASE Sync
  BY <1>0, <1>9, TornIsNoRecord DEF Sync, mem, SyncInv
<1>10. CASE ListPrefix
  BY <1>10 DEF ListPrefix, SyncInv
<1>11. ASSUME NEW kvs \in Snapshots, Restore(kvs) PROVE SyncInv'
  <2>1. /\ file' = [i \in 1..Len(kvs) |->
                        PutRec(kvs[i][1], <<kvs[i][2]>>, now, 0)]
        /\ synced' = Len(kvs) /\ phase' = "load" /\ tmp' = tmp
    BY <1>11 DEF Restore
  <2>2. Len(kvs) \in Nat /\ Len(file') = Len(kvs)
    BY <2>1, RestoredType DEF TypeInv
  <2>3. \A i \in 1..Len(kvs) : file'[i] # Torn /\ Fit(file'[i])
    <3>1. TAKE i \in 1..Len(kvs)
    <3>2. file'[i] = PutRec(kvs[i][1], <<kvs[i][2]>>, now, 0)
      BY <2>1
    <3>3. Len(<<kvs[i][2]>>) <= MaxVal
      BY LogAssumption
    <3>4. Fit(file'[i])
      BY <3>2, <3>3, WrittenFits
    <3>5. file'[i] # Torn
      BY <3>2 DEF PutRec, Torn
    <3> QED BY <3>4, <3>5
  <2> QED BY <2>1, <2>2, <2>3 DEF SyncInv
<1>12. CASE Reset
  BY <1>12 DEF Reset, SyncInv
<1>13. ASSUME NEW k \in Keys, CompactSlot(k) PROVE SyncInv'
  <2>1. UNCHANGED <<file, synced, phase, size>>
    BY <1>13 DEF CompactSlot
  <2>2. \A i \in 1..Len(tmp') : Fit(tmp'[i])
    <3>1. CASE CompactSkip(k)
      BY <3>1 DEF CompactSkip, SyncInv
    <3>2. CASE CompactWrite(k)
      <4>1. Fit(Rewritten(k))
        BY <3>2, ReadFits, WrittenFits DEF CompactWrite, Rewritten
      <4>2. tmp' = Append(tmp, Rewritten(k))
        BY <3>2 DEF CompactWrite
      <4> QED BY <1>0, <4>1, <4>2 DEF SyncInv
    <3> QED BY <1>13, <3>1, <3>2 DEF CompactSlot
  <2> QED BY <2>1, <2>2 DEF SyncInv
<1>14. CASE CompactEnd
  <2>1. tmp' = <<>> /\ phase' = "ready"
    BY <1>14 DEF CompactEnd
  <2>2. CASE file' = tmp /\ size' = Len(tmp) /\ synced' \in {Len(tmp), 0}
    <3>1. \A i \in 1..Len(tmp) : tmp[i] # Torn
      BY <1>0, ElementOfSeq, TornIsNoRecord
    <3>2. Len(tmp) \in Nat
      BY <1>0
    <3> QED BY <2>1, <2>2, <3>1, <3>2 DEF SyncInv
  <2>3. CASE UNCHANGED <<file, size, synced>>
    BY <1>14, <2>1, <2>3 DEF CompactEnd, SyncInv
  <2> QED BY <1>14, <2>2, <2>3 DEF CompactEnd
<1>15. CASE Close
  BY <1>0, <1>15, TornIsNoRecord DEF Close, ProcessGone, SyncInv
<1>16. CASE Kill
  <2>1. phase' = "down" /\ tmp' = <<>> /\ synced' = synced
    BY <1>16 DEF Kill, ProcessGone
  <2>2. CASE UNCHANGED file
    BY <2>1, <2>2 DEF SyncInv
  <2>3. CASE phase = "ready" /\ file' = Append(SubSeq(file, 1, size), Torn)
    <3>1. Len(file') = size + 1 /\ Extends(file', file, size, Torn)
      BY <1>0, <2>3, WriteAfter DEF Item
    <3>2. Fit(Torn)
      BY DEF Fit
    <3> QED BY <1>0, <2>1, <2>3, <3>1, <3>2 DEF SyncInv, Extends
  <2> QED BY <1>16, <2>2, <2>3 DEF Kill
<1>17. CASE PowerLoss
  <2>1. PICK n \in synced..Len(file) :
            /\ Complete(n) /\ synced' = n
            /\ \E tail \in {<<>>, <<Torn>>} :
                    file' = SubSeq(file, 1, n) \o tail
    BY <1>17 DEF PowerLoss
  <2>2. phase' = "down" /\ tmp' = <<>>
    BY <1>17 DEF PowerLoss, ProcessGone
  <2>3. n \in Nat /\ n <= Len(file) /\ \A i \in 1..n : file[i] # Torn
    BY <1>0, <2>1 DEF Complete
  <2>4. /\ SubSeq(file, 1, n) \in Seq(Item) /\ Len(SubSeq(file, 1, n)) = n
        /\ \A i \in 1..n : SubSeq(file, 1, n)[i] = file[i]
    <3>1. \A i \in 1..n : file[i] \in Item
      BY <1>0, <2>3, ElementOfSeq
    <3> QED BY <2>3, <3>1, SubSeqProperties
  <2>5. CASE file' = SubSeq(file, 1, n) \o <<>>
    <3>1. file' = SubSeq(file, 1, n)
      BY <2>4, <2>5
    <3> QED BY <2>1, <2>2, <2>3, <2>4, <3>1 DEF SyncInv
  <2>6. CASE file' = SubSeq(file, 1, n) \o <<Torn>>
    <3>1. file' = Append(SubSeq(file, 1, n), Torn)
      BY <2>4, <2>6
    <3>2. Len(file') = n + 1 /\ Extends(file', file, n, Torn)
      BY <1>0, <2>3, <3>1, WriteAfter DEF Item
    <3>3. Fit(Torn)
      BY DEF Fit
    <3> QED BY <1>0, <2>1, <2>2, <2>3, <3>2, <3>3 DEF SyncInv, Extends
  <2> QED BY <2>1, <2>5, <2>6
<1>18. CASE Tick
  BY <1>18 DEF Tick, mem, SyncInv
<1>19. CASE UNCHANGED vars
  BY <1>19 DEF vars, mem, SyncInv
<1> QED
  BY <1>1, <1>2, <1>3, <1>4, <1>5, <1>6, <1>7, <1>8, <1>9, <1>10, <1>11,
     <1>12, <1>13, <1>14, <1>15, <1>16, <1>17, <1>18, <1>19
     DEF Next, Operate

(***************************************************************************)
(* The scan of store_load ends past every synced record.                   *)
(***************************************************************************)
LEMMA LoadReachesSynced ==
    ASSUME TypeInv, SyncInv, LoadDone
    PROVE  size' >= synced
<1>1. /\ file \in Seq(Item) /\ synced \in Nat /\ size \in Nat
      /\ size <= Len(file) /\ size' = size /\ ~AtLoadable
  BY DEF TypeInv, TypeOK, LogInv, LoadDone, mem
<1>2. ASSUME size < synced PROVE FALSE
  <2>1. size + 1 \in 1..Len(file) /\ size + 1 \in 1..synced
    BY <1>1, <1>2 DEF SyncInv
  <2>2. file[size + 1] \in Item /\ file[size + 1] # Torn
        /\ Fit(file[size + 1])
    BY <1>1, <2>1, ElementOfSeq DEF SyncInv
  <2> QED BY <1>1, <2>1, <2>2, FitIsLoadable DEF AtLoadable
<1> QED BY <1>1, <1>2

(***************************************************************************)
(* README, "Crash safety", for all constants and whatever calls fail: as   *)
(* long as appends grow no value past what a load accepts, no load         *)
(* truncates a record that was on stable storage.  The condition is not    *)
(* one that store_set checks: it is the finding of MCStoreGrowth.          *)
(***************************************************************************)
THEOREM LoadSafe ==
    ASSUME MaxGrown <= MaxVal
    PROVE  Spec => LoadKeepsSynced
<1>1. Init => SyncInv
  BY DEF Init, SyncInv
<1>2. TypeInv /\ SyncInv /\ [Next]_vars => SyncInv'
  BY SyncInvStep
<1>3. TypeInv /\ SyncInv /\ [Next]_vars
        => [phase = "load" /\ phase' = "ready" => size' >= synced]_vars
  <2>1. ASSUME [Next]_vars, phase = "load", phase' = "ready" PROVE LoadDone
    BY <2>1 DEF Next, Operate, Open, LoadRecord, Set, SetFails, Del,
       ImportRaw, ImportFails, Sync, ListPrefix, Restore, Reset, CompactSlot,
       CompactEnd, Close, Kill, PowerLoss, ProcessGone, Tick, vars
  <2> QED BY <2>1, LoadReachesSynced
<1> QED BY <1>1, <1>2, <1>3, TypeInvariant, PTL DEF Spec, LoadKeepsSynced

-----------------------------------------------------------------------------
(* What a step does to the log and to what is derived from it *)

(***************************************************************************)
(* A record was appended or loaded, and applied; a compaction may begin.   *)
(***************************************************************************)
Wrote(rec) ==
    /\ phase \in {"load", "ready"}
    /\ Extends(file', file, size, rec) /\ size' = size + 1 /\ now' = now
    /\ \/ /\ rec.kind = "put"
          /\ Upsert(rec.key, size + 1, rec.ts, rec.ttl)
          /\ VecAdd(rec.key, rec.val, ExpiresAt(rec.ts, rec.ttl))
       \/ /\ rec.kind = "tomb"
          /\ DropSlot(rec.key)
          /\ \A q \in Keys : q # rec.key => vec'[q] = vec[q]
    /\ \/ phase' = phase
       \/ /\ phase' = "compact" /\ tmp' = <<>>
          /\ pending' = {k \in Keys : index'[k].off # 0}

(***************************************************************************)
(* The records scanned so far, and what they were applied to, stay.        *)
(***************************************************************************)
Kept ==
    /\ phase # "compact" /\ phase' # "compact"
    /\ \A i \in 1..size : file'[i] = file[i]
    /\ UNCHANGED <<size, index, dead_bytes, vec>>

Emptied ==
    /\ phase' # "compact" /\ size' = 0 /\ dead_bytes' = 0
    /\ index' = [k \in Keys |-> NoSlot]

Compacted ==
    /\ phase = "compact" /\ phase' = "ready" /\ pending = {}
    /\ file' = tmp /\ size' = Len(tmp) /\ dead_bytes' = 0
    /\ UNCHANGED <<index, vec, now>>

LEMMA ApplyWrites ==
    ASSUME TypeInv, NEW rec \in Record, phase \in {"load", "ready"},
           Extends(file', file, size, rec), size' = size + 1, now' = now,
           Apply(rec, size + 1), UNCHANGED phase \/ (phase = "ready" /\ MaybeCompact)
    PROVE  Wrote(rec)
<1>1. \/ phase' = phase
      \/ /\ phase' = "compact" /\ tmp' = <<>>
         /\ pending' = {k \in Keys : index'[k].off # 0}
  BY DEF MaybeCompact
<1>2. ASSUME rec.kind = "tomb"
      PROVE  \A q \in Keys : q # rec.key => vec'[q] = vec[q]
  BY <1>2 DEF Apply, VecDel, TypeInv, TypeOK
<1> QED BY <1>1, <1>2 DEF Apply, Wrote

LEMMA StepShape ==
    ASSUME TypeInv, [Next]_vars, Faults \cap Untolerated = {}
    PROVE  \/ \E rec \in Record : Wrote(rec)
           \/ Kept \/ Emptied \/ Compacted
           \/ \E k \in Keys : CompactSlot(k)
           \/ UNCHANGED vars
<1>1. CASE Open
  BY <1>1 DEF Open, Kept
<1>2. CASE LoadRecord
  <2>1. /\ phase = "load" /\ phase' = "load" /\ size' = size + 1
        /\ Apply(file[size + 1], size + 1)
        /\ UNCHANGED <<file, now>>
        /\ size + 1 \in 1..Len(file) /\ file[size + 1].kind # "torn"
    BY <1>2 DEF LoadRecord, AtLoadable, Loadable, TypeInv, TypeOK
  <2>2. file[size + 1] \in Record
    <3>1. file[size + 1] \in Item
      BY <2>1, ElementOfSeq DEF TypeInv, TypeOK
    <3> QED BY <2>1, <3>1 DEF Item, Torn
  <2>3. Extends(file', file, size, file[size + 1])
    BY <2>1 DEF Extends
  <2> QED BY <2>1, <2>2, <2>3, ApplyWrites
<1>3. CASE LoadDone
  <2>1. /\ phase = "load" /\ phase' = "ready"
        /\ file' = SubSeq(file, 1, size)
        /\ UNCHANGED <<size, index, dead_bytes, vec>>
    BY <1>3 DEF LoadDone, mem
  <2>2. \A i \in 1..size : file'[i] = file[i]
    BY <2>1, SubSeqProperties DEF TypeInv, TypeOK, LogInv, Item
  <2> QED BY <2>1, <2>2 DEF Kept
<1>4. ASSUME NEW k \in Keys, NEW c \in Chunks, NEW ttl \in TTLs,
             NEW append \in BOOLEAN, Set(k, c, ttl, append)
      PROVE  \E rec \in Record : Wrote(rec)
  <2> DEFINE v   == Written(k, c, append)
             rec == PutRec(k, v, now, ttl)
  <2>1. /\ rec \in Record /\ rec.kind = "put" /\ rec.key = k
        /\ rec.ts = now /\ rec.ttl = ttl /\ rec.val = v
    BY WrittenType, PutRecType, LogAssumption DEF TypeInv, TypeOK
  <2>2. /\ phase = "ready" /\ Appends(rec) /\ MaybeCompact /\ now' = now
        /\ Upsert(k, size + 1, now, ttl) /\ VecAdd(k, v, ExpiresAt(now, ttl))
    BY <1>4 DEF Set
  <2> HIDE DEF rec, v
  <2>3. Extends(file', file, size, rec) /\ size' = size + 1
    BY <2>1, <2>2, AppendsEffect DEF Item
  <2>4. Apply(rec, size + 1)
    BY <2>1, <2>2 DEF Apply
  <2> QED BY <2>1, <2>2, <2>3, <2>4, ApplyWrites
<1>5. CASE SetFails
  BY <1>5, TearsEffect DEF SetFails, Kept
<1>6. ASSUME NEW k \in Keys, Del(k) PROVE \E rec \in Record : Wrote(rec)
  <2>1. "del" \notin Faults
    BY DEF Untolerated
  <2>2. /\ phase = "ready" /\ Appends(TombRec(k)) /\ DropSlot(k)
        /\ MaybeCompact /\ now' = now
        /\ \A q \in Keys : q # k => vec'[q] = vec[q]
    BY <1>6, <2>1 DEF Del, VecDel, TypeInv, TypeOK
  <2>3. /\ TombRec(k) \in Record /\ TombRec(k).kind = "tomb"
        /\ TombRec(k).key = k
    BY TombRecType
  <2>4. Extends(file', file, size, TombRec(k)) /\ size' = size + 1
    BY <2>2, <2>3, AppendsEffect DEF Item
  <2>5. Wrote(TombRec(k))
    BY <2>2, <2>3, <2>4 DEF Wrote, MaybeCompact
  <2> QED BY <2>3, <2>5
<1>7. ASSUME NEW rec \in Imports, ImportRaw(rec) PROVE Wrote(rec) /\ rec \in Record
  <2>1. /\ phase = "ready" /\ Appends(rec) /\ Apply(rec, size + 1)
        /\ MaybeCompact /\ now' = now
    BY <1>7 DEF ImportRaw
  <2>2. rec \in Record
    BY ImportsType DEF TypeInv
  <2>3. Extends(file', file, size, rec) /\ size' = size + 1
    BY <2>1, <2>2, AppendsEffect DEF Item
  <2> QED BY <2>1, <2>2, <2>3, ApplyWrites
<1>8. ASSUME NEW rec \in Imports, ImportFails(rec) PROVE Kept
  <2>1. "import_sync" \notin Faults
    BY DEF Untolerated
  <2>2. AppendTears /\ phase = "ready" /\ UNCHANGED <<phase, index, dead_bytes, vec>>
    BY <1>8, <2>1 DEF ImportFails
  <2> QED BY <2>2, TearsEffect DEF Kept
<1>9. CASE Sync \/ ListPrefix \/ Tick
  BY <1>9 DEF Sync, ListPrefix, Tick, mem, Kept
<1>10. ASSUME NEW kvs \in Snapshots, Restore(kvs) PROVE Emptied
  BY <1>10 DEF Restore, Emptied
<1>11. CASE Reset
  BY <1>11 DEF Reset, Emptied
<1>12. CASE CompactEnd
  BY <1>12 DEF CompactEnd, Untolerated, Compacted
<1>13. CASE Close \/ Kill \/ PowerLoss
  BY <1>13 DEF Close, Kill, PowerLoss, ProcessGone, Emptied
<1> QED
  BY <1>1, <1>2, <1>3, <1>4, <1>5, <1>6, <1>7, <1>8, <1>9, <1>10, <1>11,
     <1>12, <1>13 DEF Next, Operate

LEMMA LatestUnique ==
    ASSUME NEW s, NEW n \in Nat, NEW k, NEW i, NEW j,
           Latest(k, i, s, n), Latest(k, j, s, n)
    PROVE  i = j
<1>1. i \in 1..n /\ j \in 1..n /\ s[i].key = k /\ s[j].key = k
  BY DEF Latest
<1>2. CASE i < j
  BY <1>1, <1>2 DEF Latest
<1>3. CASE j < i
  BY <1>1, <1>3 DEF Latest
<1> QED BY <1>1, <1>2, <1>3

-----------------------------------------------------------------------------
(* The vector mirror *)

(***************************************************************************)
(* The vector of key k is that of its last put among the first n records   *)
(* of log s, if that put holds a well-formed one.                          *)
(***************************************************************************)
Mirrored(k, s, n) ==
    \A i \in 1..n :
        Latest(k, i, s, n) /\ s[i].kind = "put" /\ WellFormed(s[i].val)
            => vec[k] = {[val |-> s[i].val, exp |-> ExpiresAt(s[i].ts, s[i].ttl)]}

(***************************************************************************)
(* VectorsMirrored speaks of a store that serves, of unexpired values.     *)
(* Expired ones are mirrored too until they are compacted away; and while  *)
(* a compaction runs, the mirror agrees with the old log for the keys it   *)
(* has still to visit, with the new one for the others.                    *)
(***************************************************************************)
VecInv ==
    \A k \in VecKeys :
        IF phase = "compact" /\ k \notin pending
        THEN Mirrored(k, tmp, Len(tmp)) ELSE Mirrored(k, file, size)

LEMMA WroteMirrored ==
    ASSUME TypeInv, VecInv, NEW rec \in Record, Wrote(rec)
    PROVE  VecInv'
<1>1. /\ size \in Nat /\ vec \in [Keys -> SUBSET Vectors] /\ VecKeys \subseteq Keys
      /\ phase # "compact" /\ Extends(file', file, size, rec)
      /\ size' = size + 1 /\ rec.key \in Keys
  BY StoreAssumption DEF TypeInv, TypeOK, Vectors, Wrote, Record
<1>2. ASSUME NEW k \in VecKeys PROVE Mirrored(k, file, size)'
  <2>1. SUFFICES ASSUME NEW i \in 1..(size + 1), Latest(k, i, file', size + 1),
                        file'[i].kind = "put", WellFormed(file'[i].val)
                 PROVE  vec'[k] = {[val |-> file'[i].val,
                                    exp |-> ExpiresAt(file'[i].ts, file'[i].ttl)]}
    BY <1>1 DEF Mirrored
  <2>2. CASE k # rec.key
    <3>1. Latest(k, i, file, size)
      BY <1>1, <2>1, <2>2, LatestOther
    <3>2. i \in 1..size /\ file'[i] = file[i]
      BY <1>1, <3>1 DEF Latest, Extends
    <3>3. vec'[k] = vec[k]
      BY <1>1, <2>2 DEF Wrote, VecAdd
    <3> QED BY <1>1, <2>1, <3>1, <3>2, <3>3 DEF VecInv, Mirrored
  <2>3. CASE k = rec.key
    <3>1. i = size + 1
      BY <1>1, <2>1, <2>3, LatestOwn
    <3>2. file'[i] = rec
      BY <1>1, <3>1 DEF Extends
    <3>3. VecAdd(rec.key, rec.val, ExpiresAt(rec.ts, rec.ttl))
      BY <2>1, <3>2 DEF Wrote
    <3> QED BY <1>1, <2>1, <2>3, <3>2, <3>3 DEF VecAdd
  <2> QED BY <2>2, <2>3
<1>3. CASE phase' = "compact" /\ tmp' = <<>>
  <2>1. \A k \in VecKeys : Mirrored(k, tmp, Len(tmp))'
    BY <1>3 DEF Mirrored
  <2> QED BY <1>2, <2>1 DEF VecInv
<1>4. CASE phase' = phase
  BY <1>1, <1>2, <1>4 DEF VecInv
<1> QED BY <1>3, <1>4 DEF Wrote

(***************************************************************************)
(* A slot that compaction rewrites keeps its value and its expiry.         *)
(***************************************************************************)
LEMMA RewrittenKeeps ==
    ASSUME TypeInv, IndexInv, NEW k \in Keys, phase = "compact", k \in pending,
           CompactWrite(k)
    PROVE  LET off == index[k].off  rec == Rewritten(k)
           IN  /\ RefersTo(index[k], k, file, size) /\ off \in 1..size
               /\ rec \in Record /\ rec.kind = "put" /\ rec.key = k
               /\ rec.val = file[off].val /\ rec.ts = file[off].ts
               /\ ExpiresAt(rec.ts, rec.ttl) = ExpiresAt(file[off].ts, file[off].ttl)
               /\ Extends(tmp', tmp, Len(tmp), rec) /\ Len(tmp') = Len(tmp) + 1
<1> DEFINE e == index[k]  rec == Rewritten(k)
<1>1. Held(k) /\ ~Expired(k) /\ Agrees(e, k, file, size, now)
  BY DEF IndexInv, CompactingAgrees, CompactWrite
<1>2. RefersTo(e, k, file, size)
  BY <1>1, LiveIsReadable
<1>3. /\ e \in Slot /\ e.off \in 1..size /\ file[e.off] \in Record
      /\ e.ts = file[e.off].ts /\ e.exp = ExpiresAt(file[e.off].ts, file[e.off].ttl)
      /\ tmp \in Seq(Record) /\ Len(tmp) \in Nat
  BY <1>2 DEF TypeInv, TypeOK, LogInv, RefersTo, Latest
<1>4. e.ts \in Nat /\ e.exp \in Nat /\ (e.exp = 0 \/ e.exp >= e.ts)
      /\ file[e.off].val \in Values /\ file[e.off].ttl \in Nat
  BY <1>3 DEF Slot, Record
<1>5. /\ rec \in Record /\ rec.kind = "put" /\ rec.key = k
      /\ rec.val = file[e.off].val /\ rec.ts = e.ts
      /\ rec.ttl = IF e.exp = 0 THEN 0 ELSE e.exp - e.ts
  <2>1. PICK ttl : ttl = IF e.exp = 0 THEN 0 ELSE e.exp - e.ts
    OBVIOUS
  <2>2. ttl \in Nat
    BY <1>4, <2>1
  <2>3. rec = PutRec(k, file[e.off].val, e.ts, ttl)
    BY <2>1 DEF Rewritten, ReadVal
  <2> HIDE DEF e, rec
  <2> QED BY <1>4, <2>1, <2>2, <2>3, PutRecType
<1>6. ExpiresAt(rec.ts, rec.ttl) = e.exp
  BY <1>3, <1>4, <1>5 DEF ExpiresAt
<1>7. tmp' = Append(tmp, rec)
  BY DEF CompactWrite
<1>8. Extends(tmp', tmp, Len(tmp), rec) /\ Len(tmp') = Len(tmp) + 1
  BY <1>3, <1>5, <1>7 DEF Extends
<1> QED BY <1>2, <1>3, <1>5, <1>6, <1>8

(***************************************************************************)
(* What compact skips has expired, when no read or write of it fails.      *)
(***************************************************************************)
LEMMA SkippedIsExpired ==
    ASSUME TypeInv, IndexInv, Faults \cap Untolerated = {}, NEW k \in Keys,
           phase = "compact", k \in pending, CompactSkip(k)
    PROVE  Expired(k)
<1>1. Faults \cap {"compact_read", "compact_write"} = {}
  BY DEF Untolerated
<1>2. Held(k) /\ Agrees(index[k], k, file, size, now)
  BY DEF IndexInv, CompactingAgrees
<1> QED BY <1>1, <1>2, LiveIsReadable DEF CompactSkip

LEMMA CompactSlotMirrored ==
    ASSUME TypeInv, IndexInv, VecInv, Faults \cap Untolerated = {},
           NEW k \in Keys, CompactSlot(k)
    PROVE  VecInv'
<1>1. /\ phase = "compact" /\ phase' = "compact" /\ k \in pending
      /\ pending' = pending \ {k} /\ UNCHANGED <<file, size, vec>>
      /\ ~Mentions(k, tmp, Len(tmp)) /\ tmp \in Seq(Record) /\ Len(tmp) \in Nat
  BY DEF CompactSlot, IndexInv, CompactingAgrees, TypeInv, TypeOK
<1>2. SUFFICES ASSUME NEW j \in VecKeys
               PROVE  IF j \in pending' THEN Mirrored(j, file, size)'
                      ELSE Mirrored(j, tmp, Len(tmp))'
  BY <1>1 DEF VecInv
<1>3. CASE j \in pending'
  BY <1>1, <1>3 DEF VecInv, Mirrored
<1>4. CASE j \notin pending' /\ CompactSkip(k)
  <2>1. tmp' = tmp
    BY <1>4 DEF CompactSkip
  <2>2. CASE j = k
    BY <1>1, <1>4, <2>1, <2>2 DEF Mirrored, Latest, Mentions
  <2>3. CASE j # k
    BY <1>1, <1>4, <2>1, <2>3 DEF VecInv, Mirrored
  <2> QED BY <1>4, <2>2, <2>3
<1>5. CASE j \notin pending' /\ CompactWrite(k)
  <2> DEFINE off == index[k].off  rec == Rewritten(k)
  <2>1. /\ RefersTo(index[k], k, file, size) /\ off \in 1..size
        /\ rec \in Record /\ rec.kind = "put" /\ rec.key = k
        /\ rec.val = file[off].val /\ rec.ts = file[off].ts
        /\ ExpiresAt(rec.ts, rec.ttl) = ExpiresAt(file[off].ts, file[off].ttl)
        /\ Extends(tmp', tmp, Len(tmp), rec) /\ Len(tmp') = Len(tmp) + 1
    BY <1>1, <1>5, RewrittenKeeps
  <2> HIDE DEF rec, off
  <2>2. SUFFICES ASSUME NEW i \in 1..(Len(tmp) + 1),
                        Latest(j, i, tmp', Len(tmp) + 1),
                        tmp'[i].kind = "put", WellFormed(tmp'[i].val)
                 PROVE  vec[j] = {[val |-> tmp'[i].val,
                                   exp |-> ExpiresAt(tmp'[i].ts, tmp'[i].ttl)]}
    BY <1>1, <1>5, <2>1 DEF Mirrored
  <2>3. CASE j = k
    <3>0. i = Len(tmp) + 1
      <4>1. PICK m, u : m = Len(tmp) /\ u = tmp' /\ m \in Nat /\ Extends(u, tmp, m, rec)
        BY <1>1, <2>1
      <4>2. \A n : Latest(rec.key, n, u, m + 1) <=> n = m + 1
        BY <4>1, LatestOwn
      <4> QED BY <2>1, <2>2, <2>3, <4>1, <4>2
    <3>1. tmp'[i] = rec
      BY <2>1, <3>0 DEF Extends
    <3>2. Latest(k, off, file, size) /\ file[off].kind = "put"
      BY <2>1 DEF RefersTo, off
    <3>3. Mirrored(k, file, size)
      BY <1>1, <2>3 DEF VecInv
    <3> QED BY <2>1, <2>2, <2>3, <3>1, <3>2, <3>3 DEF Mirrored
  <2>4. CASE j # k
    <3>1. Latest(j, i, tmp, Len(tmp))
      BY <1>1, <2>1, <2>2, <2>4, LatestOther
    <3>2. i \in 1..Len(tmp) /\ tmp'[i] = tmp[i]
      BY <2>1, <3>1 DEF Latest, Extends
    <3>3. Mirrored(j, tmp, Len(tmp))
      BY <1>1, <1>5, <2>4 DEF VecInv
    <3> QED BY <2>2, <3>1, <3>2, <3>3 DEF Mirrored
  <2> QED BY <2>3, <2>4
<1> QED BY <1>3, <1>4, <1>5 DEF CompactSlot

LEMMA VecInvStep ==
    ASSUME TypeInv, IndexInv, VecInv, [Next]_vars, Faults \cap Untolerated = {}
    PROVE  VecInv'
<1>1. ASSUME NEW rec \in Record, Wrote(rec) PROVE VecInv'
  BY <1>1, WroteMirrored
<1>2. CASE Kept
  <2>1. /\ size \in Nat /\ UNCHANGED <<size, vec>>
        /\ \A i \in 1..size : file'[i] = file[i]
    BY <1>2 DEF Kept, TypeInv, TypeOK
  <2>2. \A k, i : Latest(k, i, file', size) <=> Latest(k, i, file, size)
    BY <2>1 DEF Latest
  <2> QED BY <1>2, <2>1, <2>2 DEF Kept, VecInv, Mirrored
<1>3. CASE Emptied
  BY <1>3 DEF Emptied, VecInv, Mirrored
<1>4. CASE Compacted
  BY <1>4 DEF Compacted, VecInv, Mirrored
<1>5. ASSUME NEW k \in Keys, CompactSlot(k) PROVE VecInv'
  BY <1>5, CompactSlotMirrored
<1>6. CASE UNCHANGED vars
  BY <1>6 DEF vars, mem, VecInv, Mirrored
<1> QED BY <1>1, <1>2, <1>3, <1>4, <1>5, <1>6, StepShape

(***************************************************************************)
(* The index and the log agree at every step: the lemma the theorems below *)
(* build on.                                                               *)
(***************************************************************************)
LEMMA IndexInvariant ==
    ASSUME Faults \cap Untolerated = {}
    PROVE  Spec => []IndexInv
<1>1. Init => IndexInv
  <2>1. ASSUME Init PROVE phase # "compact" /\ size = 0
    BY <2>1 DEF Init
  <2>2. ASSUME Init, NEW k \in Keys PROVE Agrees(index[k], k, file, 0, now)
    <3>1. index[k].off = 0
      BY <2>2 DEF Init, NoSlot
    <3> QED BY <3>1, EmptyAgrees
  <2> QED BY <2>1, <2>2 DEF IndexInv
<1>2. TypeInv /\ IndexInv /\ [Next]_vars => IndexInv'
  BY IndexInvStep
<1> QED BY <1>1, <1>2, TypeInvariant, PTL DEF Spec

(***************************************************************************)
(* store.h: /sim sees every live vector, as it is now, for all constants,  *)
(* when no call fails that the code does not tolerate.                     *)
(***************************************************************************)
THEOREM VectorsCorrect ==
    ASSUME Faults \cap Untolerated = {}
    PROVE  Spec => []VectorsMirrored
<1>1. Init => VecInv
  <2>1. Init => phase # "compact" /\ size = 0
    BY DEF Init
  <2> QED BY <2>1 DEF VecInv, Mirrored
<1>2. TypeInv /\ IndexInv /\ VecInv /\ [Next]_vars => VecInv'
  BY VecInvStep
<1>3. VecInv => VectorsMirrored
  BY StoreAssumption DEF VecInv, Mirrored, VectorsMirrored, View, CellOf
<1> QED BY <1>1, <1>2, <1>3, TypeInvariant, IndexInvariant, PTL DEF Spec

-----------------------------------------------------------------------------
(* The count of garbage *)

LEMMA SupersededFinite ==
    ASSUME NEW s, NEW n \in Nat
    PROVE  /\ IsFiniteSet(Superseded(s, n))
           /\ Cardinality(Superseded(s, n)) \in Nat
<1>1. IsFiniteSet(1..n)
  BY FS_Interval
<1>2. Superseded(s, n) \in SUBSET (1..n)
  BY DEF Superseded
<1> QED BY <1>1, <1>2, FS_Subset, FS_CardinalityType

(***************************************************************************)
(* A new record makes garbage of at most one put: the last one of its key. *)
(***************************************************************************)
LEMMA SupersededBy ==
    ASSUME NEW s, NEW u, NEW n \in Nat, NEW rec, Extends(u, s, n, rec)
    PROVE  Superseded(u, n + 1) =
             Superseded(s, n) \cup
             {i \in 1..n : Latest(rec.key, i, s, n) /\ s[i].kind = "put"}
<1> DEFINE Old == {i \in 1..n : Latest(rec.key, i, s, n) /\ s[i].kind = "put"}
<1>1. /\ \A i \in 1..n : u[i] = s[i]
      /\ u[n + 1] = rec
  BY DEF Extends
<1>2. ASSUME NEW i \in 1..n
      PROVE  i \in Superseded(u, n + 1) <=> i \in Superseded(s, n) \/ i \in Old
  <2>1. i \in Superseded(u, n + 1) <=>
          s[i].kind = "put"
            /\ ((\E j \in (i+1)..n : s[j].key = s[i].key) \/ rec.key = s[i].key)
    BY <1>1 DEF Superseded
  <2>2. i \in Superseded(s, n) <=>
          s[i].kind = "put" /\ \E j \in (i+1)..n : s[j].key = s[i].key
    BY DEF Superseded
  <2>3. i \in Old <=> /\ s[i].key = rec.key /\ s[i].kind = "put"
                      /\ ~(\E j \in (i+1)..n : s[j].key = rec.key)
    BY DEF Latest
  <2> QED BY <2>1, <2>2, <2>3
<1>3. n + 1 \notin Superseded(u, n + 1)
  BY DEF Superseded
<1>4. /\ Superseded(u, n + 1) \subseteq 1..(n + 1)
      /\ Superseded(s, n) \subseteq 1..n
  BY DEF Superseded
<1> QED BY <1>2, <1>3, <1>4

(***************************************************************************)
(* While it serves or loads, the count covers the garbage; and the log a   *)
(* compaction writes has none, as it mentions no key twice: a compaction   *)
(* that ends may set the count back to 0.                                  *)
(***************************************************************************)
GarbageInv ==
    IF phase = "compact" THEN Superseded(tmp, Len(tmp)) = {}
    ELSE Cardinality(Superseded(file, size)) <= dead_bytes

LEMMA EmptySuperseded == ASSUME NEW s PROVE Superseded(s, 0) = {}
BY DEF Superseded

(***************************************************************************)
(* If there is a last put of the key, the key has a slot: its removal or   *)
(* its change is counted.                                                  *)
(***************************************************************************)
LEMMA WroteGarbage ==
    ASSUME TypeInv, IndexInv, GarbageInv, NEW rec \in Record, Wrote(rec)
    PROVE  GarbageInv'
<1> DEFINE Old == {i \in 1..size : Latest(rec.key, i, file, size)
                                     /\ file[i].kind = "put"}
           S == Superseded(file, size)
<1>1. /\ size \in Nat /\ dead_bytes \in Nat /\ rec.key \in Keys
      /\ phase # "compact" /\ Extends(file', file, size, rec)
      /\ size' = size + 1
      /\ dead_bytes' = dead_bytes + IF Held(rec.key) THEN 1 ELSE 0
  BY DEF TypeInv, TypeOK, Wrote, Record, Upsert, DropSlot
<1>2. IsFiniteSet(S) /\ Cardinality(S) \in Nat /\ Cardinality(S) <= dead_bytes
  BY <1>1, SupersededFinite DEF GarbageInv
<1>3. Superseded(file', size + 1) = S \cup Old
  BY <1>1, SupersededBy
<1>4. Cardinality(S \cup Old) <= dead_bytes'
  <2>1. CASE Old = {}
    <3>1. S \cup Old = S
      BY <2>1
    <3> QED BY <1>1, <1>2, <3>1
  <2>2. ASSUME NEW i \in Old PROVE Cardinality(S \cup Old) <= dead_bytes'
    <3>1. Latest(rec.key, i, file, size) /\ file[i].kind = "put"
      BY <2>2
    <3>2. Old = {i}
      BY <1>1, <3>1, LatestUnique
    <3>3. Agrees(index[rec.key], rec.key, file, size, now)
      BY <1>1 DEF IndexInv
    <3>4. Held(rec.key)
      BY <2>2, <3>1, <3>3 DEF Agrees, RefersTo, Latest, Held
    <3> HIDE DEF S, Old
    <3>5. Cardinality(S \cup {i}) =
            IF i \in S THEN Cardinality(S) ELSE Cardinality(S) + 1
      BY <1>2, FS_AddElement
    <3> QED BY <1>1, <1>2, <3>2, <3>4, <3>5
  <2> QED BY <2>1, <2>2
<1>5. CASE phase' = "compact" /\ tmp' = <<>>
  <2>1. Superseded(tmp', Len(tmp')) = {}
    BY <1>5, EmptySuperseded
  <2> QED BY <1>5, <2>1 DEF GarbageInv
<1>6. CASE phase' = phase
  BY <1>1, <1>3, <1>4, <1>6 DEF GarbageInv
<1> QED BY <1>5, <1>6 DEF Wrote

LEMMA CompactSlotGarbage ==
    ASSUME TypeInv, IndexInv, GarbageInv, NEW k \in Keys, CompactSlot(k)
    PROVE  GarbageInv'
<1>1. /\ phase = "compact" /\ phase' = "compact" /\ k \in pending
      /\ ~Mentions(k, tmp, Len(tmp)) /\ Len(tmp) \in Nat
      /\ Superseded(tmp, Len(tmp)) = {}
  BY DEF CompactSlot, IndexInv, CompactingAgrees, TypeInv, TypeOK, GarbageInv
<1>2. CASE CompactSkip(k)
  BY <1>1, <1>2 DEF CompactSkip, GarbageInv
<1>3. CASE CompactWrite(k)
  <2>1. /\ Rewritten(k).key = k /\ Len(tmp') = Len(tmp) + 1
        /\ Extends(tmp', tmp, Len(tmp), Rewritten(k))
    BY <1>1, <1>3, RewrittenKeeps
  <2>2. \A i \in 1..Len(tmp) : ~Latest(k, i, tmp, Len(tmp))
    BY <1>1 DEF Latest, Mentions
  <2>3. Superseded(tmp', Len(tmp) + 1) =
          Superseded(tmp, Len(tmp)) \cup
          {i \in 1..Len(tmp) : Latest(Rewritten(k).key, i, tmp, Len(tmp))
                                 /\ tmp[i].kind = "put"}
    BY <1>1, <2>1, SupersededBy
  <2> QED BY <1>1, <2>1, <2>2, <2>3 DEF GarbageInv
<1> QED BY <1>2, <1>3 DEF CompactSlot

LEMMA GarbageInvStep ==
    ASSUME TypeInv, IndexInv, GarbageInv, [Next]_vars,
           Faults \cap Untolerated = {}
    PROVE  GarbageInv'
<1>1. ASSUME NEW rec \in Record, Wrote(rec) PROVE GarbageInv'
  BY <1>1, WroteGarbage
<1>2. CASE Kept
  <2>1. /\ size \in Nat /\ UNCHANGED <<size, dead_bytes>>
        /\ \A i \in 1..size : file'[i] = file[i]
    BY <1>2 DEF Kept, TypeInv, TypeOK
  <2>2. Superseded(file', size) = Superseded(file, size)
    BY <2>1 DEF Superseded
  <2> QED BY <1>2, <2>1, <2>2 DEF Kept, GarbageInv
<1>3. CASE Emptied
  BY <1>3, EmptySuperseded, FS_EmptySet DEF Emptied, GarbageInv
<1>4. CASE Compacted
  BY <1>4, FS_EmptySet DEF Compacted, GarbageInv
<1>5. ASSUME NEW k \in Keys, CompactSlot(k) PROVE GarbageInv'
  BY <1>5, CompactSlotGarbage
<1>6. CASE UNCHANGED vars
  BY <1>6 DEF vars, mem, GarbageInv
<1> QED BY <1>1, <1>2, <1>3, <1>4, <1>5, <1>6, StepShape

(***************************************************************************)
(* The trigger of compaction never underestimates the garbage of puts, for *)
(* all constants, when no call fails that the code does not tolerate.      *)
(***************************************************************************)
THEOREM GarbageCounted ==
    ASSUME Faults \cap Untolerated = {}
    PROVE  Spec => []DeadBytesCoverGarbage
<1>1. Init => GarbageInv
  <2>1. ASSUME Init PROVE GarbageInv
    <3>1. phase # "compact" /\ size = 0 /\ dead_bytes = 0
      BY <2>1 DEF Init
    <3>2. Cardinality(Superseded(file, size)) = 0
      BY <3>1, EmptySuperseded, FS_EmptySet
    <3> QED BY <3>1, <3>2 DEF GarbageInv
  <2> QED BY <2>1
<1>2. TypeInv /\ IndexInv /\ GarbageInv /\ [Next]_vars => GarbageInv'
  BY GarbageInvStep
<1>3. GarbageInv => DeadBytesCoverGarbage
  BY DEF GarbageInv, DeadBytesCoverGarbage
<1> QED BY <1>1, <1>2, <1>3, TypeInvariant, IndexInvariant, PTL DEF Spec
=============================================================================
