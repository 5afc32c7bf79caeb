------------------------------- MODULE Store --------------------------------
(***************************************************************************)
(* One exomind store (src/src/store.c): the append-only log, the hash      *)
(* index over it, the vector mirror, the prefix candidates, compaction,    *)
(* restore, and what a kill or a loss of power leaves behind.              *)
(*                                                                         *)
(* Every public operation holds s->mu from its first read to its last      *)
(* write, so an operation is one action.  Three things inside an operation *)
(* can be cut by a crash and are therefore steps of their own: the loop of *)
(* store_load (phase "load"), the loop of compact (phase "compact") and    *)
(* the append of a record, which a crash may leave Torn.  The mutex is     *)
(* held in those phases: nothing else is enabled but the crash.            *)
(*                                                                         *)
(* The operating system is external: what is written stays in the file     *)
(* when the process dies; when the power fails at least the first "synced" *)
(* records survive.  Faults names the calls that may fail:                 *)
(*   "set", "del", "import"  the append of a record is short               *)
(*   "import_sync"           fdatasync in store_import_raw fails           *)
(*   "compact_open", "compact_read", "compact_write", "compact_sync",      *)
(*   "compact_rename"        the calls compact makes                       *)
(***************************************************************************)
EXTENDS LogRecords, FiniteSets

CONSTANTS
    VecKeys,     \* the keys that start with "vec:"
    VecChunks,   \* the chunks that are well-formed encoded vectors
    CompactMin,  \* log size from which compaction is considered
    Faults,      \* the calls that may fail
    MaxLog,      \* bound: records in the log
    MaxTime,     \* bound: the wall clock
    MaxGrown,    \* bound: the length appends make a value grow to
    Delays,      \* how long ago an imported record can have been written
    MaxRestore   \* bound: records in the body of a restore

ASSUME StoreAssumption ==
    /\ VecKeys \subseteq Keys
    /\ VecChunks \subseteq Chunks
    /\ CompactMin \in Nat \ {0}
    /\ Delays \subseteq Nat
    /\ MaxGrown \in Nat
    /\ MaxLog \in Nat /\ MaxTime \in Nat /\ MaxRestore \in Nat

VARIABLES
    file,        \* the data file: records, the last item possibly Torn
    synced,      \* the leading records known to be on stable storage
    phase,       \* "down", "load", "ready" or "compact"
    size,        \* s->size in records; while loading, the scan position
    index,       \* the slot of every key: offset, write time, expiry
    dead_bytes,  \* s->dead_bytes in records
    vec,         \* the vector mirror: at most one vector per key
    kix,         \* the sorted prefix candidates, as a set
    kix_dirty,   \* rebuild kix before its next use; until then kix is {}
    tmp,         \* the file compact is writing
    pending,     \* the slots compact has still to visit
    now          \* the wall clock

mem == <<size, index, dead_bytes, vec, kix, kix_dirty>>
vars == <<file, synced, phase, mem, tmp, pending, now>>

Phases == {"down", "load", "ready", "compact"}

Slot == {e \in [off : Nat, ts : Nat, exp : Nat] : e.exp = 0 \/ e.exp >= e.ts}
NoSlot == [off |-> 0, ts |-> 0, exp |-> 0]
Held(k) == index[k].off # 0
HeldKeys == {k \in Keys : Held(k)}
Expired(k) == ExpiredAt(index[k].exp, now)

(***************************************************************************)
(* The record a slot refers to, if pread finds one there.                  *)
(***************************************************************************)
Readable(k) == index[k].off \in 1..Len(file) /\ file[index[k].off] # Torn
ReadVal(k) == file[index[k].off].val

Init ==
    /\ file = <<>>
    /\ synced = 0
    /\ phase = "down"
    /\ size = 0
    /\ index = [k \in Keys |-> NoSlot]
    /\ dead_bytes = 0
    /\ vec = [k \in Keys |-> {}]
    /\ kix = {}
    /\ kix_dirty = FALSE
    /\ tmp = <<>>
    /\ pending = {}
    /\ now = 1

-----------------------------------------------------------------------------
(* The in-memory structures *)

(***************************************************************************)
(* Definitions named X_slip are X with a plausible mistake.  No action     *)
(* uses them: they show that the properties below notice the mistake.      *)
(***************************************************************************)
Upsert_slip(k, off, ts, ttl) ==  \* the superseded record is not counted
    /\ index' = [index EXCEPT ![k] =
                    [off |-> off, ts |-> ts, exp |-> ExpiresAt(ts, ttl)]]
    /\ UNCHANGED dead_bytes

(***************************************************************************)
(* upsert: the slot of the key now refers to the record at off; the record *)
(* it referred to before is garbage.                                       *)
(***************************************************************************)
Upsert(k, off, ts, ttl) ==
    /\ index' = [index EXCEPT ![k] =
                    [off |-> off, ts |-> ts, exp |-> ExpiresAt(ts, ttl)]]
    /\ dead_bytes' = dead_bytes + IF Held(k) THEN 1 ELSE 0

DropSlot_slip(k) ==  \* the count of garbage goes the wrong way
    /\ index' = [index EXCEPT ![k] = NoSlot]
    /\ dead_bytes' = dead_bytes - IF Held(k) THEN 1 ELSE 0

(***************************************************************************)
(* The removal of a key's slot, in store_del, store_load and               *)
(* store_import_raw; nothing is garbage when there was no slot.            *)
(***************************************************************************)
DropSlot(k) ==
    /\ index' = [index EXCEPT ![k] = NoSlot]
    /\ dead_bytes' = dead_bytes + IF Held(k) THEN 1 ELSE 0

WellFormed(v) == Len(v) = 1 /\ v[1] \in VecChunks

VecAdd_slip(k, v, exp) ==  \* the mirrored vector never expires
    vec' = IF k \in VecKeys /\ WellFormed(v)
           THEN [vec EXCEPT ![k] = {[val |-> v, exp |-> 0]}]
           ELSE vec

(***************************************************************************)
(* vec_index_add: a malformed vector is skipped, and what was mirrored for *)
(* the key before stays.                                                   *)
(***************************************************************************)
VecAdd(k, v, exp) ==
    vec' = IF k \in VecKeys /\ WellFormed(v)
           THEN [vec EXCEPT ![k] = {[val |-> v, exp |-> exp]}]
           ELSE vec

VecDel(k) == vec' = [vec EXCEPT ![k] = {}]

KixInsert_slip(k) == UNCHANGED kix  \* a new key is no candidate

(***************************************************************************)
(* kix_insert and kix_remove.  Candidates that wait for their rebuild are  *)
(* never read, and are not told apart here.                                *)
(***************************************************************************)
KixInsert(k) == kix' = IF kix_dirty THEN kix ELSE kix \cup {k}
KixRemove(k) == kix' = kix \ {k}

(***************************************************************************)
(* Appending at s->size: bytes a failed append left there are overwritten, *)
(* and some of them stay behind the record when it is shorter than they.   *)
(***************************************************************************)
Appends(rec) ==
    /\ \E tail \in {<<>>} \cup (IF Len(file) > size THEN {<<Torn>>} ELSE {}) :
            file' = Append(SubSeq(file, 1, size), rec) \o tail
    /\ size' = size + 1

AppendTears ==
    /\ file' = Append(SubSeq(file, 1, size), Torn)
    /\ size' = size

(***************************************************************************)
(* maybe_compact and the start of compact, after the operation's changes.  *)
(* compact reads the clock once, here: a tick before it ends is a tick     *)
(* after it, and Tick waits for the phase to end.                          *)
(***************************************************************************)
CompactionDue == size' >= CompactMin /\ dead_bytes' * 100 >= size' * 33

MaybeCompact ==
    \/ /\ CompactionDue
       /\ phase' = "compact"
       /\ tmp' = <<>>
       /\ pending' = {k \in Keys : index'[k].off # 0}
    \/ /\ ~CompactionDue \/ "compact_open" \in Faults
       /\ UNCHANGED <<phase, tmp, pending>>

-----------------------------------------------------------------------------
(* Loading *)

(***************************************************************************)
(* Applying a record found or imported at offset off.                      *)
(***************************************************************************)
Apply(rec, off) ==
    \/ /\ rec.kind = "put"
       /\ Upsert(rec.key, off, rec.ts, rec.ttl)
       /\ VecAdd(rec.key, rec.val, ExpiresAt(rec.ts, rec.ttl))
    \/ /\ rec.kind = "tomb"
       /\ DropSlot(rec.key)
       /\ IF Held(rec.key) THEN VecDel(rec.key) ELSE UNCHANGED vec

Open ==
    /\ phase = "down"
    /\ phase' = "load"
    /\ kix_dirty' = TRUE
    /\ UNCHANGED <<file, synced, size, index, dead_bytes, vec, kix,
                   tmp, pending, now>>

AtLoadable == size < Len(file) /\ Loadable(file[size + 1])

LoadRecord ==
    /\ phase = "load"
    /\ AtLoadable
    /\ Apply(file[size + 1], size + 1)
    /\ size' = size + 1
    /\ UNCHANGED <<file, synced, phase, kix, kix_dirty, tmp, pending, now>>

(***************************************************************************)
(* The end of the scan, at the end of the file or at the first bad record: *)
(* the rest of the file is truncated away.                                 *)
(***************************************************************************)
LoadDone ==
    /\ phase = "load"
    /\ ~AtLoadable
    /\ file' = SubSeq(file, 1, size)
    /\ synced' = IF synced > size THEN size ELSE synced
    /\ phase' = "ready"
    /\ UNCHANGED <<mem, tmp, pending, now>>

-----------------------------------------------------------------------------
(* Operations *)

(***************************************************************************)
(* store_set.  Append mode puts the chunk after the live value; the length *)
(* of what results is not checked again.                                   *)
(***************************************************************************)
Written(k, c, append) ==
    IF append /\ Held(k) /\ ~Expired(k) /\ Readable(k)
    THEN Append(ReadVal(k), c)
    ELSE <<c>>

Set(k, c, ttl, append) ==
    /\ phase = "ready"
    /\ size < MaxLog
    /\ LET v == Written(k, c, append) IN
        /\ Len(v) <= MaxGrown
        /\ Appends(PutRec(k, v, now, ttl))
        /\ Upsert(k, size + 1, now, ttl)
        /\ VecAdd(k, v, ExpiresAt(now, ttl))
    /\ KixInsert(k)
    /\ MaybeCompact
    /\ UNCHANGED <<synced, kix_dirty, now>>

SetFails ==
    /\ phase = "ready"
    /\ "set" \in Faults
    /\ AppendTears
    /\ UNCHANGED <<synced, phase, index, dead_bytes, vec, kix, kix_dirty,
                   tmp, pending, now>>

(***************************************************************************)
(* store_del: the key leaves the memory first, then the tombstone is       *)
(* written, whether or not the key was there.                              *)
(***************************************************************************)
Del(k) ==
    /\ phase = "ready"
    /\ size < MaxLog
    /\ DropSlot(k)
    /\ IF k \in VecKeys THEN VecDel(k) ELSE UNCHANGED vec
    /\ KixRemove(k)
    /\ \/ Appends(TombRec(k))
       \/ "del" \in Faults /\ AppendTears
    /\ MaybeCompact
    /\ UNCHANGED <<synced, kix_dirty, now>>

(***************************************************************************)
(* store_import_raw: append verbatim, fdatasync, apply.  A failed          *)
(* fdatasync returns with the size advanced and the record not applied.    *)
(***************************************************************************)
ImportRaw(rec) ==
    /\ phase = "ready"
    /\ size < MaxLog
    /\ Loadable(rec)
    /\ Appends(rec)
    /\ synced' = size'
    /\ Apply(rec, size + 1)
    /\ IF rec.kind = "put" THEN KixInsert(rec.key) ELSE KixRemove(rec.key)
    /\ MaybeCompact
    /\ UNCHANGED <<kix_dirty, now>>

ImportFails(rec) ==
    /\ phase = "ready"
    /\ size < MaxLog
    /\ Loadable(rec)
    /\ \/ "import" \in Faults /\ AppendTears
       \/ "import_sync" \in Faults /\ Appends(rec)
    /\ UNCHANGED <<synced, phase, index, dead_bytes, vec, kix, kix_dirty,
                   tmp, pending, now>>

Sync ==
    /\ phase = "ready"
    /\ synced' = size
    /\ UNCHANGED <<file, phase, mem, tmp, pending, now>>

(***************************************************************************)
(* store_query with a prefix: kix_ensure rebuilds the candidates.          *)
(***************************************************************************)
ListPrefix ==
    /\ phase = "ready"
    /\ kix_dirty
    /\ kix' = HeldKeys
    /\ kix_dirty' = FALSE
    /\ UNCHANGED <<file, synced, phase, size, index, dead_bytes, vec,
                   tmp, pending, now>>

(***************************************************************************)
(* store_restore, once its temporary file is complete, synced and renamed  *)
(* (any failure before that changes nothing): the new log is loaded under  *)
(* the same lock.                                                          *)
(***************************************************************************)
Snapshots == UNION {[1..n -> Keys \X Chunks] : n \in 0..MaxRestore}

Restore(kvs) ==
    /\ phase = "ready"
    /\ file' = [i \in 1..Len(kvs) |->
                    PutRec(kvs[i][1], <<kvs[i][2]>>, now, 0)]
    /\ synced' = Len(kvs)
    /\ size' = 0
    /\ index' = [k \in Keys |-> NoSlot]
    /\ dead_bytes' = 0
    /\ vec' = [k \in Keys |-> {}]
    /\ kix' = {}
    /\ kix_dirty' = TRUE
    /\ phase' = "load"
    /\ UNCHANGED <<tmp, pending, now>>

(***************************************************************************)
(* store_reset, the first step of a replication resync.                    *)
(***************************************************************************)
Reset ==
    /\ phase = "ready"
    /\ file' = <<>>
    /\ synced' = 0
    /\ size' = 0
    /\ index' = [k \in Keys |-> NoSlot]
    /\ dead_bytes' = 0
    /\ vec' = [k \in Keys |-> {}]
    /\ kix' = {}
    /\ kix_dirty' = TRUE
    /\ phase' = "load"
    /\ UNCHANGED <<tmp, pending, now>>

-----------------------------------------------------------------------------
(* Compaction *)

Rewritten_slip(k) == PutRec(k, ReadVal(k), index[k].ts, 0)  \* forgets the TTL

(***************************************************************************)
(* One turn of compact's loop.  Hash order is arbitrary.  An expired slot  *)
(* is skipped, and so is one that cannot be read; a slot whose write fails *)
(* keeps its old offset.                                                   *)
(***************************************************************************)
Rewritten(k) == PutRec(k, ReadVal(k), index[k].ts,
                       IF index[k].exp = 0 THEN 0
                       ELSE index[k].exp - index[k].ts)

CompactSkip_slip(k) ==  \* everything with a TTL is taken for expired
    /\ index[k].exp # 0 \/ ~Readable(k)
    /\ UNCHANGED <<tmp, index>>

CompactWrite_slip(k) ==  \* the slot keeps its offset in the old log
    /\ ~Expired(k)
    /\ Readable(k)
    /\ tmp' = Append(tmp, Rewritten(k))
    /\ UNCHANGED index

CompactSkip(k) ==
    /\ \/ Expired(k)
       \/ ~Readable(k)
       \/ Faults \cap {"compact_read", "compact_write"} # {}
    /\ UNCHANGED <<tmp, index>>

CompactWrite(k) ==
    /\ ~Expired(k)
    /\ Readable(k)
    /\ tmp' = Append(tmp, Rewritten(k))
    /\ index' = [index EXCEPT ![k].off = Len(tmp) + 1]

CompactSlot(k) ==
    /\ phase = "compact"
    /\ k \in pending
    /\ CompactSkip(k) \/ CompactWrite(k)
    /\ pending' = pending \ {k}
    /\ UNCHANGED <<file, synced, phase, size, dead_bytes, vec, kix,
                   kix_dirty, now>>

(***************************************************************************)
(* The end of compact: fdatasync (a failure is only reported), rename over *)
(* the log, reopen.  A failed rename returns with the old log in place.    *)
(***************************************************************************)
CompactEnd ==
    /\ phase = "compact"
    /\ pending = {}
    /\ \/ /\ file' = tmp
          /\ size' = Len(tmp)
          /\ dead_bytes' = 0
          /\ \/ synced' = Len(tmp)
             \/ "compact_sync" \in Faults /\ synced' = 0
       \/ /\ "compact_rename" \in Faults
          /\ UNCHANGED <<file, size, dead_bytes, synced>>
    /\ phase' = "ready"
    /\ tmp' = <<>>
    /\ UNCHANGED <<index, vec, kix, kix_dirty, pending, now>>

-----------------------------------------------------------------------------
(* The end of the process *)

(***************************************************************************)
(* The memory is gone; a compaction under way leaves only its .tmp file,   *)
(* which the next one truncates.                                           *)
(***************************************************************************)
ProcessGone ==
    /\ phase' = "down"
    /\ size' = 0
    /\ index' = [k \in Keys |-> NoSlot]
    /\ dead_bytes' = 0
    /\ vec' = [k \in Keys |-> {}]
    /\ kix' = {}
    /\ kix_dirty' = FALSE
    /\ tmp' = <<>>
    /\ pending' = {}
    /\ UNCHANGED now

(***************************************************************************)
(* store_close at a clean shutdown.                                        *)
(***************************************************************************)
Close ==
    /\ phase = "ready"
    /\ synced' = size
    /\ ProcessGone
    /\ UNCHANGED file

(***************************************************************************)
(* SIGKILL.  The file keeps what was written, possibly half a record.      *)
(***************************************************************************)
Kill ==
    /\ phase # "down"
    /\ \/ UNCHANGED file
       \/ phase = "ready" /\ file' = Append(SubSeq(file, 1, size), Torn)
    /\ ProcessGone
    /\ UNCHANGED synced

(***************************************************************************)
(* Power failure: some prefix that holds the synced records survives, what *)
(* follows it is gone or unreadable.                                       *)
(***************************************************************************)
Complete(n) == n \in 0..Len(file) /\ \A i \in 1..n : file[i] # Torn

PowerLoss ==
    /\ \E n \in synced..Len(file) :
        /\ Complete(n)
        /\ \E tail \in {<<>>, <<Torn>>} : file' = SubSeq(file, 1, n) \o tail
        /\ synced' = n
    /\ ProcessGone

Tick ==
    /\ phase # "compact"
    /\ now < MaxTime
    /\ now' = now + 1
    /\ UNCHANGED <<file, synced, phase, mem, tmp, pending>>

-----------------------------------------------------------------------------
(***************************************************************************)
(* A follower imports what a primary wrote some time ago.                  *)
(***************************************************************************)
Imports ==
    {PutRec(k, <<c>>, now - d, ttl) :
        k \in Keys, c \in Chunks, d \in {d \in Delays : d < now},
        ttl \in TTLs}
    \cup {TombRec(k) : k \in Keys}

Operate ==
    \/ \E k \in Keys, c \in Chunks, ttl \in TTLs, append \in BOOLEAN :
            Set(k, c, ttl, append)
    \/ SetFails
    \/ \E k \in Keys : Del(k)
    \/ \E rec \in Imports : ImportRaw(rec)
    \/ \E rec \in Imports : ImportFails(rec)
    \/ Sync
    \/ ListPrefix
    \/ \E kvs \in Snapshots : Restore(kvs)
    \/ Reset

Next ==
    \/ Open \/ LoadRecord \/ LoadDone
    \/ Operate
    \/ \E k \in Keys : CompactSlot(k)
    \/ CompactEnd
    \/ Close \/ Kill \/ PowerLoss
    \/ Tick

Spec == Init /\ [][Next]_vars

-----------------------------------------------------------------------------
(* Properties *)

TypeOK ==
    /\ file \in Seq(Item)
    /\ synced \in Nat
    /\ phase \in Phases
    /\ size \in Nat
    /\ index \in [Keys -> Slot]
    /\ dead_bytes \in Nat
    /\ vec \in [Keys -> SUBSET [val : Values, exp : Nat]]
    /\ kix \in SUBSET Keys
    /\ kix_dirty \in BOOLEAN
    /\ tmp \in Seq(Record)
    /\ pending \in SUBSET Keys
    /\ now \in Nat

(***************************************************************************)
(* Slot e of key k agrees, at time t, with the first n records of log s:   *)
(* it refers to the last put for k, or is empty when there is none or a    *)
(* tombstone came after it.  A slot that compaction skipped because it had *)
(* expired refers to nothing any more; that is harmless as long as it      *)
(* stays expired.                                                          *)
(***************************************************************************)
RefersTo(e, k, s, n) ==
    /\ Latest(k, e.off, s, n)
    /\ s[e.off].kind = "put"
    /\ e.ts = s[e.off].ts
    /\ e.exp = ExpiresAt(s[e.off].ts, s[e.off].ttl)

Agrees(e, k, s, n, t) ==
    \/ RefersTo(e, k, s, n)
    \/ e.off = 0 /\ \A i \in 1..n : Latest(k, i, s, n) => s[i].kind = "tomb"
    \/ e.off # 0 /\ ExpiredAt(e.exp, t) /\ ~Mentions(k, s, n)

(***************************************************************************)
(* While the store serves, the hash index built up by sets, deletes,       *)
(* imports and compactions agrees with what a scan of the log would find:  *)
(* a read returns what a restart would return.                             *)
(***************************************************************************)
IndexMatchesLog ==
    phase = "ready" => \A k \in Keys : Agrees(index[k], k, file, size, now)

(***************************************************************************)
(* Every put that a later record superseded is counted in dead_bytes, so   *)
(* the compaction trigger never underestimates the garbage of puts.        *)
(***************************************************************************)
DeadBytesCoverGarbage ==
    phase \in {"load", "ready"} =>
        Cardinality(Superseded(file, size)) <= dead_bytes

(***************************************************************************)
(* A prefix query misses no key that has a slot: the candidates may be too *)
(* many (they are checked against the hash) but never too few.             *)
(***************************************************************************)
KixCoversIndex == phase = "ready" /\ ~kix_dirty => HeldKeys \subseteq kix

(***************************************************************************)
(* store.h: every live vec: key with a well-formed vector is mirrored, and *)
(* the mirror holds the vector and the expiry of its current value.        *)
(***************************************************************************)
VectorsMirrored ==
    phase = "ready" =>
        \A k \in VecKeys : \A c \in View(file, size, now)[k] :
            WellFormed(c.val) => vec[k] = {[val |-> c.val, exp |-> c.exp]}

(***************************************************************************)
(* README, "Crash safety": a load truncates torn tails, never a record     *)
(* that fdatasync had already put on stable storage.                       *)
(***************************************************************************)
LoadKeepsSynced ==
    [][phase = "load" /\ phase' = "ready" => size' >= synced]_vars

(***************************************************************************)
(* README, "Compaction": live records are rewritten atomically; every key  *)
(* that could be read when compaction began reads the same when it ends.   *)
(***************************************************************************)
Reads(k) ==
    IF Held(k) /\ ~Expired(k) /\ Readable(k) THEN {ReadVal(k)} ELSE {}

CompactionKeepsLive ==
    [][phase = "compact" /\ phase' = "ready" =>
        \A k \in Keys : {c.val : c \in View(file, size, now)[k]} = Reads(k)']_vars
=============================================================================
