---------------------------- MODULE Replication -----------------------------
(***************************************************************************)
(* A follower tails a primary: GET /repl (src/src/http.c) answers raw log  *)
(* records from a byte offset, repl_thread (src/src/main.c) imports them   *)
(* one by one and asks again.  Both logs are logs of Store, whose index    *)
(* agrees with its log: what a reader of a store gets is View of the log.  *)
(*                                                                         *)
(* Offsets are bytes here, because a compaction or a restore of the        *)
(* primary moves the records under the follower's offset: a record is one  *)
(* byte and its value's length.                                            *)
(*                                                                         *)
(* Mishaps, at most MaxMishaps of them in a behaviour:                     *)
(*   "power"    the primary loses power, and the records it had not synced *)
(*   "restore"  POST /restore replaces the primary's log                   *)
(*   "cut"      a response ends early or is damaged                        *)
(*   "import"   store_import_raw fails                                     *)
(*   "restart"  the follower's process ends and starts again               *)
(***************************************************************************)
EXTENDS LogRecords, SequencesExt

CONSTANTS
    CompactMin,   \* bytes from which compaction is considered
    BatchRecs,    \* REPL_MAX_RECS
    BatchBytes,   \* REPL_MAX_BYTES: of a batch, and of the buffer of a record
    Mishaps,      \* what may go wrong
    MaxWrites,    \* bound: writes on the primary
    MaxMishaps,   \* bound: mishaps
    MaxTime       \* bound: the wall clock

ASSUME ReplicationAssumption ==
    /\ CompactMin \in Nat \ {0}
    /\ BatchRecs \in Nat \ {0} /\ BatchBytes \in Nat \ {0}
    /\ MaxWrites \in Nat /\ MaxMishaps \in Nat /\ MaxTime \in Nat

VARIABLES
    plog,        \* the primary's log
    psynced,     \* its leading records on stable storage
    flog,        \* the follower's log; every import is synced
    repl_from,   \* the offset the follower asks for next
    batch,       \* records of the last response still to be imported
    cut,         \* that response breaks off after them
    now,         \* the wall clock, the same on both machines
    fresh,       \* the copy under way began after the primary's last rewrite
    recopying,   \* the copy goes over the log of an earlier process
    writes,      \* writes so far
    mishaps      \* mishaps so far

primary == <<plog, psynced>>
follower == <<flog, repl_from, batch, cut>>
history == <<fresh, recopying>>
vars == <<primary, follower, now, history, writes, mishaps>>

Width(rec) == 1 + Len(rec.val)
Bytes(s) ==
    LET upTo[n \in 0..Len(s)] ==
            IF n = 0 THEN 0 ELSE upTo[n - 1] + Width(s[n])
    IN  upTo[Len(s)]

(***************************************************************************)
(* How many whole records of log s precede offset off, and whether off is  *)
(* a record boundary.                                                      *)
(***************************************************************************)
Prefix(s, n) == SubSeq(s, 1, n)
Before(s, off) == Cardinality({n \in 1..Len(s) : Bytes(Prefix(s, n)) <= off})
IsBoundary(s, off) == Bytes(Prefix(s, Before(s, off))) = off

Init ==
    /\ plog = <<>> /\ psynced = 0
    /\ flog = <<>> /\ repl_from = 0 /\ batch = <<>> /\ cut = FALSE
    /\ now = 1
    /\ fresh = TRUE /\ recopying = FALSE
    /\ writes = 0 /\ mishaps = 0

Mishap(m) ==
    /\ m \in Mishaps
    /\ mishaps < MaxMishaps
    /\ mishaps' = mishaps + 1

-----------------------------------------------------------------------------
(* The logs *)

(***************************************************************************)
(* What maybe_compact leaves of log s at time t: the live records, in      *)
(* arbitrary order, when a third of the bytes is garbage.                  *)
(***************************************************************************)
Live(s, t) ==
    {i \in 1..Len(s) : /\ Latest(s[i].key, i, s, Len(s))
                       /\ s[i].kind = "put"
                       /\ ~ExpiredAt(ExpiresAt(s[i].ts, s[i].ttl), t)}

DeadBytes(s) ==
    MapThenSumSet(LAMBDA i : Width(s[i]), Superseded(s, Len(s)))

Due(s) == Bytes(s) >= CompactMin /\ DeadBytes(s) * 100 >= Bytes(s) * 33

Compacted(s, t) == {[i \in 1..Len(p) |-> s[p[i]]] : p \in SetToSeqs(Live(s, t))}

(***************************************************************************)
(* The primary's records moved: a copy that has already begun is no longer *)
(* a copy of this log.                                                     *)
(***************************************************************************)
Rewritten ==
    /\ fresh' = (fresh /\ flog = <<>> /\ repl_from = 0 /\ batch = <<>>)
    /\ UNCHANGED recopying

(***************************************************************************)
(* A set, an append or a delete on the primary (Store's Set and Del), and  *)
(* the compaction it may end with.                                         *)
(***************************************************************************)
PrimaryWrite(rec) ==
    /\ writes < MaxWrites
    /\ writes' = writes + 1
    /\ LET s == Append(plog, rec) IN
        \/ /\ ~Due(s)
           /\ plog' = s
           /\ UNCHANGED <<psynced, history>>
        \/ /\ Due(s)
           /\ plog' \in Compacted(s, now)
           /\ psynced' = Len(plog')
           /\ Rewritten
    /\ UNCHANGED <<follower, now, mishaps>>

PrimarySync ==
    /\ psynced' = Len(plog)
    /\ UNCHANGED <<plog, follower, now, history, writes, mishaps>>

PrimaryPowerLoss ==
    /\ Mishap("power")
    /\ \E n \in psynced..(Len(plog) - 1) :
        /\ plog' = Prefix(plog, n)
        /\ psynced' = n
    /\ Rewritten
    /\ UNCHANGED <<follower, now, writes>>

PrimaryRestore(rec) ==
    /\ Mishap("restore")
    /\ plog' = <<rec>>
    /\ psynced' = 1
    /\ Rewritten
    /\ UNCHANGED <<follower, now, writes>>

-----------------------------------------------------------------------------
(* The follower *)

Fits_slip(rec) == 2 * Width(rec) <= BatchBytes  \* its encoded form must fit

(***************************************************************************)
(* The response to /repl?from=off.  store_raw_at refuses an offset that is *)
(* no boundary, and a record larger than the buffer; records are added     *)
(* while the batch is below both limits.                                   *)
(***************************************************************************)
Fits(rec) == Width(rec) <= BatchBytes

Torn_at(off) ==
    /\ off < Bytes(plog)
    /\ ~IsBoundary(plog, off) \/ ~Fits(plog[Before(plog, off) + 1])

BatchAt(off) ==
    LET first == Before(plog, off)
        \* n records can be sent: all fit, and the limits hold before the last
        Sendable(n) ==
            /\ first + n <= Len(plog)
            /\ n <= BatchRecs
            /\ \A i \in 1..n :
                /\ Fits(plog[first + i])
                /\ Bytes(SubSeq(plog, first + 1, first + i - 1)) < BatchBytes
    IN  SubSeq(plog, first + 1,
               first + Max({n \in 0..Len(plog) : Sendable(n)}))

Resync_slip ==  \* store_reset, but the offset stays
    /\ flog' = <<>>
    /\ batch' = <<>>
    /\ cut' = FALSE
    /\ fresh' = TRUE
    /\ recopying' = FALSE
    /\ UNCHANGED repl_from

Resync_unreset ==  \* the offset starts over, but the log stays
    /\ repl_from' = 0
    /\ batch' = <<>>
    /\ cut' = FALSE
    /\ fresh' = TRUE
    /\ recopying' = FALSE
    /\ UNCHANGED flog

(***************************************************************************)
(* repl_resync: store_reset, and start over from offset 0.                 *)
(***************************************************************************)
Resync ==
    /\ flog' = <<>>
    /\ repl_from' = 0
    /\ batch' = <<>>
    /\ cut' = FALSE
    /\ fresh' = TRUE
    /\ recopying' = FALSE

(***************************************************************************)
(* One turn of repl_thread's loop.  A response with no connection behind   *)
(* it changes nothing; a response that ends early is imported as far as it *)
(* goes, then the follower starts over.                                    *)
(***************************************************************************)
FetchTorn ==
    /\ batch = <<>> /\ ~cut
    /\ Torn_at(repl_from)
    /\ Resync
    /\ UNCHANGED <<primary, now, writes, mishaps>>

FetchBatch ==
    /\ batch = <<>> /\ ~cut
    /\ ~Torn_at(repl_from)
    /\ repl_from < Bytes(plog)
    /\ LET b == BatchAt(repl_from) IN
        \/ /\ batch' = b
           /\ UNCHANGED <<cut, mishaps>>
        \/ /\ Mishap("cut")
           /\ \E n \in 0..(Len(b) - 1) : batch' = Prefix(b, n)
           /\ cut' = TRUE
    /\ UNCHANGED <<primary, flog, repl_from, now, history, writes>>

(***************************************************************************)
(* store_import_raw of the next record; the lock is released in between,   *)
(* so readers see the records arrive one by one.                           *)
(***************************************************************************)
ImportRecord ==
    /\ batch # <<>>
    /\ LET s == Append(flog, Head(batch)) IN
        IF Due(s) THEN flog' \in Compacted(s, now) ELSE flog' = s
    /\ repl_from' = repl_from + Width(Head(batch))
    /\ batch' = Tail(batch)
    /\ UNCHANGED <<primary, cut, now, history, writes, mishaps>>

ImportFails ==
    /\ batch # <<>>
    /\ Mishap("import")
    /\ Resync
    /\ UNCHANGED <<primary, now, writes>>

CutEnds ==
    /\ cut
    /\ batch = <<>>
    /\ Resync
    /\ UNCHANGED <<primary, now, writes, mishaps>>

(***************************************************************************)
(* The follower's process restarts: its log is loaded, and repl_thread     *)
(* begins at offset 0 without resetting it.                                *)
(***************************************************************************)
Restart ==
    /\ Mishap("restart")
    /\ repl_from' = 0
    /\ batch' = <<>>
    /\ cut' = FALSE
    /\ recopying' = (flog # <<>>)
    /\ UNCHANGED <<primary, flog, now, fresh, writes>>

Tick ==
    /\ now < MaxTime
    /\ now' = now + 1
    /\ UNCHANGED <<primary, follower, history, writes, mishaps>>

-----------------------------------------------------------------------------
PrimaryRecords ==
    {PutRec(k, v, now, ttl) :
        k \in Keys, v \in UNION {[1..n -> Chunks] : n \in 1..MaxVal},
        ttl \in TTLs}
    \cup {TombRec(k) : k \in Keys}

RestoreRecords == {PutRec(k, <<c>>, now, 0) : k \in Keys, c \in Chunks}

Fetch == FetchTorn \/ FetchBatch \/ CutEnds

Next ==
    \/ \E rec \in PrimaryRecords : PrimaryWrite(rec)
    \/ PrimarySync
    \/ PrimaryPowerLoss
    \/ \E rec \in RestoreRecords : PrimaryRestore(rec)
    \/ FetchTorn \/ FetchBatch \/ CutEnds
    \/ ImportRecord \/ ImportFails
    \/ Restart
    \/ Tick

Spec == Init /\ [][Next]_vars

(***************************************************************************)
(* repl_thread polls for ever (REPL_POLL_MS), and after a response goes on *)
(* to import it.                                                           *)
(***************************************************************************)
FairSpec == Spec /\ WF_vars(Fetch) /\ WF_vars(ImportRecord)

-----------------------------------------------------------------------------
(* Properties *)

SeenBy(s) == View(s, Len(s), now)

(***************************************************************************)
(* A reader of the follower sees a state the primary's readers could have  *)
(* seen: the records before the follower's offset and no others, whatever  *)
(* was cut, failed or compacted on the way.  Two cases are excluded: the   *)
(* primary rewrote its log during the copy, or the follower restarted and  *)
(* goes over a log it already has.                                         *)
(***************************************************************************)
PrefixConsistent ==
    fresh /\ ~recopying =>
        SeenBy(flog) = SeenBy(Prefix(plog, Before(plog, repl_from)))

(***************************************************************************)
(* /stats, "lag": a follower whose offset has reached the end of the       *)
(* primary's log shows what the primary shows.  This holds across restarts *)
(* of the follower, but only until the primary rewrites its log.           *)
(***************************************************************************)
CaughtUpIsExact ==
    fresh /\ batch = <<>> /\ repl_from >= Bytes(plog) =>
        SeenBy(flog) = SeenBy(plog)

(***************************************************************************)
(* Once the primary's log is rewritten no more during a copy, and writes   *)
(* and mishaps end, the follower shows what the primary shows for good.    *)
(***************************************************************************)
Converges == <>[]fresh => <>[](SeenBy(flog) = SeenBy(plog))

(***************************************************************************)
(* README, "Replication": the follower resumes from the last applied       *)
(* offset after a restart, and applies each record once: its log holds no  *)
(* record more often than the primary's.                                   *)
(***************************************************************************)
Count(s, rec) == Cardinality({i \in 1..Len(s) : s[i] = rec})

CastOnce == \A i \in 1..Len(flog) : Count(flog, flog[i]) <= Count(plog, flog[i])
=============================================================================
