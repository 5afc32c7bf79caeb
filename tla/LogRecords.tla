----------------------------- MODULE LogRecords -----------------------------
(***************************************************************************)
(* The on-disk log of an exomind store (src/src/store.c): what a record    *)
(* carries and what a log means.  A record is one element of a sequence    *)
(* and an offset is its position, so "bytes" counts records; offset 0      *)
(* stands for "no slot".  A value is the sequence of the chunks its        *)
(* writers supplied: /set supplies one chunk, append mode adds one.        *)
(***************************************************************************)
EXTENDS Integers, Sequences

CONSTANTS
    Keys,      \* the keys in use
    Chunks,    \* what one write can supply as a value
    TTLs,      \* times to live a write can ask for; 0 is "never expires"
    MaxVal     \* the longest value a record may hold, in chunks (MAX_VAL)

ASSUME LogAssumption ==
    /\ TTLs \subseteq Nat
    /\ 0 \in TTLs
    /\ MaxVal \in Nat \ {0}

Values == Seq(Chunks)

(***************************************************************************)
(* A complete record, whose CRC matches: a put or a tombstone.             *)
(***************************************************************************)
Record == [kind : {"put", "tomb"}, key : Keys, val : Values,
           ts : Nat, ttl : Nat]

PutRec(k, v, t, ttl) ==
    [kind |-> "put", key |-> k, val |-> v, ts |-> t, ttl |-> ttl]

TombRec(k) ==  \* its write time is never read
    [kind |-> "tomb", key |-> k, val |-> <<>>, ts |-> 0, ttl |-> 0]

(***************************************************************************)
(* What a write cut short leaves at the end of the file: bytes that fail   *)
(* the length or the CRC check of store_load.                              *)
(***************************************************************************)
Torn == [kind |-> "torn"]

Item == Record \cup {Torn}

Loadable_slip(item) ==  \* off by one: refuses a value of the largest size
    item.kind # "torn" /\ Len(item.val) < MaxVal

(***************************************************************************)
(* The checks store_load makes of the bytes at a record boundary: complete,*)
(* CRC correct, and no longer than MAX_VAL.                                *)
(***************************************************************************)
Loadable(item) == item.kind # "torn" /\ Len(item.val) <= MaxVal

(***************************************************************************)
(* Expiry: expires_at = ts + ttl, 0 for never; expired once now is past it.*)
(***************************************************************************)
ExpiresAt(ts, ttl) == IF ttl = 0 THEN 0 ELSE ts + ttl
ExpiredAt(exp, t) == exp # 0 /\ t > exp

(***************************************************************************)
(* Position i holds the last record for key k among the first n of log s.  *)
(***************************************************************************)
Latest(k, i, s, n) ==
    /\ i \in 1..n
    /\ s[i].key = k
    /\ \A j \in (i+1)..n : s[j].key # k

Mentions(k, s, n) == \E j \in 1..n : s[j].key = k

(***************************************************************************)
(* The meaning of the first n records of log s at time t: for every key    *)
(* the set of what a reader can get, at most one cell.                     *)
(***************************************************************************)
CellOf(rec) ==
    [val |-> rec.val, ts |-> rec.ts, exp |-> ExpiresAt(rec.ts, rec.ttl)]

View(s, n, t) ==
    [k \in Keys |->
        {CellOf(s[i]) : i \in {j \in 1..n :
            /\ Latest(k, j, s, n)
            /\ s[j].kind = "put"
            /\ ~ExpiredAt(ExpiresAt(s[j].ts, s[j].ttl), t)}}]

(***************************************************************************)
(* Puts among the first n records that a later record for the same key has *)
(* made garbage.                                                           *)
(***************************************************************************)
Superseded(s, n) ==
    {i \in 1..n : /\ s[i].kind = "put"
                  /\ \E j \in (i+1)..n : s[j].key = s[i].key}
=============================================================================
