----------------------------- MODULE DurableMap -----------------------------
(***************************************************************************)
(* What an exomind store promises (src/README.md "Crash safety",           *)
(* "Compaction", "TTLs"; src/src/store.h): a map from keys to values with  *)
(* an expiry.  versions holds every state of the map since the last flush, *)
(* oldest first: the last one is what readers see, the first one is on     *)
(* stable storage.  A crash takes the map back to one of these states,     *)
(* never to a mixture and never behind the flush.  An expired cell leaves  *)
(* every version and no step brings it back.                               *)
(***************************************************************************)
EXTENDS Integers, Sequences

CONSTANTS Keys, Chunks, TTLs

VARIABLES versions, now

vars == <<versions, now>>

Current == versions[Len(versions)]

Cell(v, ts, ttl) ==
    [val |-> v, ts |-> ts, exp |-> IF ttl = 0 THEN 0 ELSE ts + ttl]

Unexpired(cells, t) == {c \in cells : c.exp = 0 \/ t <= c.exp}

Empty == [k \in Keys |-> {}]

Init == versions = <<Empty>> /\ now = 1

(***************************************************************************)
(* Writes.  An update that is flushed at once is what an import does.      *)
(***************************************************************************)
Update(k, cells) ==
    LET m == [Current EXCEPT ![k] = cells]
    IN  \/ versions' = Append(versions, m)
        \/ versions' = <<m>>

Put(k, c, ttl) == Update(k, {Cell(<<c>>, now, ttl)}) /\ UNCHANGED now

Extend(k, c, ttl) ==
    /\ \E old \in Current[k] :
            Update(k, {Cell(Append(old.val, c), now, ttl)})
    /\ UNCHANGED now

Replicate(k, c, ts, ttl) ==
    /\ ts \in 1..now
    /\ Update(k, Unexpired({Cell(<<c>>, ts, ttl)}, now))
    /\ UNCHANGED now

Remove(k) == Update(k, {}) /\ UNCHANGED now

(***************************************************************************)
(* A restore replaces the whole map; a reset empties it.                   *)
(***************************************************************************)
Replace ==
    /\ \E m \in [Keys -> {{}} \cup {{Cell(<<c>>, now, 0)} : c \in Chunks}] :
            versions' = <<m>>
    /\ UNCHANGED now

Flush == versions' = <<Current>> /\ UNCHANGED now

Crash ==
    /\ \E i \in 1..Len(versions) : versions' = <<versions[i]>>
    /\ UNCHANGED now

Tick ==
    /\ now' = now + 1
    /\ versions' = [i \in 1..Len(versions) |->
                        [k \in Keys |-> Unexpired(versions[i][k], now')]]

Next ==
    \/ \E k \in Keys : Remove(k)
    \/ \E k \in Keys, c \in Chunks, ttl \in TTLs :
            \/ Put(k, c, ttl)
            \/ Extend(k, c, ttl)
            \/ \E ts \in 1..now : Replicate(k, c, ts, ttl)
    \/ Replace \/ Flush \/ Crash \/ Tick

Spec == Init /\ [][Next]_vars
=============================================================================
