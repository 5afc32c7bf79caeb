------------------------------- MODULE Pages -------------------------------
(***************************************************************************)
(* Reading more than fits in one reply: clients page through /list and     *)
(* /notes with limit= and offset=, and take the first hits of /search,     *)
(* while others write (src/src/http.c, src/src/store.c).  Every request    *)
(* asks the store anew, under the store's lock: between two pages keys     *)
(* come and go, and everything behind them moves.                          *)
(*                                                                         *)
(* Keys are numbered in key order; all of them have the client's prefix,   *)
(* and those of the main store are notes.                                  *)
(***************************************************************************)
EXTENDS Integers, Sequences, FiniteSets, FiniteSetsExt, SequencesExt

CONSTANTS
    Keys,        \* numbers
    InProject,   \* those that are in the project store
    Score,       \* how well a key matches the search
    Limits,      \* the limits clients ask for
    MaxLimit,    \* the largest limit a request may ask for
    DefaultLimit,
    MaxQuery,    \* MAX_QUERY: the most a query collects
    MaxWrites    \* bound: writes

VARIABLES
    ts,          \* when a key was written, 0 when it is not there
    writes,      \* writes so far
    mode,        \* what the client reads
    limit,       \* the limit it asks for
    offset,      \* where its next page begins
    got,         \* the keys it has been given
    whole,       \* those that have been there all the time
    changes,     \* history: what has happened since it began
    done

vars == <<ts, writes, mode, limit, offset, got, whole, changes, done>>

Modes == {"idle", "asc", "desc", "all", "notes", "search"}

Init ==
    /\ ts \in [Keys -> {0, 1}]
    /\ writes = 1
    /\ mode = "idle" /\ limit = 0 /\ offset = 0
    /\ got = <<>> /\ whole = {} /\ changes = {} /\ done = FALSE

Live == {k \in Keys : ts[k] > 0}

-----------------------------------------------------------------------------
(* store_query *)

(* the entries a query looks at *)
Stored(m) ==
    IF m = "notes" THEN Live \ InProject
    ELSE IF m = "search" THEN {k \in Live : Score[k] > 0}
    ELSE Live

(***************************************************************************)
(* It stops at MAX_QUERY: after the first in key order when there is a     *)
(* prefix, and wherever the buckets have them otherwise.  Nobody looks at  *)
(* what it returns when it has.                                            *)
(***************************************************************************)
Collected(m) ==
    IF Cardinality(Stored(m)) <= MaxQuery THEN {Stored(m)}
    ELSE IF m \in {"asc", "desc"}
    THEN {{k \in Stored(m) : Cardinality({l \in Stored(m) : l < k}) < MaxQuery}}
    ELSE kSubset(MaxQuery, Stored(m))

(* cmp_list_asc, cmp_list_desc, cmp_notes_desc, cmp_search *)
Before(m, k, l) ==
    CASE m \in {"asc", "all"} -> k < l
      [] m = "desc" -> k > l
      [] m = "notes" -> ts[k] > ts[l] \/ (ts[k] = ts[l] /\ k > l)
      [] m = "search" -> Score[k] > Score[l] \/ (Score[k] = Score[l] /\ k < l)

Sorted(m, K) == SetToSortSeq(K, LAMBDA k, l : Before(m, k, l))

(* /search puts the hits of the project store behind those of the main one *)
Listed(m, K) ==
    IF m = "search" THEN Sorted(m, K \ InProject) \o Sorted(m, K \cap InProject)
    ELSE Sorted(m, K)

-----------------------------------------------------------------------------
(* a limit that is out of range is not cut, but replaced by the default *)
Effective(n) == IF n \in 0..MaxLimit THEN n ELSE DefaultLimit

Page(s, from, n) == SubSeq(s, from + 1, Min({from + n, Len(s)}))

Begin ==
    /\ mode = "idle"
    /\ mode' \in Modes \ {"idle"}
    /\ limit' \in Limits
    /\ whole' = Live
    /\ UNCHANGED <<ts, writes, offset, got, changes, done>>

(* a page, and the next one where this one should end; a short one is the last *)
Read ==
    /\ mode # "idle" /\ ~done
    /\ \E K \in Collected(mode) :
        LET page == Page(Listed(mode, K), offset, Effective(limit))
        IN  /\ got' = got \o page
            /\ done' = (mode = "search" \/ Len(page) < limit)
    /\ offset' = offset + limit
    /\ changes' = IF Cardinality(Stored(mode)) <= MaxQuery THEN changes
                  ELSE changes \cup {"truncated"}
    /\ UNCHANGED <<ts, writes, mode, limit, whole>>

(* a key comes, or an old one is written again *)
Write ==
    /\ writes < MaxWrites /\ writes' = writes + 1
    /\ \E k \in Keys :
        /\ ts' = [ts EXCEPT ![k] = writes']
        /\ whole' = IF mode = "notes" THEN whole \ {k} ELSE whole
    /\ changes' = changes \cup (IF mode = "idle" THEN {} ELSE {"written"})
    /\ UNCHANGED <<mode, limit, offset, got, done>>

Delete ==
    /\ writes < MaxWrites /\ writes' = writes + 1
    /\ \E k \in Live :
        /\ ts' = [ts EXCEPT ![k] = 0]
        /\ whole' = whole \ {k}
    /\ changes' = changes \cup (IF mode = "idle" THEN {} ELSE {"deleted"})
    /\ UNCHANGED <<mode, limit, offset, got, done>>

Next == Begin \/ Read \/ (~done /\ (Write \/ Delete))

Spec == Init /\ [][Next]_vars

-----------------------------------------------------------------------------
(* Properties *)

(***************************************************************************)
(* A client that pages to the end is given every key, each once and in the *)
(* order it asked for, when nothing was written meanwhile; and the hits of *)
(* a search are the best ones of the main store, then those of the other.  *)
(***************************************************************************)
PagesExact ==
    done /\ limit <= MaxLimit /\ changes = {} =>
        IF mode = "search" THEN IsPrefix(got, Listed(mode, Stored(mode)))
                                /\ Len(got) = Min({limit, Cardinality(Stored(mode))})
        ELSE got = Sorted(mode, Stored(mode))

(***************************************************************************)
(* Keys that come meanwhile, and notes that do, move the others back: some *)
(* are given twice, but none that is there all the time is left out.  (One *)
(* that goes moves the others forth, and one of them may be.)              *)
(***************************************************************************)
PagesComplete ==
    done /\ mode # "search" /\ limit <= MaxLimit /\ changes \subseteq {"written"} =>
        (whole \cap Stored(mode)) \subseteq Range(got)
=============================================================================
