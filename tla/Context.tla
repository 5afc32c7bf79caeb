------------------------------ MODULE Context ------------------------------
(***************************************************************************)
(* exocontext (src/exocontext/src): a /context request first folds the     *)
(* oldest entries of the agent's log, the keys agent:<id>:*, into the      *)
(* summary under agent:<id>:summary when the log is over its budget, and   *)
(* then composes a digest of summary, entries and notes.  Log and summary  *)
(* are in exomind, and each of their reads and writes is a request that    *)
(* can fail; a write that fails may have been made.  A thread serves each  *)
(* connection, console runs are processes of their own, and nothing keeps  *)
(* two compressions of one agent apart.  Agents add entries all the while. *)
(*                                                                         *)
(* Entries are numbered in key order, and the summary's key comes after    *)
(* them.  Of an entry the model keeps its size and its first line, if that *)
(* is a decided: or a state: line.  A batch of reads is one step: what     *)
(* another request writes between two of its reads disturbs it as what it  *)
(* writes after them does.  An answer that ends early is taken for all of  *)
(* it (read_response).  The marker ctx:summary:<id>, which nothing reads,  *)
(* is left out.                                                            *)
(***************************************************************************)
EXTENDS Integers, Sequences, FiniteSets, FiniteSetsExt, SequencesExt

CONSTANTS
    Entry,      \* the entries agents add, in order
    NoLine,     \* the line of an entry with neither decided: nor state:
    Threads,
    Budget,     \* EXO_CTX_BUDGET
    MaxLines,   \* CTX_SUMMARY_MAX_LINES
    Lines,      \* the budget of a digest, in lines
    MaxAsks     \* bound: /context requests

VARIABLES
    next,       \* entries added so far
    log,        \* those that are still there
    summary,
    th,         \* the threads
    asks,       \* requests so far
    excused     \* history: the doubts of the summaries that were written

vars == <<next, log, summary, th, asks, excused>>

(***************************************************************************)
(* A summary or a digest is in doubt when another request changed what was *)
(* read, when an answer ended early, and when a limit cut it: "overlap",   *)
(* "answer" and "limit".                                                   *)
(***************************************************************************)

NoSummary == [there |-> FALSE, count |-> 0, lines |-> <<>>]

Idle == [at |-> "idle", keys |-> {}, summed |-> FALSE, new |-> NoSummary,
         todo |-> <<>>, doubts |-> {}, asOf |-> {}, shown |-> {}]

Init ==
    /\ next = 0 /\ log = {}
    /\ summary = NoSummary
    /\ th = [t \in Threads |-> Idle]
    /\ asks = 0 /\ excused = {}

(***************************************************************************)
(* exo_batch_get takes the answer "get <key> missing" for the value        *)
(* "missing" of a key that was deleted since it was listed.                *)
(***************************************************************************)
Value(k) == IF k \in log THEN Entry[k] ELSE [line |-> NoLine, size |-> 1]

Ascending(K) == SetToSortSeq(K, <)

Size(K) == MapThenSumSet(LAMBDA k : Value(k).size, K)

(* the oldest entries that have to go for the rest to fit, never the newest *)
Folded(K) ==
    LET s == Ascending(K)
        Fits(n) == Size(K) - Size({s[i] : i \in 1..n}) <= Budget
        N == {n \in 0..(Len(s) - 1) : Fits(n)}
    IN  IF N = {} THEN SubSeq(s, 1, Len(s) - 1) ELSE SubSeq(s, 1, Min(N))

(* strlist_add: each line once, where it is first *)
Distinct(s) ==
    FoldLeft(LAMBDA d, l : IF l \in Range(d) THEN d ELSE Append(d, l), <<>>, s)

(* summary_state_lines of the folded entries *)
StateLines(ks) ==
    Distinct(SelectSeq([i \in DOMAIN ks |-> Value(ks[i]).line],
                       LAMBDA l : l # NoLine))

UpTo(s, n) == SubSeq(s, 1, IF Len(s) < n THEN Len(s) ELSE n)

(***************************************************************************)
(* The new summary: counts add up, the new lines go before the old ones.   *)
(* A line in both is there twice, and counts twice for MaxLines.           *)
(***************************************************************************)
MergedAfresh(ks, old) ==  \* a bug: the lines of the old summary are forgotten
    [there |-> TRUE, count |-> old.count + Len(ks), lines |-> StateLines(ks)]
Merged(ks, old) ==
    [there |-> TRUE, count |-> old.count + Len(ks),
     lines |-> UpTo(StateLines(ks) \o Distinct(old.lines), MaxLines)]

Overflows(ks, old) == Len(StateLines(ks)) + Len(Distinct(old.lines)) > MaxLines

-----------------------------------------------------------------------------
(* The requests to exomind *)

(* what exo_persist and exo_del can come to *)
Outcomes == {"ok", "failed", "unheard"}
Made(r) == r # "failed"

(* another request changed what t has read *)
Disturb(t) ==
    [u \in Threads |-> IF u = t \/ th[u].at = "idle" THEN th[u]
                       ELSE [th[u] EXCEPT !.doubts = @ \cup {"overlap"}]]

If(b, d) == IF b THEN {d} ELSE {}

Goes(t, r) == th' = [th EXCEPT ![t] = r]
Others == <<next, log, summary, asks, excused>>

(* an agent writes the next key of its session *)
Write ==
    /\ next < Len(Entry)
    /\ next' = next + 1
    /\ log' = log \cup {next + 1}
    /\ UNCHANGED <<summary, th, asks, excused>>

Ask(t) ==
    /\ th[t].at = "idle"
    /\ asks < MaxAsks
    /\ asks' = asks + 1
    /\ Goes(t, [Idle EXCEPT !.at = "list"])
    /\ UNCHANGED <<next, log, summary, excused>>

(* the beginnings of a list that was cut, perhaps in the middle of a key *)
Half == Len(Entry) + 1
CutLists ==
    LET Upto(n) == {Ascending(log)[i] : i \in 1..n}
        N == Cardinality(log) + (IF summary.there THEN 0 ELSE -1)
    IN  {Upto(n) : n \in 1..N} \cup {Upto(n) \cup {Half} : n \in 0..N}

(* exo_list, by ctx_compress and by ctx_build *)
Listed(t, r, at) ==
    \/ /\ log # {} \/ summary.there
       /\ Goes(t, [r EXCEPT !.at = at, !.keys = log, !.summed = summary.there])
    \/ \E K \in CutLists :
        Goes(t, [r EXCEPT !.at = at, !.keys = K, !.doubts = {"answer"}])

(* ctx_compress: without keys there is nothing to fold *)
List(t) ==
    /\ th[t].at = "list"
    /\ \/ Listed(t, th[t], "get")
       \/ Goes(t, [th[t] EXCEPT !.at = "relist"])  \* none, or no answer
    /\ UNCHANGED Others

(* ctx_compress up to the text of the summary; the answer ends with the old one *)
Get(t) ==
    /\ th[t].at = "get"
    /\ LET K == th[t].keys
           ks == Folded(K)
           all == IF th[t].summed THEN summary ELSE NoSummary
       IN  \/ \E n \in 0..Len(all.lines) :
              LET old == [all EXCEPT !.lines = UpTo(@, n)]
              IN  /\ Cardinality(K) > 1 /\ Size(K) > Budget
                  /\ Goes(t, [th[t] EXCEPT
                        !.at = "persist", !.new = Merged(ks, old), !.todo = ks,
                        !.doubts = @ \cup If(n < Len(all.lines), "answer")
                                     \cup If(Overflows(ks, old), "limit")])
           \/ Goes(t, [th[t] EXCEPT !.at = "relist"])  \* it fits, or no answer
    /\ UNCHANGED Others

(* the summary goes before any of the entries does *)
Persist(t) ==
    /\ th[t].at = "persist"
    /\ \E r \in Outcomes :
        /\ summary' = IF Made(r) THEN th[t].new ELSE summary
        /\ excused' = IF Made(r) THEN excused \cup th[t].doubts ELSE excused
        /\ th' = [(IF Made(r) THEN Disturb(t) ELSE th) EXCEPT
                    ![t].at = IF r = "ok" THEN "delete" ELSE "relist"]
    /\ UNCHANGED <<next, log, asks>>

(* a delete that fails is logged, and the next one is tried *)
Delete(t) ==
    /\ th[t].at = "delete"
    /\ \E r \in Outcomes :
        LET k == Head(th[t].todo)
            rest == Tail(th[t].todo)
        IN  /\ log' = IF Made(r) THEN log \ {k} ELSE log
            /\ th' = [(IF Made(r) THEN Disturb(t) ELSE th) EXCEPT
                        ![t].todo = rest,
                        ![t].at = IF rest = <<>> THEN "relist" ELSE "delete"]
    /\ UNCHANGED <<next, summary, asks, excused>>

-----------------------------------------------------------------------------
(* ctx_build *)

Decided == {Entry[k].line : k \in 1..next} \ {NoLine}

(* its own list; without an answer it goes on with the notes *)
Relist(t) ==
    /\ th[t].at = "relist"
    /\ \/ Listed(t, [Idle EXCEPT !.asOf = Decided], "reget")
       \/ Goes(t, [Idle EXCEPT !.at = "failed"])  \* none, or no answer
    /\ UNCHANGED Others

(* the summary's lines, then the entries, until the budget is used up *)
Emitted(t) ==
    (IF th[t].summed THEN summary.lines ELSE <<>>)
        \o [i \in DOMAIN Ascending(th[t].keys) |->
                Value(Ascending(th[t].keys)[i]).line]

(* without the values the digest ends here, without notes, and with status 200 *)
Reget(t) ==
    /\ th[t].at = "reget"
    /\ \/ Goes(t, [th[t] EXCEPT !.at = "notes",
                     !.shown = Range(UpTo(Emitted(t), Lines)),
                     !.doubts = @ \cup If(Len(Emitted(t)) > Lines, "limit")])
       \/ Goes(t, [th[t] EXCEPT !.at = "failed"])
    /\ UNCHANGED Others

Reply(t) ==
    /\ th[t].at \in {"notes", "failed"}
    /\ Goes(t, Idle)
    /\ UNCHANGED Others

(* the process ends: it keeps nothing, and every agent can ask again *)
Restart ==
    /\ th' = [t \in Threads |-> Idle]
    /\ UNCHANGED Others

Next ==
    \/ Write \/ Restart
    \/ \E t \in Threads :
        \/ Ask(t) \/ List(t) \/ Get(t) \/ Persist(t) \/ Delete(t)
        \/ Relist(t) \/ Reget(t) \/ Reply(t)

Spec == Init /\ [][Next]_vars

-----------------------------------------------------------------------------
(* Properties *)

(***************************************************************************)
(* README, "Failure semantics": the summary is persisted before any key is *)
(* deleted.  Whatever fails or restarts, every decision is in the log or   *)
(* in the summary, and what is gone was counted; unless two compressions   *)
(* overlapped, an answer ended early, or the summary was cut.              *)
(***************************************************************************)
NothingForgotten ==
    excused # {} \/
        /\ Decided \subseteq {Entry[k].line : k \in log} \cup Range(summary.lines)
        /\ next - Cardinality(log) <= summary.count

(***************************************************************************)
(* "The newest entry is never folded" (ctx_compress), not even when two    *)
(* compressions overlap.  (When the list ends within the summary's key,    *)
(* that half of a key is the newest.)                                      *)
(***************************************************************************)
NewestKept == "answer" \notin excused /\ next > 0 => next \in log

(***************************************************************************)
(* An agent can reconstruct its context from one digest: every decision    *)
(* there was when it was begun is in it, unless the budget or an answer    *)
(* that ended early cut it, or another request's compression came between. *)
(***************************************************************************)
DigestComplete ==
    \A t \in Threads :
        th[t].at = "notes" /\ th[t].doubts = {} /\ excused = {} =>
            th[t].asOf \subseteq th[t].shown
=============================================================================
