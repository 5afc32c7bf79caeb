------------------------------- MODULE Memory -------------------------------
(***************************************************************************)
(* The memory the HTTP layer makes of two stores (src/src/http.c): the     *)
(* main store, and the project store that keys with the p: prefix and      *)
(* requests with proj=1 are routed to when one is attached.  Each store is *)
(* a DurableMap, which Store implements.                                   *)
(*                                                                         *)
(* Every connection has a thread (src/src/main.c, conn_thread).  A request *)
(* is a sequence of calls of the store; the store's mutex makes each of    *)
(* them atomic, and calls of different threads interleave.  A request with *)
(* no call left is acknowledged: what it wrote should survive from then    *)
(* on.  Tokens only decide which requests are refused before their first   *)
(* call, and whether a delete cascades.                                    *)
(***************************************************************************)
EXTENDS Naturals, Sequences, FiniteSets, SequencesExt

CONSTANTS
    Keys,        \* the keys requests name
    ProjKeys,    \* those that start with "p:"
    Attached,    \* is a project store attached
    Threads,
    Ops,         \* the requests that are made
    Faults,      \* {"set"} when the append of a record may fail
    MaxReqs      \* bound: requests

Requests == {"set", "append", "del", "embed", "unembed", "note", "mandate",
             "batch", "outdate", "revive", "link", "get", "outdated", "assoc",
             "recall", "snapshot", "restore"}

ASSUME MemoryAssumption ==
    /\ IsFiniteSet(Keys)
    /\ ProjKeys \subseteq Keys
    /\ Attached \in BOOLEAN
    /\ Ops \subseteq Requests
    /\ MaxReqs \in Nat

VARIABLES
    main, proj,  \* the versions of each store since its last flush
    now,
    todo,        \* the calls each thread has still to make
    busy,        \* the threads that have not replied yet
    mark,        \* the last version each thread wrote, by store
    seen,        \* what each thread's reads found
    written,     \* versions written so far, by store
    acked,       \* the last acknowledged version, by store
    snap,        \* the last snapshot given out
    reqs,        \* requests so far
    split        \* history: a /restore came between the writes of an /outdate

stores == <<main, proj>>
threads == <<todo, busy, mark, seen>>
vars == <<stores, now, threads, written, acked, snap, reqs, split>>

Stores == {"main", "proj"}
Kinds == {"val", "vec", "history", "outdated", "assoc", "note", "mandate"}
Names == Kinds \X Keys

Main == INSTANCE DurableMap
            WITH versions <- main, Keys <- Names, Chunks <- Threads, TTLs <- {0}
Proj == INSTANCE DurableMap
            WITH versions <- proj, Keys <- Names, Chunks <- Threads, TTLs <- {0}

Versions(s) == IF s = "main" THEN main ELSE proj
Latest(s) == IF s = "main" THEN Main!Current ELSE Proj!Current

(***************************************************************************)
(* The oldest version of a store that a loss of power can bring back.      *)
(***************************************************************************)
Base(s) == written[s] - Len(Versions(s)) + 1

Nothing == [s \in Stores |-> 0]

Init ==
    /\ Main!Init /\ Proj!Init
    /\ todo = [t \in Threads |-> <<>>]
    /\ busy = {}
    /\ mark = [t \in Threads |-> Nothing]
    /\ seen = [t \in Threads |-> {}]
    /\ written = Nothing
    /\ acked = Nothing
    /\ snap = Main!Empty
    /\ reqs = 0
    /\ split = FALSE

-----------------------------------------------------------------------------
(* Requests as sequences of calls *)

(***************************************************************************)
(* A call; after one that fails, or a read that finds nothing, the request *)
(* is answered, except where the code goes on.                             *)
(***************************************************************************)
Call(do, s, kind, k) ==
    [do |-> do, store |-> s, name |-> <<kind, k>>, stops |-> TRUE]
Ignored(call) == [call EXCEPT !.stops = FALSE]
SyncOf(s, k) == Call("sync", s, "val", k)

(***************************************************************************)
(* pick_store.                                                             *)
(***************************************************************************)
Pick(k, pj) == IF Attached /\ (pj \/ k \in ProjKeys) THEN "proj" ELSE "main"

(* /set and /append: only the second flushes the store it wrote *)
Setting(k, s) ==
    {<<Call(do, s, "val", k), SyncOf("main", k)>> : do \in {"put", "extend"}}
Appending(k, s) == <<Call("extend", s, "val", k), SyncOf(s, k)>>

(***************************************************************************)
(* del_key_cascade: the vector goes too when the token may write it.       *)
(***************************************************************************)
Cascade(k, s) ==
    { <<Call("remove", s, "val", k)>>,
      <<Call("remove", s, "val", k), Call("remove", "main", "vec", k)>> }

Deleting(k, s) == {c \o <<SyncOf("main", k)>> : c \in Cascade(k, s)}

Embedding_slip(k) ==  \* the reply does not wait for the disk
    <<Call("put", "main", "vec", k)>>
Embedding(k) == <<Call("put", "main", "vec", k), SyncOf("main", k)>>
Unembedding(k) == <<Call("remove", "main", "vec", k), SyncOf("main", k)>>

Noting(k) == <<Call("put", "main", "note", k), SyncOf("main", k)>>
Mandating(k) ==
    <<Ignored(Call("put", "main", "mandate", k)), SyncOf("main", k)>>

(***************************************************************************)
(* The elements of a batch.  Only its deletes look for the project store.  *)
(***************************************************************************)
BatchElements(k, s) ==
    { <<Ignored(Call("put", "main", "val", k))>>,
      <<Ignored(Call("extend", "main", "val", k))>>,
      <<Ignored(Call("put", "main", "vec", k))>> }
    \cup Cascade(k, s)

Batch(k, s) ==
    {a \o b \o <<SyncOf("main", k)>> : a, b \in BatchElements(k, s)}

Outdating_slip(k, s) ==  \* the marker goes first
    <<Call("put", s, "outdated", k), Call("extend", s, "history", k),
      SyncOf(s, k)>>
Outdating(k, s) ==
    <<Call("extend", s, "history", k),
      Ignored(Call("put", s, "outdated", k)),
      SyncOf(s, k)>>
Reviving(k, s) == <<Call("remove", s, "outdated", k), SyncOf(s, k)>>
Linking(k, s) == <<Call("extend", s, "assoc", k), SyncOf(s, k)>>

(* the requests that only read: a key, its marker, its links, a hit *)
Getting(k, s) == <<Call("read", s, "val", k)>>
ShowingOutdated(k, s) ==
    <<Call("read", s, "outdated", k), Ignored(Call("read", s, "history", k))>>
ShowingLinks(k, s) ==
    <<Ignored(Call("read", s, "assoc", k))>> \o
        SetToSeq({Ignored(Call("read", s, "assoc", l)) : l \in Keys \ {k}})
Recalling(k) ==  \* a key of the project store without p: is looked up in main
    LET s == Pick(k, FALSE)
    IN  <<Ignored(Call("read", s, "outdated", k)),
          Ignored(Call("read", s, "history", k)),
          Ignored(Call("read", s, "assoc", k))>>

Snapshotting(k) == <<Call("snapshot", "main", "val", k)>>
Restoring(k) == <<Call("restore", "main", "val", k)>>

Plans(k, s) ==
    [ set      |-> Setting(k, s),
      append   |-> {Appending(k, s)},
      del      |-> Deleting(k, s),
      embed    |-> {Embedding(k)},
      unembed  |-> {Unembedding(k)},
      note     |-> {Noting(k)},
      mandate  |-> {Mandating(k)},
      batch    |-> Batch(k, s),
      outdate  |-> {Outdating(k, s)},
      revive   |-> {Reviving(k, s)},
      link     |-> {Linking(k, s)},
      get      |-> {Getting(k, s)},
      outdated |-> {ShowingOutdated(k, s)},
      assoc    |-> {ShowingLinks(k, s)},
      recall   |-> {Recalling(k)},
      snapshot |-> {Snapshotting(k)},
      restore  |-> {Restoring(k)} ]

-----------------------------------------------------------------------------
(* The threads *)

(***************************************************************************)
(* conn_thread accepts a request.  The thread stands for the values that   *)
(* its requests write.                                                     *)
(***************************************************************************)
Accept(t) ==
    /\ t \notin busy
    /\ reqs < MaxReqs
    /\ reqs' = reqs + 1
    /\ \E op \in Ops, k \in Keys, pj \in BOOLEAN :
            \E calls \in Plans(k, Pick(k, pj))[op] :
                todo' = [todo EXCEPT ![t] = calls]
    /\ busy' = busy \cup {t}
    /\ mark' = [mark EXCEPT ![t] = Nothing]
    /\ seen' = [seen EXCEPT ![t] = {}]
    /\ UNCHANGED <<stores, now, written, acked, snap, split>>

(***************************************************************************)
(* The effect of a call on its store, as the abstract store's action.      *)
(* store_set in append mode is a plain set when there is no live value.    *)
(***************************************************************************)
OnMain(c, t) ==
    \/ c.do = "put" /\ Main!Put(c.name, t, 0)
    \/ c.do = "extend" /\ Main!Current[c.name] = {} /\ Main!Put(c.name, t, 0)
    \/ c.do = "extend" /\ Main!Extend(c.name, t, 0)
    \/ c.do = "remove" /\ Main!Remove(c.name)
    \/ c.do = "sync" /\ Main!Flush
    \/ c.do = "restore" /\ main' = <<snap>> /\ UNCHANGED now

OnProj(c, t) ==
    \/ c.do = "put" /\ Proj!Put(c.name, t, 0)
    \/ c.do = "extend" /\ Proj!Current[c.name] = {} /\ Proj!Put(c.name, t, 0)
    \/ c.do = "extend" /\ Proj!Extend(c.name, t, 0)
    \/ c.do = "remove" /\ Proj!Remove(c.name)
    \/ c.do = "sync" /\ Proj!Flush

(* a /restore replaces what others have read or are about to write *)
Overtaken(t) ==
    [u \in Threads |-> IF u = t THEN seen[u] ELSE seen[u] \cup {"overtaken"}]

Splits(t) ==
    \E u \in Threads \ {t} : \E i \in DOMAIN todo[u] : todo[u][i].name[1] = "outdated"

Writes == {"put", "extend", "remove", "restore"}

CallStore(t) ==
    /\ todo[t] # <<>>
    /\ LET c == Head(todo[t]) IN
        /\ c.do \in Writes \cup {"sync"}
        /\ \/ c.store = "main" /\ OnMain(c, t) /\ UNCHANGED proj
           \/ c.store = "proj" /\ OnProj(c, t) /\ UNCHANGED main
        /\ IF c.do \in Writes
           THEN /\ written' = [written EXCEPT ![c.store] = @ + 1]
                /\ mark' = [mark EXCEPT ![t][c.store] = written'[c.store]]
           ELSE UNCHANGED <<written, mark>>
        /\ split' = (split \/ (c.do = "restore" /\ Splits(t)))
        /\ seen' = IF c.do = "restore" THEN Overtaken(t) ELSE seen
    /\ todo' = [todo EXCEPT ![t] = Tail(@)]
    /\ UNCHANGED <<busy, acked, snap, reqs>>

(* store_get, and what the request does without a value *)
CallGet(t) ==
    /\ todo[t] # <<>>
    /\ Head(todo[t]).do = "read"
    /\ LET c == Head(todo[t])
           found == Latest(c.store)[c.name] # {}
       IN  /\ seen' = IF found THEN [seen EXCEPT ![t] = @ \cup {c.name[1]}] ELSE seen
           /\ todo' = [todo EXCEPT ![t] = IF c.stops /\ ~found THEN <<>> ELSE Tail(@)]
    /\ UNCHANGED <<stores, now, busy, mark, written, acked, snap, reqs, split>>

CallSnapshot(t) ==
    /\ todo[t] # <<>>
    /\ Head(todo[t]).do = "snapshot"
    /\ snap' = Main!Current
    /\ todo' = [todo EXCEPT ![t] = Tail(@)]
    /\ UNCHANGED <<stores, now, busy, mark, seen, written, acked, reqs, split>>

(***************************************************************************)
(* store_set returns an error: nothing is acknowledged, unless the result  *)
(* is ignored.                                                             *)
(***************************************************************************)
SetFails(t) ==
    /\ "set" \in Faults
    /\ todo[t] # <<>>
    /\ LET c == Head(todo[t]) IN
        /\ c.do \in {"put", "extend"}
        /\ todo' = [todo EXCEPT ![t] = IF c.stops THEN <<>> ELSE Tail(@)]
        /\ busy' = IF c.stops THEN busy \ {t} ELSE busy
    /\ UNCHANGED <<stores, now, mark, seen, written, acked, snap, reqs, split>>

Larger(m, n) == IF m > n THEN m ELSE n

Reply(t) ==
    /\ t \in busy
    /\ todo[t] = <<>>
    /\ acked' = [s \in Stores |-> Larger(acked[s], mark[t][s])]
    /\ busy' = busy \ {t}
    /\ UNCHANGED <<stores, now, todo, mark, seen, written, snap, reqs, split>>

ThreadsGone ==
    /\ todo' = [t \in Threads |-> <<>>]
    /\ busy' = {}
    /\ mark' = [t \in Threads |-> Nothing]
    /\ seen' = [t \in Threads |-> {}]
    /\ UNCHANGED <<now, acked, snap, reqs, split>>

Kill == ThreadsGone /\ UNCHANGED <<stores, written>>

PowerLoss ==
    /\ ThreadsGone
    /\ \E i \in 1..Len(main), j \in 1..Len(proj) :
        /\ main' = <<main[i]>>
        /\ proj' = <<proj[j]>>
        /\ written' = [main |-> Base("main") + i - 1,
                       proj |-> Base("proj") + j - 1]

Next ==
    \/ \E t \in Threads :
        \/ Accept(t) \/ CallStore(t) \/ CallGet(t) \/ CallSnapshot(t)
        \/ SetFails(t) \/ Reply(t)
    \/ Kill \/ PowerLoss

Spec == Init /\ [][Next]_vars

-----------------------------------------------------------------------------
(* Properties *)

(***************************************************************************)
(* http.c, "durability": writes are fsynced before acknowledgement, and a  *)
(* batch shares one fsync.  No loss of power takes a store back behind a   *)
(* write that was acknowledged.                                            *)
(***************************************************************************)
Survives(s) == acked[s] <= Base(s)

MainSurvives == Survives("main")
AckedSurvive == \A s \in Stores : Survives(s)

(***************************************************************************)
(* /outdate writes the history before the marker: whatever interrupts it,  *)
(* and in every version that a crash can bring back, a key marked outdated *)
(* has a history that says why; unless a /restore has replaced the store   *)
(* between the two writes of an /outdate.  And a request that finds the    *)
(* marker, and then looks for the history, finds it.                       *)
(***************************************************************************)
OutdatedHasHistory ==
    ~split =>
        /\ \A s \in Stores : \A i \in 1..Len(Versions(s)) : \A k \in Keys :
            Versions(s)[i][<<"outdated", k>>] # {} =>
                Versions(s)[i][<<"history", k>>] # {}
        /\ \A t \in busy :
            todo[t] = <<>> /\ "outdated" \in seen[t] =>
                seen[t] \cap {"history", "overtaken"} # {}
=============================================================================
