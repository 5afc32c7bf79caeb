------------------------------- MODULE Serve -------------------------------
(***************************************************************************)
(* How the daemons serve connections: main accepts and starts a thread for *)
(* each (src/src/main.c; the siblings have the same loop), the thread      *)
(* reads the request, asks for its authorisation, takes a token from the   *)
(* rate limiter (src/common/exo.c), routes and replies; a signal stops the *)
(* loop, main waits for the threads, three seconds at most, and closes     *)
(* what they work on.                                                      *)
(*                                                                         *)
(* The limiter's bucket is a global that no lock protects: every access of *)
(* a thread is a step of its own.                                          *)
(***************************************************************************)
EXTENDS Integers, FiniteSets, FiniteSetsExt

CONSTANTS
    Conns,    \* connections, and the threads that serve them
    PerSec,   \* --rate-limit
    Second,   \* a second in units of the clock
    Grace,    \* what main waits for the threads, three seconds
    MaxTime   \* bound of the clock

VARIABLES
    clock,
    bucket, lastRefill,     \* g_rate_bucket, g_rate_last_ms
    th,                     \* conn_thread: where it is, what it has loaded
    active,                 \* g_active
    server,                 \* main: serving, accepted, closing, closed
    deadline,
    granted, raced,         \* history: tokens given; whether two threads
                            \* were in the limiter at a time
    left                    \* history: threads at work when main closed

vars == <<clock, bucket, lastRefill, th, active, server, deadline, granted, raced, left>>

Nobody == [pc |-> "none", now |-> 0, elapsed |-> 0, tokens |-> 0]

Init ==  \* main, exo_rate_init
    /\ clock = 0
    /\ bucket = PerSec /\ lastRefill = 0
    /\ th = [c \in Conns |-> Nobody]
    /\ active = 0
    /\ server = "serving" /\ deadline = 0
    /\ granted = 0 /\ raced = FALSE
    /\ left = {}

At(c, p) == th[c].pc = p
Goto(c, p) == th' = [th EXCEPT ![c].pc = p]
Alive == {c \in Conns : th[c].pc \notin {"none", "gone"}}
InLimiter == {c \in Conns : th[c].pc \in {"age", "gather", "refill", "test", "load", "store"}}

limiter == <<bucket, lastRefill, granted, raced>>
main == <<active, server, deadline, left>>

-----------------------------------------------------------------------------
(* The accept loop *)

(* g_active counts the thread before there is one *)
StartedUncounted(c) == active' = active /\ Goto(c, "read")
Started(c) == active' = active + 1 /\ Goto(c, "read")

Accept(c) ==
    /\ server = "serving" /\ At(c, "none")
    /\ Started(c)
    /\ UNCHANGED <<clock, limiter, server, deadline, left>>

(* pthread_create fails: the connection is closed, the count taken back *)
AcceptFails(c) ==
    /\ server = "serving" /\ At(c, "none")
    /\ Goto(c, "gone")
    /\ UNCHANGED <<clock, limiter, main>>

Stop ==
    /\ server = "serving"
    /\ server' = "closing"
    /\ deadline' = clock + Grace
    /\ UNCHANGED <<clock, limiter, th, active, left>>

(* main wakes up when the count is 0, or at the deadline *)
Close ==
    /\ server = "closing"
    /\ active = 0 \/ clock >= deadline
    /\ server' = "closed"
    /\ left' = Alive
    /\ UNCHANGED <<clock, limiter, th, active, deadline>>

Tick ==
    /\ clock < MaxTime
    /\ clock' = clock + 1
    /\ UNCHANGED <<limiter, th, main>>

-----------------------------------------------------------------------------
(* A thread: http_handle_conn *)

(* a bad request, a method that is not allowed, or no token: an answer at once *)
Answer(c) ==
    /\ At(c, "read")
    /\ Goto(c, "reply")
    /\ UNCHANGED <<clock, limiter, main>>

(***************************************************************************)
(* exo_rate_take: what time is it, how long ago was the last refill, how   *)
(* many tokens are there, store them, is there one, and take it.           *)
(***************************************************************************)
Look(c) ==
    /\ At(c, "read")
    /\ th' = [th EXCEPT ![c].pc = "age", ![c].now = clock]
    /\ raced' = (raced \/ InLimiter # {})
    /\ UNCHANGED <<clock, bucket, lastRefill, granted, main>>

Age(c) ==
    /\ At(c, "age")
    /\ LET elapsed == th[c].now - lastRefill
       IN  IF elapsed > 0
           THEN /\ lastRefill' = th[c].now
                /\ th' = [th EXCEPT ![c].pc = "gather", ![c].elapsed = elapsed]
           ELSE /\ Goto(c, "test")
                /\ UNCHANGED lastRefill
    /\ UNCHANGED <<clock, bucket, granted, raced, main>>

Gather(c) ==
    /\ At(c, "gather")
    /\ th' = [th EXCEPT ![c].pc = "refill", ![c].tokens = bucket]
    /\ UNCHANGED <<clock, limiter, main>>

Refilled(tokens, elapsed) == Min({tokens + (PerSec * elapsed) \div Second, 2 * PerSec})

Refill(c) ==
    /\ At(c, "refill")
    /\ bucket' = Refilled(th[c].tokens, th[c].elapsed)
    /\ Goto(c, "test")
    /\ UNCHANGED <<clock, lastRefill, granted, raced, main>>

Test(c) ==
    /\ At(c, "test")
    /\ Goto(c, IF bucket > 0 THEN "load" ELSE "reply")
    /\ UNCHANGED <<clock, limiter, main>>

Load(c) ==
    /\ At(c, "load")
    /\ th' = [th EXCEPT ![c].pc = "store", ![c].tokens = bucket]
    /\ UNCHANGED <<clock, limiter, main>>

Store(c) ==
    /\ At(c, "store")
    /\ bucket' = th[c].tokens - 1
    /\ granted' = granted + 1
    /\ Goto(c, "route")
    /\ UNCHANGED <<clock, lastRefill, raced, main>>

Route(c) ==
    /\ At(c, "route")
    /\ Goto(c, "reply")
    /\ UNCHANGED <<clock, limiter, main>>

Finish(c) ==
    /\ At(c, "reply")
    /\ active' = active - 1
    /\ Goto(c, "gone")
    /\ UNCHANGED <<clock, limiter, server, deadline, left>>

Next ==
    \/ Stop \/ Close \/ Tick
    \/ \E c \in Conns :
        \/ Accept(c) \/ AcceptFails(c) \/ Answer(c)
        \/ Look(c) \/ Age(c) \/ Gather(c) \/ Refill(c) \/ Test(c) \/ Load(c) \/ Store(c)
        \/ Route(c) \/ Finish(c)

Spec == Init /\ [][Next]_vars

-----------------------------------------------------------------------------
(***************************************************************************)
(* Threads that are still at work when the store is closed have had their  *)
(* three seconds.  (That there may be any is a hazard: they then use what  *)
(* is freed, and the receive timeout of a connection is ten seconds.)      *)
(***************************************************************************)
ShutdownWaits == left # {} => clock >= deadline

(***************************************************************************)
(* --rate-limit: PerSec tokens to begin with and PerSec a second, as long  *)
(* as two threads are never in the limiter at the same time.               *)
(***************************************************************************)
UnracedRate == ~raced => granted <= PerSec + (PerSec * clock) \div Second

(***************************************************************************)
(* Even when they are, the bucket stays in bounds: at most one token below *)
(* zero for each other thread that saw the same last one.                  *)
(***************************************************************************)
BucketBounds == bucket \in 1 - Cardinality(Conns) .. 2 * PerSec

LimitHolds == UnracedRate /\ BucketBounds

-----------------------------------------------------------------------------
(***************************************************************************)
(* The inductive invariant.                                                *)
(***************************************************************************)
Pcs == {"none", "read", "age", "gather", "refill", "test", "load", "store",
        "route", "reply", "gone"}

TypeOK ==
    /\ clock \in Nat /\ deadline \in Nat
    /\ bucket \in Int /\ lastRefill \in 0..clock
    /\ th \in [Conns -> [pc : Pcs, now : Nat, elapsed : Nat, tokens : Int]]
    /\ \A c \in Conns : th[c].now <= clock
    /\ active \in Int /\ granted \in Nat /\ raced \in BOOLEAN

(* g_active counts the threads that are at work *)
Counted == active = Cardinality(Alive)

WaitedFor == left # {} => server = "closed" /\ clock >= deadline

(* those that may have taken their token *)
Through == {c \in Conns : th[c].pc \in {"route", "reply", "gone"}}
Bounded(n) == 1 - Cardinality(Through) <= n /\ n <= 2 * PerSec
AllBounded ==
    /\ Bounded(bucket)
    /\ \A c \in Conns : th[c].pc \in {"refill", "store"} => Bounded(th[c].tokens)

(* tokens there were up to a time; those a refill is about to add *)
Allowance(t) == PerSec + (PerSec * t) \div Second
Due(c) == IF th[c].pc \in {"gather", "refill"} THEN (PerSec * th[c].elapsed) \div Second ELSE 0

(* one thread is in the limiter, and has what it loaded from it *)
OneInside ==
    \A c \in InLimiter :
        /\ InLimiter = {c}
        /\ th[c].pc \in {"refill", "store"} => th[c].tokens = bucket
        /\ th[c].pc \in {"load", "store"} => bucket > 0
        /\ bucket + Due(c) + granted <= Allowance(lastRefill)

Unraced ==
    ~raced =>
        /\ OneInside
        /\ bucket >= 0
        /\ bucket + granted <= Allowance(lastRefill)

Inv == TypeOK /\ Counted /\ WaitedFor /\ AllBounded /\ Unraced
=============================================================================
