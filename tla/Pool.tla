-------------------------------- MODULE Pool --------------------------------
(***************************************************************************)
(* The worker pool of exocrawl (src/exocrawl/src/pool.c) and the /scrape   *)
(* requests that use it (main.c): each submits its urls as jobs and waits. *)
(*                                                                         *)
(* Workers and requests sleep on one condition variable.  A submission     *)
(* signals it, which wakes any one of the sleepers, a request that waits   *)
(* just as well as a worker; whoever wakes looks at the condition again.   *)
(***************************************************************************)
EXTENDS Integers, Sequences, FiniteSets

CONSTANTS
    Workers,   \* --concurrency threads
    Requests,  \* connections that post to /scrape
    Jobs       \* urls in each request

VARIABLES
    queue,     \* head to tail: the request each job belongs to
    active, quit,
    worker,    \* ready, asleep, the request whose job it runs, or gone
    request,   \* submitting, ready, asleep, returned
    submitted, \* jobs each request has submitted
    done       \* jobs of each request that have ended

vars == <<queue, active, quit, worker, request, submitted, done>>

Init ==
    /\ queue = <<>> /\ active = 0 /\ quit = FALSE
    /\ worker = [w \in Workers |-> "ready"]
    /\ request = [r \in Requests |-> "submitting"]
    /\ submitted = [r \in Requests |-> 0]
    /\ done = [r \in Requests |-> 0]

-----------------------------------------------------------------------------
(* The condition variable *)

Wake(who) == [t \in DOMAIN who |-> IF who[t] = "asleep" THEN "ready" ELSE who[t]]
Broadcast(ws, rs) == worker' = Wake(ws) /\ request' = Wake(rs)

(* one sleeper, if there is any *)
Signal(ws, rs) ==
    \/ \E w \in Workers :
        ws[w] = "asleep" /\ worker' = [ws EXCEPT ![w] = "ready"] /\ request' = rs
    \/ \E r \in Requests :
        rs[r] = "asleep" /\ request' = [rs EXCEPT ![r] = "ready"] /\ worker' = ws
    \/ /\ \A w \in Workers : ws[w] # "asleep"
       /\ \A r \in Requests : rs[r] # "asleep"
       /\ worker' = ws /\ request' = rs

-----------------------------------------------------------------------------
(* pool_worker *)

Take(w) ==
    /\ worker[w] = "ready" /\ queue # <<>>
    /\ worker' = [worker EXCEPT ![w] = Head(queue)]
    /\ queue' = Tail(queue)
    /\ active' = active + 1
    /\ UNCHANGED <<quit, request, submitted, done>>

Sleep(w) ==
    /\ worker[w] = "ready" /\ queue = <<>> /\ ~quit
    /\ worker' = [worker EXCEPT ![w] = "asleep"]
    /\ UNCHANGED <<queue, active, quit, request, submitted, done>>

Leave(w) ==
    /\ worker[w] = "ready" /\ queue = <<>> /\ quit
    /\ worker' = [worker EXCEPT ![w] = "gone"]
    /\ UNCHANGED <<queue, active, quit, request, submitted, done>>

TellOne(ws, rs) == Signal(ws, rs)
Tell(ws, rs) == Broadcast(ws, rs)

(* the job ends; the last one tells those that wait *)
Finish(w) ==
    /\ worker[w] \in Requests
    /\ done' = [done EXCEPT ![worker[w]] = @ + 1]
    /\ active' = active - 1
    /\ LET ws == [worker EXCEPT ![w] = "ready"]
       IN  IF active' = 0 /\ queue = <<>>
           THEN Tell(ws, request)
           ELSE worker' = ws /\ UNCHANGED request
    /\ UNCHANGED <<queue, quit, submitted>>

-----------------------------------------------------------------------------
(* handle_scrape *)

Submit(r) ==
    /\ request[r] = "submitting" /\ submitted[r] < Jobs
    /\ queue' = Append(queue, r)
    /\ submitted' = [submitted EXCEPT ![r] = @ + 1]
    /\ Signal(worker, request)
    /\ UNCHANGED <<active, quit, done>>

Wait(r) ==
    /\ request[r] = "submitting" /\ submitted[r] = Jobs
    /\ request' = [request EXCEPT ![r] = "ready"]
    /\ UNCHANGED <<queue, active, quit, worker, submitted, done>>

(* pool_wait: for the jobs of everybody *)
Busy == queue # <<>> \/ active > 0

Doze(r) ==
    /\ request[r] = "ready" /\ Busy
    /\ request' = [request EXCEPT ![r] = "asleep"]
    /\ UNCHANGED <<queue, active, quit, worker, submitted, done>>

Return(r) ==
    /\ request[r] = "ready" /\ ~Busy
    /\ request' = [request EXCEPT ![r] = "returned"]
    /\ UNCHANGED <<queue, active, quit, worker, submitted, done>>

(* pool_destroy, where an operation from the console has ended *)
Destroy ==
    /\ \A r \in Requests : request[r] = "returned"
    /\ ~quit
    /\ quit' = TRUE
    /\ Broadcast(worker, request)
    /\ UNCHANGED <<queue, active, submitted, done>>

WorkerSteps(w) == Take(w) \/ Sleep(w) \/ Leave(w) \/ Finish(w)
RequestSteps(r) == Submit(r) \/ Wait(r) \/ Doze(r) \/ Return(r)

Next ==
    \/ \E w \in Workers : WorkerSteps(w)
    \/ \E r \in Requests : RequestSteps(r)
    \/ Destroy

(* every thread that can go on does *)
Fairness ==
    /\ \A w \in Workers : WF_vars(WorkerSteps(w))
    /\ \A r \in Requests : WF_vars(RequestSteps(r))
    /\ WF_vars(Destroy)

Spec == Init /\ [][Next]_vars /\ Fairness

-----------------------------------------------------------------------------
(***************************************************************************)
(* A request that goes on after pool_wait reads its jobs and frees them:   *)
(* all of them have ended.                                                 *)
(***************************************************************************)
ReadsFinished == \A r \in Requests : request[r] = "returned" => done[r] = Jobs

(***************************************************************************)
(* However the signals fall, nobody is left asleep: every request returns, *)
(* and when the pool is destroyed every worker is joined.                  *)
(***************************************************************************)
AllGone == \A w \in Workers : worker[w] = "gone"
EveryoneReturns == <>AllGone

-----------------------------------------------------------------------------
(***************************************************************************)
(* The inductive invariant: a job that is submitted waits, runs or has     *)
(* ended.                                                                  *)
(***************************************************************************)
TypeOK ==
    /\ queue \in Seq(Requests) /\ active \in Nat
    /\ worker \in [Workers -> Requests \cup {"ready", "asleep", "gone"}]
    /\ request \in [Requests -> {"submitting", "ready", "asleep", "returned"}]
    /\ submitted \in [Requests -> Nat] /\ done \in [Requests -> Nat]

Waiting(r) == {k \in DOMAIN queue : queue[k] = r}
Running(r) == {w \in Workers : worker[w] = r}
Working == {w \in Workers : worker[w] \in Requests}

Counted == active = Cardinality(Working)
Accounted ==
    \A r \in Requests :
        submitted[r] = done[r] + Cardinality(Running(r)) + Cardinality(Waiting(r))
AllSubmitted == \A r \in Requests : request[r] # "submitting" => submitted[r] = Jobs

Inv == TypeOK /\ Counted /\ Accounted /\ AllSubmitted /\ ReadsFinished
=============================================================================
