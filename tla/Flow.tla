-------------------------------- MODULE Flow --------------------------------
(***************************************************************************)
(* exoflow (src/exoflow/src): flows of steps with dependencies that agents *)
(* claim and finish, and loops, chains of flow records of which the newest *)
(* spawns the next.  A flow's durable copy is one key of exomind; every    *)
(* process has a registry of flows of its own:                             *)
(*                                                                         *)
(*  - the daemon, whose requests hold one lock while they call exomind,    *)
(*    but for the two ends of a creation and of a deletion, and whose      *)
(*    reload, when the first attempt failed, goes on in the background;    *)
(*  - a console command (`exoflow /next?...`), which loads all flows, does *)
(*    one request and exits.                                               *)
(*                                                                         *)
(* A request is a plan of calls carried out one by one, so that a crash, a *)
(* reload and the other process come between any two of them.  Any call of *)
(* exomind may be refused, or done while its reply is lost.                *)
(***************************************************************************)
EXTENDS Integers, Sequences, FiniteSets, SequencesExt

CONSTANTS
    Ids,         \* flow ids: 1, 2, ... in the order they are given out
    Scenarios,   \* see Scenario
    Workers,
    NoWorker,
    MaxNow,      \* bound: the clock
    MaxCreates   \* bound: POST /flow

(***************************************************************************)
(* A body has a deadline and a timeout, maybe 0, for each of its steps,    *)
(* which are numbered.  No flow has the id 0.                              *)
(***************************************************************************)
ASSUME FlowAssumption ==
    /\ Ids \subseteq Nat \ {0}
    /\ \A s \in Scenarios : LET b == s.body IN
        /\ DOMAIN b.deps \subseteq Nat
        /\ b.deadline \in [DOMAIN b.deps -> Int]
        /\ b.timeout \in [DOMAIN b.deps -> Int]

Processes == {"daemon", "console"}

VARIABLES
    now,
    store,     \* exomind: the flow under each key
    proc,      \* each process: "down", "loading", "serving" or "exiting"
    reg, gen,  \* its registry, and g_gen
    load,      \* its reload
    op,        \* what the holder of its lock has still to do
    making,    \* the flow a creation has stored and not registered
    deleting,  \* the keys the ends of deletions have to delete
    given,     \* ids given out
    shared,    \* the console command of this moment ran next to the daemon
    mixed,     \* history: flows such a command stored
    held,      \* history: the steps workers hold
    twice,     \* history: the steps handed out while a worker held them
    finished,  \* history: the steps a `done` was answered ok for
    halted,    \* history: loops a stop-loop was answered ok for
    doubtful,  \* history: loops <<root, 0>> that a failed call left in doubt,
               \* steps <<flow, n>> that a failed unclaim did
    scenario, troubles, creates  \* bounds

history == <<held, twice, finished, halted, doubtful>>
bounds == <<scenario, troubles, creates>>
life == <<now, proc, shared>>
vars == <<life, store, mixed, reg, gen, load, op, making, deleting, given, history, bounds>>

-----------------------------------------------------------------------------
(* Flow records *)

(***************************************************************************)
(* A body: for every step its dependencies, its deadline and its timeout   *)
(* (0 for none); interval, max and until of its loop line (interval 0 when *)
(* there is none).                                                         *)
(***************************************************************************)
Blank == [deps |-> <<>>, deadline |-> <<>>, timeout |-> <<>>,
          interval |-> 0, max |-> 0, until |-> 0]

(***************************************************************************)
(* What a behaviour explores: the body of its flows; bounds: the number of *)
(* ids, and of troubles, which are failed calls, kills of the daemon and   *)
(* console commands.                                                       *)
(***************************************************************************)
Scenario(body, ids, n) == [body |-> body, ids |-> ids, troubles |-> n]

Step(b, i) == [state |-> "pending", owner |-> NoWorker,
               deadline |-> b.deadline[i], timeout |-> b.timeout[i]]

NewFlow(b) ==
    [body |-> b, steps |-> [i \in DOMAIN b.deps |-> Step(b, i)],
     next |-> IF b.interval > 0 THEN now + b.interval ELSE 0,
     iter |-> 1, budget |-> 1, stopped |-> FALSE, root |-> 0]

NoFlow == [body |-> Blank, steps |-> <<>>, next |-> 0, iter |-> 0, budget |-> 0,
           stopped |-> FALSE, root |-> 0]

(***************************************************************************)
(* Dependencies are steps of the flow, and none waits for itself: there is *)
(* no set of steps each of which depends on another one of the set.        *)
(***************************************************************************)
Cyclic(deps) ==
    \E C \in SUBSET DOMAIN deps : C # {} /\ \A i \in C : deps[i] \cap C # {}
BodyOK(b) ==
    /\ b.deps # <<>>
    /\ \A i \in DOMAIN b.deps : b.deps[i] \subseteq DOMAIN b.deps
    /\ ~Cyclic(b.deps)
    /\ \A i \in DOMAIN b.deps : b.deadline[i] >= 0 /\ b.timeout[i] >= 0
    /\ b.interval >= 0 /\ b.max >= 0 /\ b.until >= 0

Open == {"pending", "claimed", "overdue"}
States(f) == {f.steps[i].state : i \in DOMAIN f.steps}
Status(f) ==
    CASE States(f) \subseteq {"done"} -> "done"
      [] "cancelled" \in States(f) -> "cancelled"
      [] States(f) \cap Open = {} /\ "failed" \in States(f) -> "failed"
      [] OTHER -> "active"

DepsDone(f, i) == \A d \in f.body.deps[i] : f.steps[d].state = "done"
Ready_slip(f) == {i \in DOMAIN f.steps : f.steps[i].state = "pending"}

Ready(f) == {i \in DOMAIN f.steps : f.steps[i].state = "pending" /\ DepsDone(f, i)}

IsLoop(f) == f.body.interval > 0
Root(i, f) == IF f.root # 0 THEN f.root ELSE i
LoopOf(R, i) ==  \* the records of i's loop in the registry R
    {j \in Ids : R[j] # NoFlow /\ IsLoop(R[j]) /\ Root(j, R[j]) = Root(i, R[i])}

(***************************************************************************)
(* loop_driver: the first record in the registry's list, which has the     *)
(* newest in front, of those with the highest iteration.                   *)
(***************************************************************************)
Drives(R, i) ==
    \A j \in LoopOf(R, i) : R[j].iter < R[i].iter \/ (R[j].iter = R[i].iter /\ j <= i)
TickDue(R, i) ==
    /\ IsLoop(R[i]) /\ Status(R[i]) # "active" /\ ~R[i].stopped
    /\ Drives(R, i) /\ 0 < R[i].next /\ R[i].next <= now

-----------------------------------------------------------------------------
NotMaking == [id |-> 0, f |-> NoFlow]
NotLoading == [pc |-> "off", gen |-> 0, ids |-> {}, flows |-> [i \in Ids |-> NoFlow]]
NoPlan == [todo |-> <<>>, strict |-> TRUE, who |-> NoWorker, new |-> NoFlow, rest |-> {}]

Init ==
    /\ now = 0
    /\ store = [i \in Ids |-> NoFlow]
    /\ proc = [p \in Processes |-> "down"]
    /\ reg = [p \in Processes |-> [i \in Ids |-> NoFlow]]
    /\ gen = [p \in Processes |-> 0]
    /\ load = [p \in Processes |-> NotLoading]
    /\ op = [p \in Processes |-> NoPlan]
    /\ making = [p \in Processes |-> NotMaking]
    /\ deleting = [p \in Processes |-> {}]
    /\ given = 0
    /\ shared = FALSE /\ mixed = {}
    /\ held = {} /\ twice = {} /\ finished = {} /\ halted = {} /\ doubtful = {}
    /\ scenario \in Scenarios /\ troubles = 0 /\ creates = 0

-----------------------------------------------------------------------------
(* Calls of exomind (cli.c), and how a request ends *)

Trouble == troubles < scenario.troubles /\ troubles' = troubles + 1
Outcomes == {"ok", "refused", "lost"}
Outcome(o) ==
    /\ IF o = "ok" THEN UNCHANGED troubles ELSE Trouble
Persist(p, i, f, o) ==
    /\ store' = IF o = "refused" THEN store ELSE [store EXCEPT ![i] = f]
    /\ mixed' = IF p = "console" /\ shared THEN mixed \cup {Root(i, f)} ELSE mixed
Doubt(o, what) == doubtful' = IF o = "ok" THEN doubtful ELSE doubtful \cup {what}

Keep(p, i, f) == reg' = [reg EXCEPT ![p][i] = f]
LockFree(p) == op[p].todo = <<>>
Serving(p) == proc[p] = "serving" /\ LockFree(p)

(***************************************************************************)
(* The reply: a console command exits with it.                             *)
(***************************************************************************)
Exits(p) == proc' = IF p = "console" THEN [proc EXCEPT ![p] = "exiting"] ELSE proc
Reply(p) == op' = [op EXCEPT ![p] = NoPlan] /\ Exits(p)

(***************************************************************************)
(* The next call of the plan, or the reply.  A call that failed: the error *)
(* reply, or in a listing and a reload a line in the log.                  *)
(***************************************************************************)
Advance(p) ==
    IF Len(op[p].todo) = 1 THEN Reply(p)
    ELSE op' = [op EXCEPT ![p].todo = Tail(@), ![p].new = NoFlow] /\ UNCHANGED proc
GiveUp(p) == IF op[p].strict THEN Reply(p) ELSE Advance(p)

Current(p) == op[p].todo[1]
Doing(p, what) == op[p].todo # <<>> /\ Current(p)[1] = what /\ Current(p)[2] \in Ids

(* The bound on ids: the ticks under way need one each. *)
Ticking(p) == \E n \in DOMAIN op[p].todo : op[p].todo[n][1] \in {"tick", "spawn"}
IdLeft == given + Cardinality({p \in Processes : Ticking(p)}) < scenario.ids

-----------------------------------------------------------------------------
(* Steps: flow_sweep, flow_next, step_do, flow_cancel *)

Late(s) == 0 < s.deadline /\ s.deadline < now /\ s.state \in {"pending", "claimed"}
Swept(f) == [f EXCEPT !.steps = [i \in DOMAIN @ |->
                IF Late(@[i]) THEN [@[i] EXCEPT !.state = "overdue"] ELSE @[i]]]

NoCall(o) == o = "ok" /\ UNCHANGED <<store, mixed, reg, troubles>>

(***************************************************************************)
(* A sweep stays in the registry when it could not be stored.              *)
(***************************************************************************)
Sweep(p, o) ==
    /\ Doing(p, "sweep")
    /\ LET i == Current(p)[2]
           f == Swept(reg[p][i])
       IN  Outcome(o) /\ Keep(p, i, f) /\ Persist(p, i, f, o)
    /\ IF o = "ok" THEN Advance(p) ELSE GiveUp(p)
    /\ UNCHANGED <<now, shared, gen, load, making, deleting, given, history, scenario, creates>>

(***************************************************************************)
(* The first ready step goes to the worker; a timeout starts its clock.    *)
(* When the claim cannot be stored, state and owner are set back, the      *)
(* deadline is not.                                                        *)
(***************************************************************************)
Claimed_slip(s, w) == [s EXCEPT !.state = "claimed", !.owner = w]  \* no clock

Claimed(s, w) ==
    [s EXCEPT !.state = "claimed", !.owner = w,
              !.deadline = IF s.timeout > 0 /\ @ = 0 THEN now + s.timeout ELSE @]

FirstReady(f) == CHOOSE i \in Ready(f) : \A j \in Ready(f) : i <= j

Claim(p, o) ==
    /\ Doing(p, "claim")
    /\ LET i == Current(p)[2]
           f == reg[p][i]
           n == FirstReady(f)
           g == [f EXCEPT !.steps[n] = Claimed(@, op[p].who)]
       IN  IF Ready(f) = {} THEN NoCall(o) /\ UNCHANGED <<held, twice>>
           ELSE /\ Outcome(o)
                /\ Persist(p, i, g, o)
                /\ Keep(p, i, IF o = "ok" THEN g
                              ELSE [g EXCEPT !.steps[n].state = "pending",
                                             !.steps[n].owner = NoWorker])
                /\ IF o = "ok"
                   THEN /\ held' = held \cup {<<i, n>>}
                        /\ twice' = IF Root(i, f) \in mixed' THEN twice
                                    ELSE twice \cup (held \cap {<<i, n>>})
                   ELSE UNCHANGED <<held, twice>>
    /\ Reply(p)
    /\ UNCHANGED <<now, shared, gen, load, making, deleting, given, finished, halted, doubtful, scenario, creates>>

Allowed(f, n, action) ==
    LET s == f.steps[n].state
    IN  CASE action = "done" -> s \notin {"done", "cancelled"} /\ DepsDone(f, n)
          [] action = "failed" -> s \notin {"done", "cancelled"}
          [] action = "unclaim" -> s = "claimed"

StateAfter == [done |-> "done", failed |-> "failed", unclaim |-> "pending"]

(***************************************************************************)
(* POST /step.  An unclaim clears the deadline before the call, and a call *)
(* that fails sets only state and owner back.                              *)
(***************************************************************************)
Unclaimed(s) == [s EXCEPT !.deadline = 0]

StepDo(p, i, n, action, o) ==
    /\ Serving(p) /\ reg[p][i] # NoFlow /\ n \in DOMAIN reg[p][i].steps
    /\ Allowed(reg[p][i], n, action) /\ Outcome(o)
    /\ LET f == IF action = "unclaim" THEN [reg[p][i] EXCEPT !.steps[n] = Unclaimed(@)]
                ELSE reg[p][i]
           g == [f EXCEPT !.steps[n].state = StateAfter[action],
                          !.steps[n].owner = IF action = "unclaim" THEN NoWorker ELSE @]
       IN  Persist(p, i, g, o) /\ Keep(p, i, IF o = "ok" THEN g ELSE f)
    /\ held' = IF action = "done" THEN held ELSE held \ {<<i, n>>}
    /\ finished' = IF action = "done" /\ o = "ok" THEN finished \cup {<<i, n>>} ELSE finished
    /\ Doubt(IF action = "unclaim" THEN o ELSE "ok", <<i, n>>)
    /\ Reply(p)
    /\ UNCHANGED <<now, shared, gen, load, making, deleting, given, twice, halted,
                   scenario, creates>>

(***************************************************************************)
(* POST /flow?action=cancel                                                *)
(***************************************************************************)
Cancelled_slip(f) == [f EXCEPT !.steps = [n \in DOMAIN @ |->
    [@[n] EXCEPT !.state = "cancelled", !.owner = NoWorker]]]  \* also what is done

Cancelled(f) == [f EXCEPT !.steps = [n \in DOMAIN @ |->
    IF @[n].state \in Open THEN [@[n] EXCEPT !.state = "cancelled", !.owner = NoWorker]
    ELSE @[n]]]

CancelFlow(p, i, o) ==
    /\ Serving(p) /\ reg[p][i] # NoFlow
    /\ LET g == Cancelled(reg[p][i])
       IN  IF g = reg[p][i] THEN NoCall(o)
           ELSE /\ Outcome(o)
                /\ Persist(p, i, g, o)
                /\ Keep(p, i, IF o = "ok" THEN g ELSE reg[p][i])
    /\ Reply(p)
    /\ UNCHANGED <<now, shared, gen, load, making, deleting, given, history, scenario, creates>>

-----------------------------------------------------------------------------
(* Loops: loop_tick, loop_stop_all *)

(***************************************************************************)
(* An iteration that was cancelled does not count.                         *)
(***************************************************************************)
BudgetAfter_slip(f) == f.budget

BudgetAfter(f) == IF Status(f) = "cancelled" THEN f.budget ELSE f.budget + 1
Exhausted(f) ==
    \/ f.body.max > 0 /\ BudgetAfter(f) > f.body.max
    \/ f.body.until > 0 /\ now >= f.body.until

Spawned(i, f) ==
    [f EXCEPT !.steps = [n \in DOMAIN @ |->
                  [state |-> "pending", owner |-> NoWorker,
                   deadline |-> @[n].deadline, timeout |-> 0]],
              !.next = f.next + f.body.interval, !.iter = @ + 1,
              !.budget = BudgetAfter(f), !.root = Root(i, f)]

(***************************************************************************)
(* A tick of a due loop: finished, or the next run is stored, then the new *)
(* record, then the next run of the other records, then the registry.      *)
(***************************************************************************)
Tick(p, o) ==
    /\ Doing(p, "tick")
    /\ LET i == Current(p)[2]
           f == reg[p][i]
           g == [f EXCEPT !.next = IF Exhausted(f) THEN 0 ELSE @ + f.body.interval]
       IN  /\ Outcome(o)
           /\ Persist(p, i, g, o)
           /\ Keep(p, i, IF o = "ok" THEN g ELSE f)
           /\ IF o # "ok" THEN GiveUp(p)
              ELSE IF Exhausted(f) THEN Advance(p)
              ELSE /\ op' = [op EXCEPT ![p].todo = <<<<"spawn", i>>>> \o Tail(@),
                                       ![p].new = Spawned(i, f)]
                   /\ UNCHANGED proc
    /\ UNCHANGED <<now, shared, gen, load, making, deleting, given, history, scenario, creates>>

Spawn(p, o) ==
    /\ Doing(p, "spawn") /\ Outcome(o)
    /\ LET i == Current(p)[2]
           f == reg[p][i]
       IN  /\ given' = given + 1
           /\ Persist(p, given', op[p].new, o)
           /\ IF o = "ok"
              THEN /\ op' = [op EXCEPT ![p].todo = <<<<"register", given'>>>> \o Tail(@),
                                       ![p].rest = LoopOf(reg[p], i) \ {i}]
                   /\ UNCHANGED reg
              ELSE /\ op' = [op EXCEPT ![p].todo = <<<<"rollback", i>>>> \o Tail(@)]
                   /\ Keep(p, i, [f EXCEPT !.next = @ - f.body.interval])
           /\ Doubt(o, <<Root(i, f), 0>>)
    /\ UNCHANGED <<life, gen, load, making, deleting, held, twice, finished, halted, scenario, creates>>

Rollback(p, o) ==
    /\ Doing(p, "rollback") /\ Outcome(o)
    /\ LET i == Current(p)[2] IN Persist(p, i, reg[p][i], o)
    /\ GiveUp(p)
    /\ UNCHANGED <<now, shared, reg, gen, load, making, deleting, given, history, scenario, creates>>

(***************************************************************************)
(* The new record, which the spawn has stored, joins the registry when the *)
(* other records of the loop have its next run.                            *)
(***************************************************************************)
Propagate(p, o) ==
    /\ Doing(p, "register") /\ op[p].new # NoFlow /\ op[p].rest # {} /\ Outcome(o)
    /\ \E j \in op[p].rest :
           LET g == [reg[p][j] EXCEPT !.next = op[p].new.next]
           IN  /\ Keep(p, j, g) /\ Persist(p, j, g, o)
               /\ op' = [op EXCEPT ![p].rest = @ \ {j}]
    /\ UNCHANGED <<life, gen, load, making, deleting, given, history, scenario, creates>>

Register(p) ==
    /\ Doing(p, "register") /\ op[p].new # NoFlow /\ op[p].rest = {}
    /\ Keep(p, Current(p)[2], op[p].new)
    /\ gen' = [gen EXCEPT ![p] = @ + 1]
    /\ Advance(p)
    /\ UNCHANGED <<now, shared, store, mixed, load, making, deleting, given, history, bounds>>

(***************************************************************************)
(* loop_stop_all, one record: it is stopped in the registry also when the  *)
(* call fails, and what is stopped there is not stored again.              *)
(***************************************************************************)
Stop(p, o) ==
    /\ Doing(p, "stop")
    /\ LET i == Current(p)[2]
           f == reg[p][i]
           g == [f EXCEPT !.stopped = TRUE, !.next = 0]
       IN  /\ IF f = g THEN NoCall(o)
              ELSE Outcome(o) /\ Keep(p, i, g) /\ Persist(p, i, g, o)
           /\ Doubt(o, <<Root(i, f), 0>>)
           /\ halted' = IF o = "ok" /\ Len(op[p].todo) = 1 THEN halted \cup {Root(i, f)}
                        ELSE halted
    /\ IF o = "ok" THEN Advance(p) ELSE GiveUp(p)
    /\ UNCHANGED <<now, shared, gen, load, making, deleting, given, held, twice, finished, scenario, creates>>

-----------------------------------------------------------------------------
(* The requests that take the lock *)

(***************************************************************************)
(* Of a plan, the calls that come to pass: a tick that is due, a sweep of  *)
(* a flow with late steps, a claim when a step is ready.                   *)
(***************************************************************************)
Works(R, item) ==
    CASE item[1] = "tick" -> TickDue(R, item[2]) /\ IdLeft
      [] item[1] = "sweep" -> Swept(R[item[2]]) # R[item[2]]
      [] item[1] = "claim" -> Ready(R[item[2]]) # {}
      [] OTHER -> TRUE
Plan(R, todo) == SelectSeq(todo, LAMBDA item : Works(R, item))

Begin(p, strict, who, todo) ==
    /\ Serving(p)
    /\ IF Plan(reg[p], todo) = <<>> THEN Reply(p)
       ELSE /\ op' = [op EXCEPT ![p] = [NoPlan EXCEPT !.todo = Plan(reg[p], todo),
                                            !.strict = strict, !.who = who]]
            /\ UNCHANGED proc
    /\ UNCHANGED <<now, shared, store, mixed, reg, gen, load, making, deleting, given,
                   history, bounds>>

NewestFirst(S) == SetToSortSeq(S, LAMBDA i, j : i > j)
Each(what, S) == [n \in DOMAIN NewestFirst(S) |-> <<what, NewestFirst(S)[n]>>]
Loops(R) == {i \in Ids : R[i] # NoFlow /\ IsLoop(R[i])}

NextStep(p, w, i) ==
    reg[p][i] # NoFlow /\ Begin(p, TRUE, w, <<<<"tick", i>>, <<"sweep", i>>, <<"claim", i>>>>)
Get(p, i) ==
    reg[p][i] # NoFlow /\ Begin(p, TRUE, NoWorker, <<<<"sweep", i>>, <<"tick", i>>>>)
ListFlows(p) == Begin(p, FALSE, NoWorker, Each("tick", Loops(reg[p])))
StopLoop_slip(p, i) == i \in Loops(reg[p]) /\ Begin(p, TRUE, NoWorker, <<<<"stop", i>>>>)

StopLoop(p, i) == i \in Loops(reg[p]) /\ Begin(p, TRUE, NoWorker, Each("stop", LoopOf(reg[p], i)))
Delete(p, i) ==
    /\ p = "daemon"  \* a command's method is GET or POST
    /\ reg[p][i] # NoFlow
    /\ Begin(p, TRUE, NoWorker, Each("stop", LoopOf(reg[p], i)) \o <<<<"takeoff", i>>>>)

-----------------------------------------------------------------------------
(* Creation and the end of a deletion, without the lock but for a moment *)

CreatePersist(p, b, o) ==
    /\ proc[p] = "serving" /\ making[p] = NotMaking /\ creates < MaxCreates
    /\ p = "console" => LockFree(p)
    /\ BodyOK(b) /\ IdLeft /\ Outcome(o)
    /\ creates' = creates + 1
    /\ given' = given + 1
    /\ Persist(p, given', NewFlow(b), o)
    /\ IF o = "ok"
       THEN making' = [making EXCEPT ![p] = [id |-> given', f |-> NewFlow(b)]]
            /\ UNCHANGED proc
       ELSE Exits(p) /\ UNCHANGED making
    /\ UNCHANGED <<now, shared, reg, gen, load, op, deleting, history, scenario>>

(***************************************************************************)
(* A reload may have registered it already; then the creation is refused,  *)
(* and the key it deletes is not the flow's.                               *)
(***************************************************************************)
CreateRegister(p) ==
    /\ making[p] # NotMaking /\ LockFree(p)
    /\ LET i == making[p].id
       IN  IF reg[p][i] # NoFlow THEN UNCHANGED <<reg, gen>>
           ELSE Keep(p, i, making[p].f) /\ gen' = [gen EXCEPT ![p] = @ + 1]
    /\ making' = [making EXCEPT ![p] = NotMaking]
    /\ Exits(p)
    /\ UNCHANGED <<now, shared, store, mixed, load, op, deleting, given, history, bounds>>

(***************************************************************************)
(* DELETE /flow: with its loop stopped, the flow leaves the registry, and  *)
(* the lock is given back before the key is deleted.  (A flow that a       *)
(* reload registered while it is being created can be deleted, and is then *)
(* registered again.)                                                      *)
(***************************************************************************)
TakeOff(p) ==
    /\ Doing(p, "takeoff")
    /\ Keep(p, Current(p)[2], NoFlow)
    /\ deleting' = [deleting EXCEPT ![p] = @ \cup {Current(p)[2]}]
    /\ gen' = [gen EXCEPT ![p] = @ + 1]
    /\ op' = [op EXCEPT ![p] = NoPlan]
    /\ LET i == Current(p)[2]
       IN  /\ held' = {x \in held : x[1] # i} /\ finished' = {x \in finished : x[1] # i}
           /\ Doubt(IF making[p].id = i THEN "made" ELSE "ok", <<Root(i, reg[p][i]), 0>>)
    /\ UNCHANGED <<life, store, mixed, load, making, given, twice, halted, bounds>>

DeleteKey(p, i, o) ==
    /\ i \in deleting[p] /\ Outcome(o)
    /\ Persist(p, i, NoFlow, o)
    /\ deleting' = [deleting EXCEPT ![p] = @ \ {i}]
    /\ UNCHANGED <<life, reg, gen, load, op, making, given, history, scenario, creates>>

-----------------------------------------------------------------------------
(* The reload *)

Stored == {i \in Ids : store[i] # NoFlow}
Registered(p) == {i \in Ids : reg[p][i] # NoFlow}

LoadEnds(p) ==
    /\ load' = [load EXCEPT ![p] = NotLoading]
    /\ proc' = [proc EXCEPT ![p] = IF @ = "loading" THEN "serving" ELSE @]

(***************************************************************************)
(* After a failed reload the daemon serves, and tries again in the         *)
(* background; a console command goes on with an empty registry.           *)
(***************************************************************************)
LoadFails(p) ==
    IF p = "console" THEN LoadEnds(p)
    ELSE /\ load' = [load EXCEPT ![p] = [NotLoading EXCEPT !.pc = "begin"]]
         /\ proc' = [proc EXCEPT ![p] = "serving"]

LoadBegin(p) ==
    /\ load[p].pc = "begin"
    /\ load' = [load EXCEPT ![p].pc = "list", ![p].gen = gen[p]]
    /\ UNCHANGED <<life, store, mixed, reg, gen, op, making, deleting, given, history, bounds>>

LoadList(p, o) ==
    /\ load[p].pc = "list" /\ Outcome(o)
    /\ IF o # "ok" THEN LoadFails(p)
       ELSE IF Stored = {} THEN LoadEnds(p)
       ELSE load' = [load EXCEPT ![p].pc = "batch", ![p].ids = Stored] /\ UNCHANGED proc
    /\ UNCHANGED <<now, shared, store, mixed, reg, gen, op, making, deleting, given, history, scenario, creates>>

(***************************************************************************)
(* flow_parse: a document it refuses is skipped.                           *)
(***************************************************************************)
Readable(f) ==
    /\ f.steps # <<>>
    /\ \A n \in DOMAIN f.steps : f.steps[n].deadline >= 0 /\ f.steps[n].timeout >= 0
    /\ IsLoop(f) => f.iter >= 1 /\ f.budget >= 1 /\ f.next >= 0 /\ f.body.max >= 0

(***************************************************************************)
(* One /batch of gets; a key that is gone by now has no flow.              *)
(***************************************************************************)
LoadBatch(p, o) ==
    /\ load[p].pc = "batch" /\ Outcome(o)
    /\ IF o # "ok" THEN LoadFails(p)
       ELSE /\ load' = [load EXCEPT ![p].pc = "apply", ![p].flows =
                           [i \in Ids |-> IF i \in load[p].ids /\ Readable(store[i]) THEN store[i]
                                      ELSE NoFlow]]
            /\ UNCHANGED proc
    /\ UNCHANGED <<now, shared, store, mixed, reg, gen, op, making, deleting, given, history, scenario, creates>>

(***************************************************************************)
(* Nothing is taken over when the registry changed since the reload began, *)
(* and no flow that is registered; what was added is swept, and every loop *)
(* is ticked, under the same lock.                                         *)
(***************************************************************************)
Merged_slip(p) == [i \in Ids |-> IF load[p].flows[i] # NoFlow THEN load[p].flows[i]
                                 ELSE reg[p][i]]

Merged(p) == [i \in Ids |-> IF reg[p][i] = NoFlow THEN load[p].flows[i] ELSE reg[p][i]]

LoadApply(p) ==
    /\ load[p].pc = "apply" /\ LockFree(p)
    /\ IF load[p].gen # gen[p] THEN LoadFails(p) /\ UNCHANGED <<reg, op>>
       ELSE LET R == Merged(p)
                new == {i \in Ids : reg[p][i] # R[i]}
            IN  /\ reg' = [reg EXCEPT ![p] = R]
                /\ LoadEnds(p)
                /\ op' = [op EXCEPT ![p] = [NoPlan EXCEPT !.strict = FALSE,
                              !.todo = Plan(R, Each("sweep", new) \o Each("tick", Loops(R)))]]
    /\ UNCHANGED <<now, shared, store, mixed, gen, making, deleting, given, history, bounds>>

-----------------------------------------------------------------------------
(* Processes and the clock *)

Starts(p) ==
    /\ proc' = [proc EXCEPT ![p] = "loading"]
    /\ load' = [load EXCEPT ![p].pc = "begin"]
    /\ UNCHANGED <<now, store, mixed, reg, gen, op, making, deleting, given, history, scenario, creates>>

Start ==
    /\ proc["daemon"] = "down" /\ Starts("daemon")
    /\ shared' = (proc["console"] # "down")
    /\ UNCHANGED troubles

ConsoleStart ==
    /\ proc["console"] = "down" /\ Starts("console")
    /\ Trouble
    /\ shared' = (proc["daemon"] # "down")

Gone(p) ==
    /\ proc' = [proc EXCEPT ![p] = "down"]
    /\ reg' = [reg EXCEPT ![p] = [i \in Ids |-> NoFlow]]
    /\ gen' = [gen EXCEPT ![p] = 0]
    /\ load' = [load EXCEPT ![p] = NotLoading]
    /\ op' = [op EXCEPT ![p] = NoPlan]
    /\ making' = [making EXCEPT ![p] = NotMaking]
    /\ deleting' = [deleting EXCEPT ![p] = {}]
    /\ UNCHANGED <<now, store, mixed, given, history, scenario, creates>>

Exit == proc["console"] = "exiting" /\ Gone("console") /\ UNCHANGED troubles /\ shared' = FALSE

Crash ==
    /\ proc["daemon"] # "down" /\ Trouble /\ Gone("daemon") /\ UNCHANGED shared

Clock ==
    /\ now < MaxNow /\ now' = now + 1
    /\ UNCHANGED <<proc, shared, store, mixed, reg, gen, load, op, making, deleting, given, history, bounds>>

Request(p, i) ==
    \/ \E w \in Workers : NextStep(p, w, i)
    \/ Get(p, i)
    \/ StopLoop(p, i)
    \/ Delete(p, i)
    \/ \E o \in Outcomes : CancelFlow(p, i, o)
    \/ \E n \in DOMAIN reg[p][i].steps, action \in DOMAIN StateAfter, o \in Outcomes :
           StepDo(p, i, n, action, o)

Call(p, o) ==
    \/ Tick(p, o) \/ Spawn(p, o) \/ Rollback(p, o) \/ Propagate(p, o)
    \/ Sweep(p, o) \/ Claim(p, o) \/ Stop(p, o) \/ \E i \in deleting[p] : DeleteKey(p, i, o)
    \/ LoadList(p, o) \/ LoadBatch(p, o)

Process(p) ==
    \/ \E i \in Ids : Request(p, i)
    \/ ListFlows(p)
    \/ \E o \in Outcomes : CreatePersist(p, scenario.body, o)
    \/ \E o \in Outcomes : Call(p, o)
    \/ Register(p) \/ CreateRegister(p) \/ TakeOff(p) \/ LoadBegin(p) \/ LoadApply(p)

Next == (\E p \in Processes : Process(p)) \/ Start \/ ConsoleStart \/ Exit \/ Crash \/ Clock

Spec == Init /\ [][Next]_vars

-----------------------------------------------------------------------------
(* What must hold *)

(***************************************************************************)
(* http.c 304-308: claims are exclusive.  No step is handed to a worker    *)
(* while one holds it: not after a restart, not after a reload that ended  *)
(* in the background, not after a sweep, as long as no console command     *)
(* stored the flow while the daemon ran.                                   *)
(***************************************************************************)
ExclusiveClaim == twice = {}

(***************************************************************************)
(* http.c 310-312: a step is done, or handed out, only when all its        *)
(* dependencies are done, in every copy of the flow: also in one that two  *)
(* processes overwrite in turn.                                            *)
(***************************************************************************)
DepsRespected ==
    \A f \in {store[i] : i \in Ids} \cup {reg[p][i] : p \in Processes, i \in Ids} :
        \A n \in DOMAIN f.steps : f.steps[n].state \in {"claimed", "done"} => DepsDone(f, n)

(***************************************************************************)
(* README 152-156: what `done` was answered ok for is done in the stored   *)
(* flow, through crashes, reloads and failed calls, until the flow is      *)
(* deleted; unless a console command stored the flow while the daemon ran, *)
(* as each of the two then stores its own copy over the other's.           *)
(***************************************************************************)
DoneSticks ==
    \A i \in Ids : store[i] # NoFlow /\ Root(i, store[i]) \notin mixed =>
        \A n \in DOMAIN store[i].steps :
            <<i, n>> \in finished => store[i].steps[n].state = "done"

InDoubt(r) == <<r, 0>> \in doubtful \/ r \in mixed
StoredOf(r) == {i \in Ids : store[i] # NoFlow /\ IsLoop(store[i]) /\ Root(i, store[i]) = r}

(***************************************************************************)
(* README 183-186, 213-215: a loop runs each iteration once, and no more   *)
(* than max iterations that were not cancelled, also when the daemon dies  *)
(* between the calls of a tick.  (A reply lost to the store of a new       *)
(* iteration forks the loop: it is then in doubt.)                         *)
(***************************************************************************)
LoopWithinBudget ==
    \A r \in Ids : ~InDoubt(r) =>
        /\ \A i, j \in StoredOf(r) : store[i].iter = store[j].iter => i = j
        /\ \A i \in StoredOf(r) : store[i].body.max > 0 =>
               Cardinality({j \in StoredOf(r) : Status(store[j]) # "cancelled"})
                   <= store[i].body.max

(***************************************************************************)
(* README 211: a loop that was stopped, and answered ok, never runs again: *)
(* every stored record of it is stopped, unless a call of a stop failed    *)
(* (loop_stop_all leaves the record stopped in the registry alone, and the *)
(* repeated request answers ok without storing it).                        *)
(***************************************************************************)
StoppedStays ==
    \A r \in halted : ~InDoubt(r) => \A i \in StoredOf(r) : store[i].stopped

(***************************************************************************)
(* The steps of f that were posted with a timeout and that a worker holds  *)
(* without a deadline: no sweep will release them.                         *)
(***************************************************************************)
HeldForever(f) ==
    {n \in DOMAIN f.steps : /\ f.steps[n].state = "claimed" /\ f.body.timeout[n] > 0
                            /\ f.steps[n].deadline = 0}
CopiesOf(i) == {store[i]} \cup {reg[p][i] : p \in Processes}

(***************************************************************************)
(* README 157-161: the claim of a step that was posted with a timeout sets *)
(* a deadline, so that a stuck worker releases it; 197: an iteration of a  *)
(* loop has the same steps.  The code breaks this twice: a later iteration *)
(* is made without the timeouts (loop_clone_steps), and an unclaim clears  *)
(* the deadline before the call and does not set it back when that fails.  *)
(***************************************************************************)
TimedClaims == \A i \in Ids : \A f \in CopiesOf(i) : HeldForever(f) = {}

(***************************************************************************)
(* What is left of it: in a flow that is no later iteration of a loop, in  *)
(* exomind and in every registry, a held step with a timeout has its       *)
(* deadline, through sweeps, reloads, crashes, other failed calls and      *)
(* console commands next to the daemon; but for steps of which an unclaim  *)
(* has failed.                                                             *)
(***************************************************************************)
FirstTimedClaims ==
    \A i \in Ids : \A f \in CopiesOf(i) :
        f.root = 0 => \A n \in HeldForever(f) : <<i, n>> \in doubtful

(***************************************************************************)
(* http.c 319-322: a timeout starts when the step is claimed.  A step      *)
(* without a deadline of its own becomes overdue only when a worker held   *)
(* it.  The iterations of a loop break this: a new one has the deadlines   *)
(* that the claims of the one before have set.                             *)
(***************************************************************************)
LateOnlyAfterClaim ==
    \A i \in Ids : \A n \in DOMAIN store[i].steps :
        store[i].steps[n].state = "overdue" /\ store[i].body.deadline[n] = 0
          => store[i].steps[n].owner # NoWorker

=============================================================================
