----------------------------- MODULE FlowProofs -----------------------------
(***************************************************************************)
(* Proofs about Flow, for any flows, workers and scenarios: every copy of  *)
(* a flow, stored, registered, being loaded, created or spawned, respects  *)
(* the dependencies of its steps and has a deadline where a timeout asks   *)
(* for one (FlowInv); and the copies a process goes on with have not       *)
(* forgotten what was handed out and what is done (ClaimInv).              *)
(***************************************************************************)
EXTENDS Flow, FiniteSetTheorems, TLAPS

-----------------------------------------------------------------------------
(* The least of some numbers *)

LEMMA Least ==
    ASSUME NEW S \in SUBSET Nat, S # {}
    PROVE  \E m \in S : \A n \in S : m <= n
<1> DEFINE T == {0..(n - 1) : n \in S}
           R == StrictSubsetOrdering(Nat)
           F == FiniteSubsetsOf(Nat)
<1>1. IsWellFoundedOn(R, F)
  BY FS_StrictSubsetOrderingWellFounded
<1>2. T \subseteq F /\ T # {}
  <2>1. \A n \in S : IsFiniteSet(0..(n - 1)) /\ 0..(n - 1) \in SUBSET Nat
    BY FS_Interval
  <2> QED BY <2>1 DEF FiniteSubsetsOf
<1>3. PICK x \in T : \A y \in T : <<y, x>> \notin R
  <2> HIDE DEF R, F, T
  <2> QED BY <1>1, <1>2, WFMin
<1>4. PICK m \in S : x = 0..(m - 1)
  OBVIOUS
<1>5. ASSUME NEW n \in S, n < m PROVE FALSE
  <2>1. 0..(n - 1) \subseteq x /\ n \in x /\ n \notin 0..(n - 1)
    BY <1>4, <1>5
  <2>2. x \in SUBSET Nat /\ 0..(n - 1) \in SUBSET Nat
    BY <1>4
  <2>3. <<0..(n - 1), x>> \in R
    BY <2>1, <2>2 DEF StrictSubsetOrdering
  <2> QED BY <1>3, <2>3
<1> QED BY <1>5

-----------------------------------------------------------------------------
(* Copies of flows *)

FlowFields == {"body", "steps", "next", "iter", "budget", "stopped", "root"}
StepFields == {"state", "owner", "deadline", "timeout"}

Shaped(f) ==
    /\ DOMAIN f = FlowFields
    /\ DOMAIN f.steps = DOMAIN f.body.deps /\ DOMAIN f.steps \subseteq Nat
    /\ \A n \in DOMAIN f.steps :
        /\ DOMAIN f.steps[n] = StepFields
        /\ f.steps[n].deadline \in Nat /\ f.steps[n].timeout \in Nat
        /\ f.body.deps[n] \subseteq DOMAIN f.steps

Respects(f) ==
    \A n \in DOMAIN f.steps : f.steps[n].state \in {"claimed", "done"} => DepsDone(f, n)

(***************************************************************************)
(* doubt is what failed unclaims have left in doubt.                       *)
(***************************************************************************)
Timed(i, f, doubt) ==
    \A n \in DOMAIN f.steps :
        /\ f.steps[n].state = "claimed" /\ f.steps[n].timeout > 0
        /\ <<i, n>> \notin doubt
        => f.steps[n].deadline > 0

(***************************************************************************)
(* Only the later iterations of a loop lose the timeouts of the body.      *)
(***************************************************************************)
Posted(f) ==
    f.root = 0 => \A n \in DOMAIN f.steps : f.steps[n].timeout = f.body.timeout[n]

Good(i, f, doubt) == Shaped(f) /\ Respects(f) /\ Timed(i, f, doubt) /\ Posted(f)

LEMMA NoFlowGood == \A i, doubt : Good(i, NoFlow, doubt)
<1>1. DOMAIN NoFlow = FlowFields /\ NoFlow.steps = <<>> /\ NoFlow.body.deps = <<>>
  BY DEF NoFlow, Blank, FlowFields
<1>2. DOMAIN NoFlow.steps = {}
  BY <1>1
<1> QED BY <1>1, <1>2 DEF Good, Shaped, Respects, Timed, Posted

LEMMA GoodStays ==
    ASSUME NEW i, NEW f, NEW d, NEW e, Good(i, f, d), d \subseteq e
    PROVE  Good(i, f, e)
BY DEF Good, Timed

(***************************************************************************)
(* Changes of a flow that keep its steps, but for some of them: what is    *)
(* done stays done, and what becomes claimed or done may.                  *)
(***************************************************************************)
Changes(f, g) ==
    /\ DOMAIN g = FlowFields /\ g.body = f.body /\ g.root = f.root
    /\ DOMAIN g.steps = DOMAIN f.steps
    /\ \A n \in DOMAIN f.steps :
        /\ DOMAIN g.steps[n] = StepFields
        /\ g.steps[n].timeout = f.steps[n].timeout /\ g.steps[n].deadline \in Nat
        /\ f.steps[n].state = "done" => g.steps[n].state = "done"
        /\ g.steps[n].state \in {"claimed", "done"} =>
              f.steps[n].state \in {"claimed", "done"} \/ DepsDone(f, n)

LEMMA ChangesGood ==
    ASSUME NEW i, NEW f, NEW g, NEW d, NEW e, Good(i, f, d), Changes(f, g), Timed(i, g, e)
    PROVE  Good(i, g, e)
<1>1. \A n \in DOMAIN f.steps : DepsDone(f, n) => DepsDone(g, n)
  BY DEF Good, Shaped, Changes, DepsDone
<1>2. Respects(g)
  BY <1>1 DEF Respects, Changes, Good
<1>3. Shaped(g)
  BY DEF Good, Shaped, Changes
<1>4. Posted(g)
  BY DEF Good, Posted, Changes
<1> QED BY <1>2, <1>3, <1>4 DEF Good

(***************************************************************************)
(* What the requests and the reload make of a flow.                        *)
(***************************************************************************)
LEMMA SweptGood ==
    ASSUME NEW i, NEW f, NEW d, Good(i, f, d)
    PROVE  Good(i, Swept(f), d)
<1> DEFINE g == Swept(f)
<1>1. /\ DOMAIN g = FlowFields /\ g.body = f.body /\ g.root = f.root
      /\ DOMAIN g.steps = DOMAIN f.steps
      /\ \A n \in DOMAIN f.steps :
            g.steps[n] = IF Late(f.steps[n]) THEN [f.steps[n] EXCEPT !.state = "overdue"]
                         ELSE f.steps[n]
  BY DEF Swept, Good, Shaped, FlowFields
<1> HIDE DEF g
<1>2. Changes(f, g)
  BY <1>1 DEF Changes, Good, Shaped, StepFields, Late
<1>3. Timed(i, g, d)
  BY <1>1 DEF Timed, Good, Shaped, StepFields
<1>4. Good(i, g, d)
  BY <1>2, <1>3, ChangesGood
<1> QED BY <1>4 DEF g

LEMMA CancelledGood ==
    ASSUME NEW i, NEW f, NEW d, Good(i, f, d)
    PROVE  Good(i, Cancelled(f), d)
<1> DEFINE g == Cancelled(f)
<1>1. /\ DOMAIN g = FlowFields /\ g.body = f.body /\ g.root = f.root
      /\ DOMAIN g.steps = DOMAIN f.steps
      /\ \A n \in DOMAIN f.steps :
            g.steps[n] = IF f.steps[n].state \in Open
                         THEN [f.steps[n] EXCEPT !.state = "cancelled", !.owner = NoWorker]
                         ELSE f.steps[n]
  BY DEF Cancelled, Good, Shaped, FlowFields
<1> HIDE DEF g
<1>2. Changes(f, g)
  BY <1>1 DEF Changes, Good, Shaped, StepFields, Open
<1>3. Timed(i, g, d)
  <2>1. Timed(i, f, d)
    BY DEF Good
  <2>2. ASSUME NEW n \in DOMAIN g.steps, g.steps[n].state = "claimed"
        PROVE  g.steps[n] = f.steps[n]
    <3>1. n \in DOMAIN f.steps /\ DOMAIN f.steps[n] = StepFields
      BY <1>1 DEF Good, Shaped
    <3>2. CASE f.steps[n].state \in Open
      <4>1. g.steps[n].state = "cancelled"
        BY <1>1, <3>1, <3>2 DEF StepFields
      <4> QED BY <2>2, <4>1
    <3> QED BY <1>1, <3>1, <3>2
  <2> QED BY <1>1, <2>1, <2>2 DEF Timed
<1>4. Good(i, g, d)
  BY <1>2, <1>3, ChangesGood
<1> QED BY <1>4 DEF g

(***************************************************************************)
(* Only the loop's fields change.                                          *)
(***************************************************************************)
LEMMA LoopGood ==
    ASSUME NEW i, NEW f, NEW g, NEW d, Good(i, f, d),
           DOMAIN g = FlowFields, g.body = f.body, g.steps = f.steps, g.root = f.root
    PROVE  Good(i, g, d)
BY DEF Good, Shaped, Respects, Timed, Posted, DepsDone

LEMMA SpawnedGood ==
    ASSUME NEW i, NEW f, NEW d, Good(i, f, d), NEW j, NEW k \in Ids
    PROVE  Good(j, Spawned(k, f), d)
<1> DEFINE g == Spawned(k, f)
<1>1. /\ DOMAIN g = FlowFields /\ g.body = f.body /\ DOMAIN g.steps = DOMAIN f.steps
      /\ g.root # 0
      /\ \A n \in DOMAIN f.steps :
            g.steps[n] = [state |-> "pending", owner |-> NoWorker,
                          deadline |-> f.steps[n].deadline, timeout |-> 0]
  <2>1. k # 0
    BY FlowAssumption
  <2> QED BY <2>1 DEF Spawned, Root, Good, Shaped, FlowFields
<1> HIDE DEF g
<1>2. \A n \in DOMAIN f.steps : /\ g.steps[n].state = "pending"
                                /\ DOMAIN g.steps[n] = StepFields
                                /\ g.steps[n].deadline = f.steps[n].deadline
                                /\ g.steps[n].timeout = 0
  <2> SUFFICES ASSUME NEW n \in DOMAIN f.steps
               PROVE  /\ g.steps[n].state = "pending"
                      /\ DOMAIN g.steps[n] = StepFields
                      /\ g.steps[n].deadline = f.steps[n].deadline
                      /\ g.steps[n].timeout = 0
    OBVIOUS
  <2>1. PICK m : m = f.steps[n].deadline
    OBVIOUS
  <2>2. g.steps[n] = [state |-> "pending", owner |-> NoWorker, deadline |-> m, timeout |-> 0]
    BY <1>1, <2>1
  <2> QED BY <2>1, <2>2 DEF StepFields
<1>3. Shaped(g)
  BY <1>1, <1>2 DEF Shaped, Good
<1>4. Good(j, g, d)
  BY <1>1, <1>2, <1>3 DEF Good, Respects, Timed, Posted
<1> QED BY <1>4 DEF g

LEMMA NewFlowGood ==
    ASSUME NEW s \in Scenarios, BodyOK(s.body), NEW i, NEW d
    PROVE  Good(i, NewFlow(s.body), d)
<1> DEFINE b == s.body
           g == NewFlow(b)
<1>1. b.deadline \in [DOMAIN b.deps -> Int] /\ b.timeout \in [DOMAIN b.deps -> Int]
      /\ DOMAIN b.deps \subseteq Nat
  BY FlowAssumption
<1>2. \A n \in DOMAIN b.deps : /\ n \in Nat /\ b.deps[n] \subseteq DOMAIN b.deps
                               /\ b.deadline[n] \in Nat /\ b.timeout[n] \in Nat
  BY <1>1 DEF BodyOK
<1>3. /\ DOMAIN g = FlowFields /\ g.body = b
      /\ g.steps = [n \in DOMAIN b.deps |-> Step(b, n)]
  BY DEF NewFlow, FlowFields
<1> HIDE DEF g, b
<1>4. \A n \in DOMAIN b.deps : /\ g.steps[n].state = "pending"
                               /\ DOMAIN g.steps[n] = StepFields
                               /\ g.steps[n].deadline = b.deadline[n]
                               /\ g.steps[n].timeout = b.timeout[n]
  BY <1>3 DEF Step, StepFields
<1>5. Shaped(g)
  BY <1>2, <1>3, <1>4 DEF Shaped
<1>6. Good(i, g, d)
  BY <1>3, <1>4, <1>5 DEF Good, Respects, Timed, Posted
<1> QED BY <1>6 DEF g, b

LEMMA FirstReadyType ==
    ASSUME NEW f, Shaped(f), Ready(f) # {}
    PROVE  FirstReady(f) \in DOMAIN f.steps /\ DepsDone(f, FirstReady(f))
           /\ f.steps[FirstReady(f)].state = "pending"
<1>1. Ready(f) \in SUBSET Nat
  BY DEF Ready, Shaped
<1>2. \E n \in Ready(f) : \A j \in Ready(f) : n <= j
  <2> DEFINE R == Ready(f)
  <2> HIDE DEF R
  <2>1. \E n \in R : \A j \in R : n <= j
    BY <1>1, Least DEF R
  <2> QED BY <2>1 DEF R
<1>3. FirstReady(f) \in Ready(f)
  BY <1>2 DEF FirstReady
<1> QED BY <1>3 DEF Ready

(***************************************************************************)
(* One step of a flow changes.                                             *)
(***************************************************************************)
Sets(f, g, n, s) ==
    /\ DOMAIN g = FlowFields /\ g.body = f.body /\ g.root = f.root
    /\ DOMAIN g.steps = DOMAIN f.steps
    /\ \A m \in DOMAIN f.steps : g.steps[m] = IF m = n THEN s ELSE f.steps[m]

Put(f, n, s) == [f EXCEPT !.steps[n] = s]
InState(s, x) == [s EXCEPT !.state = x]
OwnedBy(s, y) == [s EXCEPT !.owner = y]

LEMMA SetOne ==
    ASSUME NEW f, DOMAIN f = FlowFields, NEW n \in DOMAIN f.steps, NEW s
    PROVE  Sets(f, Put(f, n, s), n, s)
BY DEF Sets, Put, FlowFields

Resembles(r, s) == DOMAIN r = StepFields /\ r.timeout = s.timeout /\ r.deadline = s.deadline

LEMMA SetTwo ==
    ASSUME NEW f, DOMAIN f = FlowFields, NEW n \in DOMAIN f.steps, NEW s, s = f.steps[n],
           DOMAIN s = StepFields, NEW x, NEW y
    PROVE  LET t == InState(s, x)
               r == OwnedBy(t, y)
           IN  /\ Sets(f, Put(Put(f, n, t), n, r), n, r)
               /\ Resembles(r, s) /\ r.state = x
<1>1. PICK t, r, h, g : /\ t = InState(s, x) /\ r = OwnedBy(t, y)
                        /\ h = Put(f, n, t) /\ g = Put(h, n, r)
  OBVIOUS
<1>2. Sets(f, h, n, t)
  BY <1>1, SetOne
<1>3. h.steps[n] = t /\ n \in DOMAIN h.steps /\ DOMAIN h = FlowFields
  BY <1>2 DEF Sets
<1>4. Sets(h, g, n, r)
  BY <1>1, <1>3, SetOne
<1>5. Sets(f, g, n, r)
  BY <1>2, <1>4 DEF Sets
<1>6. Resembles(r, s) /\ r.state = x
  BY <1>1 DEF Resembles, StepFields, InState, OwnedBy
<1> QED BY <1>1, <1>5, <1>6

(***************************************************************************)
(* State and owner of a step, in this order.                               *)
(***************************************************************************)
Edited(f, n, x, y) == [f EXCEPT !.steps[n].state = x, !.steps[n].owner = y]

LEMMA EditedSets ==
    ASSUME NEW f, DOMAIN f = FlowFields, NEW n \in DOMAIN f.steps, DOMAIN f.steps[n] = StepFields,
           NEW x, NEW y
    PROVE  \E r : Sets(f, Edited(f, n, x, y), n, r) /\ Resembles(r, f.steps[n]) /\ r.state = x
<1>1. PICK s, t, h, r, g : /\ s = f.steps[n] /\ t = InState(s, x) /\ h = Put(f, n, t)
                           /\ r = OwnedBy(t, y) /\ g = Edited(f, n, x, y)
  OBVIOUS
<1>2. h = [f EXCEPT !.steps[n].state = x] /\ h.steps[n] = t
  BY <1>1 DEF Put, InState, FlowFields
<1>3. g = [h EXCEPT !.steps[n].owner = y]
  BY <1>1, <1>2 DEF Edited
<1>4. g = Put(h, n, r)
  BY <1>1, <1>2, <1>3 DEF Put, OwnedBy
<1>5. Sets(f, g, n, r) /\ Resembles(r, s) /\ r.state = x
  BY <1>1, <1>4, SetTwo
<1> QED BY <1>1, <1>5

LEMMA StepGood ==
    ASSUME NEW i, NEW f, NEW d, NEW e, Good(i, f, d), d \subseteq e,
           NEW n \in DOMAIN f.steps, NEW s, NEW g, Sets(f, g, n, s),
           DOMAIN s = StepFields, s.timeout = f.steps[n].timeout, s.deadline \in Nat,
           f.steps[n].state = "done" => s.state = "done",
           s.state \in {"claimed", "done"} =>
               f.steps[n].state \in {"claimed", "done"} \/ DepsDone(f, n),
           s.state = "claimed" /\ s.timeout > 0 /\ <<i, n>> \notin e => s.deadline > 0
    PROVE  Good(i, g, e)
<1>1. Changes(f, g)
  BY DEF Changes, Good, Shaped, Sets
<1>2. Timed(i, g, e)
  BY DEF Timed, Good, Sets
<1> QED BY <1>1, <1>2, ChangesGood

LEMMA ClaimedGood ==
    ASSUME now \in Nat, NEW i, NEW f, NEW d, Good(i, f, d), Ready(f) # {}, NEW w,
           NEW n, n = FirstReady(f), NEW c, c = Claimed(f.steps[n], w),
           NEW g, Sets(f, g, n, c),
           NEW u, Resembles(u, c), u.state = "pending", NEW h, Sets(g, h, n, u)
    PROVE  Good(i, g, d) /\ Good(i, h, d)
<1>1. n \in DOMAIN f.steps /\ DepsDone(f, n) /\ f.steps[n].state = "pending"
  BY FirstReadyType DEF Good
<1>2. PICK s : s = f.steps[n]
  OBVIOUS
<1>3. DOMAIN s = StepFields /\ s.deadline \in Nat /\ s.timeout \in Nat /\ s.state = "pending"
  BY <1>1, <1>2 DEF Good, Shaped
<1>4. /\ DOMAIN c = StepFields /\ c.timeout = s.timeout /\ c.deadline \in Nat
      /\ c.state = "claimed" /\ (c.timeout > 0 => c.deadline > 0)
  BY <1>2, <1>3 DEF Claimed, StepFields
<1>5. Good(i, g, d)
  BY <1>1, <1>2, <1>3, <1>4, StepGood
<1>7. DOMAIN u = StepFields /\ u.timeout = c.timeout /\ u.deadline \in Nat /\ u.state = "pending"
  BY <1>4 DEF Resembles
<1>8. Sets(g, h, n, u) /\ n \in DOMAIN g.steps /\ g.steps[n] = c
  BY <1>1 DEF Sets
<1>9. Good(i, h, d)
  BY <1>4, <1>5, <1>7, <1>8, StepGood
<1> QED BY <1>5, <1>9

(***************************************************************************)
(* POST /step: the step's deadline is cleared before the call of an        *)
(* unclaim, and stays so when it fails; then the step is in doubt.         *)
(***************************************************************************)
LEMMA StepDoGood ==
    ASSUME NEW i, NEW f, NEW d, NEW e, Good(i, f, d), NEW n \in DOMAIN f.steps,
           NEW action \in DOMAIN StateAfter, Allowed(f, n, action), d \subseteq e,
           NEW c, c = IF action = "unclaim" THEN Unclaimed(f.steps[n]) ELSE f.steps[n],
           NEW u, Sets(f, u, n, c), action # "unclaim" => u = f,
           NEW r, Resembles(r, c), r.state = StateAfter[action], NEW g, Sets(u, g, n, r)
    PROVE  Good(i, g, e) /\ (action # "unclaim" \/ <<i, n>> \in e => Good(i, u, e))
<1>0. action \in {"done", "failed", "unclaim"}
  BY DEF StateAfter
<1>1. PICK s : s = f.steps[n]
  OBVIOUS
<1>2. DOMAIN s = StepFields /\ s.deadline \in Nat /\ s.timeout \in Nat
  BY <1>1 DEF Good, Shaped
<1>6. /\ DOMAIN c = StepFields /\ c.timeout = s.timeout /\ c.deadline \in Nat
      /\ c.state = s.state
  BY <1>1, <1>2 DEF Unclaimed, StepFields
<1>8. /\ DOMAIN r = StepFields /\ r.timeout = s.timeout /\ r.deadline \in Nat
      /\ r.state = StateAfter[action]
  BY <1>6 DEF Resembles
<1>9. /\ r.state # "claimed" /\ (s.state = "done" => r.state = "done")
      /\ r.state = "done" => DepsDone(f, n)
  <2>1. CASE action = "done"
    BY <1>1, <1>8, <2>1 DEF StateAfter, Allowed
  <2>2. CASE action = "failed"
    BY <1>1, <1>8, <2>2 DEF StateAfter, Allowed
  <2>3. CASE action = "unclaim"
    BY <1>1, <1>8, <2>3 DEF StateAfter, Allowed
  <2> QED BY <1>0, <2>1, <2>2, <2>3
<1>14. Sets(f, g, n, r)
  BY DEF Sets
<1>15. Good(i, g, e)
  BY <1>1, <1>8, <1>9, <1>14, StepGood
<1>16. ASSUME action # "unclaim" \/ <<i, n>> \in e PROVE Good(i, u, e)
  <2>1. CASE action # "unclaim"
    BY <2>1, GoodStays
  <2>2. CASE action = "unclaim"
    <3>1. s.state = "claimed" /\ c.state = "claimed"
      BY <1>1, <1>6, <2>2 DEF Allowed
    <3> QED BY <1>1, <1>6, <1>16, <2>2, <3>1, StepGood
  <2> QED BY <2>1, <2>2
<1> QED BY <1>15, <1>16

-----------------------------------------------------------------------------
(* The state *)

OpFields == {"todo", "strict", "who", "new", "rest"}
LoadFields == {"pc", "gen", "ids", "flows"}
MakingFields == {"id", "f"}

StateShaped ==
    /\ now \in Nat /\ scenario \in Scenarios
    /\ DOMAIN store = Ids
    /\ DOMAIN reg = Processes /\ DOMAIN op = Processes
    /\ DOMAIN load = Processes /\ DOMAIN making = Processes
    /\ \A p \in Processes :
        /\ DOMAIN reg[p] = Ids /\ DOMAIN op[p] = OpFields
        /\ DOMAIN load[p] = LoadFields /\ DOMAIN load[p].flows = Ids
        /\ DOMAIN making[p] = MakingFields

CopiesGood ==
    \A i \in Ids :
        /\ Good(i, store[i], doubtful)
        /\ \A p \in Processes :
            /\ Good(i, reg[p][i], doubtful)
            /\ Good(i, load[p].flows[i], doubtful)
            /\ Good(i, op[p].new, doubtful)
            /\ Good(i, making[p].f, doubtful)

FlowInv == StateShaped /\ CopiesGood

(***************************************************************************)
(* How a step keeps the invariant: it leaves a copy alone, or makes a good *)
(* one.                                                                    *)
(***************************************************************************)
StoreGood == DOMAIN store = Ids /\ \A i \in Ids : Good(i, store[i], doubtful)
RegGood ==
    /\ DOMAIN reg = Processes
    /\ \A p \in Processes : /\ DOMAIN reg[p] = Ids
                            /\ \A i \in Ids : Good(i, reg[p][i], doubtful)
OpGood ==
    /\ DOMAIN op = Processes
    /\ \A p \in Processes : /\ DOMAIN op[p] = OpFields
                            /\ \A i \in Ids : Good(i, op[p].new, doubtful)
LoadGood ==
    /\ DOMAIN load = Processes
    /\ \A p \in Processes :
        /\ DOMAIN load[p] = LoadFields /\ DOMAIN load[p].flows = Ids
        /\ \A i \in Ids : Good(i, load[p].flows[i], doubtful)
MakingGood ==
    /\ DOMAIN making = Processes
    /\ \A p \in Processes : /\ DOMAIN making[p] = MakingFields
                            /\ \A i \in Ids : Good(i, making[p].f, doubtful)
BoundsGood == now \in Nat /\ scenario \in Scenarios

LEMMA Parts ==
    FlowInv <=> StoreGood /\ RegGood /\ OpGood /\ LoadGood /\ MakingGood /\ BoundsGood
BY DEF FlowInv, StateShaped, CopiesGood, StoreGood, RegGood, OpGood, LoadGood, MakingGood,
       BoundsGood

LEMMA PartsStep ==
    StoreGood' /\ RegGood' /\ OpGood' /\ LoadGood' /\ MakingGood' /\ BoundsGood' => FlowInv'
BY DEF FlowInv, StateShaped, CopiesGood, StoreGood, RegGood, OpGood, LoadGood, MakingGood,
       BoundsGood

LEMMA Unchanged ==
    ASSUME FlowInv, doubtful \subseteq doubtful'
    PROVE  /\ store' = store => StoreGood'
           /\ reg' = reg => RegGood'
           /\ op' = op => OpGood'
           /\ load' = load => LoadGood'
           /\ making' = making => MakingGood'
           /\ scenario' = scenario /\ now' = now => BoundsGood'
<1>0. StoreGood /\ RegGood /\ OpGood /\ LoadGood /\ MakingGood /\ BoundsGood
  BY Parts
<1>1. \A i, f : Good(i, f, doubtful) => Good(i, f, doubtful')
  BY GoodStays
<1>2. ASSUME store' = store PROVE StoreGood'
  BY <1>0, <1>1, <1>2 DEF StoreGood
<1>3. ASSUME reg' = reg PROVE RegGood'
  BY <1>0, <1>1, <1>3 DEF RegGood
<1>4. ASSUME op' = op PROVE OpGood'
  BY <1>0, <1>1, <1>4 DEF OpGood
<1>5. ASSUME load' = load PROVE LoadGood'
  BY <1>0, <1>1, <1>5 DEF LoadGood
<1>6. ASSUME making' = making PROVE MakingGood'
  BY <1>0, <1>1, <1>6 DEF MakingGood
<1>7. scenario' = scenario /\ now' = now => BoundsGood'
  BY <1>0 DEF BoundsGood
<1> QED BY <1>2, <1>3, <1>4, <1>5, <1>6, <1>7

LEMMA Stored_good ==
    ASSUME FlowInv, doubtful \subseteq doubtful', NEW i, NEW f,
           i \in Ids => Good(i, f, doubtful'),
           store' = store \/ store' = [store EXCEPT ![i] = f]
    PROVE  StoreGood'
<1>0. StoreGood
  BY Parts
<1>1. \A j, g : Good(j, g, doubtful) => Good(j, g, doubtful')
  BY GoodStays
<1>2. DOMAIN store' = Ids /\ \A j \in Ids : store'[j] = store[j] \/ (j = i /\ store'[j] = f)
  BY <1>0 DEF StoreGood
<1> QED BY <1>0, <1>1, <1>2 DEF StoreGood

LEMMA Kept_good ==
    ASSUME FlowInv, doubtful \subseteq doubtful', NEW i, NEW f,
           NEW p \in Processes, i \in Ids => Good(i, f, doubtful'),
           reg' = reg \/ reg' = [reg EXCEPT ![p][i] = f]
    PROVE  RegGood'
<1>0. RegGood
  BY Parts
<1>1. \A j, g : Good(j, g, doubtful) => Good(j, g, doubtful')
  BY GoodStays
<1>2. DOMAIN reg' = Processes
      /\ \A q \in Processes : /\ DOMAIN reg'[q] = Ids
                              /\ \A j \in Ids : \/ reg'[q][j] = reg[q][j]
                                                \/ j = i /\ reg'[q][j] = f
  BY <1>0 DEF RegGood
<1> QED BY <1>0, <1>1, <1>2 DEF RegGood

LEMMA Planned_good ==
    ASSUME FlowInv, doubtful \subseteq doubtful', DOMAIN op' = Processes,
           \A q \in Processes : /\ DOMAIN op'[q] = OpFields
                                /\ op'[q].new = op[q].new \/ op'[q].new = NoFlow
    PROVE  OpGood'
<1>0. OpGood
  BY Parts
<1>1. \A j, g : Good(j, g, doubtful) => Good(j, g, doubtful')
  BY GoodStays
<1> QED BY <1>0, <1>1, NoFlowGood DEF OpGood

(***************************************************************************)
(* The plan goes on or is given up.                                        *)
(***************************************************************************)
LEMMA MovesOn ==
    ASSUME FlowInv, doubtful \subseteq doubtful', NEW p \in Processes,
           Advance(p) \/ GiveUp(p) \/ Reply(p)
    PROVE  OpGood'
<1>1. OpGood
  BY Parts
<1>2. \/ op' = [op EXCEPT ![p] = NoPlan]
      \/ op' = [op EXCEPT ![p].todo = Tail(@), ![p].new = NoFlow]
  BY DEF Advance, GiveUp, Reply
<1>3. DOMAIN NoPlan = OpFields /\ NoPlan.new = NoFlow
  BY DEF NoPlan, OpFields
<1>4. DOMAIN op' = Processes /\ \A q \in Processes :
          DOMAIN op'[q] = OpFields /\ (op'[q].new = op[q].new \/ op'[q].new = NoFlow)
  <2>1. CASE op' = [op EXCEPT ![p] = NoPlan]
    BY <1>1, <1>3, <2>1 DEF OpGood
  <2>2. CASE op' = [op EXCEPT ![p].todo = Tail(@), ![p].new = NoFlow]
    BY <1>1, <2>2 DEF OpGood, OpFields
  <2> QED BY <1>2, <2>1, <2>2
<1> QED BY <1>4, Planned_good

-----------------------------------------------------------------------------
(* The steps *)

LEMMA CopyGood ==
    ASSUME FlowInv, NEW p \in Processes, NEW i \in Ids
    PROVE  /\ Good(i, store[i], doubtful) /\ Good(i, reg[p][i], doubtful)
           /\ Good(i, load[p].flows[i], doubtful) /\ Good(i, op[p].new, doubtful)
           /\ Good(i, making[p].f, doubtful)
BY DEF FlowInv, CopiesGood

LEMMA GoodFields ==
    ASSUME NEW i, NEW f, NEW d, Good(i, f, d)
    PROVE  DOMAIN f = FlowFields
BY Zenon DEF Good, Shaped

LEMMA BeginGood ==
    ASSUME FlowInv, NEW p \in Processes, NEW strict, NEW who, NEW todo,
           Begin(p, strict, who, todo)
    PROVE  FlowInv'
<1>1. UNCHANGED <<now, store, reg, load, making, doubtful, scenario>>
  BY DEF Begin, history, bounds
<1>2. OpGood'
  <2>1. CASE Reply(p)
    BY <1>1, <2>1, MovesOn
  <2>2. CASE op' = [op EXCEPT ![p] = [NoPlan EXCEPT !.todo = Plan(reg[p], todo),
                                           !.strict = strict, !.who = who]]
    <3>1. PICK plan : plan = [NoPlan EXCEPT !.todo = Plan(reg[p], todo),
                                            !.strict = strict, !.who = who]
      OBVIOUS
    <3>2. DOMAIN plan = OpFields /\ plan.new = NoFlow
      BY <3>1 DEF NoPlan, OpFields
    <3>3. OpGood
      BY Parts
    <3>4. DOMAIN op' = Processes /\ \A q \in Processes :
              DOMAIN op'[q] = OpFields /\ (op'[q].new = op[q].new \/ op'[q].new = NoFlow)
      BY <2>2, <3>1, <3>2, <3>3 DEF OpGood
    <3> QED BY <1>1, <3>4, Planned_good
  <2> QED BY <2>1, <2>2 DEF Begin
<1> QED BY <1>1, <1>2, Unchanged, PartsStep

LEMMA SweepGood ==
    ASSUME FlowInv, NEW p \in Processes, NEW o, Sweep(p, o)
    PROVE  FlowInv'
<1>1. PICK i, f : i = Current(p)[2] /\ f = Swept(reg[p][i])
  OBVIOUS
<1>2. /\ reg' = [reg EXCEPT ![p][i] = f]
      /\ store' = store \/ store' = [store EXCEPT ![i] = f]
      /\ UNCHANGED <<now, load, making, doubtful, scenario>>
      /\ Advance(p) \/ GiveUp(p)
  BY <1>1 DEF Sweep, Keep, Persist, history
<1>3. i \in Ids => Good(i, f, doubtful')
  BY <1>1, <1>2, CopyGood, SweptGood
<1>4. StoreGood' /\ RegGood' /\ OpGood'
  BY <1>2, <1>3, Stored_good, Kept_good, MovesOn
<1> QED BY <1>2, <1>4, Unchanged, PartsStep

(***************************************************************************)
(* What a claim makes of a flow: g when its call is done, h when it fails. *)
(***************************************************************************)
LEMMA ClaimMakes ==
    ASSUME NEW i, NEW f, NEW d, Good(i, f, d), Ready(f) # {}, NEW w, NEW n, n = FirstReady(f),
           NEW c, c = Claimed(f.steps[n], w), NEW g, g = Put(f, n, c)
    PROVE  /\ n \in DOMAIN f.steps /\ f.steps[n].state = "pending"
           /\ Sets(f, g, n, c) /\ c.state = "claimed"
           /\ \E r : /\ Sets(g, Edited(g, n, "pending", NoWorker), n, r)
                     /\ Resembles(r, c) /\ r.state = "pending"
<1>1. /\ n \in DOMAIN f.steps /\ f.steps[n].state = "pending" /\ DOMAIN f = FlowFields
      /\ DOMAIN f.steps[n] = StepFields
  BY FirstReadyType DEF Good, Shaped
<1>2. Sets(f, g, n, c)
  BY <1>1, SetOne
<1>3. DOMAIN c = StepFields /\ c.state = "claimed"
  BY <1>1 DEF Claimed, StepFields
<1>4. n \in DOMAIN g.steps /\ g.steps[n] = c /\ DOMAIN g = FlowFields
  BY <1>1, <1>2 DEF Sets
<1>5. \E r : /\ Sets(g, Edited(g, n, "pending", NoWorker), n, r)
             /\ Resembles(r, g.steps[n]) /\ r.state = "pending"
  BY <1>3, <1>4, EditedSets
<1> QED BY <1>1, <1>2, <1>3, <1>4, <1>5

LEMMA ClaimGood ==
    ASSUME FlowInv, NEW p \in Processes, NEW o, Claim(p, o)
    PROVE  FlowInv'
<1>1. PICK i, f : i = Current(p)[2] /\ f = reg[p][i]
  OBVIOUS
<1>2. PICK w, n : w = op[p].who /\ n = FirstReady(f)
  OBVIOUS
<1>3. PICK c : c = Claimed(f.steps[n], w)
  OBVIOUS
<1>4. PICK g : g = Put(f, n, c)
  OBVIOUS
<1>5. PICK h : h = Edited(g, n, "pending", NoWorker)
  OBVIOUS
<1>6. /\ UNCHANGED <<now, load, making, doubtful, scenario>> /\ Reply(p)
      /\ \/ UNCHANGED <<store, reg>>
         \/ /\ Ready(f) # {}
            /\ store' = store \/ store' = [store EXCEPT ![i] = g]
            /\ reg' = [reg EXCEPT ![p][i] = g] \/ reg' = [reg EXCEPT ![p][i] = h]
  BY <1>1, <1>2, <1>3, <1>4, <1>5 DEF Claim, NoCall, Persist, Keep, Put, Edited
<1>7. OpGood'
  BY <1>6, MovesOn
<1>8. CASE UNCHANGED <<store, reg>>
  BY <1>6, <1>7, <1>8, Unchanged, PartsStep
<1>9. CASE ~UNCHANGED <<store, reg>>
  <2>1. i \in Ids => Good(i, g, doubtful') /\ Good(i, h, doubtful')
    <3> SUFFICES ASSUME i \in Ids PROVE Good(i, g, doubtful') /\ Good(i, h, doubtful')
      OBVIOUS
    <3>1. Good(i, f, doubtful) /\ Ready(f) # {} /\ now \in Nat
      BY <1>1, <1>6, <1>9, CopyGood DEF FlowInv, StateShaped
    <3>2. Sets(f, g, n, c) /\ \E r : Sets(g, h, n, r) /\ Resembles(r, c) /\ r.state = "pending"
      BY <1>2, <1>3, <1>4, <1>5, <3>1, ClaimMakes
    <3>3. PICK d : d = doubtful
      OBVIOUS
    <3>4. Good(i, g, d) /\ Good(i, h, d)
      BY <1>2, <1>3, <3>1, <3>2, <3>3, ClaimedGood
    <3> QED BY <1>6, <3>3, <3>4
  <2>2. StoreGood' /\ RegGood'
    BY <1>6, <1>9, <2>1, Stored_good, Kept_good
  <2> QED BY <1>6, <1>7, <2>2, Unchanged, PartsStep
<1> QED BY <1>8, <1>9

(***************************************************************************)
(* What a POST /step makes of a flow: g when its call is done, u when it   *)
(* fails; c is the step in u, with its deadline cleared by an unclaim.     *)
(***************************************************************************)
Cleared(f, n, action, c, u) ==
    /\ c = IF action = "unclaim" THEN Unclaimed(f.steps[n]) ELSE f.steps[n]
    /\ u = IF action = "unclaim" THEN Put(f, n, c) ELSE f

LEMMA StepDoMakes ==
    ASSUME NEW i, NEW f, NEW d, Good(i, f, d), NEW n \in DOMAIN f.steps, NEW action,
           NEW c, NEW u, Cleared(f, n, action, c, u),
           NEW x, NEW y, NEW g, g = Edited(u, n, x, y)
    PROVE  /\ Sets(f, u, n, c) /\ c.state = f.steps[n].state
           /\ \E r : Sets(u, g, n, r) /\ Resembles(r, c) /\ r.state = x
<1>1. DOMAIN f = FlowFields /\ DOMAIN f.steps[n] = StepFields
  BY DEF Good, Shaped
<1>2. Sets(f, u, n, c)
  <2>1. CASE action = "unclaim"
    BY <1>1, <2>1, SetOne DEF Cleared
  <2>2. CASE action # "unclaim"
    BY <1>1, <2>2 DEF Sets, Cleared
  <2> QED BY <2>1, <2>2
<1>3. DOMAIN c = StepFields /\ c.state = f.steps[n].state
  BY <1>1 DEF Unclaimed, StepFields, Cleared
<1>4. n \in DOMAIN u.steps /\ u.steps[n] = c /\ DOMAIN u = FlowFields
  BY <1>1, <1>2 DEF Sets
<1>5. \E r : Sets(u, g, n, r) /\ Resembles(r, u.steps[n]) /\ r.state = x
  BY <1>3, <1>4, EditedSets
<1> QED BY <1>2, <1>3, <1>4, <1>5

LEMMA StepDoKeeps ==
    ASSUME FlowInv, NEW p \in Processes, NEW i \in Ids, NEW n \in DOMAIN reg[p][i].steps,
           NEW action \in DOMAIN StateAfter, NEW o, StepDo(p, i, n, action, o)
    PROVE  FlowInv'
<1>1. PICK f : f = reg[p][i]
  OBVIOUS
<1>2. PICK c, u : Cleared(f, n, action, c, u)
  BY DEF Cleared
<1>3. PICK y : y = IF action = "unclaim" THEN NoWorker ELSE u.steps[n].owner
  OBVIOUS
<1>4. PICK st : st = StateAfter[action]
  OBVIOUS
<1>5. PICK g : g = Edited(u, n, st, y)
  OBVIOUS
<1>6. /\ UNCHANGED <<now, load, making, scenario>> /\ Reply(p) /\ Allowed(f, n, action)
      /\ store' = store \/ store' = [store EXCEPT ![i] = g]
      /\ reg' = [reg EXCEPT ![p][i] = IF o = "ok" THEN g ELSE u]
      /\ doubtful' = IF action # "unclaim" \/ o = "ok" THEN doubtful
                     ELSE doubtful \cup {<<i, n>>}
  BY <1>1, <1>2, <1>3, <1>4, <1>5 DEF StepDo, Persist, Keep, Doubt, Cleared, Put, Edited
<1>7. /\ doubtful \subseteq doubtful'
      /\ action = "unclaim" /\ o # "ok" => <<i, n>> \in doubtful'
  BY <1>6
<1>8. PICK d, e : d = doubtful /\ e = doubtful'
  OBVIOUS
<1>9. Good(i, f, d) /\ n \in DOMAIN f.steps
  BY <1>1, <1>8, CopyGood
<1>10. Good(i, g, e) /\ (action # "unclaim" \/ <<i, n>> \in e => Good(i, u, e))
  <2>1. PICK r : /\ Sets(f, u, n, c) /\ Sets(u, g, n, r) /\ Resembles(r, c)
                 /\ r.state = StateAfter[action]
    <3>1. Sets(f, u, n, c) /\ \E r : Sets(u, g, n, r) /\ Resembles(r, c) /\ r.state = st
      BY <1>2, <1>5, <1>9, StepDoMakes
    <3> QED BY <1>4, <3>1
  <2>2. action # "unclaim" => u = f
    BY <1>2 DEF Cleared
  <2>3. c = IF action = "unclaim" THEN Unclaimed(f.steps[n]) ELSE f.steps[n]
    BY <1>2 DEF Cleared
  <2>4. d \subseteq e /\ Allowed(f, n, action)
    BY <1>6, <1>7, <1>8
  <2> QED BY <1>9, <2>1, <2>2, <2>3, <2>4, StepDoGood
<1>11. o # "ok" => Good(i, u, e)
  BY <1>7, <1>8, <1>10
<1>12. StoreGood' /\ OpGood'
  BY <1>6, <1>7, <1>8, <1>10, Stored_good, MovesOn
<1>13. RegGood'
  BY <1>6, <1>7, <1>8, <1>10, <1>11, Kept_good
<1> QED BY <1>6, <1>7, <1>12, <1>13, Unchanged, PartsStep

LEMMA CancelKeeps ==
    ASSUME FlowInv, NEW p \in Processes, NEW i \in Ids, NEW o, CancelFlow(p, i, o)
    PROVE  FlowInv'
<1>1. PICK f, g : f = reg[p][i] /\ g = Cancelled(f)
  OBVIOUS
<1>2. /\ UNCHANGED <<now, load, making, doubtful, scenario>> /\ Reply(p)
      /\ store' = store \/ store' = [store EXCEPT ![i] = g]
      /\ \/ reg' = reg
         \/ reg' = [reg EXCEPT ![p][i] = f] \/ reg' = [reg EXCEPT ![p][i] = g]
  BY <1>1 DEF CancelFlow, NoCall, Persist, Keep, history
<1>3. Good(i, f, doubtful') /\ Good(i, g, doubtful')
  BY <1>1, <1>2, CopyGood, CancelledGood
<1>4. StoreGood' /\ RegGood' /\ OpGood'
  BY <1>2, <1>3, Stored_good, Kept_good, MovesOn
<1> QED BY <1>2, <1>4, Unchanged, PartsStep

(***************************************************************************)
(* As Planned_good, where the plan may get a new record, and for the       *)
(* reloads.                                                                *)
(***************************************************************************)
LEMMA Renewed_good ==
    ASSUME FlowInv, doubtful \subseteq doubtful', NEW p \in Processes, NEW f,
           \A i \in Ids : Good(i, f, doubtful'), DOMAIN op' = Processes,
           \A q \in Processes : DOMAIN op'[q] = OpFields,
           \A q \in Processes : op'[q].new = op[q].new \/ op'[q].new = f
    PROVE  OpGood'
<1>0. OpGood
  BY Parts
<1>1. \A j, g : Good(j, g, doubtful) => Good(j, g, doubtful')
  BY GoodStays
<1> QED BY <1>0, <1>1 DEF OpGood

LEMMA NotLoadingGood ==
    ASSUME NEW i \in Ids, NEW d
    PROVE  /\ DOMAIN NotLoading = LoadFields /\ DOMAIN NotLoading.flows = Ids
           /\ Good(i, NotLoading.flows[i], d)
<1>1. DOMAIN NotLoading = LoadFields /\ NotLoading.flows = [j \in Ids |-> NoFlow]
  BY DEF NotLoading, LoadFields
<1> QED BY <1>1, NoFlowGood

LEMMA Loaded_good ==
    ASSUME FlowInv, doubtful \subseteq doubtful', NEW p \in Processes, NEW r, DOMAIN r = LoadFields,
           DOMAIN r.flows = Ids, \A i \in Ids : Good(i, r.flows[i], doubtful'),
           load' = load \/ load' = [load EXCEPT ![p] = r]
    PROVE  LoadGood'
<1>0. LoadGood
  BY Parts
<1>1. \A j, g : Good(j, g, doubtful) => Good(j, g, doubtful')
  BY GoodStays
<1>2. DOMAIN load' = Processes /\ \A q \in Processes : load'[q] = load[q] \/ load'[q] = r
  BY <1>0 DEF LoadGood
<1> QED BY <1>0, <1>1, <1>2 DEF LoadGood

LEMMA TickKeeps ==
    ASSUME FlowInv, NEW p \in Processes, NEW o, Tick(p, o)
    PROVE  FlowInv'
<1>1. PICK i, f, g : /\ i = Current(p)[2] /\ f = reg[p][i]
                     /\ g = [f EXCEPT !.next = IF Exhausted(f) THEN 0 ELSE @ + f.body.interval]
  OBVIOUS
<1>2. PICK s : s = Spawned(i, f)
  OBVIOUS
<1>3. /\ i \in Ids
      /\ store' = store \/ store' = [store EXCEPT ![i] = g]
      /\ reg' = [reg EXCEPT ![p][i] = IF o = "ok" THEN g ELSE f]
      /\ UNCHANGED <<now, load, making, doubtful, scenario>>
      /\ \/ Advance(p) \/ GiveUp(p)
         \/ op' = [op EXCEPT ![p].todo = <<<<"spawn", i>>>> \o Tail(@), ![p].new = s]
  BY <1>1, <1>2 DEF Tick, Doing, Keep, Persist, history
<1>4. Good(i, f, doubtful') /\ DOMAIN f = FlowFields
  <2>1. Good(i, f, doubtful')
    BY <1>1, <1>3, CopyGood
  <2> QED BY <2>1 DEF Good, Shaped
<1>5. Good(i, g, doubtful')
  <2>1. DOMAIN g = FlowFields /\ g.body = f.body /\ g.steps = f.steps /\ g.root = f.root
    BY <1>1, <1>4 DEF FlowFields
  <2> QED BY <1>4, <2>1, LoopGood
<1>6. \A j \in Ids : Good(j, s, doubtful')
  BY <1>2, <1>3, <1>4, SpawnedGood
<1>7. OpGood'
  <2>1. CASE Advance(p) \/ GiveUp(p)
    BY <1>3, <2>1, MovesOn
  <2>2. CASE op' = [op EXCEPT ![p].todo = <<<<"spawn", i>>>> \o Tail(@), ![p].new = s]
    <3>1. DOMAIN op' = Processes /\ \A q \in Processes :
              DOMAIN op'[q] = OpFields /\ (op'[q].new = op[q].new \/ op'[q].new = s)
      BY <2>2, Parts DEF OpGood, OpFields
    <3> QED BY <1>3, <1>6, <3>1, Renewed_good
  <2> QED BY <1>3, <2>1, <2>2
<1>8. StoreGood' /\ RegGood'
  BY <1>3, <1>4, <1>5, Stored_good, Kept_good
<1> QED BY <1>3, <1>7, <1>8, Unchanged, PartsStep

LEMMA SpawnKeeps ==
    ASSUME FlowInv, NEW p \in Processes, NEW o, Spawn(p, o)
    PROVE  FlowInv'
<1>1. PICK i, f, g : /\ i = Current(p)[2] /\ f = reg[p][i]
                     /\ g = [f EXCEPT !.next = @ - f.body.interval]
  OBVIOUS
<1>2. PICK k : k = given'
  OBVIOUS
<1>3. /\ i \in Ids /\ doubtful \subseteq doubtful'
      /\ store' = store \/ store' = [store EXCEPT ![k] = op[p].new]
      /\ reg' = reg \/ reg' = [reg EXCEPT ![p][i] = g]
      /\ UNCHANGED <<now, load, making, scenario>>
      /\ \/ op' = [op EXCEPT ![p].todo = <<<<"register", k>>>> \o Tail(@),
                             ![p].rest = LoopOf(reg[p], i) \ {i}]
         \/ op' = [op EXCEPT ![p].todo = <<<<"rollback", i>>>> \o Tail(@)]
  BY <1>1, <1>2 DEF Spawn, Doing, Keep, Persist, Doubt, life
<1>4. Good(i, f, doubtful) /\ DOMAIN f = FlowFields
  <2>1. Good(i, f, doubtful)
    BY <1>1, <1>3, CopyGood
  <2> QED BY <2>1 DEF Good, Shaped
<1>5. Good(i, g, doubtful')
  <2>1. DOMAIN g = FlowFields /\ g.body = f.body /\ g.steps = f.steps /\ g.root = f.root
    BY <1>1, <1>4 DEF FlowFields
  <2> QED BY <1>3, <1>4, <2>1, LoopGood, GoodStays
<1>6. k \in Ids => Good(k, op[p].new, doubtful')
  BY <1>3, CopyGood, GoodStays
<1>7. OpGood'
  <2>1. DOMAIN op' = Processes /\ \A q \in Processes :
            DOMAIN op'[q] = OpFields /\ op'[q].new = op[q].new
    BY <1>3, Parts DEF OpGood, OpFields
  <2> QED BY <1>3, <2>1, Planned_good
<1>8. StoreGood'
  <2>1. PICK n : n = op[p].new
    OBVIOUS
  <2> QED BY <1>3, <1>6, <2>1, Stored_good
<1>9. RegGood'
  BY <1>3, <1>5, Kept_good
<1> QED BY <1>3, <1>7, <1>8, <1>9, Unchanged, PartsStep

LEMMA RollbackKeeps ==
    ASSUME FlowInv, NEW p \in Processes, NEW o, Rollback(p, o)
    PROVE  FlowInv'
<1>1. PICK i, f : i = Current(p)[2] /\ f = reg[p][i]
  OBVIOUS
<1>2. /\ i \in Ids
      /\ store' = store \/ store' = [store EXCEPT ![i] = f]
      /\ UNCHANGED <<now, reg, load, making, doubtful, scenario>> /\ GiveUp(p)
  BY <1>1 DEF Rollback, Doing, Persist, history
<1>3. Good(i, f, doubtful')
  BY <1>1, <1>2, CopyGood
<1>4. StoreGood' /\ OpGood'
  BY <1>2, <1>3, Stored_good, MovesOn
<1> QED BY <1>2, <1>4, Unchanged, PartsStep

LEMMA PropagateKeeps ==
    ASSUME FlowInv, NEW p \in Processes, NEW o, Propagate(p, o)
    PROVE  FlowInv'
<1>1. PICK j, f, g :
          /\ f = reg[p][j] /\ g = [f EXCEPT !.next = op[p].new.next]
          /\ store' = store \/ store' = [store EXCEPT ![j] = g]
          /\ reg' = [reg EXCEPT ![p][j] = g]
          /\ op' = [op EXCEPT ![p].rest = @ \ {j}]
  BY DEF Propagate, Keep, Persist
<1>2. UNCHANGED <<now, load, making, doubtful, scenario>>
  BY DEF Propagate, history, life, bounds
<1>3. j \in Ids => Good(j, g, doubtful')
  <2> SUFFICES ASSUME j \in Ids PROVE Good(j, g, doubtful')
    OBVIOUS
  <2>0. Good(j, f, doubtful')
    BY <1>1, <1>2, CopyGood
  <2>1. Good(j, f, doubtful') /\ DOMAIN f = FlowFields
    BY <2>0, GoodFields
  <2>2. DOMAIN g = FlowFields /\ g.body = f.body /\ g.steps = f.steps /\ g.root = f.root
    BY <1>1, <2>1 DEF FlowFields
  <2> QED BY <2>1, <2>2, LoopGood
<1>4. OpGood'
  <2>1. DOMAIN op' = Processes /\ \A q \in Processes :
            DOMAIN op'[q] = OpFields /\ op'[q].new = op[q].new
    BY <1>1, Parts DEF OpGood, OpFields
  <2> QED BY <1>2, <2>1, Planned_good
<1>5. StoreGood' /\ RegGood'
  BY <1>1, <1>2, <1>3, Stored_good, Kept_good
<1> QED BY <1>2, <1>4, <1>5, Unchanged, PartsStep

LEMMA RegisterKeeps ==
    ASSUME FlowInv, NEW p \in Processes, Register(p)
    PROVE  FlowInv'
<1>1. PICK i, f : i = Current(p)[2] /\ f = op[p].new
  OBVIOUS
<1>2. /\ reg' = [reg EXCEPT ![p][i] = f] /\ Advance(p)
      /\ UNCHANGED <<now, store, load, making, doubtful, scenario>>
  BY <1>1 DEF Register, Keep, history, bounds
<1>3. i \in Ids => Good(i, f, doubtful')
  BY <1>1, <1>2, CopyGood
<1>4. RegGood' /\ OpGood'
  BY <1>2, <1>3, Kept_good, MovesOn
<1> QED BY <1>2, <1>4, Unchanged, PartsStep

LEMMA StopKeeps ==
    ASSUME FlowInv, NEW p \in Processes, NEW o, Stop(p, o)
    PROVE  FlowInv'
<1>1. PICK i, f, g : /\ i = Current(p)[2] /\ f = reg[p][i]
                     /\ g = [f EXCEPT !.stopped = TRUE, !.next = 0]
  OBVIOUS
<1>2. /\ i \in Ids /\ doubtful \subseteq doubtful'
      /\ store' = store \/ store' = [store EXCEPT ![i] = g]
      /\ reg' = reg \/ reg' = [reg EXCEPT ![p][i] = g]
      /\ UNCHANGED <<now, load, making, scenario>>
      /\ Advance(p) \/ GiveUp(p)
  <2>1. NoCall(o) \/ (Keep(p, i, g) /\ Persist(p, i, g, o))
    BY <1>1 DEF Stop
  <2>2. /\ i \in Ids /\ doubtful \subseteq doubtful' /\ UNCHANGED <<now, load, making, scenario>>
        /\ Advance(p) \/ GiveUp(p)
    BY <1>1 DEF Stop, Doing, Doubt
  <2> QED BY <2>1, <2>2 DEF NoCall, Keep, Persist
<1>3. Good(i, f, doubtful) /\ DOMAIN f = FlowFields
  <2>1. Good(i, f, doubtful)
    BY <1>1, <1>2, CopyGood
  <2> QED BY <2>1, GoodFields
<1>4. Good(i, g, doubtful')
  <2>1. DOMAIN g = FlowFields /\ g.body = f.body /\ g.steps = f.steps /\ g.root = f.root
    BY <1>1, <1>3 DEF FlowFields
  <2> QED BY <1>2, <1>3, <2>1, LoopGood, GoodStays
<1>5. StoreGood' /\ RegGood' /\ OpGood'
  BY <1>2, <1>4, Stored_good, Kept_good, MovesOn
<1> QED BY <1>2, <1>5, Unchanged, PartsStep

LEMMA CreateKeeps ==
    ASSUME FlowInv, NEW p \in Processes, NEW o, CreatePersist(p, scenario.body, o)
    PROVE  FlowInv'
<1>1. PICK b, f, k : b = scenario.body /\ f = NewFlow(b) /\ k = given'
  OBVIOUS
<1>2. /\ BodyOK(b)
      /\ store' = store \/ store' = [store EXCEPT ![k] = f]
      /\ UNCHANGED <<now, reg, load, op, doubtful, scenario>>
      /\ making' = making \/ making' = [making EXCEPT ![p] = [id |-> k, f |-> f]]
  BY <1>1 DEF CreatePersist, Persist, history
<1>3. \A j \in Ids : Good(j, f, doubtful')
  <2>1. PICK s \in Scenarios : b = s.body
    BY <1>1 DEF FlowInv, StateShaped
  <2> QED BY <1>1, <1>2, <2>1, NewFlowGood
<1>4. MakingGood'
  <2>1. CASE making' = making
    BY <1>2, <2>1, Unchanged
  <2>2. CASE making' = [making EXCEPT ![p] = [id |-> k, f |-> f]]
    BY <1>2, <1>3, <2>2, Parts DEF MakingGood, MakingFields
  <2> QED BY <1>2, <2>1, <2>2
<1>5. StoreGood'
  BY <1>2, <1>3, Stored_good
<1> QED BY <1>2, <1>4, <1>5, Unchanged, PartsStep

LEMMA CreateRegisterKeeps ==
    ASSUME FlowInv, NEW p \in Processes, CreateRegister(p)
    PROVE  FlowInv'
<1>1. PICK i, f : i = making[p].id /\ f = making[p].f
  OBVIOUS
<1>2. /\ reg' = reg \/ reg' = [reg EXCEPT ![p][i] = f]
      /\ making' = [making EXCEPT ![p] = NotMaking]
      /\ UNCHANGED <<now, store, load, op, doubtful, scenario>>
  BY <1>1 DEF CreateRegister, Keep, history, bounds
<1>3. i \in Ids => Good(i, f, doubtful')
  BY <1>1, <1>2, CopyGood
<1>4. RegGood'
  BY <1>2, <1>3, Kept_good
<1>5. MakingGood'
  <2>1. DOMAIN NotMaking = MakingFields /\ NotMaking.f = NoFlow
    BY DEF NotMaking, MakingFields
  <2> QED BY <1>2, <2>1, Parts, NoFlowGood DEF MakingGood
<1> QED BY <1>2, <1>4, <1>5, Unchanged, PartsStep

LEMMA TakeOffKeeps ==
    ASSUME FlowInv, NEW p \in Processes, TakeOff(p)
    PROVE  FlowInv'
<1>1. PICK i : i = Current(p)[2]
  OBVIOUS
<1>2. /\ reg' = [reg EXCEPT ![p][i] = NoFlow] /\ doubtful \subseteq doubtful'
      /\ op' = [op EXCEPT ![p] = NoPlan]
      /\ UNCHANGED <<now, store, load, making, scenario>>
  BY <1>1 DEF TakeOff, Keep, Doubt, life, bounds
<1>3. PICK none : none = NoFlow
  OBVIOUS
<1>4. RegGood'
  BY <1>2, <1>3, NoFlowGood, Kept_good
<1>5. OpGood'
  <2>1. DOMAIN NoPlan = OpFields /\ NoPlan.new = NoFlow
    BY DEF NoPlan, OpFields
  <2>2. DOMAIN op' = Processes /\ \A q \in Processes :
            DOMAIN op'[q] = OpFields /\ (op'[q].new = op[q].new \/ op'[q].new = NoFlow)
    BY <1>2, <2>1, Parts DEF OpGood
  <2> QED BY <1>2, <2>2, Planned_good
<1> QED BY <1>2, <1>4, <1>5, Unchanged, PartsStep

LEMMA DeleteKeyKeeps ==
    ASSUME FlowInv, NEW p \in Processes, NEW i, NEW o, DeleteKey(p, i, o)
    PROVE  FlowInv'
<1>1. /\ store' = store \/ store' = [store EXCEPT ![i] = NoFlow]
      /\ UNCHANGED <<now, reg, load, op, making, doubtful, scenario>>
  BY DEF DeleteKey, Persist, life, history
<1>2. PICK none : none = NoFlow
  OBVIOUS
<1>3. StoreGood'
  BY <1>1, <1>2, NoFlowGood, Stored_good
<1> QED BY <1>1, <1>3, Unchanged, PartsStep

-----------------------------------------------------------------------------
(* The reload *)

(***************************************************************************)
(* It ends or fails, or only goes on.                                      *)
(***************************************************************************)
LEMMA LoadStops ==
    ASSUME FlowInv, doubtful' = doubtful, NEW p \in Processes, LoadEnds(p) \/ LoadFails(p)
    PROVE  LoadGood'
<1>1. PICK r : (r = NotLoading \/ r = [NotLoading EXCEPT !.pc = "begin"])
               /\ load' = [load EXCEPT ![p] = r]
  BY DEF LoadEnds, LoadFails
<1>2. NotLoading.flows = [i \in Ids |-> NoFlow] /\ DOMAIN NotLoading = LoadFields
  BY DEF NotLoading, LoadFields
<1>3. r.flows = NotLoading.flows /\ DOMAIN r = LoadFields
  BY <1>1, <1>2 DEF LoadFields
<1>4. DOMAIN r.flows = Ids /\ \A i \in Ids : Good(i, r.flows[i], doubtful')
  BY <1>2, <1>3, NoFlowGood
<1> QED BY <1>1, <1>3, <1>4, Loaded_good

LEMMA LoadGoesOn ==
    ASSUME FlowInv, doubtful' = doubtful, NEW p \in Processes, NEW r, DOMAIN r = LoadFields,
           r.flows = load[p].flows, load' = [load EXCEPT ![p] = r]
    PROVE  LoadGood'
<1>1. DOMAIN r.flows = Ids /\ \A i \in Ids : Good(i, r.flows[i], doubtful')
  <2>1. DOMAIN r.flows = Ids
    BY Parts DEF LoadGood
  <2> QED BY <2>1, CopyGood
<1> QED BY <1>1, Loaded_good

LEMMA LoadBeginKeeps ==
    ASSUME FlowInv, NEW p \in Processes, LoadBegin(p)
    PROVE  FlowInv'
<1>1. UNCHANGED <<now, store, reg, op, making, doubtful, scenario>>
  BY DEF LoadBegin, life, history, bounds
<1>2. DOMAIN load = Processes /\ DOMAIN load[p] = LoadFields
  BY Parts DEF LoadGood
<1>3. PICK r : r = [load[p] EXCEPT !.pc = "list", !.gen = gen[p]]
  OBVIOUS
<1>4. DOMAIN r = LoadFields /\ r.flows = load[p].flows /\ load' = [load EXCEPT ![p] = r]
  BY <1>2, <1>3 DEF LoadBegin, LoadFields
<1>5. LoadGood'
  BY <1>1, <1>4, LoadGoesOn
<1> QED BY <1>1, <1>5, Unchanged, PartsStep

LEMMA LoadListKeeps ==
    ASSUME FlowInv, NEW p \in Processes, NEW o, LoadList(p, o)
    PROVE  FlowInv'
<1>1. UNCHANGED <<now, store, reg, op, making, doubtful, scenario>>
  BY DEF LoadList, history
<1>2. DOMAIN load = Processes /\ DOMAIN load[p] = LoadFields
  BY Parts DEF LoadGood
<1>3. CASE LoadEnds(p) \/ LoadFails(p)
  BY <1>1, <1>3, LoadStops, Unchanged, PartsStep
<1>4. CASE load' = [load EXCEPT ![p].pc = "batch", ![p].ids = Stored]
  <2>1. PICK s : s = Stored
    OBVIOUS
  <2>2. PICK r : r = [load[p] EXCEPT !.pc = "batch", !.ids = s]
    OBVIOUS
  <2>3. DOMAIN r = LoadFields /\ r.flows = load[p].flows /\ load' = [load EXCEPT ![p] = r]
    BY <1>2, <1>4, <2>1, <2>2 DEF LoadFields
  <2>4. LoadGood'
    BY <1>1, <2>3, LoadGoesOn
  <2> QED BY <1>1, <2>4, Unchanged, PartsStep
<1> QED BY <1>3, <1>4 DEF LoadList

LEMMA LoadBatchKeeps ==
    ASSUME FlowInv, NEW p \in Processes, NEW o, LoadBatch(p, o)
    PROVE  FlowInv'
<1>1. UNCHANGED <<now, store, reg, op, making, doubtful, scenario>>
  BY DEF LoadBatch, history
<1>2. DOMAIN load = Processes /\ DOMAIN load[p] = LoadFields
  BY Parts DEF LoadGood
<1>3. CASE LoadFails(p)
  BY <1>1, <1>3, LoadStops, Unchanged, PartsStep
<1>4. CASE ~LoadFails(p)
  <2>1. PICK R : R = [i \in Ids |-> IF i \in load[p].ids /\ Readable(store[i]) THEN store[i]
                                    ELSE NoFlow]
    OBVIOUS
  <2>2. PICK r : r = [load[p] EXCEPT !.pc = "apply", !.flows = R]
    OBVIOUS
  <2>3. load' = [load EXCEPT ![p] = r]
    BY <1>2, <1>4, <2>1, <2>2 DEF LoadBatch
  <2>4. DOMAIN r = LoadFields /\ r.flows = R
    BY <1>2, <2>2 DEF LoadFields
  <2>5. \A i \in Ids : Good(i, R[i], doubtful')
    BY <1>1, <2>1, CopyGood, NoFlowGood
  <2>6. LoadGood'
    BY <1>1, <2>1, <2>3, <2>4, <2>5, Loaded_good
  <2> QED BY <1>1, <2>6, Unchanged, PartsStep
<1> QED BY <1>3, <1>4

LEMMA LoadApplyKeeps ==
    ASSUME FlowInv, NEW p \in Processes, LoadApply(p)
    PROVE  FlowInv'
<1>1. /\ UNCHANGED <<now, store, making, doubtful, scenario>>
      /\ LoadEnds(p) \/ LoadFails(p)
  BY DEF LoadApply, history, bounds
<1>2. LoadGood'
  BY <1>1, LoadStops
<1>3. CASE UNCHANGED <<reg, op>>
  BY <1>1, <1>2, <1>3, Unchanged, PartsStep
<1>4. CASE ~UNCHANGED <<reg, op>>
  <2>1. PICK R : R = Merged(p)
    OBVIOUS
  <2>2. PICK plan, todo :
            /\ plan = [NoPlan EXCEPT !.strict = FALSE, !.todo = todo]
            /\ reg' = [reg EXCEPT ![p] = R] /\ op' = [op EXCEPT ![p] = plan]
    BY <1>4, <2>1 DEF LoadApply
  <2>3. \A i \in Ids : Good(i, R[i], doubtful')
    BY <1>1, <2>1, CopyGood DEF Merged
  <2>4. RegGood'
    BY <1>1, <2>1, <2>2, <2>3, Parts DEF RegGood, Merged
  <2>5. DOMAIN plan = OpFields /\ plan.new = NoFlow
    BY <2>2 DEF NoPlan, OpFields
  <2>6. DOMAIN op' = Processes /\ \A q \in Processes :
            DOMAIN op'[q] = OpFields /\ (op'[q].new = op[q].new \/ op'[q].new = NoFlow)
    BY <2>2, <2>5, Parts DEF OpGood
  <2>7. OpGood'
    BY <1>1, <2>6, Planned_good
  <2> QED BY <1>1, <1>2, <2>4, <2>7, Unchanged, PartsStep
<1> QED BY <1>3, <1>4

-----------------------------------------------------------------------------
(* Processes *)

LEMMA StartsKeeps ==
    ASSUME FlowInv, NEW p \in Processes, Starts(p), UNCHANGED scenario
    PROVE  FlowInv'
<1>1. UNCHANGED <<now, store, reg, op, making, doubtful>>
  BY DEF Starts, history
<1>2. DOMAIN load = Processes /\ DOMAIN load[p] = LoadFields
  BY Parts DEF LoadGood
<1>3. PICK r : r = [load[p] EXCEPT !.pc = "begin"]
  OBVIOUS
<1>4. DOMAIN r = LoadFields /\ r.flows = load[p].flows /\ load' = [load EXCEPT ![p] = r]
  BY <1>2, <1>3 DEF Starts, LoadFields
<1>5. LoadGood'
  BY <1>1, <1>4, LoadGoesOn
<1> QED BY <1>1, <1>5, Unchanged, PartsStep

LEMMA GoneKeeps ==
    ASSUME FlowInv, NEW p \in Processes, Gone(p)
    PROVE  FlowInv'
<1>1. UNCHANGED <<now, store, doubtful, scenario>>
  BY DEF Gone, history
<1>2. LoadGood'
  <2>1. PICK r : r = NotLoading
    OBVIOUS
  <2>2. DOMAIN r = LoadFields /\ DOMAIN r.flows = Ids /\ load' = [load EXCEPT ![p] = r]
    BY <2>1 DEF Gone, NotLoading, LoadFields
  <2>3. \A i \in Ids : Good(i, r.flows[i], doubtful')
    BY <2>1, NotLoadingGood
  <2> QED BY <1>1, <2>2, <2>3, Loaded_good
<1>3. RegGood'
  <2>1. reg' = [reg EXCEPT ![p] = [i \in Ids |-> NoFlow]]
    BY DEF Gone
  <2> QED BY <1>1, <2>1, Parts, NoFlowGood DEF RegGood
<1>4. OpGood'
  <2>1. DOMAIN NoPlan = OpFields /\ NoPlan.new = NoFlow
    BY DEF NoPlan, OpFields
  <2>2. DOMAIN op' = Processes /\ \A q \in Processes :
            DOMAIN op'[q] = OpFields /\ (op'[q].new = op[q].new \/ op'[q].new = NoFlow)
    BY <2>1, Parts DEF OpGood, Gone
  <2> QED BY <1>1, <2>2, Planned_good
<1>5. MakingGood'
  <2>1. DOMAIN NotMaking = MakingFields /\ NotMaking.f = NoFlow
    BY DEF NotMaking, MakingFields
  <2>2. making' = [making EXCEPT ![p] = NotMaking]
    BY DEF Gone
  <2> QED BY <1>1, <2>1, <2>2, Parts, NoFlowGood DEF MakingGood
<1> QED BY <1>1, <1>2, <1>3, <1>4, <1>5, Unchanged, PartsStep

LEMMA FlowStarts == Init => FlowInv
<1> SUFFICES ASSUME Init PROVE FlowInv
  OBVIOUS
<1>1. StoreGood /\ RegGood
  BY NoFlowGood DEF Init, StoreGood, RegGood
<1>2. OpGood
  <2>1. DOMAIN NoPlan = OpFields /\ NoPlan.new = NoFlow
    BY DEF NoPlan, OpFields
  <2> QED BY <2>1, NoFlowGood DEF Init, OpGood
<1>3. LoadGood
  <2>1. load = [p \in Processes |-> NotLoading]
    BY DEF Init
  <2>2. DOMAIN load = Processes /\ \A p \in Processes : load[p] = NotLoading
    BY <2>1
  <2>3. DOMAIN NotLoading = LoadFields /\ DOMAIN NotLoading.flows = Ids
    BY DEF NotLoading, LoadFields
  <2> QED BY <2>2, <2>3, NotLoadingGood DEF LoadGood
<1>4. MakingGood
  <2>1. DOMAIN NotMaking = MakingFields /\ NotMaking.f = NoFlow
    BY DEF NotMaking, MakingFields
  <2> QED BY <2>1, NoFlowGood DEF Init, MakingGood
<1>5. BoundsGood
  BY DEF Init, BoundsGood
<1> QED BY <1>1, <1>2, <1>3, <1>4, <1>5, Parts

LEMMA RequestKeeps ==
    ASSUME FlowInv, NEW p \in Processes, NEW i \in Ids, Request(p, i)
    PROVE  FlowInv'
<1>1. CASE \E w \in Workers : NextStep(p, w, i)
  BY <1>1, BeginGood DEF NextStep
<1>2. CASE Get(p, i)
  BY <1>2, BeginGood DEF Get
<1>3. CASE StopLoop(p, i)
  BY <1>3, BeginGood DEF StopLoop
<1>4. CASE Delete(p, i)
  BY <1>4, BeginGood DEF Delete
<1>5. CASE \E o \in Outcomes : CancelFlow(p, i, o)
  BY <1>5, CancelKeeps
<1>6. CASE \E n \in DOMAIN reg[p][i].steps, action \in DOMAIN StateAfter, o \in Outcomes :
               StepDo(p, i, n, action, o)
  BY <1>6, StepDoKeeps
<1> QED BY <1>1, <1>2, <1>3, <1>4, <1>5, <1>6 DEF Request

LEMMA CallKeeps ==
    ASSUME FlowInv, NEW p \in Processes, NEW o, Call(p, o)
    PROVE  FlowInv'
BY TickKeeps, SpawnKeeps, RollbackKeeps, PropagateKeeps, SweepGood, ClaimGood, StopKeeps,
   DeleteKeyKeeps, LoadListKeeps, LoadBatchKeeps DEF Call

LEMMA ProcessKeeps ==
    ASSUME FlowInv, NEW p \in Processes, Process(p)
    PROVE  FlowInv'
<1>1. CASE \E i \in Ids : Request(p, i)
  BY <1>1, RequestKeeps
<1>2. CASE ListFlows(p)
  BY <1>2, BeginGood DEF ListFlows
<1>3. CASE \E o \in Outcomes : CreatePersist(p, scenario.body, o)
  BY <1>3, CreateKeeps
<1>4. CASE \E o \in Outcomes : Call(p, o)
  BY <1>4, CallKeeps
<1>5. CASE Register(p) \/ CreateRegister(p) \/ TakeOff(p) \/ LoadBegin(p) \/ LoadApply(p)
  BY <1>5, RegisterKeeps, CreateRegisterKeeps, TakeOffKeeps, LoadBeginKeeps, LoadApplyKeeps
<1> QED BY <1>1, <1>2, <1>3, <1>4, <1>5 DEF Process

LEMMA FlowStep == FlowInv /\ [Next]_vars => FlowInv'
<1> SUFFICES ASSUME FlowInv, [Next]_vars PROVE FlowInv'
  OBVIOUS
<1>0. "daemon" \in Processes /\ "console" \in Processes
  BY DEF Processes
<1>1. CASE \E p \in Processes : Process(p)
  BY <1>1, ProcessKeeps
<1>2. CASE Start
  <2>1. Starts("daemon") /\ UNCHANGED scenario
    BY <1>2 DEF Start, Starts
  <2> QED BY <1>0, <2>1, StartsKeeps
<1>3. CASE ConsoleStart
  <2>1. Starts("console") /\ UNCHANGED scenario
    BY <1>3 DEF ConsoleStart, Starts
  <2> QED BY <1>0, <2>1, StartsKeeps
<1>4. CASE Exit
  BY <1>0, <1>4, GoneKeeps DEF Exit
<1>5. CASE Crash
  BY <1>0, <1>5, GoneKeeps DEF Crash
<1>6. CASE Clock
  <2>1. UNCHANGED <<store, reg, op, load, making, doubtful, scenario>> /\ now' = now + 1
    BY <1>6 DEF Clock, history, bounds
  <2>2. BoundsGood'
    BY <2>1, Parts DEF BoundsGood
  <2> QED BY <2>1, <2>2, Unchanged, PartsStep
<1>7. CASE UNCHANGED vars
  <2>1. UNCHANGED <<now, store, reg, op, load, making, doubtful, scenario>>
    BY <1>7 DEF vars, life, history, bounds
  <2> QED BY <2>1, Unchanged, PartsStep
<1> QED BY <1>1, <1>2, <1>3, <1>4, <1>5, <1>6, <1>7 DEF Next

LEMMA FlowInvariant == Spec => []FlowInv
<1> QED BY FlowStarts, FlowStep, PTL DEF Spec

-----------------------------------------------------------------------------
(* What was handed out and what is done: the invariant *)

Bare(f) == DOMAIN f.steps = {}

(***************************************************************************)
(* A copy of flow i that has not lost what was answered: its steps that    *)
(* are done, and those that are held (m, h and d: mixed, held, finished).  *)
(***************************************************************************)
Keeps(i, f, h, d) ==
    \A n \in DOMAIN f.steps : /\ <<i, n>> \in d => f.steps[n].state = "done"
                              /\ <<i, n>> \in h => f.steps[n].state # "pending"
Safe(i, f, m, h, d) == Root(i, f) \in m \/ Keeps(i, f, h, d)

(***************************************************************************)
(* A command next to the daemon works on copies of its own, which may be   *)
(* old: what it stores is mixed.                                           *)
(***************************************************************************)
Apart(p) == p = "console" /\ shared

(***************************************************************************)
(* The plan o is about to register the record i, which it has stored.      *)
(***************************************************************************)
Adds(o, i) ==
    o.todo # <<>> /\ o.todo[1][1] = "register" /\ o.todo[1][2] = i /\ o.new # NoFlow

Copies(i) ==
    {store[i]} \cup UNION {
        {reg[p][i], load[p].flows[i]} \cup {f \in {making[p].f} : making[p].id = i}
            \cup {f \in {op[p].new} : Adds(op[p], i)} : p \in Processes}

(***************************************************************************)
(* A process that is down has nothing, and when both are up, the command   *)
(* knows.                                                                  *)
(***************************************************************************)
Idle(p) ==
    /\ reg[p] = [i \in Ids |-> NoFlow] /\ load[p] = NotLoading
    /\ op[p] = NoPlan /\ making[p] = NotMaking
ProcsOK ==
    /\ DOMAIN proc = Processes /\ shared \in BOOLEAN
    /\ \A p \in Processes : proc[p] = "down" => Idle(p)
    /\ proc["daemon"] = "down" \/ proc["console"] = "down" \/ shared

(***************************************************************************)
(* All copies of a flow are of the same loop; ids are given out once.      *)
(***************************************************************************)
RootsOK ==
    /\ given \in Nat
    /\ \A i \in Ids : \A f, g \in Copies(i) : Bare(f) \/ Bare(g) \/ f.root = g.root
    /\ \A i \in Ids : \A f \in Copies(i) : Bare(f) \/ i <= given
    /\ \A x \in held \cup finished : x[1] \in 0..given

(***************************************************************************)
(* Until it is registered, a new record is nowhere else in the registry.   *)
(***************************************************************************)
NewOK == \A p \in Processes, i \in Ids : Adds(op[p], i) => Bare(reg[p][i])

(***************************************************************************)
(* Every copy that a process goes on with is safe.  What is being loaded   *)
(* or created counts only when it will be registered.                      *)
(***************************************************************************)
SafeAt(p, i, m, h, d) ==
    /\ Safe(i, reg[p][i], m, h, d)
    /\ Bare(reg[p][i]) => /\ Safe(i, load[p].flows[i], m, h, d)
                          /\ making[p].id = i => Safe(i, making[p].f, m, h, d)
    /\ Adds(op[p], i) => Safe(i, op[p].new, m, h, d)
SafeOK ==
    \A i \in Ids :
        /\ Safe(i, store[i], mixed, held, finished)
        /\ \A p \in Processes : Apart(p) \/ SafeAt(p, i, mixed, held, finished)

ClaimInv == ProcsOK /\ RootsOK /\ NewOK /\ SafeOK /\ twice = {}

-----------------------------------------------------------------------------
(* Copies and their changes *)

LEMMA BareSafe ==
    ASSUME NEW f, Bare(f), NEW i, NEW m, NEW h, NEW d
    PROVE  Safe(i, f, m, h, d)
BY DEF Bare, Safe, Keeps

LEMMA NoFlowBare == Bare(NoFlow) /\ NoFlow.root = 0
<1>1. NoFlow.steps = <<>> /\ NoFlow.root = 0
  BY DEF NoFlow
<1> QED BY <1>1 DEF Bare

(***************************************************************************)
(* g has the steps of f: what was done is done, and what is pending was.   *)
(***************************************************************************)
Steady(f, g) ==
    /\ g.root = f.root /\ DOMAIN g.steps = DOMAIN f.steps
    /\ \A n \in DOMAIN f.steps : /\ f.steps[n].state = "done" => g.steps[n].state = "done"
                                 /\ g.steps[n].state = "pending" => f.steps[n].state = "pending"

LEMMA SteadySafe ==
    ASSUME NEW f, NEW g, Steady(f, g), NEW i, NEW m, NEW h, NEW d, Safe(i, f, m, h, d),
           NEW mm, m \subseteq mm, NEW hh, hh \subseteq h, NEW dd, dd \subseteq d
    PROVE  Safe(i, g, mm, hh, dd)
BY DEF Steady, Safe, Keeps, Root

LEMMA SteadySelf == \A f : Steady(f, f)
BY DEF Steady

LEMMA SafeStays ==
    ASSUME NEW i, NEW f, NEW m, NEW h, NEW d, Safe(i, f, m, h, d),
           NEW mm, m \subseteq mm, NEW hh, hh \subseteq h, NEW dd, dd \subseteq d
    PROVE  Safe(i, f, mm, hh, dd)
BY SteadySelf, SteadySafe

LEMMA SweptSteady ==
    ASSUME NEW i, NEW f, NEW d, Good(i, f, d)
    PROVE  Steady(f, Swept(f))
<1> DEFINE g == Swept(f)
<1>1. /\ g.root = f.root /\ DOMAIN g.steps = DOMAIN f.steps
      /\ \A n \in DOMAIN f.steps :
            g.steps[n] = IF Late(f.steps[n]) THEN [f.steps[n] EXCEPT !.state = "overdue"]
                         ELSE f.steps[n]
  BY DEF Swept, Good, Shaped, FlowFields
<1>2. \A n \in DOMAIN f.steps : DOMAIN f.steps[n] = StepFields
  BY DEF Good, Shaped
<1> HIDE DEF g
<1>3. Steady(f, g)
  BY <1>1, <1>2 DEF Steady, StepFields, Late
<1> QED BY <1>3 DEF g

LEMMA CancelledSteady ==
    ASSUME NEW i, NEW f, NEW d, Good(i, f, d)
    PROVE  Steady(f, Cancelled(f))
<1> DEFINE g == Cancelled(f)
<1>1. /\ g.root = f.root /\ DOMAIN g.steps = DOMAIN f.steps
      /\ \A n \in DOMAIN f.steps :
            g.steps[n] = IF f.steps[n].state \in Open
                         THEN [f.steps[n] EXCEPT !.state = "cancelled", !.owner = NoWorker]
                         ELSE f.steps[n]
  BY DEF Cancelled, Good, Shaped, FlowFields
<1>2. \A n \in DOMAIN f.steps : DOMAIN f.steps[n] = StepFields
  BY DEF Good, Shaped
<1> HIDE DEF g
<1>3. Steady(f, g)
  BY <1>1, <1>2 DEF Steady, StepFields, Open
<1> QED BY <1>3 DEF g

(***************************************************************************)
(* Only the loop's fields change.                                          *)
(***************************************************************************)
LEMMA LoopSteady ==
    ASSUME NEW f, NEW g, g.root = f.root, g.steps = f.steps
    PROVE  Steady(f, g)
BY DEF Steady

LEMMA CopiesAre ==
    ASSUME NEW i
    PROVE  /\ store[i] \in Copies(i)
           /\ \A p \in Processes :
                /\ reg[p][i] \in Copies(i) /\ load[p].flows[i] \in Copies(i)
                /\ making[p].id = i => making[p].f \in Copies(i)
                /\ Adds(op[p], i) => op[p].new \in Copies(i)
BY DEF Copies

(***************************************************************************)
(* A copy that is bare, or of the loop of a copy there was.                *)
(***************************************************************************)
From(f, C) == Bare(f) \/ \E g \in C : ~Bare(g) /\ g.root = f.root

(***************************************************************************)
(* After a step, every copy is From one there was, or is the new flow.     *)
(***************************************************************************)
LEMMA RootsStay ==
    ASSUME RootsOK, given' \in Nat, given <= given', NEW c,
           \A x \in held' \cup finished' : x \in held \cup finished \/ x[1] \in 0..given',
           \A i \in Ids : \A f \in Copies(i)' :
               From(f, Copies(i)) \/ (given < i /\ i = given' /\ f.root = c)
    PROVE  RootsOK'
<1>0. given \in Nat /\ Ids \subseteq Nat
  BY FlowAssumption DEF RootsOK
<1>1. ASSUME NEW i \in Ids, NEW f \in Copies(i)' PROVE Bare(f) \/ i <= given'
  BY <1>0, <1>1 DEF RootsOK, From
<1>2. ASSUME NEW i \in Ids, NEW f \in Copies(i)', NEW g \in Copies(i)', ~Bare(f), ~Bare(g)
      PROVE  f.root = g.root
  <2>1. CASE i <= given
    <3>1. From(f, Copies(i)) /\ From(g, Copies(i))
      BY <1>0, <1>2, <2>1
    <3>2. PICK k \in Copies(i) : ~Bare(k) /\ k.root = f.root
      BY <1>2, <3>1 DEF From
    <3>3. PICK l \in Copies(i) : ~Bare(l) /\ l.root = g.root
      BY <1>2, <3>1 DEF From
    <3> QED BY <3>2, <3>3 DEF RootsOK
  <2>2. CASE ~(i <= given)
    <3>1. ~From(f, Copies(i)) /\ ~From(g, Copies(i))
      BY <1>2, <2>2 DEF From, RootsOK
    <3> QED BY <1>2, <3>1
  <2> QED BY <2>1, <2>2
<1>3. \A x \in held' \cup finished' : x[1] \in 0..given'
  <2> SUFFICES ASSUME NEW x \in held' \cup finished' PROVE x[1] \in 0..given'
    OBVIOUS
  <2>1. CASE x \in held \cup finished
    BY <1>0, <2>1 DEF RootsOK
  <2> QED BY <2>1
<1> QED BY <1>1, <1>2, <1>3 DEF RootsOK

LEMMA CopyIs ==
    ASSUME NEW i, NEW f \in Copies(i)'
    PROVE  \/ f = store'[i]
           \/ \E p \in Processes : \/ f = reg'[p][i] \/ f = load'[p].flows[i]
                                   \/ making'[p].id = i /\ f = making'[p].f
                                   \/ Adds(op'[p], i) /\ f = op'[p].new
BY DEF Copies

LEMMA FromOld ==
    ASSUME NEW C, NEW g \in C, NEW f, Bare(g) <=> Bare(f), f.root = g.root
    PROVE  From(f, C)
BY DEF From

-----------------------------------------------------------------------------
(* How a step keeps the invariant: one process goes on *)

Acts(p) ==
    /\ proc[p] # "down" /\ proc'[p] # "down" /\ DOMAIN proc' = Processes /\ shared' = shared
    /\ \A q \in Processes \ {p} :
        /\ proc'[q] = proc[q] /\ reg'[q] = reg[q] /\ op'[q] = op[q]
        /\ load'[q] = load[q] /\ making'[q] = making[q]

LEMMA ProcsStay ==
    ASSUME ProcsOK, NEW p \in Processes, Acts(p)
    PROVE  ProcsOK'
<1>1. ASSUME NEW q \in Processes, proc'[q] = "down" PROVE Idle(q)'
  <2>1. q # p /\ Idle(q)
    BY <1>1 DEF Acts, ProcsOK
  <2> QED BY <2>1 DEF Acts, Idle
<1>2. proc'["daemon"] = "down" \/ proc'["console"] = "down" \/ shared'
  BY DEF Acts, ProcsOK, Processes
<1> QED BY <1>1, <1>2 DEF Acts, ProcsOK

(***************************************************************************)
(* A process that is down, and one beside which another one works.         *)
(***************************************************************************)
LEMMA IdleSafe ==
    ASSUME NEW p \in Processes, Idle(p), NEW i \in Ids, NEW m, NEW h, NEW d
    PROVE  /\ SafeAt(p, i, m, h, d)
           /\ Bare(reg[p][i]) /\ Bare(load[p].flows[i]) /\ Bare(making[p].f) /\ Bare(op[p].new)
<1>1. reg[p][i] = NoFlow
  BY DEF Idle
<1>2. load[p].flows = [j \in Ids |-> NoFlow]
  BY DEF Idle, NotLoading
<1>3. load[p].flows[i] = NoFlow
  BY <1>2
<1>4. op[p].new = NoFlow /\ making[p].f = NoFlow
  BY DEF Idle, NoPlan, NotMaking
<1>5. Safe(i, NoFlow, m, h, d)
  BY NoFlowBare, BareSafe
<1> QED BY <1>1, <1>3, <1>4, <1>5, NoFlowBare DEF SafeAt

LEMMA OtherIdle ==
    ASSUME ProcsOK, NEW p \in Processes, proc[p] # "down", ~Apart(p),
           NEW q \in Processes, q # p, ~Apart(q)
    PROVE  Idle(q)
BY DEF ProcsOK, Apart, Processes

(***************************************************************************)
(* A step of p that writes flow i: g to the store, h to the registry.      *)
(***************************************************************************)
Alike(f, g) == g.root = f.root /\ DOMAIN g.steps = DOMAIN f.steps

Edits(p, i, g, h) ==
    /\ \/ store' = store
       \/ store' = [store EXCEPT ![i] = g] /\ (Apart(p) => Root(i, g) \in mixed')
    /\ reg' = reg \/ reg' = [reg EXCEPT ![p][i] = h]
    /\ i \in Ids => Alike(reg[p][i], g) /\ Alike(reg[p][i], h)
    /\ load'[p].flows = load[p].flows \/ load'[p].flows = NotLoading.flows
    /\ making' = making /\ given' = given /\ mixed \subseteq mixed'
    /\ \A k \in Ids : Adds(op'[p], k) => Adds(op[p], k) /\ op'[p].new = op[p].new

LEMMA EditRoots ==
    ASSUME FlowInv, RootsOK, NEW p \in Processes, Acts(p), NEW i, NEW g, NEW h, Edits(p, i, g, h),
           \A x \in held' \cup finished' : x \in held \cup finished \/ x[1] \in 0..given
    PROVE  RootsOK'
<1>1. ASSUME NEW j \in Ids, NEW f \in Copies(j)' PROVE From(f, Copies(j))
  <2>1. i \in Ids => /\ reg[p][i] \in Copies(i)
                     /\ Bare(g) <=> Bare(reg[p][i])
                     /\ Bare(h) <=> Bare(reg[p][i])
                     /\ g.root = reg[p][i].root /\ h.root = reg[p][i].root
    BY CopiesAre DEF Edits, Alike, Bare
  <2>2. i \in Ids => From(g, Copies(i)) /\ From(h, Copies(i))
    BY <2>1, FromOld
  <2>3. \A k \in Copies(j) : From(k, Copies(j))
    BY FromOld
  <2>4. CASE f = store'[j]
    <3>1. store'[j] = store[j] \/ (j = i /\ store'[j] = g)
      BY <1>1, Parts DEF Edits, StoreGood
    <3> QED BY <1>1, <2>2, <2>3, <2>4, <3>1, CopiesAre
  <2>5. ASSUME NEW q \in Processes,
               \/ f = reg'[q][j] \/ f = load'[q].flows[j]
               \/ making'[q].id = j /\ f = making'[q].f
               \/ Adds(op'[q], j) /\ f = op'[q].new
        PROVE  From(f, Copies(j))
    <3>1. reg'[q][j] = reg[q][j] \/ (q = p /\ j = i /\ reg'[q][j] = h)
      BY <1>1, Parts DEF Edits, RegGood
    <3>2. load'[q].flows[j] = load[q].flows[j] \/ load'[q].flows[j] = NoFlow
      <4>1. load'[q].flows = load[q].flows \/ load'[q].flows = NotLoading.flows
        BY DEF Edits, Acts
      <4>2. NotLoading.flows = [k \in Ids |-> NoFlow]
        BY DEF NotLoading
      <4> QED BY <1>1, <4>1, <4>2
    <3>3. making'[q] = making[q]
      BY DEF Edits
    <3>4. Adds(op'[q], j) => Adds(op[q], j) /\ op'[q].new = op[q].new
      BY <1>1 DEF Edits, Acts
    <3>5. CASE f = reg'[q][j]
      BY <1>1, <2>2, <2>3, <3>1, <3>5, CopiesAre
    <3>6. CASE f = load'[q].flows[j]
      BY <1>1, <2>3, <3>2, <3>6, CopiesAre, NoFlowBare DEF From
    <3>7. CASE making'[q].id = j /\ f = making'[q].f
      BY <1>1, <2>3, <3>3, <3>7, CopiesAre
    <3>8. CASE Adds(op'[q], j) /\ f = op'[q].new
      BY <1>1, <2>3, <3>4, <3>8, CopiesAre
    <3> QED BY <2>5, <3>5, <3>6, <3>7, <3>8
  <2> QED BY <1>1, <2>4, <2>5, CopyIs
<1>2. given' = given /\ given \in Nat
  BY DEF Edits, RootsOK
<1>3. given' \in Nat /\ given <= given'
  BY <1>2
<1>4. \A x \in held' \cup finished' : x \in held \cup finished \/ x[1] \in 0..given'
  BY <1>2
<1> QED BY <1>1, <1>3, <1>4, RootsStay

LEMMA EditNew ==
    ASSUME FlowInv, NewOK, NEW p \in Processes, Acts(p), NEW i, NEW g, NEW h, Edits(p, i, g, h)
    PROVE  NewOK'
<1> SUFFICES ASSUME NEW q \in Processes, NEW j \in Ids, Adds(op'[q], j) PROVE Bare(reg'[q][j])
  BY DEF NewOK
<1>1. Adds(op[q], j)
  BY DEF Edits, Acts
<1>2. reg'[q][j] = reg[q][j] \/ (q = p /\ j = i /\ reg'[q][j] = h)
  BY Parts DEF Edits, RegGood
<1>3. Bare(reg[q][j])
  BY <1>1 DEF NewOK
<1> QED BY <1>2, <1>3 DEF Edits, Alike, Bare

(***************************************************************************)
(* Nothing new is handed out or done.                                      *)
(***************************************************************************)
LEMMA EditSafe ==
    ASSUME FlowInv, SafeOK, NEW p \in Processes, Acts(p), NEW i, NEW g, NEW h, Edits(p, i, g, h),
           held' \subseteq held, finished' \subseteq finished,
           i \in Ids /\ Safe(i, reg[p][i], mixed, held, finished) =>
               Safe(i, g, mixed', held', finished') /\ Safe(i, h, mixed', held', finished')
    PROVE  SafeOK'
<1> SUFFICES ASSUME NEW j \in Ids
             PROVE  /\ Safe(j, store'[j], mixed', held', finished')
                    /\ \A q \in Processes : Apart(q)' \/ SafeAt(q, j, mixed, held, finished)'
  BY DEF SafeOK
<1>0. PICK m, a, d : m = mixed' /\ a = held' /\ d = finished'
  OBVIOUS
<1>1. \A f : Safe(j, f, mixed, held, finished) => Safe(j, f, m, a, d)
  <2>1. mixed \subseteq m /\ a \subseteq held /\ d \subseteq finished
    BY <1>0 DEF Edits
  <2> QED BY <2>1, SafeStays
<1>2. i \in Ids /\ ~Apart(p) => Safe(i, g, m, a, d) /\ Safe(i, h, m, a, d)
  <2>1. i \in Ids /\ ~Apart(p) => Safe(i, reg[p][i], mixed, held, finished)
    BY DEF SafeOK, SafeAt
  <2> QED BY <1>0, <2>1
<1>3. Safe(j, store'[j], m, a, d)
  <2>1. CASE store'[j] = store[j]
    BY <1>1, <2>1 DEF SafeOK
  <2>2. CASE store'[j] # store[j]
    <3>1. j = i /\ store'[j] = g /\ (Apart(p) => Root(i, g) \in m)
      BY <1>0, <2>2, Parts DEF Edits, StoreGood
    <3> QED BY <1>2, <3>1 DEF Safe
  <2> QED BY <2>1, <2>2
<1>4. ASSUME NEW q \in Processes, ~Apart(q)' PROVE SafeAt(q, j, mixed, held, finished)'
  <2>1. ~Apart(q) /\ SafeAt(q, j, mixed, held, finished)
    BY <1>4 DEF Acts, Apart, SafeOK
  <2>2. reg'[q][j] = reg[q][j] \/ (q = p /\ j = i /\ reg'[q][j] = h)
    BY Parts DEF Edits, RegGood
  <2>3. Safe(j, reg'[q][j], m, a, d)
    BY <1>1, <1>2, <2>1, <2>2 DEF SafeAt
  <2>4. Bare(reg'[q][j]) <=> Bare(reg[q][j])
    BY <2>2 DEF Edits, Alike, Bare
  <2>5. load'[q].flows[j] = load[q].flows[j] \/ load'[q].flows[j] = NoFlow
    <3>1. load'[q].flows = load[q].flows \/ load'[q].flows = NotLoading.flows
      BY DEF Edits, Acts
    <3>2. NotLoading.flows = [k \in Ids |-> NoFlow]
      BY DEF NotLoading
    <3> QED BY <3>1, <3>2
  <2>6. Safe(j, NoFlow, m, a, d)
    BY NoFlowBare, BareSafe
  <2>7. Bare(reg'[q][j]) => /\ Safe(j, load'[q].flows[j], m, a, d)
                            /\ making'[q].id = j => Safe(j, making'[q].f, m, a, d)
    BY <1>1, <2>1, <2>4, <2>5, <2>6 DEF SafeAt, Edits
  <2>8. Adds(op'[q], j) => Adds(op[q], j) /\ op'[q].new = op[q].new
    BY DEF Edits, Acts
  <2>9. Adds(op'[q], j) => Safe(j, op'[q].new, m, a, d)
    BY <1>1, <2>1, <2>8 DEF SafeAt
  <2> QED BY <1>0, <2>3, <2>7, <2>9 DEF SafeAt
<1> QED BY <1>0, <1>3, <1>4

LEMMA CopiesThen ==
    ASSUME NEW i
    PROVE  /\ store'[i] \in Copies(i)'
           /\ \A p \in Processes :
                /\ reg'[p][i] \in Copies(i)' /\ load'[p].flows[i] \in Copies(i)'
                /\ making'[p].id = i => making'[p].f \in Copies(i)'
                /\ Adds(op'[p], i) => op'[p].new \in Copies(i)'
BY DEF Copies

(***************************************************************************)
(* A step of flow i is handed out or done, and stored: either in the copy  *)
(* of the only process that does not work apart, or the loop is mixed.     *)
(***************************************************************************)
LEMMA GrowSafe ==
    ASSUME FlowInv, ProcsOK, SafeOK, RootsOK', NEW p \in Processes, Acts(p), NEW i \in Ids, NEW g,
           Edits(p, i, g, g), ~Bare(g), store' = [store EXCEPT ![i] = g],
           reg' = [reg EXCEPT ![p][i] = g], Apart(p) => Root(i, g) \in mixed',
           \A k \in Ids : ~Adds(op'[p], k),
           \A x \in held' : x \in held \/ x[1] = i,
           \A x \in finished' : x \in finished \/ x[1] = i,
           Safe(i, reg[p][i], mixed, held, finished) => Safe(i, g, mixed', held', finished')
    PROVE  SafeOK'
<1> SUFFICES ASSUME NEW j \in Ids
             PROVE  /\ Safe(j, store'[j], mixed', held', finished')
                    /\ \A q \in Processes : Apart(q)' \/ SafeAt(q, j, mixed, held, finished)'
  BY DEF SafeOK
<1>0. PICK m, a, d : m = mixed' /\ a = held' /\ d = finished'
  OBVIOUS
<1>1. /\ store'[i] = g /\ reg'[p][i] = g
      /\ \A k \in Ids : k # i => store'[k] = store[k] /\ reg'[p][k] = reg[p][k]
  BY Parts DEF StoreGood, RegGood
<1>2. CASE Root(i, g) \in m /\ i = j
  <2>1. \A f \in Copies(i)' : Safe(i, f, m, a, d)
    <3> SUFFICES ASSUME NEW f \in Copies(i)', ~Bare(f) PROVE Safe(i, f, m, a, d)
      BY BareSafe
    <3>1. g \in Copies(i)'
      BY <1>1, CopiesThen
    <3>2. f.root = g.root
      BY <3>1 DEF RootsOK
    <3> QED BY <1>2, <3>2 DEF Safe, Root
  <2>2. \A q \in Processes : SafeAt(q, i, mixed, held, finished)'
    BY <1>0, <2>1, CopiesThen DEF SafeAt
  <2> QED BY <1>0, <1>1, <1>2, <2>1, <2>2, CopiesThen
<1>3. CASE i # j
  <2>1. \A f : Safe(j, f, mixed, held, finished) => Safe(j, f, m, a, d)
    <3>1. mixed \subseteq m
      BY <1>0 DEF Edits
    <3> QED BY <1>0, <1>3, <3>1 DEF Safe, Keeps
  <2>2. ASSUME NEW q \in Processes, ~Apart(q)' PROVE SafeAt(q, j, mixed, held, finished)'
    <3>1. ~Apart(q) /\ SafeAt(q, j, mixed, held, finished)
      BY <2>2 DEF Acts, Apart, SafeOK
    <3>2. reg'[q][j] = reg[q][j] /\ making'[q] = making[q]
      BY <1>1, <1>3 DEF Acts, Edits
    <3>3. load'[q].flows[j] = load[q].flows[j] \/ load'[q].flows[j] = NoFlow
      <4>1. load'[q].flows = load[q].flows \/ load'[q].flows = NotLoading.flows
        BY DEF Edits, Acts
      <4>2. NotLoading.flows = [k \in Ids |-> NoFlow]
        BY DEF NotLoading
      <4> QED BY <4>1, <4>2
    <3>4. Safe(j, NoFlow, m, a, d)
      BY NoFlowBare, BareSafe
    <3>5. Adds(op'[q], j) => Adds(op[q], j) /\ op'[q].new = op[q].new
      BY DEF Edits, Acts
    <3> QED BY <1>0, <2>1, <3>1, <3>2, <3>3, <3>4, <3>5 DEF SafeAt
  <2>3. Safe(j, store'[j], m, a, d)
    BY <1>1, <1>3, <2>1 DEF SafeOK
  <2> QED BY <1>0, <2>2, <2>3
<1>4. CASE ~Apart(p) /\ i = j
  <2>1. Safe(i, g, m, a, d)
    <3>1. Safe(i, reg[p][i], mixed, held, finished)
      BY <1>4 DEF SafeOK, SafeAt
    <3> QED BY <1>0, <3>1
  <2>2. ASSUME NEW q \in Processes, ~Apart(q)', q # p PROVE SafeAt(q, i, mixed, held, finished)'
    <3>1. Idle(q)
      BY <1>4, <2>2, OtherIdle DEF Acts, Apart
    <3>2. SafeAt(q, i, m, a, d)
      BY <3>1, IdleSafe
    <3> QED BY <1>0, <2>2, <3>2 DEF SafeAt, Acts
  <2>3. SafeAt(p, i, mixed, held, finished)'
    BY <1>0, <1>1, <2>1 DEF SafeAt
  <2> QED BY <1>0, <1>1, <1>4, <2>1, <2>2, <2>3
<1>5. Root(i, g) \in m \/ ~Apart(p)
  BY <1>0
<1> QED BY <1>2, <1>3, <1>4, <1>5

LEMMA QuietEdit ==
    ASSUME FlowInv, ClaimInv, NEW p \in Processes, Acts(p), NEW i, NEW g, NEW h, Edits(p, i, g, h),
           held' \subseteq held, finished' \subseteq finished, twice' = twice,
           i \in Ids /\ Safe(i, reg[p][i], mixed, held, finished) =>
               Safe(i, g, mixed', held', finished') /\ Safe(i, h, mixed', held', finished')
    PROVE  ClaimInv'
<1>1. ProcsOK' /\ NewOK' /\ SafeOK'
  BY ProcsStay, EditNew, EditSafe DEF ClaimInv
<1>2. RootsOK'
  <2>1. \A x \in held' \cup finished' : x \in held \cup finished
    OBVIOUS
  <2> QED BY <2>1, EditRoots DEF ClaimInv
<1> QED BY <1>1, <1>2 DEF ClaimInv

LEMMA SteadyEdit ==
    ASSUME FlowInv, ClaimInv, NEW p \in Processes, Acts(p), NEW i, NEW g, NEW h,
           held' \subseteq held, finished' \subseteq finished, twice' = twice,
           UNCHANGED <<store, mixed>> \/ \E o : Persist(p, i, g, o),
           reg' = reg \/ reg' = [reg EXCEPT ![p][i] = h],
           i \in Ids => Steady(reg[p][i], g) /\ Steady(reg[p][i], h),
           load' = load \/ load'[p].flows = load[p].flows \/ load'[p].flows = NotLoading.flows,
           making' = making, given' = given,
           \A k \in Ids : Adds(op'[p], k) => Adds(op[p], k) /\ op'[p].new = op[p].new
    PROVE  ClaimInv'
<1>1. mixed \subseteq mixed'
  BY DEF Persist
<1>2. Edits(p, i, g, h)
  <2>1. \/ store' = store
        \/ store' = [store EXCEPT ![i] = g] /\ (Apart(p) => Root(i, g) \in mixed')
    BY DEF Persist, Apart
  <2>2. i \in Ids => Alike(reg[p][i], g) /\ Alike(reg[p][i], h)
    BY DEF Steady, Alike
  <2> QED BY <1>1, <2>1, <2>2 DEF Edits
<1>3. i \in Ids /\ Safe(i, reg[p][i], mixed, held, finished) =>
          Safe(i, g, mixed', held', finished') /\ Safe(i, h, mixed', held', finished')
  BY <1>1, SteadySafe
<1> QED BY <1>2, <1>3, QuietEdit

(***************************************************************************)
(* The plan goes on or is given up; who carries it out is up.              *)
(***************************************************************************)
LEMMA DoingUp ==
    ASSUME ProcsOK, NEW p \in Processes, op[p].todo # <<>>
    PROVE  proc[p] # "down"
<1>1. NoPlan.todo = <<>>
  BY DEF NoPlan
<1> QED BY <1>1 DEF ProcsOK, Idle

LEMMA TurnActs ==
    ASSUME FlowInv, ProcsOK, NEW p \in Processes, proc[p] # "down",
           Advance(p) \/ GiveUp(p) \/ Reply(p), UNCHANGED <<shared, load, making>>,
           \E i, h : reg' = reg \/ reg' = [reg EXCEPT ![p][i] = h]
    PROVE  Acts(p) /\ \A k \in Ids : ~Adds(op'[p], k)
<1>1. \/ proc' = proc \/ proc' = [proc EXCEPT ![p] = "exiting"]
  BY DEF Advance, GiveUp, Reply, Exits
<1>2. \/ op' = [op EXCEPT ![p] = NoPlan]
      \/ op' = [op EXCEPT ![p].todo = Tail(@), ![p].new = NoFlow]
  BY DEF Advance, GiveUp, Reply
<1>3. \A q \in Processes \ {p} : op'[q] = op[q]
  BY <1>2, Parts DEF OpGood
<1>4. \A k \in Ids : ~Adds(op'[p], k)
  <2>1. CASE op' = [op EXCEPT ![p] = NoPlan]
    <3>1. op'[p] = NoPlan /\ NoPlan.todo = <<>>
      BY <2>1, Parts DEF OpGood, NoPlan
    <3> QED BY <3>1 DEF Adds
  <2>2. CASE op' = [op EXCEPT ![p].todo = Tail(@), ![p].new = NoFlow]
    <3>1. op'[p].new = NoFlow
      BY <2>2, Parts DEF OpGood, OpFields
    <3> QED BY <3>1 DEF Adds
  <2> QED BY <1>2, <2>1, <2>2
<1>5. DOMAIN proc' = Processes /\ proc'[p] # "down"
      /\ \A q \in Processes \ {p} : proc'[q] = proc[q]
  BY <1>1 DEF ProcsOK
<1>6. \A q \in Processes \ {p} : reg'[q] = reg[q]
  BY Parts DEF RegGood
<1> QED BY <1>3, <1>4, <1>5, <1>6 DEF Acts

LEMMA CallEdit ==
    ASSUME FlowInv, ClaimInv, NEW p \in Processes, proc[p] # "down", NEW i, NEW g, NEW h,
           Advance(p) \/ GiveUp(p) \/ Reply(p),
           UNCHANGED <<shared, load, making, given, twice>>,
           held' \subseteq held, finished' \subseteq finished,
           UNCHANGED <<store, mixed>> \/ \E o : Persist(p, i, g, o),
           reg' = reg \/ reg' = [reg EXCEPT ![p][i] = h],
           i \in Ids => Steady(reg[p][i], g) /\ Steady(reg[p][i], h)
    PROVE  ClaimInv'
<1>1. Acts(p) /\ \A k \in Ids : ~Adds(op'[p], k)
  BY TurnActs DEF ClaimInv
<1> QED BY <1>1, SteadyEdit

(***************************************************************************)
(* Nothing but the bounds and the clock changes.                           *)
(***************************************************************************)
LEMMA ClaimIdles ==
    ASSUME ClaimInv, UNCHANGED <<proc, shared, store, mixed, reg, load, op, making, given>>,
           UNCHANGED <<held, finished, twice>>
    PROVE  ClaimInv'
<1>1. ProcsOK'
  BY DEF ClaimInv, ProcsOK, Idle
<1>2. \A i : Copies(i)' = Copies(i)
  BY DEF Copies
<1>3. RootsOK'
  BY <1>2 DEF ClaimInv, RootsOK
<1>4. NewOK' /\ SafeOK'
  BY DEF ClaimInv, NewOK, SafeOK, SafeAt, Apart
<1> QED BY <1>1, <1>3, <1>4 DEF ClaimInv

-----------------------------------------------------------------------------
(* The actions *)

LEMMA BeginClaims ==
    ASSUME FlowInv, ClaimInv, NEW p \in Processes, NEW strict, NEW who, NEW todo,
           Begin(p, strict, who, todo)
    PROVE  ClaimInv'
<1>1. /\ UNCHANGED <<shared, store, mixed, reg, load, making, given, held, finished, twice>>
      /\ proc[p] = "serving"
  BY DEF Begin, history, Serving
<1>2. PICK i, g : g = reg[p][i] /\ Steady(reg[p][i], g)
  BY SteadySelf
<1>3. CASE Reply(p)
  BY <1>1, <1>2, <1>3, CallEdit
<1>4. CASE ~Reply(p)
  <2>1. PICK new, plan :
            /\ new = Plan(reg[p], todo)
            /\ plan = [NoPlan EXCEPT !.todo = new, !.strict = strict, !.who = who]
            /\ op' = [op EXCEPT ![p] = plan] /\ proc' = proc
    BY <1>4 DEF Begin
  <2>2. plan.new = NoFlow
    BY <2>1 DEF NoPlan
  <2>3. op'[p] = plan /\ \A q \in Processes \ {p} : op'[q] = op[q]
    BY <2>1, Parts DEF OpGood
  <2>4. Acts(p) /\ \A k \in Ids : ~Adds(op'[p], k)
    BY <1>1, <2>1, <2>2, <2>3 DEF Acts, Adds, ClaimInv, ProcsOK
  <2> QED BY <1>1, <1>2, <2>4, SteadyEdit
<1> QED BY <1>3, <1>4

LEMMA SweepClaims ==
    ASSUME FlowInv, ClaimInv, NEW p \in Processes, NEW o, Sweep(p, o)
    PROVE  ClaimInv'
<1>1. PICK i, f : i = Current(p)[2] /\ f = Swept(reg[p][i])
  OBVIOUS
<1>2. /\ reg' = [reg EXCEPT ![p][i] = f] /\ Persist(p, i, f, o)
      /\ UNCHANGED <<shared, load, making, given, held, finished, twice>>
      /\ Advance(p) \/ GiveUp(p)
  BY <1>1 DEF Sweep, Keep, history
<1>3. i \in Ids => Steady(reg[p][i], f)
  BY <1>1, CopyGood, SweptSteady
<1>4. proc[p] # "down"
  BY DoingUp DEF Sweep, Doing, ClaimInv
<1> QED BY <1>2, <1>3, <1>4, CallEdit

LEMMA CancelClaims ==
    ASSUME FlowInv, ClaimInv, NEW p \in Processes, NEW i \in Ids, NEW o, CancelFlow(p, i, o)
    PROVE  ClaimInv'
<1>1. PICK f, g : f = reg[p][i] /\ g = Cancelled(f)
  OBVIOUS
<1>2. /\ UNCHANGED <<store, mixed>> \/ Persist(p, i, g, o)
      /\ \/ reg' = reg
         \/ reg' = [reg EXCEPT ![p][i] = f] \/ reg' = [reg EXCEPT ![p][i] = g]
      /\ UNCHANGED <<shared, load, making, given, held, finished, twice>>
      /\ Reply(p) /\ proc[p] = "serving"
  BY <1>1 DEF CancelFlow, NoCall, Keep, history, Serving
<1>3. Steady(f, g) /\ Steady(f, f)
  BY <1>1, CopyGood, CancelledSteady, SteadySelf
<1> QED BY <1>1, <1>2, <1>3, CallEdit

LEMMA RollbackClaims ==
    ASSUME FlowInv, ClaimInv, NEW p \in Processes, NEW o, Rollback(p, o)
    PROVE  ClaimInv'
<1>1. PICK i, f : i = Current(p)[2] /\ f = reg[p][i]
  OBVIOUS
<1>2. /\ Persist(p, i, f, o) /\ GiveUp(p)
      /\ UNCHANGED <<shared, reg, load, making, given, held, finished, twice>>
  BY <1>1 DEF Rollback, history
<1>3. proc[p] # "down"
  BY DoingUp DEF Rollback, Doing, ClaimInv
<1> QED BY <1>1, <1>2, <1>3, SteadySelf, CallEdit

LEMMA StopClaims ==
    ASSUME FlowInv, ClaimInv, NEW p \in Processes, NEW o, Stop(p, o)
    PROVE  ClaimInv'
<1>1. PICK i, f, g : /\ i = Current(p)[2] /\ f = reg[p][i]
                     /\ g = [f EXCEPT !.stopped = TRUE, !.next = 0]
  OBVIOUS
<1>2. /\ i \in Ids
      /\ UNCHANGED <<store, mixed>> \/ Persist(p, i, g, o)
      /\ reg' = reg \/ reg' = [reg EXCEPT ![p][i] = g]
      /\ UNCHANGED <<shared, load, making, given, held, finished, twice>>
      /\ Advance(p) \/ GiveUp(p)
  <2>1. NoCall(o) \/ (Keep(p, i, g) /\ Persist(p, i, g, o))
    BY <1>1 DEF Stop
  <2>2. /\ i \in Ids /\ UNCHANGED <<shared, load, making, given, held, finished, twice>>
        /\ Advance(p) \/ GiveUp(p)
    BY <1>1 DEF Stop, Doing
  <2> QED BY <2>1, <2>2 DEF NoCall, Keep
<1>3. DOMAIN f = FlowFields
  <2>1. Good(i, f, doubtful)
    BY <1>1, <1>2, CopyGood
  <2> QED BY <2>1, GoodFields
<1>4. Steady(f, g)
  <2>1. g.root = f.root /\ g.steps = f.steps
    BY <1>1, <1>3 DEF FlowFields
  <2> QED BY <2>1, LoopSteady
<1>5. proc[p] # "down"
  BY DoingUp DEF Stop, Doing, ClaimInv
<1> QED BY <1>1, <1>2, <1>4, <1>5, CallEdit

LEMMA TickClaims ==
    ASSUME FlowInv, ClaimInv, NEW p \in Processes, NEW o, Tick(p, o)
    PROVE  ClaimInv'
<1>1. PICK i, f, g : /\ i = Current(p)[2] /\ f = reg[p][i]
                     /\ g = [f EXCEPT !.next = IF Exhausted(f) THEN 0 ELSE @ + f.body.interval]
  OBVIOUS
<1>2. PICK s, h : s = Spawned(i, f) /\ h = IF o = "ok" THEN g ELSE f
  OBVIOUS
<1>3. /\ i \in Ids /\ Persist(p, i, g, o) /\ reg' = [reg EXCEPT ![p][i] = h]
      /\ UNCHANGED <<shared, load, making, given, held, finished, twice>>
      /\ \/ Advance(p) \/ GiveUp(p)
         \/ /\ op' = [op EXCEPT ![p].todo = <<<<"spawn", i>>>> \o Tail(@), ![p].new = s]
            /\ op[p].todo # <<>> /\ proc' = proc
  BY <1>1, <1>2 DEF Tick, Doing, Keep, history
<1>4. DOMAIN f = FlowFields
  <2>1. Good(i, f, doubtful)
    BY <1>1, <1>3, CopyGood
  <2> QED BY <2>1 DEF Good, Shaped
<1>5. Steady(f, g) /\ Steady(f, h)
  <2>1. g.root = f.root /\ g.steps = f.steps
    BY <1>1, <1>4 DEF FlowFields
  <2> QED BY <1>2, <2>1, LoopSteady, SteadySelf
<1>6. proc[p] # "down"
  BY DoingUp DEF Tick, Doing, ClaimInv
<1>7. CASE Advance(p) \/ GiveUp(p)
  BY <1>1, <1>3, <1>5, <1>6, <1>7, CallEdit
<1>8. CASE ~(Advance(p) \/ GiveUp(p))
  <2>1. PICK rest : rest = Tail(op[p].todo)
    OBVIOUS
  <2>2. op'[p].todo = <<<<"spawn", i>>>> \o rest /\ \A q \in Processes \ {p} : op'[q] = op[q]
    BY <1>3, <1>8, <2>1, Parts DEF OpGood, OpFields
  <2>3. \A k \in Ids : ~Adds(op'[p], k)
    BY <1>3, <1>8, <2>1, <2>2 DEF Adds
  <2>4. Acts(p)
    BY <1>3, <1>6, <1>8, <2>2, Parts DEF Acts, RegGood, ClaimInv, ProcsOK
  <2> QED BY <1>1, <1>3, <1>5, <2>3, <2>4, SteadyEdit
<1> QED BY <1>7, <1>8

LEMMA PropagateClaims ==
    ASSUME FlowInv, ClaimInv, NEW p \in Processes, NEW o, Propagate(p, o)
    PROVE  ClaimInv'
<1>1. PICK j, f, g, n :
          /\ f = reg[p][j] /\ n = op[p].new.next /\ g = [f EXCEPT !.next = n]
          /\ Persist(p, j, g, o) /\ reg' = [reg EXCEPT ![p][j] = g]
          /\ op' = [op EXCEPT ![p].rest = @ \ {j}]
  BY DEF Propagate, Keep
<1>2. /\ UNCHANGED <<proc, shared, load, making, given, held, finished, twice>>
      /\ op[p].todo # <<>>
  BY DEF Propagate, Doing, history, life
<1>3. j \in Ids => Steady(f, g)
  <2> SUFFICES ASSUME j \in Ids PROVE Steady(f, g)
    OBVIOUS
  <2>0. Good(j, f, doubtful)
    BY <1>1, CopyGood
  <2>1. DOMAIN f = FlowFields
    BY <2>0, GoodFields
  <2>2. g.root = f.root /\ g.steps = f.steps
    BY <1>1, <2>1 DEF FlowFields
  <2> QED BY <2>2, LoopSteady
<1>4. /\ op'[p].todo = op[p].todo /\ op'[p].new = op[p].new
      /\ \A q \in Processes \ {p} : op'[q] = op[q]
  BY <1>1, Parts DEF OpGood, OpFields
<1>5. proc[p] # "down"
  BY <1>2, DoingUp DEF ClaimInv
<1>6. Acts(p)
  BY <1>1, <1>2, <1>4, <1>5, Parts DEF Acts, RegGood, ClaimInv, ProcsOK
<1>7. \A k \in Ids : Adds(op'[p], k) => Adds(op[p], k) /\ op'[p].new = op[p].new
  BY <1>4 DEF Adds
<1> QED BY <1>1, <1>2, <1>3, <1>6, <1>7, SteadyEdit

(***************************************************************************)
(* One step of the copy changes, and is handed out or done.                *)
(***************************************************************************)
LEMMA SetsSafe ==
    ASSUME NEW i, NEW f, NEW n \in DOMAIN f.steps, NEW c, NEW g, Sets(f, g, n, c),
           NEW m, NEW h, NEW d, Safe(i, f, m, h, d), NEW mm, m \subseteq mm,
           NEW hh, hh \subseteq h \cup {<<i, n>>}, <<i, n>> \in hh => c.state # "pending",
           NEW dd, dd \subseteq d \cup {<<i, n>>},
           <<i, n>> \in dd => c.state = "done" \/ <<i, n>> \in d,
           f.steps[n].state = "done" => c.state = "done"
    PROVE  Safe(i, g, mm, hh, dd)
<1>1. Root(i, g) = Root(i, f) /\ DOMAIN g.steps = DOMAIN f.steps
  BY DEF Sets, Root
<1>2. CASE Root(i, f) \in m
  BY <1>1, <1>2 DEF Safe
<1>3. ASSUME Keeps(i, f, h, d), NEW k \in DOMAIN f.steps
      PROVE  /\ <<i, k>> \in dd => g.steps[k].state = "done"
             /\ <<i, k>> \in hh => g.steps[k].state # "pending"
  <2>1. CASE k = n
    BY <1>3, <2>1 DEF Keeps, Sets
  <2>2. CASE k # n
    <3>1. <<i, k>> # <<i, n>> /\ g.steps[k] = f.steps[k]
      BY <1>3, <2>2 DEF Sets
    <3> QED BY <1>3, <3>1 DEF Keeps
  <2> QED BY <2>1, <2>2
<1> QED BY <1>1, <1>2, <1>3 DEF Safe, Keeps

LEMMA ClaimClaims ==
    ASSUME FlowInv, ClaimInv, NEW p \in Processes, NEW o, Claim(p, o)
    PROVE  ClaimInv'
<1>1. PICK i, f : i = Current(p)[2] /\ f = reg[p][i]
  OBVIOUS
<1>2. PICK w, n : w = op[p].who /\ n = FirstReady(f)
  OBVIOUS
<1>3. PICK c : c = Claimed(f.steps[n], w)
  OBVIOUS
<1>4. PICK g : g = Put(f, n, c)
  OBVIOUS
<1>5. PICK h : h = Edited(g, n, "pending", NoWorker)
  OBVIOUS
<1>6. /\ UNCHANGED <<shared, load, making, given, finished>> /\ Reply(p) /\ i \in Ids
      /\ \/ UNCHANGED <<store, mixed, reg, held, twice>>
         \/ /\ Ready(f) # {} /\ Persist(p, i, g, o)
            /\ \/ /\ o = "ok" /\ reg' = [reg EXCEPT ![p][i] = g]
                  /\ held' = held \cup {<<i, n>>}
                  /\ twice' = IF Root(i, f) \in mixed' THEN twice
                              ELSE twice \cup (held \cap {<<i, n>>})
               \/ /\ reg' = [reg EXCEPT ![p][i] = h] /\ UNCHANGED <<held, twice>>
  BY <1>1, <1>2, <1>3, <1>4, <1>5 DEF Claim, Doing, NoCall, Keep, Put, Edited
<1>7. proc[p] # "down"
  BY DoingUp DEF Claim, Doing, ClaimInv
<1>8. CASE UNCHANGED <<store, mixed, reg, held, twice>>
  BY <1>1, <1>6, <1>7, <1>8, SteadySelf, CallEdit
<1>9. CASE ~UNCHANGED <<store, mixed, reg, held, twice>>
  <2>1. Good(i, f, doubtful) /\ Ready(f) # {}
    BY <1>1, <1>6, <1>9, CopyGood
  <2>4. /\ n \in DOMAIN f.steps /\ f.steps[n].state = "pending"
        /\ Sets(f, g, n, c) /\ c.state = "claimed"
        /\ \E r : Sets(g, h, n, r) /\ Resembles(r, c) /\ r.state = "pending"
    BY <1>2, <1>3, <1>4, <1>5, <2>1, ClaimMakes
  <2>5. Steady(f, g) /\ Steady(f, h) /\ Alike(f, g)
    BY <2>4 DEF Sets, Steady, Alike
  <2>6. CASE UNCHANGED <<held, twice>>
    <3>1. PICK k : reg' = [reg EXCEPT ![p][i] = k] /\ Steady(f, k)
      BY <1>6, <1>9, <2>5
    <3> QED BY <1>1, <1>6, <1>7, <1>9, <2>5, <2>6, <3>1, CallEdit
  <2>7. CASE ~UNCHANGED <<held, twice>>
    <3>1. /\ Persist(p, i, g, o) /\ o = "ok" /\ reg' = [reg EXCEPT ![p][i] = g]
          /\ held' = held \cup {<<i, n>>}
          /\ twice' = IF Root(i, f) \in mixed' THEN twice
                      ELSE twice \cup (held \cap {<<i, n>>})
      BY <1>6, <1>9, <2>7
    <3>2. /\ store' = [store EXCEPT ![i] = g] /\ mixed \subseteq mixed'
          /\ Apart(p) => Root(i, g) \in mixed'
      BY <3>1 DEF Persist, Apart
    <3>3. Acts(p) /\ \A k \in Ids : ~Adds(op'[p], k)
      BY <1>6, <1>7, <3>1, TurnActs DEF ClaimInv
    <3>4. Edits(p, i, g, g)
      BY <1>1, <1>6, <2>5, <3>1, <3>2, <3>3 DEF Edits
    <3>5. \A x \in held' \cup finished' : x \in held \cup finished \/ x[1] \in 0..given
      <4>1. i <= given /\ i \in Nat /\ given \in Nat
        <5>1. ~Bare(f) /\ f \in Copies(i)
          BY <1>1, <2>4, CopiesAre DEF Bare
        <5> QED BY <1>6, <5>1, FlowAssumption DEF ClaimInv, RootsOK
      <4> QED BY <1>6, <3>1, <4>1
    <3>6. RootsOK'
      BY <3>3, <3>4, <3>5, EditRoots DEF ClaimInv
    <3>7. Safe(i, f, mixed, held, finished) => Safe(i, g, mixed', held', finished')
      <4>1. PICK m, a, d : m = mixed' /\ a = held' /\ d = finished'
        OBVIOUS
      <4>2. /\ mixed \subseteq m /\ a \subseteq held \cup {<<i, n>>}
            /\ d \subseteq finished \cup {<<i, n>>}
            /\ <<i, n>> \in a => c.state # "pending"
            /\ <<i, n>> \in d => c.state = "done" \/ <<i, n>> \in finished
            /\ f.steps[n].state = "done" => c.state = "done"
        BY <1>6, <2>4, <3>1, <3>2, <4>1
      <4>3. Safe(i, f, mixed, held, finished) => Safe(i, g, m, a, d)
        BY <2>4, <4>2, SetsSafe
      <4> QED BY <4>1, <4>3
    <3>8. ~Bare(g)
      BY <2>4 DEF Bare, Sets
    <3>9. SafeOK'
      <4>1. \A x \in held' : x \in held \/ x[1] = i
        BY <3>1
      <4> QED BY <1>1, <1>6, <3>1, <3>2, <3>3, <3>4, <3>6, <3>7, <3>8, <4>1, GrowSafe DEF ClaimInv
    <3>10. twice' = {}
      <4>1. ASSUME Root(i, f) \notin mixed' PROVE <<i, n>> \notin held
        <5>1. ~Apart(p) /\ Root(i, f) \notin mixed
          BY <2>5, <3>2, <4>1 DEF Alike, Root
        <5>2. Safe(i, f, mixed, held, finished)
          BY <1>1, <1>6, <5>1 DEF ClaimInv, SafeOK, SafeAt
        <5> QED BY <2>4, <5>1, <5>2 DEF Safe, Keeps
      <4> QED BY <3>1, <4>1 DEF ClaimInv
    <3> QED BY <3>3, <3>4, <3>6, <3>9, <3>10, ProcsStay, EditNew DEF ClaimInv
  <2> QED BY <2>6, <2>7
<1> QED BY <1>8, <1>9

LEMMA StepDoClaims ==
    ASSUME FlowInv, ClaimInv, NEW p \in Processes, NEW i \in Ids, NEW n \in DOMAIN reg[p][i].steps,
           NEW action \in DOMAIN StateAfter, NEW o, StepDo(p, i, n, action, o)
    PROVE  ClaimInv'
<1>1. PICK f : f = reg[p][i]
  OBVIOUS
<1>2. PICK c, u : Cleared(f, n, action, c, u)
  BY DEF Cleared
<1>3. PICK y : y = IF action = "unclaim" THEN NoWorker ELSE u.steps[n].owner
  OBVIOUS
<1>4. PICK st : st = StateAfter[action]
  OBVIOUS
<1>5. PICK g : g = Edited(u, n, st, y)
  OBVIOUS
<1>6. /\ UNCHANGED <<shared, load, making, given, twice>> /\ Reply(p) /\ Allowed(f, n, action)
      /\ Persist(p, i, g, o) /\ reg' = [reg EXCEPT ![p][i] = IF o = "ok" THEN g ELSE u]
      /\ held' = IF action = "done" THEN held ELSE held \ {<<i, n>>}
      /\ finished' = IF action = "done" /\ o = "ok" THEN finished \cup {<<i, n>>} ELSE finished
      /\ proc[p] = "serving"
  BY <1>1, <1>2, <1>3, <1>4, <1>5 DEF StepDo, Keep, Serving, Cleared, Put, Edited
<1>7. Good(i, f, doubtful) /\ n \in DOMAIN f.steps
  BY <1>1, CopyGood
<1>8. PICK r : /\ Sets(f, u, n, c) /\ c.state = f.steps[n].state
               /\ Sets(u, g, n, r) /\ r.state = StateAfter[action]
  <2>1. \E r : Sets(u, g, n, r) /\ r.state = st
    BY <1>2, <1>5, <1>7, StepDoMakes
  <2>2. Sets(f, u, n, c) /\ c.state = f.steps[n].state
    BY <1>2, <1>5, <1>7, StepDoMakes
  <2> QED BY <1>4, <2>1, <2>2
<1>9. Sets(f, g, n, r) /\ Steady(f, u) /\ Alike(f, u) /\ Alike(f, g)
  BY <1>8 DEF Sets, Steady, Alike
<1>10. /\ f.steps[n].state = "done" => r.state = "done"
       /\ action = "done" => r.state = "done"
       /\ action = "failed" => r.state = "failed"
  <2>1. action \in {"done", "failed", "unclaim"}
    BY DEF StateAfter
  <2>2. CASE action = "done"
    BY <1>8, <2>2 DEF StateAfter
  <2>3. CASE action = "failed"
    BY <1>6, <1>8, <2>3 DEF StateAfter, Allowed
  <2>4. CASE action = "unclaim"
    BY <1>6, <2>4 DEF Allowed
  <2> QED BY <2>1, <2>2, <2>3, <2>4
<1>11. PICK m, a, d : m = mixed' /\ a = held' /\ d = finished'
  OBVIOUS
<1>12. Safe(i, f, mixed, held, finished) => Safe(i, g, m, a, d) /\ (o # "ok" => Safe(i, u, m, a, d))
  <2>1. mixed \subseteq m
    BY <1>6, <1>11 DEF Persist
  <2>2. /\ a \subseteq held \cup {<<i, n>>} /\ d \subseteq finished \cup {<<i, n>>}
        /\ <<i, n>> \in a => r.state # "pending"
        /\ <<i, n>> \in d => r.state = "done" \/ <<i, n>> \in finished
    <3>1. action \in {"done", "failed", "unclaim"}
      BY DEF StateAfter
    <3> QED BY <1>6, <1>10, <1>11, <3>1
  <2>3. Safe(i, f, mixed, held, finished) => Safe(i, g, m, a, d)
    BY <1>7, <1>9, <1>10, <2>1, <2>2, SetsSafe
  <2>4. o # "ok" => a \subseteq held /\ d \subseteq finished
    BY <1>6, <1>11
  <2> QED BY <1>9, <2>1, <2>3, <2>4, SteadySafe
<1>13. PICK h : h = IF o = "ok" THEN g ELSE u
  OBVIOUS
<1>14. Acts(p) /\ \A k \in Ids : ~Adds(op'[p], k)
  BY <1>6, <1>13, TurnActs DEF ClaimInv
<1>15. /\ Edits(p, i, g, h) /\ (Apart(p) => Root(i, g) \in mixed')
       /\ o # "refused" => store' = [store EXCEPT ![i] = g]
  <2>1. /\ mixed \subseteq mixed' /\ (Apart(p) => Root(i, g) \in mixed')
        /\ store' = store \/ store' = [store EXCEPT ![i] = g]
        /\ o # "refused" => store' = [store EXCEPT ![i] = g]
    BY <1>6 DEF Persist, Apart
  <2>2. reg' = [reg EXCEPT ![p][i] = h] /\ Alike(f, h) /\ Alike(f, g)
    BY <1>6, <1>9, <1>13
  <2> QED BY <1>1, <1>6, <1>14, <2>1, <2>2 DEF Edits
<1>16. CASE ~(action = "done" /\ o = "ok")
  <2>1. held' \subseteq held /\ finished' \subseteq finished
    BY <1>6, <1>16
  <2>2. Safe(i, f, mixed, held, finished) =>
            Safe(i, g, mixed', held', finished') /\ Safe(i, h, mixed', held', finished')
    BY <1>11, <1>12, <1>13
  <2> QED BY <1>1, <1>6, <1>14, <1>15, <2>1, <2>2, QuietEdit
<1>17. CASE action = "done" /\ o = "ok"
  <2>1. /\ h = g /\ held' = held /\ finished' = finished \cup {<<i, n>>}
        /\ store' = [store EXCEPT ![i] = g] /\ reg' = [reg EXCEPT ![p][i] = g]
    BY <1>6, <1>13, <1>15, <1>17
  <2>2. \A x \in held' \cup finished' : x \in held \cup finished \/ x[1] \in 0..given
    <3>1. i <= given /\ i \in Nat /\ given \in Nat
      <4>1. ~Bare(f) /\ f \in Copies(i)
        BY <1>1, <1>7, CopiesAre DEF Bare
      <4> QED BY <4>1, FlowAssumption DEF ClaimInv, RootsOK
    <3> QED BY <2>1, <3>1
  <2>3. RootsOK'
    BY <1>14, <1>15, <2>1, <2>2, EditRoots DEF ClaimInv
  <2>4. ~Bare(g)
    BY <1>7, <1>9 DEF Bare, Alike
  <2>5. Safe(i, f, mixed, held, finished) => Safe(i, g, mixed', held', finished')
    BY <1>11, <1>12
  <2>6. \A x \in finished' : x \in finished \/ x[1] = i
    BY <2>1
  <2>7. SafeOK'
    <3>1. \A x \in held' : x \in held \/ x[1] = i
      BY <2>1
    <3>2. Safe(i, reg[p][i], mixed, held, finished) => Safe(i, g, mixed', held', finished')
      BY <1>1, <2>5
    <3>3. Edits(p, i, g, g)
      BY <1>15, <2>1
    <3> QED BY <1>14, <1>15, <2>1, <2>3, <2>4, <2>6, <3>1, <3>2, <3>3, GrowSafe DEF ClaimInv
  <2> QED BY <1>6, <1>14, <1>15, <2>1, <2>3, <2>7, ProcsStay, EditNew DEF ClaimInv
<1> QED BY <1>16, <1>17

(***************************************************************************)
(* A new id, k, is given out, to the record s: it is stored, or held for   *)
(* its registration.  No step of it was handed out or done.                *)
(***************************************************************************)
LEMMA FreshSafe ==
    ASSUME RootsOK, NEW k, k \in Nat, given < k, NEW f, NEW m
    PROVE  Safe(k, f, m, held, finished)
<1> SUFFICES ASSUME NEW n, <<k, n>> \in held \cup finished PROVE FALSE
  BY DEF Safe, Keeps
<1>1. <<k, n>>[1] \in 0..given /\ <<k, n>>[1] = k
  BY DEF RootsOK
<1> QED BY <1>1 DEF RootsOK

LEMMA FreshClaims ==
    ASSUME FlowInv, ClaimInv, NEW p \in Processes, Acts(p), NEW s, NEW k,
           k = given + 1, given' = k,
           \A j \in Ids : store'[j] = store[j] \/ (j = k /\ store'[j] = s),
           mixed \subseteq mixed', UNCHANGED <<held, finished, twice, load>>,
           \A q \in Processes, j \in Ids : Steady(reg[q][j], reg'[q][j]),
           \A q \in Processes : \/ making'[q] = making[q]
                                \/ making'[q].id = k /\ making'[q].f = s,
           \A j \in Ids : Adds(op'[p], j) =>
               \/ Adds(op[p], j) /\ op'[p].new = op[p].new
               \/ j = k /\ op'[p].new = s
    PROVE  ClaimInv'
<1>0. PICK m, c : m = mixed' /\ c = s.root
  OBVIOUS
<1>1. given \in Nat /\ k \in Nat /\ given < k /\ RootsOK
  BY DEF ClaimInv, RootsOK
<1>5. ASSUME NEW q \in Processes, NEW j \in Ids, Adds(op'[q], j)
      PROVE  \/ Adds(op[q], j) /\ op'[q].new = op[q].new
             \/ j = k /\ op'[q].new = s
  BY <1>5 DEF Acts
<1>6. RootsOK'
  <2>1. ASSUME NEW j \in Ids, NEW f \in Copies(j)'
        PROVE  From(f, Copies(j)) \/ (given < j /\ j = given' /\ f.root = c)
    <3>1. \A g \in Copies(j) : From(g, Copies(j))
      BY FromOld
    <3>2. CASE f = store'[j]
      BY <1>0, <1>1, <2>1, <3>1, <3>2, CopiesAre
    <3>3. ASSUME NEW q \in Processes,
                 \/ f = reg'[q][j] \/ f = load'[q].flows[j]
                 \/ making'[q].id = j /\ f = making'[q].f
                 \/ Adds(op'[q], j) /\ f = op'[q].new
          PROVE  From(f, Copies(j)) \/ (given < j /\ j = given' /\ f.root = c)
      <4>1. CASE f = reg'[q][j]
        <5>1. reg[q][j] \in Copies(j) /\ From(reg[q][j], Copies(j))
          BY <2>1, <3>1, CopiesAre
        <5>2. Steady(reg[q][j], f)
          BY <2>1, <4>1
        <5> QED BY <5>1, <5>2, FromOld DEF Steady, Bare
      <4>2. CASE f = load'[q].flows[j]
        BY <3>1, <4>2, CopiesAre
      <4>3. CASE making'[q].id = j /\ f = making'[q].f
        BY <1>0, <1>1, <3>1, <4>3, CopiesAre
      <4>4. CASE Adds(op'[q], j) /\ f = op'[q].new
        BY <1>0, <1>1, <1>5, <2>1, <3>1, <4>4, CopiesAre
      <4> QED BY <3>3, <4>1, <4>2, <4>3, <4>4
    <3> QED BY <2>1, <3>2, <3>3, CopyIs
  <2>2. given' \in Nat /\ given <= given'
    BY <1>1
  <2> QED BY <1>1, <2>1, <2>2, RootsStay
<1>7. NewOK'
  <2> SUFFICES ASSUME NEW q \in Processes, NEW j \in Ids, Adds(op'[q], j) PROVE Bare(reg'[q][j])
    BY DEF NewOK
  <2>1. Bare(reg[q][j])
    <3>1. CASE Adds(op[q], j)
      BY <3>1 DEF ClaimInv, NewOK
    <3>2. CASE j = k
      BY <1>1, <3>2, CopiesAre DEF RootsOK
    <3> QED BY <1>5, <3>1, <3>2
  <2> QED BY <2>1 DEF Steady, Bare
<1>8. \A j \in Ids : \A f : Safe(j, f, mixed, held, finished) => Safe(j, f, m, held, finished)
  BY <1>0, SafeStays
<1>9. ASSUME NEW j \in Ids
      PROVE  /\ Safe(j, store'[j], m, held, finished)
             /\ \A q \in Processes : Apart(q)' \/ SafeAt(q, j, mixed, held, finished)'
  <2>1. CASE j = k
    <3>1. \A f : Safe(j, f, m, held, finished)
      BY <1>1, <2>1, FreshSafe
    <3>2. \A q \in Processes : SafeAt(q, j, mixed, held, finished)'
      BY <1>0, <3>1 DEF SafeAt
    <3> QED BY <3>1, <3>2
  <2>2. CASE j # k
    <3>1. Safe(j, store'[j], m, held, finished)
      BY <1>8, <1>9, <2>2 DEF ClaimInv, SafeOK
    <3>2. ASSUME NEW q \in Processes, ~Apart(q)' PROVE SafeAt(q, j, mixed, held, finished)'
      <4>1. SafeAt(q, j, mixed, held, finished)
        BY <1>9, <3>2 DEF Acts, Apart, ClaimInv, SafeOK
      <4>2. Safe(j, reg[q][j], m, held, finished)
        BY <1>8, <4>1 DEF SafeAt
      <4>3. \A r : Steady(reg[q][j], r) => Safe(j, r, m, held, finished)
        BY <4>2, SteadySafe
      <4>4. /\ Safe(j, reg'[q][j], m, held, finished)
            /\ Bare(reg'[q][j]) => Bare(reg[q][j])
        <5>1. Steady(reg[q][j], reg'[q][j])
          BY <1>9
        <5> QED BY <4>3, <5>1 DEF Steady, Bare
      <4>5. Bare(reg'[q][j]) => /\ Safe(j, load'[q].flows[j], m, held, finished)
                                /\ making'[q].id = j => Safe(j, making'[q].f, m, held, finished)
        BY <1>8, <2>2, <4>1, <4>4 DEF SafeAt
      <4>6. Adds(op'[q], j) => Safe(j, op'[q].new, m, held, finished)
        BY <1>5, <1>8, <2>2, <4>1 DEF SafeAt
      <4> QED BY <1>0, <4>4, <4>5, <4>6 DEF SafeAt
    <3> QED BY <3>1, <3>2
  <2> QED BY <2>1, <2>2
<1>10. SafeOK'
  BY <1>0, <1>9 DEF SafeOK
<1> QED BY <1>6, <1>7, <1>10, ProcsStay DEF ClaimInv

(* the first element of a list whose first element was exchanged *)
LEMMA FirstIs ==
    ASSUME NEW x, NEW s
    PROVE  (<<x>> \o Tail(s))[1] = x
OBVIOUS

LEMMA SpawnClaims ==
    ASSUME FlowInv, ClaimInv, NEW p \in Processes, NEW o, Spawn(p, o)
    PROVE  ClaimInv'
<1>1. PICK i, f, h : /\ i = Current(p)[2] /\ f = reg[p][i]
                     /\ h = [f EXCEPT !.next = @ - f.body.interval]
  OBVIOUS
<1>2. PICK k, s : k = given' /\ s = op[p].new
  OBVIOUS
<1>3. /\ i \in Ids /\ k = given + 1 /\ Persist(p, k, s, o) /\ op[p].todo # <<>>
      /\ reg' = reg \/ reg' = [reg EXCEPT ![p][i] = h]
      /\ UNCHANGED <<proc, shared, load, making, held, finished, twice>>
      /\ \/ op' = [op EXCEPT ![p].todo = <<<<"register", k>>>> \o Tail(@),
                             ![p].rest = LoopOf(reg[p], i) \ {i}]
         \/ op' = [op EXCEPT ![p].todo = <<<<"rollback", i>>>> \o Tail(@)]
  BY <1>1, <1>2 DEF Spawn, Doing, Keep, life
<1>4. Steady(f, h)
  <2>1. Good(i, f, doubtful)
    BY <1>1, <1>3, CopyGood
  <2>2. h.root = f.root /\ h.steps = f.steps
    BY <1>1, <2>1 DEF FlowFields, Good, Shaped
  <2> QED BY <2>2, LoopSteady
<1>5. PICK rest : rest = Tail(op[p].todo)
  OBVIOUS
<1>6. /\ \/ op'[p].todo = <<<<"register", k>>>> \o rest
         \/ op'[p].todo = <<<<"rollback", i>>>> \o rest
      /\ op'[p].new = s /\ \A q \in Processes \ {p} : op'[q] = op[q]
  <2>1. OpGood
    BY Parts
  <2>2. CASE op' = [op EXCEPT ![p].todo = <<<<"register", k>>>> \o Tail(@),
                              ![p].rest = LoopOf(reg[p], i) \ {i}]
    BY <1>2, <1>5, <2>1, <2>2 DEF OpGood, OpFields
  <2>3. CASE op' = [op EXCEPT ![p].todo = <<<<"rollback", i>>>> \o Tail(@)]
    BY <1>2, <1>5, <2>1, <2>3 DEF OpGood, OpFields
  <2> QED BY <1>3, <2>2, <2>3
<1>7. \A j \in Ids : Adds(op'[p], j) => j = k /\ op'[p].new = s
  <2>1. CASE op'[p].todo = <<<<"register", k>>>> \o rest
    <3>1. op'[p].todo[1] = <<"register", k>>
      BY <1>5, <2>1, FirstIs
    <3> QED BY <1>6, <3>1 DEF Adds
  <2>2. CASE op'[p].todo = <<<<"rollback", i>>>> \o rest
    <3>1. op'[p].todo[1] = <<"rollback", i>>
      BY <1>5, <2>2, FirstIs
    <3> QED BY <3>1 DEF Adds
  <2> QED BY <1>6, <2>1, <2>2
<1>8. Acts(p)
  <2>1. proc[p] # "down"
    BY <1>3, DoingUp DEF ClaimInv
  <2> QED BY <1>3, <1>6, <2>1, Parts DEF Acts, RegGood, ClaimInv, ProcsOK
<1>9. \A j \in Ids : store'[j] = store[j] \/ (j = k /\ store'[j] = s)
  BY <1>3, Parts DEF Persist, StoreGood
<1>10. mixed \subseteq mixed' /\ k = given + 1 /\ given' = k
  BY <1>2, <1>3 DEF Persist
<1>11. f = reg[p][i]
  BY <1>1
<1>12. \A q \in Processes, j \in Ids : Steady(reg[q][j], reg'[q][j])
  <2>1. reg' = reg \/ reg' = [reg EXCEPT ![p][i] = h]
    BY <1>3
  <2>2. \A q \in Processes, j \in Ids :
            reg'[q][j] = reg[q][j] \/ (q = p /\ j = i /\ reg'[q][j] = h)
    BY <2>1, Parts DEF RegGood
  <2> QED BY <1>4, <1>11, <2>2, SteadySelf
<1>13. UNCHANGED <<held, finished, twice, load>> /\ \A q \in Processes : making'[q] = making[q]
  BY <1>3
<1> QED BY <1>7, <1>8, <1>9, <1>10, <1>12, <1>13, FreshClaims

LEMMA CreateClaims ==
    ASSUME FlowInv, ClaimInv, NEW p \in Processes, NEW b, NEW o, CreatePersist(p, b, o)
    PROVE  ClaimInv'
<1>1. PICK s, k : s = NewFlow(b) /\ k = given'
  OBVIOUS
<1>2. /\ k = given + 1 /\ Persist(p, k, s, o) /\ proc[p] = "serving"
      /\ UNCHANGED <<shared, reg, load, op, held, finished, twice>>
      /\ making' = making \/ making' = [making EXCEPT ![p] = [id |-> k, f |-> s]]
      /\ proc' = proc \/ Exits(p)
  BY <1>1 DEF CreatePersist, history
<1>3. /\ \A j \in Ids : store'[j] = store[j] \/ (j = k /\ store'[j] = s)
      /\ mixed \subseteq mixed'
  BY <1>2, Parts DEF Persist, StoreGood
<1>4. \A q \in Processes : \/ making'[q] = making[q]
                           \/ q = p /\ making'[q].id = k /\ making'[q].f = s
  BY <1>2, Parts DEF MakingGood
<1>5. \A q \in Processes, j \in Ids : Steady(reg[q][j], reg'[q][j])
  BY <1>2, SteadySelf
<1>6. Acts(p)
  <2>1. \A q \in Processes \ {p} : making'[q] = making[q]
    BY <1>2, Parts DEF MakingGood
  <2>2. DOMAIN proc' = Processes /\ proc'[p] # "down"
        /\ \A q \in Processes \ {p} : proc'[q] = proc[q]
    BY <1>2 DEF Exits, ClaimInv, ProcsOK
  <2> QED BY <1>2, <2>1, <2>2 DEF Acts
<1>7. \A j \in Ids : Adds(op'[p], j) => Adds(op[p], j) /\ op'[p].new = op[p].new
  BY <1>2
<1> QED BY <1>1, <1>2, <1>3, <1>4, <1>5, <1>6, <1>7, FreshClaims

(***************************************************************************)
(* A step that neither stores nor hands out anything: what process p       *)
(* registers, loads or has created, it had a copy of.                      *)
(***************************************************************************)
LEMMA MoveClaims ==
    ASSUME FlowInv, ClaimInv, NEW p \in Processes, Acts(p),
           UNCHANGED <<store, mixed, given, held, finished, twice>>,
           \A j \in Ids :
               \/ reg'[p][j] = reg[p][j]
               \/ /\ Bare(reg[p][j]) /\ From(reg'[p][j], Copies(j))
                  /\ ~Apart(p) => Safe(j, reg'[p][j], mixed, held, finished),
           \A j \in Ids :
               /\ From(load'[p].flows[j], Copies(j))
               /\ ~Apart(p) /\ Bare(reg[p][j]) => Safe(j, load'[p].flows[j], mixed, held, finished),
           making'[p] = making[p] \/ making'[p].f = NoFlow,
           \A j \in Ids : Adds(op'[p], j) =>
               Adds(op[p], j) /\ op'[p].new = op[p].new /\ reg'[p][j] = reg[p][j]
    PROVE  ClaimInv'
<1>1. RootsOK'
  <2>1. ASSUME NEW j \in Ids, NEW f \in Copies(j)' PROVE From(f, Copies(j))
    <3>1. \A g \in Copies(j) : From(g, Copies(j))
      BY FromOld
    <3>2. From(NoFlow, Copies(j))
      BY NoFlowBare DEF From
    <3>3. ASSUME NEW q \in Processes,
                 \/ f = reg'[q][j] \/ f = load'[q].flows[j]
                 \/ making'[q].id = j /\ f = making'[q].f
                 \/ Adds(op'[q], j) /\ f = op'[q].new
          PROVE  From(f, Copies(j))
      <4>1. CASE q = p
        BY <2>1, <3>1, <3>2, <3>3, <4>1, CopiesAre
      <4>2. CASE q # p
        BY <2>1, <3>1, <3>3, <4>2, CopiesAre DEF Acts
      <4> QED BY <4>1, <4>2
    <3> QED BY <2>1, <3>1, <3>3, CopyIs, CopiesAre
  <2>2. given' \in Nat /\ given <= given'
    BY DEF ClaimInv, RootsOK
  <2>3. \A x \in held' \cup finished' : x \in held \cup finished
    OBVIOUS
  <2> QED BY <2>1, <2>2, <2>3, RootsStay DEF ClaimInv
<1>2. NewOK'
  BY DEF NewOK, Acts, ClaimInv
<1>3. ASSUME NEW q \in Processes, NEW j \in Ids, ~Apart(q)'
      PROVE  SafeAt(q, j, mixed, held, finished)'
  <2>1. ~Apart(q) /\ SafeAt(q, j, mixed, held, finished)
    BY <1>3 DEF Acts, Apart, ClaimInv, SafeOK
  <2>2. CASE q # p
    BY <2>1, <2>2 DEF SafeAt, Acts
  <2>3. CASE q = p
    <3>1. Bare(reg'[p][j]) => Bare(reg[p][j])
      OBVIOUS
    <3>2. Safe(j, NoFlow, mixed, held, finished)
      BY NoFlowBare, BareSafe
    <3> QED BY <2>1, <2>3, <3>1, <3>2 DEF SafeAt
  <2> QED BY <2>2, <2>3
<1>4. SafeOK'
  BY <1>3 DEF ClaimInv, SafeOK
<1> QED BY <1>1, <1>2, <1>4, ProcsStay DEF ClaimInv

LEMMA RegisterClaims ==
    ASSUME FlowInv, ClaimInv, NEW p \in Processes, Register(p)
    PROVE  ClaimInv'
<1>1. PICK i, s : i = Current(p)[2] /\ s = op[p].new
  OBVIOUS
<1>2. /\ i \in Ids /\ Adds(op[p], i) /\ reg' = [reg EXCEPT ![p][i] = s] /\ Advance(p)
      /\ UNCHANGED <<shared, store, mixed, load, making, given, held, finished, twice>>
      /\ op[p].todo # <<>>
  BY <1>1 DEF Register, Doing, Current, Adds, Keep, history
<1>3. proc[p] # "down"
  BY <1>2, DoingUp DEF ClaimInv
<1>4. Acts(p) /\ \A k \in Ids : ~Adds(op'[p], k)
  BY <1>2, <1>3, TurnActs DEF ClaimInv
<1>5. Bare(reg[p][i]) /\ From(s, Copies(i)) /\ (~Apart(p) => Safe(i, s, mixed, held, finished))
  <2>1. s \in Copies(i)
    BY <1>1, <1>2, CopiesAre
  <2> QED BY <1>1, <1>2, <2>1, FromOld DEF ClaimInv, NewOK, SafeOK, SafeAt
<1>6. \A j \in Ids : reg'[p][j] = reg[p][j] \/ (j = i /\ reg'[p][j] = s)
  BY <1>2, Parts DEF RegGood
<1>7. \A j \in Ids :
          /\ From(load'[p].flows[j], Copies(j))
          /\ ~Apart(p) /\ Bare(reg[p][j]) => Safe(j, load'[p].flows[j], mixed, held, finished)
  BY <1>2, CopiesAre, FromOld DEF ClaimInv, SafeOK, SafeAt
<1> QED BY <1>2, <1>4, <1>5, <1>6, <1>7, MoveClaims

LEMMA CreateRegisterClaims ==
    ASSUME FlowInv, ClaimInv, NEW p \in Processes, CreateRegister(p)
    PROVE  ClaimInv'
<1>1. PICK i, s : i = making[p].id /\ s = making[p].f
  OBVIOUS
<1>2. /\ reg' = reg \/ (reg' = [reg EXCEPT ![p][i] = s] /\ reg[p][i] = NoFlow)
      /\ making' = [making EXCEPT ![p] = NotMaking] /\ Exits(p) /\ making[p] # NotMaking
      /\ UNCHANGED <<shared, store, mixed, load, op, given, held, finished, twice>>
  BY <1>1 DEF CreateRegister, Keep, history
<1>3. proc[p] # "down"
  BY <1>2 DEF ClaimInv, ProcsOK, Idle
<1>4. /\ \A q \in Processes \ {p} : making'[q] = making[q] /\ reg'[q] = reg[q]
      /\ making'[p].f = NoFlow
  BY <1>2, Parts DEF MakingGood, RegGood, NotMaking
<1>5. Acts(p)
  BY <1>2, <1>3, <1>4 DEF Acts, Exits, ClaimInv, ProcsOK
<1>6. \A j \in Ids : \/ reg'[p][j] = reg[p][j]
                     \/ j = i /\ reg'[p][j] = s /\ reg[p][j] = NoFlow
  BY <1>2, Parts DEF RegGood
<1>7. ASSUME i \in Ids, reg[p][i] = NoFlow
      PROVE  /\ Bare(reg[p][i]) /\ From(s, Copies(i))
             /\ ~Apart(p) => Safe(i, s, mixed, held, finished)
  <2>1. s \in Copies(i)
    BY <1>1, <1>7, CopiesAre
  <2> QED BY <1>1, <1>7, <2>1, NoFlowBare, FromOld DEF ClaimInv, SafeOK, SafeAt
<1>8. \A j \in Ids :
          /\ From(load'[p].flows[j], Copies(j))
          /\ ~Apart(p) /\ Bare(reg[p][j]) => Safe(j, load'[p].flows[j], mixed, held, finished)
  BY <1>2, CopiesAre, FromOld DEF ClaimInv, SafeOK, SafeAt
<1>9. \A j \in Ids : ~Adds(op'[p], j)
  BY <1>2 DEF CreateRegister, LockFree, Adds
<1> QED BY <1>2, <1>4, <1>5, <1>6, <1>7, <1>8, <1>9, MoveClaims

(***************************************************************************)
(* The reload: a process that loads is up.                                 *)
(***************************************************************************)
LEMMA LoadClaims ==
    ASSUME FlowInv, ClaimInv, NEW p \in Processes, load[p].pc # "off",
           UNCHANGED <<shared, store, mixed, reg, op, making, given, held, finished, twice>>,
           DOMAIN proc' = Processes, proc'[p] \in {proc[p], "serving"},
           \A q \in Processes \ {p} : proc'[q] = proc[q] /\ load'[q] = load[q],
           \A j \in Ids : \/ load'[p].flows[j] = load[p].flows[j]
                          \/ load'[p].flows[j] \in {store[j], NoFlow}
    PROVE  ClaimInv'
<1>1. proc[p] # "down"
  BY DEF ClaimInv, ProcsOK, Idle, NotLoading
<1>2. Acts(p)
  BY <1>1 DEF Acts, ClaimInv, ProcsOK
<1>3. ASSUME NEW j \in Ids
      PROVE  /\ From(load'[p].flows[j], Copies(j))
             /\ ~Apart(p) /\ Bare(reg[p][j]) => Safe(j, load'[p].flows[j], mixed, held, finished)
  <2>1. \A g \in Copies(j) \cup {NoFlow} : From(g, Copies(j))
    BY NoFlowBare, FromOld DEF From
  <2>2. Safe(j, NoFlow, mixed, held, finished) /\ Safe(j, store[j], mixed, held, finished)
    BY NoFlowBare, BareSafe DEF ClaimInv, SafeOK
  <2>3. ~Apart(p) /\ Bare(reg[p][j]) => Safe(j, load[p].flows[j], mixed, held, finished)
    BY DEF ClaimInv, SafeOK, SafeAt
  <2> QED BY <2>1, <2>2, <2>3, CopiesAre
<1> QED BY <1>2, <1>3, MoveClaims

LEMMA LoadEndsProc ==
    ASSUME ProcsOK, NEW p \in Processes, LoadEnds(p) \/ LoadFails(p)
    PROVE  /\ DOMAIN proc' = Processes /\ proc'[p] \in {proc[p], "serving"}
           /\ \A q \in Processes \ {p} : proc'[q] = proc[q]
BY DEF LoadEnds, LoadFails, ProcsOK

LEMMA LoadEndsLoad ==
    ASSUME FlowInv, NEW p \in Processes, LoadEnds(p) \/ LoadFails(p)
    PROVE  /\ \A q \in Processes \ {p} : load'[q] = load[q]
           /\ \A j \in Ids : load'[p].flows[j] = NoFlow
<1>1. \E l : /\ load' = [load EXCEPT ![p] = l]
             /\ l = NotLoading \/ l = [NotLoading EXCEPT !.pc = "begin"]
  BY DEF LoadEnds, LoadFails
<1>2. PICK l : /\ load' = [load EXCEPT ![p] = l]
               /\ l = NotLoading \/ l = [NotLoading EXCEPT !.pc = "begin"]
  BY <1>1
<1>3. l.flows = [j \in Ids |-> NoFlow]
  BY <1>2 DEF NotLoading
<1>4. load'[p] = l /\ \A q \in Processes \ {p} : load'[q] = load[q]
  BY <1>2, Parts DEF LoadGood
<1> QED BY <1>3, <1>4

LEMMA LoadBeginClaims ==
    ASSUME FlowInv, ClaimInv, NEW p \in Processes, LoadBegin(p)
    PROVE  ClaimInv'
<1>1. PICK n : n = gen[p]
  OBVIOUS
<1>2. /\ load[p].pc = "begin" /\ load' = [load EXCEPT ![p].pc = "list", ![p].gen = n]
      /\ UNCHANGED <<proc, shared, store, mixed, reg, op, making, given, held, finished, twice>>
  BY <1>1 DEF LoadBegin, history, life
<1>3. load'[p].flows = load[p].flows /\ \A q \in Processes \ {p} : load'[q] = load[q]
  BY <1>2, Parts DEF LoadGood, LoadFields
<1> QED BY <1>2, <1>3, LoadClaims DEF ClaimInv, ProcsOK

LEMMA LoadListClaims ==
    ASSUME FlowInv, ClaimInv, NEW p \in Processes, NEW o, LoadList(p, o)
    PROVE  ClaimInv'
<1>1. PICK ids : ids = Stored
  OBVIOUS
<1>2. /\ load[p].pc = "list"
      /\ UNCHANGED <<shared, store, mixed, reg, op, making, given, held, finished, twice>>
      /\ \/ LoadEnds(p) \/ LoadFails(p)
         \/ load' = [load EXCEPT ![p].pc = "batch", ![p].ids = ids] /\ proc' = proc
  BY <1>1 DEF LoadList, history
<1>3. CASE LoadEnds(p) \/ LoadFails(p)
  BY <1>2, <1>3, LoadEndsProc, LoadEndsLoad, LoadClaims DEF ClaimInv
<1>4. CASE ~(LoadEnds(p) \/ LoadFails(p))
  <2>1. load'[p].flows = load[p].flows /\ \A q \in Processes \ {p} : load'[q] = load[q]
    BY <1>2, <1>4, Parts DEF LoadGood, LoadFields
  <2> QED BY <1>2, <1>4, <2>1, LoadClaims DEF ClaimInv, ProcsOK
<1> QED BY <1>3, <1>4

LEMMA LoadBatchClaims ==
    ASSUME FlowInv, ClaimInv, NEW p \in Processes, NEW o, LoadBatch(p, o)
    PROVE  ClaimInv'
<1>1. PICK flows :
          flows = [i \in Ids |-> IF i \in load[p].ids /\ Readable(store[i]) THEN store[i]
                                 ELSE NoFlow]
  OBVIOUS
<1>2. /\ load[p].pc = "batch"
      /\ UNCHANGED <<shared, store, mixed, reg, op, making, given, held, finished, twice>>
      /\ \/ LoadFails(p)
         \/ load' = [load EXCEPT ![p].pc = "apply", ![p].flows = flows] /\ proc' = proc
  BY <1>1 DEF LoadBatch, history
<1>3. CASE LoadFails(p)
  BY <1>2, <1>3, LoadEndsProc, LoadEndsLoad, LoadClaims DEF ClaimInv
<1>4. CASE ~LoadFails(p)
  <2>1. load'[p].flows = flows /\ \A q \in Processes \ {p} : load'[q] = load[q]
    BY <1>2, <1>4, Parts DEF LoadGood, LoadFields
  <2>2. \A j \in Ids : flows[j] \in {store[j], NoFlow}
    BY <1>1
  <2> QED BY <1>2, <1>4, <2>1, <2>2, LoadClaims DEF ClaimInv, ProcsOK
<1> QED BY <1>3, <1>4

(***************************************************************************)
(* What is taken over was not registered; the plan adds nothing.           *)
(***************************************************************************)
LEMMA LoadApplyClaims ==
    ASSUME FlowInv, ClaimInv, NEW p \in Processes, LoadApply(p)
    PROVE  ClaimInv'
<1>1. /\ load[p].pc = "apply"
      /\ LoadEnds(p) \/ LoadFails(p)
      /\ UNCHANGED <<shared, store, mixed, making, given, held, finished, twice>>
  BY DEF LoadApply, history
<1>2. CASE load[p].gen # gen[p]
  <2>1. LoadFails(p) /\ UNCHANGED <<reg, op>> /\ load[p].pc # "off"
    BY <1>1, <1>2 DEF LoadApply
  <2> QED BY <1>1, <2>1, LoadEndsProc, LoadEndsLoad, LoadClaims DEF ClaimInv
<1>3. CASE load[p].gen = gen[p]
  <2>1. PICK R : R = Merged(p)
    OBVIOUS
  <2>2. PICK new : new = {i \in Ids : reg[p][i] # R[i]}
    OBVIOUS
  <2>3. PICK plan, todo : /\ plan = [NoPlan EXCEPT !.strict = FALSE, !.todo = todo]
                          /\ todo = Plan(R, Each("sweep", new) \o Each("tick", Loops(R)))
    OBVIOUS
  <2>4. reg' = [reg EXCEPT ![p] = R] /\ op' = [op EXCEPT ![p] = plan]
    BY <1>3, <2>1, <2>2, <2>3 DEF LoadApply
  <2>5. plan.new = NoFlow
    BY <2>3 DEF NoPlan
  <2>6. op'[p] = plan /\ reg'[p] = R
        /\ \A q \in Processes \ {p} : op'[q] = op[q] /\ reg'[q] = reg[q]
    BY <2>4, Parts DEF OpGood, RegGood
  <2>7. \A j \in Ids : ~Adds(op'[p], j)
    BY <2>5, <2>6 DEF Adds
  <2>8. proc[p] # "down"
    BY <1>1 DEF ClaimInv, ProcsOK, Idle, NotLoading
  <2>9. Acts(p)
    BY <1>1, <2>6, <2>8, LoadEndsProc, LoadEndsLoad DEF Acts, ClaimInv, ProcsOK
  <2>10. ASSUME NEW j \in Ids
         PROVE  \/ reg'[p][j] = reg[p][j]
                \/ /\ Bare(reg[p][j]) /\ From(reg'[p][j], Copies(j))
                   /\ ~Apart(p) => Safe(j, reg'[p][j], mixed, held, finished)
    <3>1. reg'[p][j] = IF reg[p][j] = NoFlow THEN load[p].flows[j] ELSE reg[p][j]
      BY <2>1, <2>6 DEF Merged
    <3>2. From(load[p].flows[j], Copies(j))
      BY CopiesAre, FromOld
    <3> QED BY <3>1, <3>2, NoFlowBare DEF ClaimInv, SafeOK, SafeAt
  <2>11. \A j \in Ids :
             /\ From(load'[p].flows[j], Copies(j))
             /\ ~Apart(p) /\ Bare(reg[p][j]) =>
                    Safe(j, load'[p].flows[j], mixed, held, finished)
    BY <1>1, LoadEndsLoad, NoFlowBare, BareSafe DEF From
  <2> QED BY <1>1, <2>7, <2>9, <2>10, <2>11, MoveClaims
<1> QED BY <1>2, <1>3

(***************************************************************************)
(* A deleted flow: nothing is held or done of it.                          *)
(***************************************************************************)
LEMMA TakeOffClaims ==
    ASSUME FlowInv, ClaimInv, NEW p \in Processes, TakeOff(p)
    PROVE  ClaimInv'
<1>1. PICK i : i = Current(p)[2]
  OBVIOUS
<1>2. /\ reg' = [reg EXCEPT ![p][i] = NoFlow] /\ op' = [op EXCEPT ![p] = NoPlan]
      /\ held' = {x \in held : x[1] # i} /\ finished' = {x \in finished : x[1] # i}
      /\ UNCHANGED <<proc, shared, store, mixed, load, making, given, twice>>
      /\ op[p].todo # <<>>
  BY <1>1 DEF TakeOff, Doing, Keep, life
<1>3. /\ \A j \in Ids : reg'[p][j] = reg[p][j] \/ (j = i /\ reg'[p][j] = NoFlow)
      /\ \A q \in Processes \ {p} : reg'[q] = reg[q] /\ op'[q] = op[q]
      /\ op'[p] = NoPlan
  BY <1>2, Parts DEF RegGood, OpGood
<1>4. Acts(p)
  BY <1>2, <1>3, DoingUp DEF Acts, ClaimInv, ProcsOK
<1>5. \A j \in Ids : ~Adds(op'[p], j)
  BY <1>3 DEF Adds, NoPlan
<1>6. ASSUME NEW q \in Processes, NEW j \in Ids
      PROVE  /\ reg'[q][j] = reg[q][j] \/ (j = i /\ reg'[q][j] = NoFlow)
             /\ Adds(op'[q], j) => op'[q] = op[q] /\ reg'[q] = reg[q]
  BY <1>3, <1>5
<1>7. RootsOK'
  <2>1. ASSUME NEW j \in Ids, NEW f \in Copies(j)' PROVE From(f, Copies(j))
    <3>1. \A g \in Copies(j) \cup {NoFlow} : From(g, Copies(j))
      BY NoFlowBare, FromOld DEF From
    <3> QED BY <1>2, <1>6, <2>1, <3>1, CopyIs, CopiesAre
  <2>2. given' \in Nat /\ given <= given'
    BY <1>2 DEF ClaimInv, RootsOK
  <2>3. \A x \in held' \cup finished' : x \in held \cup finished
    BY <1>2
  <2> QED BY <2>1, <2>2, <2>3, RootsStay DEF ClaimInv
<1>8. NewOK'
  BY <1>6 DEF NewOK, ClaimInv
<1>9. PICK a, d : a = held' /\ d = finished'
  OBVIOUS
<1>10. ASSUME NEW j \in Ids
       PROVE  /\ Safe(j, store'[j], mixed, a, d)
              /\ \A q \in Processes : Apart(q)' \/ SafeAt(q, j, mixed, held, finished)'
  <2>1. \A f : Safe(j, f, mixed, held, finished) => Safe(j, f, mixed, a, d)
    <3>1. a \subseteq held /\ d \subseteq finished
      BY <1>2, <1>9
    <3> QED BY <3>1, SafeStays
  <2>2. Safe(j, store'[j], mixed, a, d)
    BY <1>2, <1>10, <2>1 DEF ClaimInv, SafeOK
  <2>3. ASSUME NEW q \in Processes, ~Apart(q)' PROVE SafeAt(q, j, mixed, held, finished)'
    <3>1. SafeAt(q, j, mixed, held, finished)
      BY <1>2, <1>10, <2>3 DEF Apart, ClaimInv, SafeOK
    <3>2. CASE j = i
      <4>1. \A n : <<i, n>> \notin a \cup d
        <5>1. \A n : <<i, n>>[1] = i
          OBVIOUS
        <5> QED BY <1>2, <1>9, <5>1
      <4>2. \A f : Safe(j, f, mixed, a, d)
        BY <3>2, <4>1 DEF Safe, Keeps
      <4> QED BY <1>2, <1>9, <4>2 DEF SafeAt
    <3>3. CASE j # i
      <4>1. reg'[q][j] = reg[q][j] /\ (Adds(op'[q], j) => op'[q] = op[q])
        BY <1>6, <1>10, <3>3
      <4> QED BY <1>2, <1>9, <2>1, <3>1, <4>1 DEF SafeAt
    <3> QED BY <3>2, <3>3
  <2> QED BY <2>2, <2>3
<1>11. SafeOK'
  BY <1>2, <1>9, <1>10 DEF SafeOK
<1>12. ProcsOK' /\ twice' = {}
  BY <1>2, <1>4, ProcsStay DEF ClaimInv
<1> QED BY <1>7, <1>8, <1>11, <1>12 DEF ClaimInv

(***************************************************************************)
(* A process starts, ends or deletes a key; the others stay as they are.   *)
(***************************************************************************)
LEMMA LifeClaims ==
    ASSUME FlowInv, ClaimInv, ProcsOK', UNCHANGED <<given, held, finished, twice>>,
           \A j \in Ids : store'[j] \in {store[j], NoFlow}, mixed \subseteq mixed',
           \A q \in Processes :
               \/ Idle(q)'
               \/ /\ reg'[q] = reg[q] /\ op'[q] = op[q] /\ making'[q] = making[q]
                  /\ load'[q].flows = load[q].flows
                  /\ Apart(q)' \/ ~Apart(q) \/ Idle(q)
    PROVE  ClaimInv'
<1>1. ASSUME NEW q \in Processes, NEW j \in Ids, Idle(q)'
      PROVE  /\ reg'[q][j] = NoFlow /\ load'[q].flows[j] = NoFlow
             /\ making'[q].f = NoFlow /\ ~Adds(op'[q], j)
  <2>1. /\ reg'[q] = [k \in Ids |-> NoFlow] /\ load'[q] = NotLoading
        /\ op'[q] = NoPlan /\ making'[q] = NotMaking
    BY <1>1 DEF Idle
  <2>2. NotLoading.flows = [k \in Ids |-> NoFlow] /\ NoPlan.todo = <<>> /\ NotMaking.f = NoFlow
    BY DEF NotLoading, NoPlan, NotMaking
  <2> QED BY <2>1, <2>2 DEF Adds
<1>2. RootsOK'
  <2>1. ASSUME NEW j \in Ids, NEW f \in Copies(j)' PROVE From(f, Copies(j))
    <3>1. \A g \in Copies(j) \cup {NoFlow} : From(g, Copies(j))
      BY NoFlowBare, FromOld DEF From
    <3>2. ASSUME NEW q \in Processes,
                 \/ f = reg'[q][j] \/ f = load'[q].flows[j]
                 \/ making'[q].id = j /\ f = making'[q].f
                 \/ Adds(op'[q], j) /\ f = op'[q].new
          PROVE  From(f, Copies(j))
      <4>1. CASE Idle(q)'
        BY <1>1, <2>1, <3>1, <3>2, <4>1
      <4>2. CASE ~Idle(q)'
        BY <2>1, <3>1, <3>2, <4>2, CopiesAre
      <4> QED BY <4>1, <4>2
    <3> QED BY <2>1, <3>1, <3>2, CopyIs, CopiesAre
  <2>2. given' \in Nat /\ given <= given'
    BY DEF ClaimInv, RootsOK
  <2>3. \A x \in held' \cup finished' : x \in held \cup finished
    OBVIOUS
  <2> QED BY <2>1, <2>2, <2>3, RootsStay DEF ClaimInv
<1>3. NewOK'
  BY <1>1 DEF NewOK, ClaimInv
<1>4. PICK m : m = mixed'
  OBVIOUS
<1>5. ASSUME NEW j \in Ids
      PROVE  /\ Safe(j, store'[j], m, held, finished)
             /\ \A q \in Processes : Apart(q)' \/ SafeAt(q, j, mixed, held, finished)'
  <2>1. \A f : Safe(j, f, mixed, held, finished) => Safe(j, f, m, held, finished)
    BY <1>4, SafeStays
  <2>2. Safe(j, NoFlow, m, held, finished)
    BY NoFlowBare, BareSafe
  <2>3. Safe(j, store'[j], m, held, finished)
    BY <1>5, <2>1, <2>2 DEF ClaimInv, SafeOK
  <2>4. ASSUME NEW q \in Processes, ~Apart(q)' PROVE SafeAt(q, j, mixed, held, finished)'
    <3>1. CASE Idle(q)'
      BY <1>1, <1>4, <1>5, <2>2, <3>1 DEF SafeAt
    <3>2. CASE ~Idle(q)'
      <4>1. SafeAt(q, j, mixed, held, finished)
        BY <1>5, <2>4, <3>2, IdleSafe DEF ClaimInv, SafeOK
      <4> QED BY <1>4, <2>1, <3>2, <4>1 DEF SafeAt
    <3> QED BY <3>1, <3>2
  <2> QED BY <2>3, <2>4
<1>6. SafeOK'
  BY <1>4, <1>5 DEF SafeOK
<1> QED BY <1>2, <1>3, <1>6 DEF ClaimInv

LEMMA DeleteKeyClaims ==
    ASSUME FlowInv, ClaimInv, NEW p \in Processes, NEW i, NEW o, DeleteKey(p, i, o)
    PROVE  ClaimInv'
<1>1. /\ UNCHANGED <<proc, shared, reg, load, op, making, given, held, finished, twice>>
      /\ Persist(p, i, NoFlow, o)
  BY DEF DeleteKey, history, life
<1>2. ProcsOK'
  BY <1>1 DEF ClaimInv, ProcsOK, Idle
<1>3. \A j \in Ids : store'[j] \in {store[j], NoFlow}
  BY <1>1, Parts DEF Persist, StoreGood
<1>4. mixed \subseteq mixed'
  BY <1>1 DEF Persist
<1> QED BY <1>1, <1>2, <1>3, <1>4, LifeClaims DEF Apart

LEMMA StartClaims ==
    ASSUME FlowInv, ClaimInv, Start \/ ConsoleStart
    PROVE  ClaimInv'
<1>1. PICK p \in Processes :
          /\ proc[p] = "down" /\ Starts(p)
          /\ shared' = (\E q \in Processes \ {p} : proc[q] # "down")
  BY DEF Start, ConsoleStart, Processes
<1>2. /\ proc' = [proc EXCEPT ![p] = "loading"] /\ load' = [load EXCEPT ![p].pc = "begin"]
      /\ UNCHANGED <<store, mixed, reg, op, making, given, held, finished, twice>>
  BY <1>1 DEF Starts, history
<1>3. \A q \in Processes : load'[q].flows = load[q].flows
  BY <1>2, Parts DEF LoadGood, LoadFields
<1>4. /\ DOMAIN proc' = Processes /\ proc'[p] = "loading"
      /\ \A q \in Processes \ {p} : proc'[q] = proc[q] /\ load'[q] = load[q]
  BY <1>2, Parts DEF LoadGood, ClaimInv, ProcsOK
<1>5. ProcsOK'
  <2>1. ASSUME NEW q \in Processes, proc'[q] = "down" PROVE Idle(q)'
    BY <1>2, <1>4, <2>1 DEF ClaimInv, ProcsOK, Idle
  <2>2. shared' \in BOOLEAN
    BY <1>1
  <2>3. proc'["daemon"] = "down" \/ proc'["console"] = "down" \/ shared'
    BY <1>1, <1>4 DEF Processes
  <2> QED BY <1>4, <2>1, <2>2, <2>3 DEF ProcsOK
<1>6. ASSUME NEW q \in Processes PROVE Apart(q)' \/ ~Apart(q) \/ Idle(q)
  BY <1>1 DEF Apart, ClaimInv, ProcsOK, Processes
<1> QED BY <1>2, <1>3, <1>5, <1>6, LifeClaims

LEMMA GoneClaims ==
    ASSUME FlowInv, ClaimInv, Exit \/ Crash
    PROVE  ClaimInv'
<1>1. PICK p \in Processes :
          Gone(p) /\ (shared' = shared \/ (p = "console" /\ shared' = FALSE))
  BY DEF Exit, Crash, Processes
<1>2. /\ proc' = [proc EXCEPT ![p] = "down"]
      /\ reg' = [reg EXCEPT ![p] = [i \in Ids |-> NoFlow]]
      /\ load' = [load EXCEPT ![p] = NotLoading]
      /\ op' = [op EXCEPT ![p] = NoPlan]
      /\ making' = [making EXCEPT ![p] = NotMaking]
      /\ UNCHANGED <<store, mixed, given, held, finished, twice>>
  BY <1>1 DEF Gone, history
<1>3. /\ DOMAIN proc' = Processes /\ proc'[p] = "down"
      /\ \A q \in Processes \ {p} : /\ proc'[q] = proc[q] /\ reg'[q] = reg[q]
                                    /\ load'[q] = load[q] /\ op'[q] = op[q]
                                    /\ making'[q] = making[q]
  BY <1>2, Parts DEF RegGood, LoadGood, OpGood, MakingGood, ClaimInv, ProcsOK
<1>4. Idle(p)'
  BY <1>2, Parts DEF Idle, RegGood, LoadGood, OpGood, MakingGood
<1>5. ProcsOK'
  <2>1. ASSUME NEW q \in Processes, proc'[q] = "down" PROVE Idle(q)'
    <3>1. CASE q = p
      BY <1>4, <3>1
    <3>2. CASE q # p
      BY <1>3, <2>1, <3>2 DEF ClaimInv, ProcsOK, Idle
    <3> QED BY <3>1, <3>2
  <2>2. shared' \in BOOLEAN
    BY <1>1 DEF ClaimInv, ProcsOK
  <2>3. proc'["daemon"] = "down" \/ proc'["console"] = "down" \/ shared'
    BY <1>1, <1>3 DEF Processes
  <2> QED BY <1>3, <2>1, <2>2, <2>3 DEF ProcsOK
<1>6. ASSUME NEW q \in Processes, q # p PROVE Apart(q)' \/ ~Apart(q)
  BY <1>1, <1>6 DEF Apart
<1> QED BY <1>2, <1>3, <1>4, <1>5, <1>6, LifeClaims

LEMMA ClaimStarts == Init => ClaimInv
<1> SUFFICES ASSUME Init PROVE ClaimInv
  OBVIOUS
<1>1. /\ store = [i \in Ids |-> NoFlow] /\ given = 0 /\ shared = FALSE
      /\ held = {} /\ finished = {} /\ twice = {}
      /\ proc = [p \in Processes |-> "down"]
      /\ reg = [p \in Processes |-> [i \in Ids |-> NoFlow]]
      /\ load = [p \in Processes |-> NotLoading]
      /\ op = [p \in Processes |-> NoPlan] /\ making = [p \in Processes |-> NotMaking]
  BY DEF Init
<1>2. \A p \in Processes : Idle(p)
  BY <1>1 DEF Idle
<1>3. ProcsOK
  BY <1>1, <1>2 DEF ProcsOK, Processes
<1>4. \A p \in Processes, i \in Ids : ~Adds(op[p], i)
  <2>1. NoPlan.todo = <<>>
    BY DEF NoPlan
  <2> QED BY <1>1, <2>1 DEF Adds
<1>5. RootsOK
  <2>1. ASSUME NEW i \in Ids, NEW f \in Copies(i) PROVE Bare(f)
    <3>1. CASE f = store[i]
      BY <1>1, <2>1, <3>1, NoFlowBare
    <3>2. ASSUME NEW p \in Processes,
                 \/ f = reg[p][i] \/ f = load[p].flows[i] \/ f = making[p].f
                 \/ Adds(op[p], i)
          PROVE  Bare(f)
      BY <1>2, <1>4, <2>1, <3>2, IdleSafe
    <3> QED BY <2>1, <3>1, <3>2 DEF Copies
  <2> QED BY <1>1, <2>1 DEF RootsOK
<1>6. NewOK
  BY <1>4 DEF NewOK
<1>7. SafeOK
  <2>1. \A i \in Ids : Safe(i, store[i], mixed, held, finished)
    BY <1>1, NoFlowBare, BareSafe
  <2> QED BY <1>2, <2>1, IdleSafe DEF SafeOK
<1> QED BY <1>1, <1>3, <1>5, <1>6, <1>7 DEF ClaimInv

LEMMA RequestClaims ==
    ASSUME FlowInv, ClaimInv, NEW p \in Processes, NEW i \in Ids, Request(p, i)
    PROVE  ClaimInv'
<1>1. CASE \E w \in Workers : NextStep(p, w, i)
  BY <1>1, BeginClaims DEF NextStep
<1>2. CASE Get(p, i)
  BY <1>2, BeginClaims DEF Get
<1>3. CASE StopLoop(p, i)
  BY <1>3, BeginClaims DEF StopLoop
<1>4. CASE Delete(p, i)
  BY <1>4, BeginClaims DEF Delete
<1>5. CASE \E o \in Outcomes : CancelFlow(p, i, o)
  BY <1>5, CancelClaims
<1>6. CASE \E n \in DOMAIN reg[p][i].steps, action \in DOMAIN StateAfter, o \in Outcomes :
               StepDo(p, i, n, action, o)
  BY <1>6, StepDoClaims
<1> QED BY <1>1, <1>2, <1>3, <1>4, <1>5, <1>6 DEF Request

LEMMA CallClaims ==
    ASSUME FlowInv, ClaimInv, NEW p \in Processes, NEW o, Call(p, o)
    PROVE  ClaimInv'
BY TickClaims, SpawnClaims, RollbackClaims, PropagateClaims, SweepClaims, ClaimClaims, StopClaims,
   DeleteKeyClaims, LoadListClaims, LoadBatchClaims DEF Call

LEMMA ProcessClaims ==
    ASSUME FlowInv, ClaimInv, NEW p \in Processes, Process(p)
    PROVE  ClaimInv'
<1>1. CASE \E i \in Ids : Request(p, i)
  BY <1>1, RequestClaims
<1>2. CASE ListFlows(p)
  BY <1>2, BeginClaims DEF ListFlows
<1>3. CASE \E o \in Outcomes : CreatePersist(p, scenario.body, o)
  BY <1>3, CreateClaims
<1>4. CASE \E o \in Outcomes : Call(p, o)
  BY <1>4, CallClaims
<1>5. CASE Register(p) \/ CreateRegister(p) \/ TakeOff(p) \/ LoadBegin(p) \/ LoadApply(p)
  BY <1>5, RegisterClaims, CreateRegisterClaims, TakeOffClaims, LoadBeginClaims, LoadApplyClaims
<1> QED BY <1>1, <1>2, <1>3, <1>4, <1>5 DEF Process

LEMMA ClaimStep == FlowInv /\ ClaimInv /\ [Next]_vars => ClaimInv'
<1> SUFFICES ASSUME FlowInv, ClaimInv, [Next]_vars PROVE ClaimInv'
  OBVIOUS
<1>1. CASE \E p \in Processes : Process(p)
  BY <1>1, ProcessClaims
<1>2. CASE Start \/ ConsoleStart
  BY <1>2, StartClaims
<1>3. CASE Exit \/ Crash
  BY <1>3, GoneClaims
<1>4. CASE Clock
  BY <1>4, ClaimIdles DEF Clock, history
<1>5. CASE UNCHANGED vars
  BY <1>5, ClaimIdles DEF vars, life, history
<1> QED BY <1>1, <1>2, <1>3, <1>4, <1>5 DEF Next

LEMMA ClaimInvariant == Spec => []ClaimInv
<1> QED BY ClaimStarts, ClaimStep, FlowInvariant, PTL DEF Spec

-----------------------------------------------------------------------------
(***************************************************************************)
(* http.c 310-312: a step is done, or handed out, only when all its        *)
(* dependencies are done, whatever the bodies of the flows, through failed *)
(* calls, sweeps, reloads, crashes and commands next to the daemon.        *)
(***************************************************************************)
THEOREM DependenciesHold == Spec => []DepsRespected
<1>1. FlowInv => DepsRespected
  BY DEF FlowInv, CopiesGood, Good, Respects, DepsRespected
<1> QED BY <1>1, FlowInvariant, PTL

(***************************************************************************)
(* README 157-161: in a flow that is no later iteration of a loop, a step  *)
(* that was posted with a timeout and that a worker holds has a deadline,  *)
(* unless an unclaim of it failed: in exomind and in every registry, also  *)
(* when two processes overwrite the flow in turn.                          *)
(***************************************************************************)
THEOREM ClaimsTimed == Spec => []FirstTimedClaims
<1>1. FlowInv => FirstTimedClaims
  <2> SUFFICES ASSUME FlowInv, NEW i \in Ids, NEW f \in CopiesOf(i), f.root = 0,
                      NEW n \in HeldForever(f)
               PROVE  <<i, n>> \in doubtful
    BY DEF FirstTimedClaims
  <2>1. Good(i, f, doubtful)
    <3>1. \E p : p \in Processes
      BY DEF Processes
    <3> QED BY <3>1, CopyGood DEF CopiesOf
  <2>2. n \in DOMAIN f.steps /\ f.steps[n].timeout > 0
    BY <2>1 DEF HeldForever, Good, Posted
  <2> QED BY <2>1, <2>2 DEF HeldForever, Good, Timed
<1> QED BY <1>1, FlowInvariant, PTL

(***************************************************************************)
(* http.c 304-308: claims are exclusive: no step is handed out while a     *)
(* worker holds it, through restarts, reloads, sweeps, failed calls and    *)
(* new iterations, until a command stores the flow next to the daemon.     *)
(***************************************************************************)
THEOREM ClaimsExclusive == Spec => []ExclusiveClaim
<1>1. ClaimInv => ExclusiveClaim
  BY DEF ClaimInv, ExclusiveClaim
<1> QED BY <1>1, ClaimInvariant, PTL

(***************************************************************************)
(* README 152-156: what `done` was answered ok for is done in the stored   *)
(* flow until the flow is deleted: no sweep, cancellation, failed call,    *)
(* late registration or reload brings an older copy back.                  *)
(***************************************************************************)
THEOREM DoneStays == Spec => []DoneSticks
<1>1. ClaimInv => DoneSticks
  BY DEF ClaimInv, SafeOK, Safe, Keeps, DoneSticks
<1> QED BY <1>1, ClaimInvariant, PTL

=============================================================================
