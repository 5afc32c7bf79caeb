------------------------------- MODULE Sched -------------------------------
(***************************************************************************)
(* exosched (src/exosched/src): reminders whose durable copy is a key of   *)
(* exomind with a TTL, and the processes that work on them:                *)
(*                                                                         *)
(*  - the daemon: a registry of timers in memory, one thread that fires    *)
(*    them and writes what happened into exomind call by call, one thread  *)
(*    per request, and a reload from exomind that, when exomind was down   *)
(*    at the start, goes on in the background while requests are served;   *)
(*  - a console command (`exosched /timers`), which runs the same reload   *)
(*    in a process of its own next to the daemon.                          *)
(*                                                                         *)
(* Any call of exomind may be refused, or done while its reply is lost.    *)
(* Time is in seconds; the wall clock and the monotonic clock advance      *)
(* together here.                                                          *)
(***************************************************************************)
EXTENDS Integers, Sequences, SequencesExt, Schedule

CONSTANTS
    Ids,         \* the ids make_timer_id gives out, each once
    Bodies,      \* what parse_schedule understood of a body; see Schedule
    Slack,       \* 300 s: how long a key outlives its fire
    MinTTL,      \* 60 s
    MaxTTL,      \* 10 years
    RetryDelay,  \* 5 s
    MaxNow,      \* bound: the clock
    MaxFaults,   \* bound: calls of exomind that go wrong
    MaxCrashes,  \* bound: kills of the daemon
    MaxConsole   \* bound: console commands

ASSUME SchedAssumption ==
    /\ {Slack, MinTTL, MaxTTL, RetryDelay, MaxNow, MaxFaults, MaxCrashes, MaxConsole}
           \subseteq Nat
    /\ RetryDelay > 0 /\ MinTTL > 0 /\ MaxTTL > 0
    /\ Bodies \subseteq [form : STRING, n : Nat, unit : Nat, quoted : BOOLEAN,
                         text : STRING, until : Nat, tail : STRING]

VARIABLES
    now,
    keys, notes, count,       \* exomind: timers, note feed, exosched:delivery
    daemon, reg, gen,         \* the daemon's phase, registry, g_reload_gen
    stats, loaded,            \* g_stats.fired and g_loaded (delivery.c)
    firing,                   \* the timer thread
    load,                     \* the reloads of the daemon and of the console
    req,                      \* the request the daemon is serving
    promised, accepted,       \* history: what was asked, what was answered
    completed,                \* history: the fires whose bookkeeping is done
    muted,                    \* history: ids whose missed note was refused
    raced,                    \* history: ids a reload began in the middle of
                              \* whose cancel
    faults, crashes, consoles \* bounds

exomind == <<keys, notes, count>>
memory == <<daemon, reg, gen, stats, loaded>>
history == <<promised, accepted, completed, muted, raced>>
bounds == <<faults, crashes, consoles>>
vars == <<now, exomind, memory, firing, load, req, history, bounds>>

Timer(i, w) == [id |-> i, fire |-> w.fire, repeat |-> w.repeat,
                until |-> w.until, retry |-> 0]
NoKey == [fire |-> 0, repeat |-> 0, until |-> 0, expires |-> 0]

(***************************************************************************)
(* What keys are written with: timer_value, which leaves out a repeat that *)
(* is not positive (parse_duration wraps), and timer_ttl.                  *)
(***************************************************************************)
Bigger(a, b) == IF a > b THEN a ELSE b
Smaller(a, b) == IF a > b THEN b ELSE a
KeyFor(t) == [fire |-> t.fire, repeat |-> Bigger(t.repeat, 0),
              until |-> IF t.repeat > 0 THEN t.until ELSE 0,
              expires |-> now + Smaller(MaxTTL, Bigger(MinTTL, (t.fire + Slack) - now))]
Live == {i \in Ids : keys[i].expires > now}
Due(t) == IF t.retry # 0 THEN t.retry ELSE t.fire

Idle == [pc |-> "idle"]
Reloading(pc) == [pc |-> pc, gen |-> 0, ids |-> {}, drops |-> {}, adds |-> {}]
Off == Reloading("off")
Starts == Reloading("begin")

Init ==
    /\ now = 0
    /\ keys = [i \in Ids |-> NoKey]
    /\ notes = {}
    /\ count = 0
    /\ daemon = "down"
    /\ reg = [i \in Ids |-> <<>>]
    /\ gen = 0
    /\ stats = 0
    /\ loaded = FALSE
    /\ firing = Idle
    /\ load = [p \in {"daemon", "console"} |-> Off]
    /\ req = Idle
    /\ accepted = [i \in Ids |-> "no"]
    /\ promised = [i \in Ids |-> Timer(i, NoKey)]
    /\ completed = {}
    /\ muted = {} /\ raced = {}
    /\ faults = 0 /\ crashes = 0 /\ consoles = 0

-----------------------------------------------------------------------------
(* Calls of exomind (exomind.c) *)

(***************************************************************************)
(* The outcome of one call: "ok"; "refused", when nothing was done; or     *)
(* "lost", when it was done and the caller is told it was not.             *)
(***************************************************************************)
Outcome(o) ==
    /\ o \in {"ok", "refused", "lost"}
    /\ o # "ok" => faults < MaxFaults
    /\ faults' = IF o = "ok" THEN faults ELSE faults + 1
Done(o) == o # "refused"

Persist(i, t, o) == keys' = IF Done(o) THEN [keys EXCEPT ![i] = KeyFor(t)] ELSE keys
Delete(i, o) == keys' = IF Done(o) THEN [keys EXCEPT ![i] = NoKey] ELSE keys
Note(kind, i, fire, o) ==
    notes' = IF Done(o) THEN notes \cup {[kind |-> kind, id |-> i, fire |-> fire]}
             ELSE notes

-----------------------------------------------------------------------------
(* The timer thread: timer_loop and fire_timer *)

Copies(i) == Len(reg[i]) + (IF firing.pc # "idle" /\ firing.t.id = i THEN 1 ELSE 0)
Listed == UNION {{reg[i][n] : n \in DOMAIN reg[i]} : i \in Ids}
Without(q, t) ==  \* q with the first t removed
    LET n == CHOOSE n \in DOMAIN q : q[n] = t /\ \A m \in 1..(n - 1) : q[m] # t
    IN  SubSeq(q, 1, n - 1) \o SubSeq(q, n + 1, Len(q))

(***************************************************************************)
(* Takes the first timer off the list when it is due and pushes it to the  *)
(* clients, unless this is a retry.                                        *)
(***************************************************************************)
Take ==
    /\ daemon = "serving" /\ firing = Idle
    /\ \E t \in Listed :
           /\ Due(t) <= now
           /\ \A u \in Listed : Due(t) <= Due(u)
           /\ reg' = [reg EXCEPT ![t.id] = Without(@, t)]
           /\ firing' = [pc |-> "note", t |-> t]
    /\ UNCHANGED <<now, exomind, daemon, gen, stats, loaded, load, req, history, bounds>>

(***************************************************************************)
(* insert_locked after the bookkeeping; nothing looks for a copy here.     *)
(***************************************************************************)
Requeue(t) ==
    /\ reg' = [reg EXCEPT ![t.id] = Append(@, t)]
    /\ firing' = Idle

(***************************************************************************)
(* fire_timer returns 2: everything again in RetryDelay (capped by the     *)
(* bound of the clock), without another push.                              *)
(***************************************************************************)
RetryLater_slip == firing' = Idle /\ UNCHANGED reg  \* not put back on the list

RetryLater ==
    Requeue([firing.t EXCEPT !.retry =
                IF now + RetryDelay > MaxNow THEN MaxNow ELSE now + RetryDelay])

Proceed(o, pc) ==
    IF o = "ok" THEN firing' = [firing EXCEPT !.pc = pc] /\ UNCHANGED reg
    ELSE RetryLater

(***************************************************************************)
(* Whether this fire is not the last one.                                  *)
(***************************************************************************)
Recurs_slip(t) ==  \* `until` compared with this fire, not with the next
    t.repeat > 0 /\ (t.until = 0 \/ t.fire <= t.until)

Recurs(t) == t.repeat > 0 /\ (t.until = 0 \/ t.fire + t.repeat <= t.until)

FireNote_slip(o) ==  \* the reply to the note is not looked at
    /\ firing.pc = "note" /\ Outcome(o)
    /\ Note(IF Recurs(firing.t) THEN "fired" ELSE "last", firing.t.id, firing.t.fire, o)
    /\ Proceed("ok", "receipts")
    /\ UNCHANGED <<now, keys, count, daemon, gen, stats, loaded, load, req, history,
                   crashes, consoles>>

FireNote(o) ==
    /\ firing.pc = "note" /\ Outcome(o)
    /\ Note(IF Recurs(firing.t) THEN "fired" ELSE "last", firing.t.id, firing.t.fire, o)
    /\ Proceed(o, "receipts")
    /\ UNCHANGED <<now, keys, count, daemon, gen, stats, loaded, load, req, history,
                   crashes, consoles>>

(***************************************************************************)
(* The receipt:<id> and delivery:<id>:<epoch> keys, which nothing reads    *)
(* back.                                                                   *)
(***************************************************************************)
FireReceipts(o) ==
    /\ firing.pc = "receipts" /\ Outcome(o)
    /\ Proceed(o, "record")
    /\ UNCHANGED <<now, exomind, daemon, gen, stats, loaded, load, req, history,
                   crashes, consoles>>

(***************************************************************************)
(* delivery_record: the counters in memory move only when the new ones     *)
(* were stored; when they were never loaded, they are read first.          *)
(***************************************************************************)
FireRecord_slip(o) ==  \* counters that were never loaded are not read first
    /\ firing.pc = "record" /\ Outcome(o)
    /\ count' = IF Done(o) THEN stats + 1 ELSE count
    /\ stats' = IF o = "ok" THEN stats + 1 ELSE stats
    /\ loaded' = TRUE
    /\ Proceed(o, "final")
    /\ UNCHANGED <<now, keys, notes, daemon, gen, load, req, history, crashes, consoles>>

FireRecord(o) ==
    /\ firing.pc = "record" /\ Outcome(o)
    /\ \/ \* the read of the stored counters fails
          /\ ~loaded /\ o # "ok"
          /\ UNCHANGED <<count, stats, loaded>>
       \/ LET base == IF loaded THEN stats ELSE count
          IN  /\ count' = IF Done(o) THEN base + 1 ELSE count
              /\ stats' = IF o = "ok" THEN base + 1 ELSE base
              /\ loaded' = TRUE
    /\ Proceed(o, "final")
    /\ UNCHANGED <<now, keys, notes, daemon, gen, load, req, history, crashes, consoles>>

FireReschedule(o) ==
    /\ firing.pc = "final" /\ Recurs(firing.t) /\ Outcome(o)
    /\ LET next == [firing.t EXCEPT !.fire = @ + firing.t.repeat, !.retry = 0]
       IN  /\ Persist(next.id, next, o)
           /\ IF o = "ok" THEN Requeue(next) ELSE RetryLater
    /\ completed' = IF o = "ok" THEN completed \cup {<<firing.t.id, firing.t.fire>>}
                    ELSE completed
    /\ UNCHANGED <<now, notes, count, daemon, gen, stats, loaded, load, req,
                   promised, accepted, muted, raced, crashes, consoles>>

FireDelete(o) ==
    /\ firing.pc = "final" /\ ~Recurs(firing.t) /\ Outcome(o)
    /\ Delete(firing.t.id, o)
    /\ IF o = "ok" THEN firing' = Idle /\ UNCHANGED reg ELSE RetryLater
    /\ completed' = IF o = "ok" THEN completed \cup {<<firing.t.id, firing.t.fire>>}
                    ELSE completed
    /\ UNCHANGED <<now, notes, count, daemon, gen, stats, loaded, load, req,
                   promised, accepted, muted, raced, crashes, consoles>>

Fire == \E o \in {"ok", "refused", "lost"} :
            FireNote(o) \/ FireReceipts(o) \/ FireRecord(o) \/ FireReschedule(o)
                \/ FireDelete(o)

-----------------------------------------------------------------------------
(* The reload: timers_reload, run by the daemon and by console commands *)

(***************************************************************************)
(* What a stored timer becomes: the fires missed are skipped, up to the    *)
(* last one `until` allows; a timer without a fire to come is dropped.     *)
(***************************************************************************)
CaughtUp(k) ==
    IF k.repeat = 0 THEN k.fire
    ELSE LET Stops(f) == f > now \/ (k.until # 0 /\ f + k.repeat > k.until)
         IN  CHOOSE f \in {k.fire + n * k.repeat : n \in 0..(now + 1)} :
                 Stops(f) /\ \A n \in 0..now : k.fire + n * k.repeat < f
                                                => ~Stops(k.fire + n * k.repeat)

Reached(k) == k.repeat > 0 /\ k.until > 0 /\ k.fire >= k.until
Dropped(k) == Reached(k) \/ CaughtUp(k) <= now
Restored(i) ==
    [Timer(i, keys[i]) EXCEPT !.fire = IF Reached(keys[i]) THEN @ ELSE CaughtUp(keys[i])]

(***************************************************************************)
(* The end of a reload.  The daemon goes on with its counters, a console   *)
(* command with its operation.                                             *)
(***************************************************************************)
Loaded(p) ==
    /\ load' = [load EXCEPT ![p].pc = IF p = "daemon" THEN "stats" ELSE "op"]
    /\ UNCHANGED daemon

(***************************************************************************)
(* After a failure a console command goes on with an empty registry.  The  *)
(* daemon tries again, and after ten attempts loads its counters, serves   *)
(* requests and tries on in the background.                                *)
(***************************************************************************)
Failed(p) ==
    \/ p = "console" /\ Loaded(p)
    \/ p = "daemon" /\ load' = [load EXCEPT ![p] = Starts] /\ UNCHANGED daemon
    \/ /\ p = "daemon" /\ daemon = "loading"
       /\ load' = [load EXCEPT ![p].pc = "stats"]
       /\ daemon' = "late"

ReloadBegin(p) ==
    /\ load[p].pc = "begin"
    /\ load' = [load EXCEPT ![p].pc = "list", ![p].gen = gen]
    /\ raced' = IF p = "daemon" THEN raced \cup {i \in Ids : accepted[i] = "cancelling"}
                ELSE raced
    /\ UNCHANGED <<now, exomind, memory, firing, req, promised, accepted, completed,
                   muted, bounds>>

ReloadList(p, o) ==
    /\ load[p].pc = "list" /\ Outcome(o)
    /\ IF o # "ok" THEN Failed(p)
       ELSE IF Live = {} THEN Loaded(p)
       ELSE /\ load' = [load EXCEPT ![p].pc = "batch", ![p].ids = Live]
            /\ UNCHANGED daemon
    /\ UNCHANGED <<now, exomind, reg, gen, stats, loaded, firing, req, history,
                   crashes, consoles>>

(***************************************************************************)
(* One batch reads every key listed; when one is gone by now it fails.  A  *)
(* value whose fire is not positive is bad, and is left where it is.       *)
(***************************************************************************)
ReloadBatch(p, o) ==
    /\ load[p].pc = "batch" /\ Outcome(o)
    /\ IF o # "ok" \/ ~(load[p].ids \subseteq Live) THEN Failed(p)
       ELSE LET good == {i \in load[p].ids : keys[i].fire > 0}
                drops == {i \in good : Dropped(keys[i])}
            IN  /\ load' = [load EXCEPT
                       ![p].pc = "drop", ![p].ids = {},
                       ![p].drops = {Restored(i) : i \in drops},
                       ![p].adds = {Restored(i) : i \in good \ drops}]
                /\ UNCHANGED daemon
    /\ UNCHANGED <<now, exomind, reg, gen, stats, loaded, firing, req, history,
                   crashes, consoles>>

(***************************************************************************)
(* drop_missed: a note, then the key, and neither result is looked at.     *)
(***************************************************************************)
DropNote(p, o) ==
    /\ load[p].pc = "drop" /\ Outcome(o)
    /\ \E t \in load[p].drops :
           /\ Note("missed", t.id, t.fire, o)
           /\ load' = [load EXCEPT ![p].pc = "dropkey", ![p].ids = {t.id},
                                   ![p].drops = @ \ {t}]
           /\ muted' = IF Done(o) THEN muted ELSE muted \cup {t.id}
    /\ UNCHANGED <<now, keys, count, memory, firing, req, promised, accepted, completed,
                   raced, crashes, consoles>>

DropKey(p, o) ==
    /\ load[p].pc = "dropkey" /\ Outcome(o)
    /\ \E i \in load[p].ids : Delete(i, o)
    /\ load' = [load EXCEPT ![p].pc = "drop", ![p].ids = {}]
    /\ UNCHANGED <<now, notes, count, memory, firing, req, history, crashes, consoles>>

(***************************************************************************)
(* reload_add_locked for every timer, in one hold of the lock: nothing is  *)
(* added when a request changed the registry since the reload began, and   *)
(* no timer that is on the list.                                           *)
(***************************************************************************)
ReloadAdd_slip(p) ==  \* the generation is not compared
    /\ load[p].pc = "drop" /\ load[p].drops = {} /\ p = "daemon"
    /\ reg' = [i \in Ids |-> IF reg[i] = <<>>
                             THEN SetToSeq({t \in load[p].adds : t.id = i}) ELSE reg[i]]
    /\ Loaded(p)
    /\ UNCHANGED <<now, exomind, gen, stats, loaded, firing, req, history, bounds>>

ReloadAdd(p) ==
    /\ load[p].pc = "drop" /\ load[p].drops = {}
    /\ \/ /\ p = "daemon" /\ load[p].adds # {} /\ load[p].gen # gen
          /\ Failed(p)
          /\ UNCHANGED reg
       \/ /\ p = "daemon" /\ (load[p].adds = {} \/ load[p].gen = gen)
          /\ reg' = [i \in Ids |->
                        IF reg[i] = <<>>
                        THEN SetToSeq({t \in load[p].adds : t.id = i}) ELSE reg[i]]
          /\ Loaded(p)
       \/ p = "console" /\ Loaded(p) /\ UNCHANGED reg
    /\ UNCHANGED <<now, exomind, gen, stats, loaded, firing, req, history, bounds>>

(***************************************************************************)
(* delivery_load, and what comes behind it in main and in reload_thread.   *)
(***************************************************************************)
LoadCounters(o) ==
    /\ load["daemon"].pc = "stats" /\ Outcome(o)
    /\ stats' = IF loaded \/ o # "ok" THEN stats ELSE count
    /\ loaded' = (loaded \/ o = "ok")
    /\ daemon' = "serving"
    /\ load' = [load EXCEPT !["daemon"] = IF daemon = "late" THEN Starts ELSE Off]
    /\ UNCHANGED <<now, exomind, reg, gen, firing, req, history, crashes, consoles>>

Reload(p) ==
    \/ ReloadBegin(p) \/ ReloadAdd(p)
    \/ \E o \in {"ok", "refused", "lost"} :
           ReloadList(p, o) \/ ReloadBatch(p, o) \/ DropNote(p, o) \/ DropKey(p, o)
Counters == \E o \in {"ok", "refused", "lost"} : LoadCounters(o)

-----------------------------------------------------------------------------
(* Requests of the daemon: route() *)

(***************************************************************************)
(* POST /remind: the key first, then the registry.                         *)
(***************************************************************************)
RemindPersist(i, b, o) ==
    /\ daemon = "serving" /\ req = Idle
    /\ accepted[i] = "no" /\ reg[i] = <<>>
    /\ Accepts(b, now) /\ FirstFire(b, now) <= MaxNow /\ Outcome(o)
    /\ LET t == Timer(i, Parsed(b, now))
       IN  /\ Persist(i, t, o)
           /\ req' = IF o = "ok" THEN [pc |-> "add", t |-> t] ELSE Idle
    /\ accepted' = [accepted EXCEPT ![i] = IF o = "ok" THEN "asked" ELSE "refused"]
    /\ promised' = [promised EXCEPT ![i] = Timer(i, Parsed(b, now))]
    /\ UNCHANGED <<now, notes, count, memory, firing, load, completed, muted, raced,
                   crashes, consoles>>

RemindAdd ==
    /\ req.pc = "add"
    /\ IF reg[req.t.id] = <<>>
       THEN /\ reg' = [reg EXCEPT ![req.t.id] = <<req.t>>]
            /\ gen' = gen + 1
            /\ accepted' = [accepted EXCEPT ![req.t.id] = IF @ = "asked" THEN "yes" ELSE @]
            /\ req' = Idle
       ELSE /\ req' = [pc |-> "undo", t |-> req.t]
            /\ accepted' = [accepted EXCEPT ![req.t.id] = "refused"]
            /\ UNCHANGED <<reg, gen>>
    /\ UNCHANGED <<now, exomind, daemon, stats, loaded, firing, load, promised, completed,
                   muted, raced, bounds>>

(***************************************************************************)
(* DELETE /timer: the registry first, then the key; the answer is ok       *)
(* whatever became of the key.  `sole` remembers that there was no other   *)
(* copy of the timer.                                                      *)
(***************************************************************************)
CancelRemove(i) ==
    /\ daemon = "serving" /\ req = Idle
    /\ reg[i] # <<>>
    /\ reg' = [reg EXCEPT ![i] = Tail(@)]
    /\ gen' = gen + 1
    /\ req' = [pc |-> "del", t |-> Head(reg[i])]
    /\ accepted' = [accepted EXCEPT ![i] = IF Copies(i) = 1 THEN "cancelling" ELSE "unclear"]
    /\ UNCHANGED <<now, exomind, daemon, stats, loaded, firing, load, promised, completed,
                   muted, raced, bounds>>

DeleteKey(o) ==
    /\ req.pc \in {"del", "undo"} /\ Outcome(o)
    /\ Delete(req.t.id, o)
    /\ req' = Idle
    /\ accepted' = [accepted EXCEPT ![req.t.id] =
                       IF @ # "cancelling" THEN @
                       ELSE IF Done(o) THEN "cancelled" ELSE "unclear"]
    /\ UNCHANGED <<now, notes, count, memory, firing, load, promised, completed,
                   muted, raced, crashes, consoles>>

Serve ==
    \/ \E i \in Ids, o \in {"ok", "refused", "lost"}, b \in Bodies : RemindPersist(i, b, o)
    \/ RemindAdd
    \/ \E i \in Ids : CancelRemove(i)
    \/ \E o \in {"ok", "refused", "lost"} : DeleteKey(o)

-----------------------------------------------------------------------------
(* Console commands, the daemon's life, time *)

ConsoleStart ==
    /\ load["console"] = Off /\ consoles < MaxConsole
    /\ consoles' = consoles + 1
    /\ load' = [load EXCEPT !["console"] = Starts]
    /\ UNCHANGED <<now, exomind, memory, firing, req, history, faults, crashes>>

(***************************************************************************)
(* `exosched /timers` prints and exits; `exosched /timer?id=` cancels in   *)
(* its own registry and deletes the key: the daemon is not told.           *)
(***************************************************************************)
ConsoleList ==
    /\ load["console"].pc = "op"
    /\ load' = [load EXCEPT !["console"] = Off]
    /\ UNCHANGED <<now, exomind, memory, firing, req, history, bounds>>

ConsoleCancel(o) ==
    /\ load["console"].pc = "op" /\ Outcome(o)
    /\ \E t \in load["console"].adds :
           /\ Delete(t.id, o)
           /\ accepted' = [accepted EXCEPT ![t.id] = "unclear"]
    /\ load' = [load EXCEPT !["console"] = Off]
    /\ UNCHANGED <<now, notes, count, memory, firing, req, promised, completed, muted, raced,
                   crashes, consoles>>

Console == ConsoleStart \/ ConsoleList \/ \E o \in {"ok", "refused", "lost"} : ConsoleCancel(o)

Start ==
    /\ daemon = "down"
    /\ daemon' = "loading"
    /\ load' = [load EXCEPT !["daemon"] = Starts]
    /\ UNCHANGED <<now, exomind, reg, gen, stats, loaded, firing, req, history, bounds>>

Crash ==
    /\ daemon # "down" /\ crashes < MaxCrashes
    /\ crashes' = crashes + 1
    /\ daemon' = "down"
    /\ reg' = [i \in Ids |-> <<>>]
    /\ gen' = 0 /\ stats' = 0 /\ loaded' = FALSE
    /\ firing' = Idle /\ req' = Idle
    /\ load' = [load EXCEPT !["daemon"] = Off]
    /\ accepted' = [i \in Ids |-> IF accepted[i] \in {"asked", "cancelling"}
                                  THEN "unclear" ELSE accepted[i]]
    /\ UNCHANGED <<now, exomind, promised, completed, muted, raced, faults, consoles>>

Tick ==
    /\ now < MaxNow
    /\ now' = now + 1
    /\ UNCHANGED <<exomind, memory, firing, load, req, history, bounds>>

Next ==
    \/ Take \/ Fire
    \/ \E p \in {"daemon", "console"} : Reload(p)
    \/ Counters
    \/ Serve
    \/ Console \/ Start \/ Crash \/ Tick

Spec == Init /\ [][Next]_vars

(***************************************************************************)
(* The timer thread and the thread that loads run as long as the daemon    *)
(* does, and wait for nothing but the clock and replies, which have a      *)
(* timeout.                                                                *)
(***************************************************************************)
FairSpec ==
    /\ Spec
    /\ WF_vars(Take) /\ WF_vars(Fire) /\ WF_vars(Tick)
    /\ WF_vars(Reload("daemon")) /\ WF_vars(Counters)

-----------------------------------------------------------------------------
(* Properties *)

(***************************************************************************)
(* A timer whose only copy a cancel took, and whose key the cancel deleted,*)
(* never comes back: "a timer cancelled (or added) while we were reading   *)
(* cannot be resurrected" (timers.c:544).                                  *)
(***************************************************************************)
Gone(i) == Copies(i) = 0 /\ keys[i] = NoKey
CancelSticks == \A i \in Ids : accepted[i] = "cancelled" => Gone(i)

(***************************************************************************)
(* The same, but for a reload that begins between the two halves of the    *)
(* cancel: the generation was counted up before the key was deleted.       *)
(***************************************************************************)
UnracedCancelSticks ==
    \A i \in Ids : accepted[i] = "cancelled" => Gone(i) \/ i \in raced

(***************************************************************************)
(* A reminder that was answered ok is never forgotten: the daemon holds it,*)
(* its key is there (it lapses only Slack after the fire, while the daemon *)
(* was down), or the note feed says that it fired for the last time or was *)
(* missed.                                                                 *)
(***************************************************************************)
Kept(i) ==
    \/ Copies(i) > 0
    \/ keys[i] # NoKey
    \/ \E n \in notes : n.id = i /\ n.kind \in {"last", "missed"}
NeverForgotten == \A i \in Ids : accepted[i] = "yes" => Kept(i) \/ i \in muted

(***************************************************************************)
(* Retries, catching up and restarts never move a recurring timer off its  *)
(* grid or past its `until`.                                               *)
(***************************************************************************)
FiresOnGrid ==
    \A n \in notes :
        LET t == promised[n.id]
        IN  /\ n.fire >= t.fire
            /\ t.repeat = 0 => n.fire = t.fire
            /\ t.repeat > 0 => (n.fire - t.fire) % t.repeat = 0
            /\ t.until > 0 => n.fire <= t.until

(***************************************************************************)
(* Every fire whose bookkeeping is complete is in the durable counter: no  *)
(* restart, failed load or lost reply sets the counter back.               *)
(***************************************************************************)
EveryFireCounted == Cardinality(completed) <= count

(***************************************************************************)
(* A timer the daemon holds (and that is due before the clock's bound) is  *)
(* reported in the note feed, however many calls of exomind fail in        *)
(* between, unless it is cancelled or the daemon is killed.                *)
(***************************************************************************)
FiresEventually ==
    \A i \in Ids :
        (\E t \in Listed : t.id = i /\ Due(t) <= MaxNow) ~>
                         \/ \E n \in notes : n.id = i
                         \/ Copies(i) = 0 /\ accepted[i] # "yes"
                         \/ daemon = "down"

=============================================================================
