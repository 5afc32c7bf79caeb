-------------------------------- MODULE Qms --------------------------------
(***************************************************************************)
(* exoqms (src/exoqms/src): objectives, non-conformities (NCs) and audits. *)
(* Each is one key of exomind and one entry of a registry in memory that   *)
(* the requests read; the detection registry, one key issue:<check> per    *)
(* check, is in exomind only.  Connection threads hold the registry's lock *)
(* while they read or change it and never while they store to exomind, so  *)
(* that requests on one record interleave between the check of a           *)
(* transition, its storing and its commit.  The reload at the start, which *)
(* goes on in the background when exomind is down, builds a registry of    *)
(* its own and then puts it in the place of the other one.                 *)
(*                                                                         *)
(* Any call of exomind may be refused, or done while its reply is lost.    *)
(***************************************************************************)
EXTENDS Checks, FiniteSets, SequencesExt

CONSTANTS
    ObjIds, NcIds, AuditIds,  \* ids that are made up
    Threads,
    NoId,
    Scenarios                 \* what a behaviour explores, see Scenario

Ids == ObjIds \cup NcIds \cup AuditIds
Statuses == {"open", "analysis", "corrective", "verify", "closed"}

VARIABLES
    disk,       \* exomind: the record under each id
    issues,     \* exomind: the detection registry
    rework,     \* exomind: metric:velocity, exoqms:last_fails, the history
    trail,      \* exomind: the notes on records, <<id, from, to>>
    mem,        \* the registry in memory, a sequence of records
    serving,    \* the daemon listens
    loader,     \* its reload
    th,         \* its connection threads
    doubtful,   \* history: ids and checks a lost reply, a failed read, a
                \* reload or a second request left in doubt
    changes,    \* history: the statuses exomind was given, <<id, from, to>>
    untold,     \* history: those whose note failed, <<id, to>>, or that ended
                \* with a lost reply or a restart before it
    scenario, troubles, requests  \* bounds

exomind == <<disk, issues, rework, trail>>
history == <<doubtful, changes, untold>>
bounds == <<scenario, troubles, requests>>
vars == <<exomind, mem, serving, loader, th, history, bounds>>

-----------------------------------------------------------------------------
(* Records *)

(***************************************************************************)
(* An NC has its status, whether corrective action and evidence are        *)
(* filled; an audit its findings and its place among the audits by time.   *)
(***************************************************************************)
NoRecord == [id |-> NoId, st |-> "none", ca |-> FALSE, ev |-> FALSE,
             findings |-> <<>>, at |-> 0]
NewRecord(i) == [NoRecord EXCEPT !.id = i, !.st = IF i \in NcIds THEN "open" ELSE "kept"]
Saved == {i \in Ids : disk[i] # NoRecord}
Audits == {disk[i] : i \in AuditIds \cap Saved}

Find(i) ==  \* nc_find: the first of the registry, 0 if there is none
    LET P == {k \in DOMAIN mem : mem[k].id = i}
    IN  IF P = {} THEN 0 ELSE CHOOSE k \in P : \A l \in P : k <= l

Before == [analyse |-> "open", correct |-> "analysis", verify |-> "corrective"]
After == [analyse |-> "analysis", correct |-> "corrective", verify |-> "verify", close |-> "closed"]

(***************************************************************************)
(* The transition of record r by action a; ca and ev: what the body of a   *)
(* close fills in.                                                         *)
(***************************************************************************)
AllowedOnEither(r, a, ca, ev) ==
    IF a = "close" THEN r.st = "verify" \/ ca \/ ev ELSE r.st = Before[a] /\ ~ca /\ ~ev
AllowedUnlessClosed(r, a, ca, ev) ==
    IF a = "close" THEN r.st = "verify" \/ (ca /\ ev) ELSE r.st # "closed" /\ ~ca /\ ~ev
Allowed(r, a, ca, ev) ==
    IF a = "close" THEN r.st = "verify" \/ (ca /\ ev) ELSE r.st = Before[a] /\ ~ca /\ ~ev
Moved(r, a, ca, ev) ==
    [r EXCEPT !.st = After[a], !.ca = @ \/ ca, !.ev = @ \/ ev]

(***************************************************************************)
(* What a behaviour explores: the ids requests create, those there from    *)
(* the start, the actions on NCs, the checks of its audits; bounds: the    *)
(* number of requests at a time, of troubles, which are failed calls and   *)
(* restarts, and of requests.                                              *)
(***************************************************************************)
Scenario(new, old, acts, program, k, n, m) ==
    [new |-> new, old |-> old, acts |-> acts, program |-> program,
     threads |-> k, troubles |-> n, requests |-> m]

-----------------------------------------------------------------------------
Idle == [pc |-> "idle", act |-> "none", rec |-> NoRecord, from |-> "none",
         todo |-> <<>>, scan |-> NoScan, found |-> <<>>, old |-> NoIssue, seen |-> {}]
Unloaded == [on |-> FALSE, kinds |-> <<>>, ids |-> {}, fresh |-> <<>>]
FirstLoad == [Unloaded EXCEPT !.on = TRUE, !.kinds = <<ObjIds, NcIds, AuditIds>>]

Init ==
    /\ scenario \in Scenarios
    /\ disk = [i \in Ids |-> IF i \in scenario.old THEN NewRecord(i) ELSE NoRecord]
    /\ issues = [c \in Range(scenario.program) |-> NoIssue]
    /\ rework = [cycles |-> 0, fails |-> {}, again |-> 0]
    /\ trail = {}
    /\ mem = <<>>
    /\ serving = FALSE
    /\ loader = FirstLoad
    /\ th = [t \in Threads |-> Idle]
    /\ doubtful = {} /\ changes = {} /\ untold = {}
    /\ troubles = scenario.troubles
    /\ requests = scenario.requests

(***************************************************************************)
(* How a call of exomind ends: answered; refused, or not reached; or done  *)
(* while its reply is lost in the three seconds a client waits.            *)
(***************************************************************************)
Outcomes3 == IF troubles > 0 THEN {"ok", "refused", "lost"} ELSE {"ok"}
Outcome(o) == o \in Outcomes3 /\ troubles' = troubles - (IF o = "ok" THEN 0 ELSE 1)
Done(o) == o # "refused"

Same(t, l) == th' = [th EXCEPT ![t] = l]
Doubt(S) == doubtful' = doubtful \cup S

-----------------------------------------------------------------------------
(* The reload *)

Loading == loader.on

(***************************************************************************)
(* exo_list of the next prefix; when it fails, the reload starts over, at  *)
(* most ten times before the daemon serves and leaves it to reload_thread. *)
(***************************************************************************)
List(o) ==
    /\ loader.kinds # <<>> /\ loader.ids = {}
    /\ Outcome(o)
    /\ IF o = "ok"
       THEN /\ loader' = [loader EXCEPT !.kinds = Tail(@), !.ids = Head(loader.kinds) \cap Saved]
            /\ UNCHANGED serving
       ELSE /\ loader' = FirstLoad
            /\ serving' \in {serving, TRUE}
    /\ UNCHANGED <<exomind, mem, th, history, scenario, requests>>

(* exo_get of one key: a key that cannot be read is left out *)
Load(o) ==
    /\ loader.ids # {}
    /\ Outcome(o)
    /\ \E i \in loader.ids :
         /\ loader' = [loader EXCEPT
                         !.ids = @ \ {i},
                         !.fresh = IF o = "ok" THEN Append(@, disk[i]) ELSE @]
         /\ Doubt(IF o = "ok" THEN {} ELSE {i})
    /\ UNCHANGED <<exomind, mem, serving, th, changes, untold, scenario, requests>>

(* the registry is replaced, whatever requests added to the old one *)
Swap ==
    /\ Loading /\ loader.kinds = <<>> /\ loader.ids = {}
    /\ mem' = loader.fresh
    /\ loader' = Unloaded
    /\ serving' = TRUE
    /\ UNCHANGED <<exomind, th, history, bounds>>

-----------------------------------------------------------------------------
(* Requests *)

Handling(i) == {t \in Threads : th[t].rec.id = i}
Raced(t, i) == Loading \/ Handling(i) \ {t} # {}

Begin(t, l) ==
    /\ serving /\ th[t] = Idle /\ requests > 0
    /\ Cardinality({u \in Threads : th[u] # Idle}) < scenario.threads
    /\ requests' = requests - 1
    /\ Same(t, l)
    /\ UNCHANGED <<exomind, mem, serving, loader, changes, untold, scenario, troubles>>

(* make_id: one that nobody has, it does not matter which *)
Fresh(S) == {i \in S \ Saved : Handling(i) = {}}
MakeId(S, i) == Fresh(S) # {} /\ i = CHOOSE j \in Fresh(S) : TRUE

(* obj_create, nc_create *)
Create(t) ==
    \E i \in scenario.new \ AuditIds :
        /\ MakeId(scenario.new \ AuditIds, i)
        /\ Begin(t, [Idle EXCEPT !.pc = "save", !.act = "create", !.rec = NewRecord(i)])
        /\ Doubt(IF Loading THEN {i} ELSE {})

(***************************************************************************)
(* nc_transition up to the end of its first critical section; a transition *)
(* that is not allowed, or of an NC the registry does not have, is         *)
(* answered with an error and changes nothing.                             *)
(***************************************************************************)
Transition(t) ==
    \E i \in NcIds, a \in scenario.acts, ca, ev \in BOOLEAN :
        /\ Find(i) # 0
        /\ LET r == mem[Find(i)] IN
             /\ Allowed(r, a, ca, ev)
             /\ Begin(t, [Idle EXCEPT !.pc = "save", !.act = a, !.from = r.st,
                                      !.rec = Moved(r, a, ca, ev)])
        /\ Doubt(IF Raced(t, i) THEN {i} ELSE {})

(* route, POST /audit *)
Audit(t) ==
    \E i \in scenario.new \cap AuditIds :
        /\ MakeId(scenario.new \cap AuditIds, i)
        /\ Begin(t, [Idle EXCEPT !.pc = "check", !.act = "audit", !.rec = NewRecord(i),
                                 !.todo = scenario.program])
        /\ LET other == \E u \in Threads : th[u].act = "audit" IN
             Doubt((IF other THEN DOMAIN issues ELSE {})
                   \cup (IF Loading THEN {i} ELSE {}))

-----------------------------------------------------------------------------
(* An audit *)

Found(t, c, r) == [th[t] EXCEPT !.todo = Tail(@), !.found = Append(@, <<c, r>>)]
NextCheck(t, c) == th[t].pc = "check" /\ th[t].todo # <<>> /\ c = Head(th[t].todo)
CheckOnly == <<disk, issues, trail, mem, serving, loader, history, scenario, requests>>

(* check_run: a check whose evidence is outside exoqms *)
CheckOutside(t) ==
    \E c \in DOMAIN Outcomes :
        /\ NextCheck(t, c)
        /\ \E r \in Outcomes[c] : Same(t, Found(t, c, r))
        /\ UNCHANGED <<CheckOnly, rework, troubles>>

(***************************************************************************)
(* debt, hygiene and secrets share a scan; only debt has a threshold, here *)
(* of one finding.                                                         *)
(***************************************************************************)
ScanChecks == {"debt", "hygiene", "secrets"}
Threshold(c) == IF c = "debt" THEN 1 ELSE 0
CheckScan(t) ==
    \E c \in ScanChecks, enabled \in BOOLEAN, how \in Scans, found \in 0..1 :
        /\ NextCheck(t, c)
        /\ LET before == th[t].scan
               scan == IF enabled THEN Scanned(before, how, found) ELSE before
               r == ScanResult(enabled, before, scan, Threshold(c))
           IN  Same(t, [Found(t, c, r) EXCEPT !.scan = scan])
        /\ UNCHANGED <<CheckOnly, rework, troubles>>

(***************************************************************************)
(* check_rework: over the audits exomind has, this one not yet among them; *)
(* an audit that cannot be read (o is "lost") is left out.                 *)
(***************************************************************************)
MaxRate == 100
Sum(A) == FoldSet(LAMBDA c, n : n + Cycles(A, c), 0, DOMAIN issues)
CheckRework(t, o) ==
    /\ NextCheck(t, "rework")
    /\ Outcome(o)
    /\ \E A \in {Audits} \cup {Audits \ {a} : a \in Audits} :
         /\ A # Audits <=> o = "lost"
         /\ LET n == Cardinality(A)
                rate == IF n = 0 THEN 0 ELSE (Sum(A) * 1000) \div n
            IN  /\ Same(t, Found(t, "rework", Rework(o # "refused", n, rate, MaxRate)))
                /\ rework' = IF o = "refused" \/ n = 0 THEN rework
                             ELSE [rework EXCEPT !.cycles = Sum(A)]
    /\ UNCHANGED <<CheckOnly>>

(* an issue that cannot be read (o is "lost") is left out *)
CheckIssues(t, o) ==
    /\ NextCheck(t, "issue-tracking")
    /\ Outcome(o)
    /\ \E C \in SUBSET DOMAIN issues :
         /\ Cardinality(DOMAIN issues \ C) = (IF o = "lost" THEN 1 ELSE 0)
         /\ Same(t, Found(t, "issue-tracking",
                          IssueTracking(o # "refused", {issues[c] : c \in C})))
    /\ UNCHANGED <<CheckOnly, rework>>

(***************************************************************************)
(* issue_register of the findings one by one: the entry is read, then      *)
(* written, with nothing to keep another audit out; an entry that cannot   *)
(* be read is taken for one that is not there.                             *)
(***************************************************************************)
Finding(t) == th[t].found[Len(th[t].rec.findings) + 1]
Registering(t) ==
    th[t].pc = "check" /\ th[t].todo = <<>> /\ Len(th[t].rec.findings) < Len(th[t].found)
Recorded(t) == [th[t] EXCEPT !.rec.findings = Append(@, Finding(t)), !.pc = "check"]

IssueGet(t, o) ==
    /\ Registering(t)
    /\ Outcome(o)
    /\ LET c == Finding(t)[1]
           old == IF o = "ok" THEN issues[c] ELSE NoIssue
       IN  /\ IF Finding(t)[2] # "fail" /\ old = NoIssue
              THEN Same(t, Recorded(t))
              ELSE Same(t, [th[t] EXCEPT !.pc = "issue", !.old = old])
           /\ Doubt(IF o = "ok" THEN {} ELSE {c})
    /\ UNCHANGED <<exomind, mem, serving, loader, changes, untold, scenario, requests>>

IssueSet(t, o) ==
    /\ th[t].pc = "issue"
    /\ Outcome(o)
    /\ LET c == Finding(t)[1]
           new == Registered(th[t].old, Finding(t)[2] = "fail")
       IN  /\ issues' = IF Done(o) THEN [issues EXCEPT ![c] = new] ELSE issues
           /\ Doubt(IF o = "ok" THEN {} ELSE {c})
    /\ Same(t, Recorded(t))
    /\ UNCHANGED <<disk, rework, trail, mem, serving, loader, changes, untold,
                   scenario, requests>>

Collected(t) ==
    /\ th[t].pc = "check" /\ th[t].todo = <<>>
    /\ Len(th[t].rec.findings) = Len(th[t].found)

-----------------------------------------------------------------------------
(* Storing, then memory, then the note *)

AlwaysCommitted(t, o, r) == [th[t] EXCEPT !.pc = "commit", !.rec = r]
Stored(t, o, r) == IF o = "ok" THEN [th[t] EXCEPT !.pc = "commit", !.rec = r] ELSE Idle

(***************************************************************************)
(* exo_persist; when it fails the request is answered with an error, also  *)
(* when only the reply was lost.                                           *)
(***************************************************************************)
Save(t, o) ==
    /\ th[t].pc = "save" \/ Collected(t)
    /\ Outcome(o)
    /\ LET i == th[t].rec.id
           r == IF i \in AuditIds
                THEN [th[t].rec EXCEPT !.at = Cardinality(AuditIds \cap Saved) + 1]
                ELSE th[t].rec
       IN  /\ disk' = IF Done(o) THEN [disk EXCEPT ![i] = r] ELSE disk
           /\ changes' = IF Done(o) THEN changes \cup {<<i, disk[i].st, r.st>>} ELSE changes
           /\ untold' = IF o = "lost" THEN untold \cup {<<i, r.st>>} ELSE untold
           /\ Same(t, Stored(t, o, r))
           /\ Doubt(IF o = "lost" \/ Raced(t, i) THEN {i} ELSE {})
    /\ UNCHANGED <<issues, rework, trail, mem, serving, loader, scenario, requests>>

CommittedSilently(t, k) ==
    IF th[t].act = "create" \/ k = 0 THEN [th[t] EXCEPT !.pc = "note"] ELSE Idle
Committed(t, k) ==
    [th[t] EXCEPT !.pc = "note",
                  !.from = IF th[t].act \in DOMAIN After /\ k # 0 THEN th[t].rec.st ELSE @]

(***************************************************************************)
(* A new record is appended, a transition changes the record found now;    *)
(* the status the note calls the old one is read through a pointer into    *)
(* that record, and so is the new one already.                             *)
(***************************************************************************)
Commit(t) ==
    /\ th[t].pc = "commit"
    /\ LET i == th[t].rec.id
           k == Find(i)
       IN  /\ mem' = IF th[t].act \in DOMAIN After
                     THEN IF k = 0 THEN mem ELSE [mem EXCEPT ![k] = th[t].rec]
                     ELSE Append(mem, th[t].rec)
           /\ Same(t, Committed(t, k))
           /\ Doubt(IF Raced(t, i) THEN {i} ELSE {})
    /\ UNCHANGED <<exomind, serving, loader, changes, untold, bounds>>

(* exo_note; a failure is printed *)
Note(t, o) ==
    /\ th[t].pc = "note"
    /\ Outcome(o)
    /\ LET r == th[t].rec
       IN  /\ trail' = IF Done(o) THEN trail \cup {<<r.id, th[t].from, r.st>>} ELSE trail
           /\ untold' = IF Done(o) THEN untold ELSE untold \cup {<<r.id, r.st>>}
    /\ Same(t, IF th[t].act = "audit" THEN [th[t] EXCEPT !.pc = "fails"] ELSE Idle)
    /\ UNCHANGED <<disk, issues, rework, mem, serving, loader, doubtful, changes,
                   scenario, requests>>

-----------------------------------------------------------------------------
(* The fails of this audit and those of the last one *)

Fails(t) == {f[1] : f \in {g \in Range(th[t].found) : g[2] = "fail"}}

LastFails(t, o) ==
    /\ th[t].pc = "fails"
    /\ Outcome(o)
    /\ Same(t, [th[t] EXCEPT !.pc = "store fails",
                             !.seen = IF o = "ok" THEN rework.fails \cap Fails(t) ELSE {}])
    /\ UNCHANGED <<exomind, mem, serving, loader, history, scenario, requests>>

StoreFails(t, o) ==
    /\ th[t].pc = "store fails"
    /\ Outcome(o)
    /\ rework' = IF Done(o) THEN [rework EXCEPT !.fails = Fails(t)] ELSE rework
    /\ Same(t, [th[t] EXCEPT !.pc = "history"])
    /\ UNCHANGED <<disk, issues, trail, mem, serving, loader, history, scenario, requests>>

(* metric:exoqms:rework:last, and the same number appended to the history *)
StoreRework(t, o) ==
    /\ th[t].pc = "history"
    /\ Outcome(o)
    /\ rework' = IF Done(o) THEN [rework EXCEPT !.again = Cardinality(th[t].seen)] ELSE rework
    /\ Same(t, Idle)
    /\ UNCHANGED <<disk, issues, trail, mem, serving, loader, history, scenario, requests>>

-----------------------------------------------------------------------------
(* The daemon is killed and started again *)
Restart ==
    /\ troubles > 0
    /\ troubles' = troubles - 1
    /\ mem' = <<>> /\ serving' = FALSE /\ loader' = FirstLoad
    /\ th' = [t \in Threads |-> Idle]
    /\ Doubt({th[t].rec.id : t \in {u \in Threads : th[u] # Idle}})
    /\ untold' = untold \cup {<<th[t].rec.id, th[t].rec.st>> :
                              t \in {u \in Threads : th[u].pc \in {"commit", "note"}}}
    /\ UNCHANGED <<exomind, changes, scenario, requests>>

Step(t) ==
    \/ Create(t) \/ Transition(t) \/ Audit(t)
    \/ CheckOutside(t) \/ CheckScan(t)
    \/ Commit(t)
    \/ \E o \in {"ok", "refused", "lost"} :
         \/ CheckRework(t, o) \/ CheckIssues(t, o)
         \/ IssueGet(t, o) \/ IssueSet(t, o)
         \/ Save(t, o) \/ Note(t, o)
         \/ LastFails(t, o) \/ StoreFails(t, o) \/ StoreRework(t, o)

Next ==
    \/ \E o \in {"ok", "refused", "lost"} : List(o) \/ Load(o)
    \/ Swap
    \/ \E t \in Threads : Step(t)
    \/ Restart

Spec == Init /\ [][Next]_vars

-----------------------------------------------------------------------------
(* Properties *)

(***************************************************************************)
(* nc_transition: the durable status of an NC takes only the steps of its  *)
(* lifecycle, open, analysis, corrective, verify, closed, or is closed     *)
(* with corrective action and evidence; unless a second request on the NC, *)
(* a reload or a lost reply came between the check of the transition and   *)
(* its storing.                                                            *)
(***************************************************************************)
Lifecycle(r, s) ==
    \/ \E a \in DOMAIN Before : r.st = Before[a] /\ s.st = After[a]
    \/ s.st = "closed" /\ (r.st = "verify" \/ (s.ca /\ s.ev))
LifecycleStep ==
    \A i \in NcIds \ doubtful' :
        disk[i] # NoRecord /\ disk'[i] # disk[i] => Lifecycle(disk[i], disk'[i])
UnracedLifecycle == [][LifecycleStep]_vars

(***************************************************************************)
(* nc_transition: an NC is never closed without corrective action and      *)
(* evidence unless it has been in status verify; not even when requests    *)
(* on it overlap, as the record a request stores is one it found in the    *)
(* registry and the transition it checked on that.                         *)
(***************************************************************************)
Verified == {c[1] : c \in {d \in changes : d[3] = "verify"}}
ClosedHasEvidence ==
    \A i \in NcIds :
        disk[i].st = "closed" => (disk[i].ca /\ disk[i].ev) \/ i \in Verified

(***************************************************************************)
(* The two-step writes of obj_create, nc_create, nc_transition, audit_save *)
(* and the reload: while no request is at work on a record and none was in *)
(* doubt, the registry has it once and as it is in exomind, or neither     *)
(* has it.                                                                 *)
(***************************************************************************)
QuietAgreement ==
    serving /\ ~Loading =>
        \A i \in Ids \ doubtful :
            Handling(i) = {} =>
                {k \in DOMAIN mem : mem[k] = disk[i]} = {k \in DOMAIN mem : mem[k].id = i}
                /\ Cardinality({k \in DOMAIN mem : mem[k].id = i})
                       = (IF i \in Saved THEN 1 ELSE 0)

(***************************************************************************)
(* standard.md 142-144, README 158-159, 260-262: every change of status is *)
(* in the note feed, with the status before and the one after.  The note   *)
(* of a transition is written when the record in the registry has the new  *)
(* status, and calls that the old one too (nc_transition): also where no   *)
(* note failed and no request was ended before it.                         *)
(***************************************************************************)
TrailExact ==
    \A c \in changes : Handling(c[1]) = {} => c \in trail \/ <<c[1], c[3]>> \in untold

(***************************************************************************)
(* README 260-262: the trail is complete by construction, so that a        *)
(* request that stored its change and goes on to its answer has the note   *)
(* of it in the feed.  A note that fails is only logged (nc_transition,    *)
(* route).                                                                 *)
(***************************************************************************)
NotedStep ==
    \A t \in Threads :
        th[t].pc = "note" /\ th'[t].pc # "note" /\ serving' =>
            \E n \in trail' : n[1] = th[t].rec.id /\ n[3] = th[t].rec.st
AnsweredIsNoted == [][NotedStep]_vars

(***************************************************************************)
(* What is left of both: every status an NC, an objective or an audit was  *)
(* ever given in exomind, the latest and all before, is named by a note on *)
(* it or will be, by the request that stored it: also when requests on it  *)
(* overlap, or a reload takes it out of the registry between its storing   *)
(* and its note.  Left out are the changes whose note failed, whose store  *)
(* had its reply lost, and whose request a restart ended.                  *)
(***************************************************************************)
Told(c) == \E n \in trail : n[1] = c[1] /\ n[3] = c[3]
Teller(t, c) == th[t].pc \in {"commit", "note"} /\ th[t].rec.id = c[1] /\ th[t].rec.st = c[3]
TrailComplete ==
    \A c \in changes :
        Told(c) \/ (\E t \in Threads : Teller(t, c)) \/ <<c[1], c[3]>> \in untold

(***************************************************************************)
(* issue_register and check_rework count the same thing from two records:  *)
(* a check that failed again after it had passed was reopened.  For checks *)
(* of audits that did not overlap and whose entries could be read and      *)
(* written, the registry has at least the cycles the audits show; it may   *)
(* have more, as a skip closes an issue, and an audit whose record could   *)
(* not be stored has registered its findings.                              *)
(***************************************************************************)
ReopensCoverRework ==
    \A c \in DOMAIN issues \ doubtful : Cycles(Audits, c) <= issues[c].reopens

-----------------------------------------------------------------------------
(***************************************************************************)
(* The inductive invariant.                                                *)
(***************************************************************************)
CheckNames == DOMAIN Outcomes \cup ScanChecks \cup {"rework", "issue-tracking"}
CheckFinding == CheckNames \X Results
Kept == [id : Ids, st : Statuses \cup {"kept"}, ca : BOOLEAN, ev : BOOLEAN,
         findings : Seq(CheckFinding), at : Nat]
Making == {"create", "audit"}
Telling == {"note", "fails", "store fails", "history"}

ThreadTypeOK(l) ==
    /\ DOMAIN l = {"pc", "act", "rec", "from", "todo", "scan", "found", "old", "seen"}
    /\ l.pc \in {"idle", "check", "issue", "save", "commit"} \cup Telling
    /\ l.act \in {"none"} \cup Making \cup DOMAIN After
    /\ l.rec \in Kept \cup {NoRecord}
    /\ l.found \in Seq(CheckFinding)

TypeOK ==
    /\ scenario \in Scenarios
    /\ disk \in [Ids -> Kept \cup {NoRecord}]
    /\ mem \in Seq(Kept)
    /\ loader \in [on : BOOLEAN, ids : SUBSET Ids, fresh : Seq(Kept),
                   kinds : {<<ObjIds, NcIds, AuditIds>>, <<NcIds, AuditIds>>,
                            <<AuditIds>>, <<>>}]
    /\ DOMAIN th = Threads /\ \A t \in Threads : ThreadTypeOK(th[t])

(* the ids the reload has still to read, and what a thread is at *)
Unread == loader.ids \cup UNION Range(loader.kinds)

ThreadShape(l) ==
    /\ l.rec = NoRecord <=> l.pc = "idle"
    /\ l.pc \in {"check", "issue", "fails", "store fails", "history"} => l.act = "audit"
    /\ l.pc = "issue" => Len(l.rec.findings) < Len(l.found)
    /\ l.pc # "idle" => l.act # "none"
    /\ l.act \in DOMAIN After => l.pc \in {"save", "commit", "note"} /\ l.rec.id \in NcIds

Shape ==
    /\ \A i \in Saved : disk[i].id = i
    /\ ~Loading => serving /\ loader.kinds = <<>> /\ loader.ids = {}
    /\ loader.ids \subseteq Saved /\ loader.ids \cap UNION Range(loader.kinds) = {}
    /\ \A t \in Threads : ThreadShape(th[t])

(* a closed NC has its evidence, one to be verified is known, wherever a record of it is *)
Sound(r) == r.id \in NcIds /\ r.st = "closed" => (r.ca /\ r.ev) \/ r.id \in Verified
Known(r) == r.id \in NcIds /\ r.st = "verify" => r.id \in Verified

Evidence ==
    /\ \A i \in Ids : Sound(disk[i]) /\ Known(disk[i])
    /\ \A k \in DOMAIN mem : Sound(mem[k]) /\ Known(mem[k])
    /\ \A k \in DOMAIN loader.fresh : Sound(loader.fresh[k]) /\ Known(loader.fresh[k])
    /\ \A t \in Threads : Sound(th[t].rec) /\ (th[t].pc = "commit" => Known(th[t].rec))

(* a registry has no record with the id, or one; that of exomind *)
Lacks(s, i) == \A k \in DOMAIN s : s[k].id # i
HasOnly(s, i, r) == \E k \in DOMAIN s : s[k] = r /\ \A l \in DOMAIN s : s[l].id = i <=> l = k
Mirrors(s, i) == IF i \in Saved THEN HasOnly(s, i, disk[i]) ELSE Lacks(s, i)

(* how far thread t is with record i *)
Stage(t, i) ==
    /\ th[t].pc \in {"check", "issue", "save"} /\ th[t].act \in Making =>
         i \notin Saved /\ Lacks(mem, i)
    /\ th[t].pc = "save" /\ th[t].act \in DOMAIN After =>
         /\ i \in Saved /\ HasOnly(mem, i, disk[i])
         /\ Lifecycle(disk[i], th[t].rec)
    /\ th[t].pc \in {"commit", "note"} => disk[i] = th[t].rec
    /\ th[t].pc = "commit" /\ th[t].act \in Making => Lacks(mem, i)
    /\ th[t].pc = "commit" /\ th[t].act \in DOMAIN After => \E k \in DOMAIN mem : HasOnly(mem, i, mem[k])
    /\ th[t].pc \in Telling => i \in Saved /\ HasOnly(mem, i, disk[i])

Settled ==
    \A i \in Ids \ doubtful :
        /\ Loading =>
            /\ Handling(i) = {}
            /\ IF i \in Unread THEN Lacks(loader.fresh, i) ELSE Mirrors(loader.fresh, i)
        /\ ~Loading =>
            /\ Handling(i) = {} => Mirrors(mem, i)
            /\ \A t \in Handling(i) : Handling(i) = {t} /\ Stage(t, i)

Inv == TypeOK /\ Shape /\ Evidence /\ Settled

(***************************************************************************)
(* That of ReopensCoverRework: an issue has the cycles of the audits in    *)
(* exomind, and also with what the audit that is being registered adds;    *)
(* and while it is not closed, one more, if the next fail makes a cycle.   *)
(***************************************************************************)
Auditing == {t \in Threads : th[t].pc \in {"check", "issue"}}
Coming(t) == [th[t].rec EXCEPT !.at = Cardinality(AuditIds \cap Saved) + 1]

Covers(issue, A, c) ==
    LET F == Places(A, c, "fail")
        more == IF Mended(F, Places(A, c, "pass")) /\ issue.st # "closed" THEN 1 ELSE 0
    IN  /\ IsFiniteSet(F) /\ issue \in Issue
        /\ F # {} => issue.st # "none"
        /\ Cycles(A, c) + more <= issue.reopens

Counted ==
    /\ \A i \in AuditIds \cap Saved : disk[i].at \in 0..Cardinality(AuditIds \cap Saved)
    /\ \A t \in Threads : th[t].pc = "save" => th[t].rec.id \notin AuditIds
    /\ \A t \in Auditing :
        /\ th[t].rec.id \in AuditIds \ Saved
        /\ Handling(th[t].rec.id) = {t}
    /\ \A c \in DOMAIN issues \ doubtful :
        /\ Covers(issues[c], Audits, c)
        /\ \A t \in Auditing :
            /\ Auditing = {t}
            /\ Covers(issues[c], Audits \cup {Coming(t)}, c)
            /\ th[t].pc = "issue" /\ Finding(t)[1] = c => th[t].old = issues[c]
=============================================================================
