------------------------------- MODULE Checks -------------------------------
(***************************************************************************)
(* The checks of an audit (src/exoqms/src/checks.c): what each makes of    *)
(* the evidence it finds.  Evidence is kept as far as a result depends on  *)
(* it: how a child process ended, how many findings of which severity it   *)
(* reported, which keys of exomind exist, the numbers behind them.         *)
(***************************************************************************)
EXTENDS Integers, Sequences, FiniteSets

Results == {"pass", "fail", "skip"}

(***************************************************************************)
(* run_child: exit status 0, any other status, or exec failed or killed by *)
(* a signal, or killed after the five seconds.  A child's status is "zero" *)
(* or "nonzero" to its caller, whatever the number.                        *)
(***************************************************************************)
Endings == {"zero", "nonzero", "error", "timeout"}

PassIf(ok) == IF ok THEN "pass" ELSE "fail"

(* endings of the test commands: the manifest's, or the project file's if there is no manifest *)
ComponentTests(manifest, declared, configured) ==
    LET ran == IF manifest THEN declared ELSE configured
    IN  IF ran = <<>> THEN "skip" ELSE PassIf(\A i \in DOMAIN ran : ran[i] = "zero")

(* without a manifest the files the project lists; else exodoc's summary, its count of fails *)
NoSummary == -1
DocCompliance(manifest, present, fails) ==
    IF ~manifest /\ present # <<>> THEN PassIf(\A i \in DOMAIN present : present[i])
    ELSE PassIf(fails = 0)

Dogfood(reachable, statuses, fresh, need) ==
    PassIf(reachable /\ (\A a \in DOMAIN statuses : statuses[a]) /\ fresh >= need)

UiAudit(binary, target, ending) ==
    IF ~binary \/ ~target THEN "skip" ELSE PassIf(ending = "zero")

Metrics(reachable, values) ==
    CASE ~reachable -> "fail"
      [] Len(values) < 2 -> "skip"
      [] OTHER -> PassIf(values[Len(values)] >= values[Len(values) - 1])

(* a static analyser's report: code-safety and asset-logic *)
Analysed(enabled, ending, major, minor) ==
    IF ~enabled THEN "skip"
    ELSE PassIf(/\ ending \notin {"timeout", "error"}
                /\ major = 0
                /\ minor > 0 \/ ending = "zero")

KitFidelity(enabled, ending, major) ==
    IF ~enabled THEN "skip" ELSE PassIf(ending = "zero" /\ major = 0)

(***************************************************************************)
(* An agent is frozen when a reminder for it fired after its last note     *)
(* and it has no deliverable; an agent whose notes cannot be read has the  *)
(* last note at 0.                                                         *)
(***************************************************************************)
Frozen(a) == a.fired > 0 /\ a.fired > a.active /\ ~a.done
AgentHealth(reachable, agents) ==
    CASE ~reachable -> "fail"
      [] agents = {} -> "skip"
      [] OTHER -> PassIf(~\E a \in agents : Frozen(a))

MemoryAwareness(reachable, mandate, ready) ==
    IF ~reachable \/ ~mandate THEN "skip"
    ELSE PassIf(ready # <<>> /\ \A a \in DOMAIN ready : ready[a])

DocsCoverage(modules) ==
    IF modules = {} THEN "skip"
    ELSE PassIf(\A m \in modules : {"README", "test"} \subseteq m
                                   /\ m \cap {"standard", "docs"} # {})

-----------------------------------------------------------------------------
(* The shared scan of debt, hygiene and secrets *)

(***************************************************************************)
(* What one scan by the rule engine comes to: it cannot run for want of a  *)
(* binary or a rules directory ("none"); it ends with a report, exit       *)
(* status 0 or 1 ("report"); with a usage or I/O error, exit status 2      *)
(* ("usage"), without findings; or it is killed ("error", "timeout") with   *)
(* some of its output written.                                             *)
(***************************************************************************)
Scans == {"none", "report", "usage", "error", "timeout"}
NoScan == [cached |-> FALSE, how |-> "none", found |-> 0]

(***************************************************************************)
(* rules_scan keeps the output of the first scan for the checks behind it, *)
(* however the scan ended; and a scan with exit status 2 is a scan with    *)
(* findings to it, since run_child has 1 for every status but 0.           *)
(***************************************************************************)
Scanned(scan, how, found) ==
    IF scan.cached THEN scan
    ELSE [cached |-> how # "none", how |-> how,
          found |-> IF how \in {"none", "usage"} THEN 0 ELSE found]

ScanResult(enabled, before, scan, threshold) ==
    CASE ~enabled -> "skip"
      [] before.cached -> PassIf(scan.found <= threshold)
      [] scan.how = "timeout" -> "fail"
      [] scan.how \in {"none", "error"} -> "skip"
      [] OTHER -> PassIf(scan.found <= threshold)

-----------------------------------------------------------------------------
(* The checks that read the records of exoqms itself *)

(***************************************************************************)
(* rework: cycles of check c in the audits A; a cycle is a fail after a    *)
(* pass that followed a fail.  A result is told by its place: the time of  *)
(* its audit, and its number among the findings of that; skips carry no    *)
(* signal.                                                                 *)
(***************************************************************************)
Places(A, c, r) ==
    UNION {{<<a.at, j>> : j \in {i \in DOMAIN a.findings : a.findings[i] = <<c, r>>}} : a \in A}

Precedes(p, q) == p[1] < q[1] \/ (p[1] = q[1] /\ p[2] < q[2])
Earlier(S, p) == {q \in S : Precedes(q, p)}

(* after the fails F there was a pass of P *)
Mended(F, P) == F # {} /\ \E q \in P : \A p \in F : Precedes(p, q)

CyclesFromStart(A, c) ==
    LET F == Places(A, c, "fail")
        P == Places(A, c, "pass")
    IN  Cardinality({p \in F : Earlier(F, p) = {} \/ Mended(Earlier(F, p), Earlier(P, p))})

Cycles(A, c) ==
    LET F == Places(A, c, "fail")
        P == Places(A, c, "pass")
    IN  Cardinality({p \in F : Mended(Earlier(F, p), Earlier(P, p))})

Rework(reachable, audits, rate, threshold) ==
    CASE ~reachable -> "fail"
      [] audits = 0 -> "skip"
      [] OTHER -> PassIf(rate <= threshold)

(* an issue: an entry of the detection registry, the key issue:<check> *)
Issue == [st : {"none", "open", "closed"}, fails : Nat, consec : Nat, reopens : Nat]
NoIssue == [st |-> "none", fails |-> 0, consec |-> 0, reopens |-> 0]
Recurring(i) == i.st = "open" /\ i.consec >= 2
IssueTracking(reachable, issues) ==
    PassIf(reachable /\ ~\E i \in issues : Recurring(i))

(***************************************************************************)
(* issue_register: the entry after a result; "fail" or not is all it is    *)
(* told, so a check that was skipped closes its issue like one that        *)
(* passed.                                                                 *)
(***************************************************************************)
Registered(old, fails) ==
    IF fails
    THEN [st |-> "open", fails |-> old.fails + 1,
          consec |-> IF old.st = "closed" THEN 1 ELSE old.consec + 1,
          reopens |-> old.reopens + (IF old.st = "closed" THEN 1 ELSE 0)]
    ELSE [old EXCEPT !.st = "closed", !.consec = 0]

-----------------------------------------------------------------------------
(* What a check can come to, over small evidence *)

Few == UNION {[1..n -> Endings] : n \in 0..2}
Marks == UNION {[1..n -> BOOLEAN] : n \in 0..2}
Agents == [fired : 0..2, active : 0..2, done : BOOLEAN]
Parts == SUBSET {"README", "test", "standard", "docs"}

Outcomes ==
    [c \in {"component-tests", "doc-compliance", "dogfood", "ui-audit", "metrics",
            "code-safety", "asset-logic", "kit-fidelity", "agent-health",
            "memory-awareness", "docs-coverage"} |->
       CASE c = "component-tests" ->
              {ComponentTests(m, d, u) : m \in BOOLEAN, d \in Few, u \in Few}
         [] c = "doc-compliance" ->
              {DocCompliance(m, p, n) : m \in BOOLEAN, p \in Marks, n \in NoSummary..1}
         [] c = "dogfood" -> {Dogfood(r, s, n, 1) : r \in BOOLEAN, s \in Marks, n \in 0..2}
         [] c = "ui-audit" -> {UiAudit(b, t, e) : b, t \in BOOLEAN, e \in Endings}
         [] c = "metrics" ->
              {Metrics(r, v) : r \in BOOLEAN, v \in UNION {[1..n -> 0..1] : n \in 0..3}}
         [] c \in {"code-safety", "asset-logic"} ->
              {Analysed(b, e, x, y) : b \in BOOLEAN, e \in Endings, x, y \in 0..1}
         [] c = "kit-fidelity" ->
              {KitFidelity(b, e, n) : b \in BOOLEAN, e \in Endings, n \in 0..1}
         [] c = "agent-health" ->
              {AgentHealth(r, S) : r \in BOOLEAN,
                                   S \in {{}} \cup {{a} : a \in Agents}}
         [] c = "memory-awareness" ->
              {MemoryAwareness(r, m, p) : r, m \in BOOLEAN, p \in Marks}
         [] c = "docs-coverage" ->
              {DocsCoverage(M) : M \in {{}} \cup {{p} : p \in Parts}}]
=============================================================================
