--------------------------------- MODULE Kit ---------------------------------
(***************************************************************************)
(* exokit (src/exokit/src/main.c): the commands on a kit directory, called *)
(* one after the other while the developer edits the kit and the software. *)
(*                                                                         *)
(* A function is a model value.  An example is the function it calls, what *)
(* it expects, and whether it is an error case; a result is a member of    *)
(* Results or an error.  The runner answers every line of one function     *)
(* with the same result.                                                   *)
(***************************************************************************)
EXTENDS Integers, Sequences, SequencesExt

CONSTANTS
    Fns,
    Results,     \* what a function may give, next to "error"
    Cap,         \* examples an audit runs
    MaxLedger    \* bound: lines of the ledger and of the contract

VARIABLES
    software,   \* what each function gives; "absent" before it is written
    present,    \* files of the kit: config, contract, examples
    contract,   \* contract.tsv: functions, line by line
    ledger,     \* examples.tsv
    runner,     \* whether config names a runner
    said,       \* what the commands said since the last edit
    fresh       \* history: the contract was extracted from this software

vars == <<software, present, contract, ledger, runner, said, fresh>>

Files == {"config", "contract", "examples"}
Unsaid == [audit |-> "none", verify |-> "none", diff |-> "none"]

Init ==
    /\ software \in [Fns -> Results \cup {"absent"}]
    /\ present = {} /\ contract = <<>> /\ ledger = <<>> /\ runner = FALSE
    /\ said = Unsaid
    /\ fresh = FALSE

Example == [fn : Fns, expected : Results \cup {"error"}, isError : BOOLEAN]

-----------------------------------------------------------------------------
(* init: a file that is there is left alone *)

Written(f) == f \notin present

CmdInit ==
    /\ runner' = (runner \/ Written("config"))
    /\ present' = Files
    /\ said' = Unsaid
    /\ UNCHANGED <<software, contract, ledger, fresh>>

(* extract: the functions it finds, behind what is there or in its place *)
Inventory == SelectSeq(SetToSeq(Fns), LAMBDA f : software[f] # "absent")

CmdExtract(append) ==
    /\ "contract" \in present  \* else the directory may not be there
    /\ contract' = IF append THEN contract \o Inventory ELSE Inventory
    /\ Len(contract') <= MaxLedger
    /\ said' = Unsaid
    /\ fresh' = TRUE
    /\ UNCHANGED <<software, present, ledger, runner>>

-----------------------------------------------------------------------------
(* run_example, and the comparison of verify and audit *)

Answer(fn) == IF software[fn] = "absent" THEN "error" ELSE software[fn]

Passes(e) ==
    /\ Answer(e.fn) = e.expected
    /\ e.isError => Answer(e.fn) = "error"

(* without a runner, or when one cannot be started, nothing is verified *)
CmdVerify(fns) ==
    /\ said' = [said EXCEPT !.verify =
                  IF \A e \in ToSet(ledger) : e.fn \in fns => Passes(e)
                  THEN IF fns = Fns THEN "pass" ELSE @
                  ELSE "fail"]
    /\ runner
    /\ UNCHANGED <<software, present, contract, ledger, runner, fresh>>

CmdVerifyStops ==
    /\ said' = [said EXCEPT !.verify = "error"]
    /\ UNCHANGED <<software, present, contract, ledger, runner, fresh>>

(* audit: the first examples, up to one whose runner cannot be started *)
Covered(f) == \E e \in ToSet(ledger) : e.fn = f

LastRunShort == IF Len(ledger) < Cap THEN Len(ledger) - 1 ELSE Cap - 1
LastRun == IF Len(ledger) < Cap THEN Len(ledger) ELSE Cap

CmdAudit ==
    /\ \E n \in 0..LastRun :
        LET complete == \A f \in ToSet(contract) : Covered(f)
            green == runner => \A i \in 1..n : Passes(ledger[i])
        IN  said' = [said EXCEPT !.audit =
                IF contract = <<>> /\ ledger = <<>> THEN "empty"
                ELSE IF ~(complete /\ green) THEN "findings"
                ELSE IF n < LastRun THEN "pass, cut short"
                ELSE "pass"]
    /\ UNCHANGED <<software, present, contract, ledger, runner, fresh>>

(* diff of a fresh inventory with the contract *)
Missing(a, b) == ToSet(a) \ ToSet(b)

CmdDiff(exact) ==
    /\ said' = [said EXCEPT !.diff =
                  IF /\ Missing(Inventory, contract) = {}
                     /\ exact => Missing(contract, Inventory) = {}
                  THEN "pass" ELSE "findings"]
    /\ UNCHANGED <<software, present, contract, ledger, runner, fresh>>

-----------------------------------------------------------------------------
(* The developer *)

Edit == said' = Unsaid

Write ==
    /\ \E f \in Fns : \E r \in Results : software' = [software EXCEPT ![f] = r]
    /\ fresh' = FALSE
    /\ Edit
    /\ UNCHANGED <<present, contract, ledger, runner>>

AddExample ==
    /\ "examples" \in present /\ Len(ledger) < MaxLedger
    /\ \E e \in Example : ledger' = Append(ledger, e)
    /\ Edit
    /\ UNCHANGED <<software, present, contract, runner, fresh>>

DropRunner ==
    /\ runner /\ runner' = FALSE
    /\ Edit
    /\ UNCHANGED <<software, present, contract, ledger, fresh>>

Next ==
    \/ CmdInit \/ (\E append \in BOOLEAN : CmdExtract(append))
    \/ (\E fns \in {Fns} \cup {{f} : f \in Fns} : CmdVerify(fns)) \/ CmdVerifyStops
    \/ CmdAudit \/ (\E exact \in BOOLEAN : CmdDiff(exact))
    \/ Write \/ AddExample \/ DropRunner

Spec == Init /\ [][Next]_vars

-----------------------------------------------------------------------------
(***************************************************************************)
(* "audit enforces the rules" (src/exokit/README.md:105-106): with a       *)
(* runner that starts and a ledger the audit runs as a whole, verify finds *)
(* nothing that a passed audit did not, and behind a contract extracted    *)
(* from the software every function of it has an example.                  *)
(***************************************************************************)
AuditVouches ==
    said.audit = "pass" =>
        /\ runner /\ Len(ledger) <= Cap => said.verify # "fail"
        /\ fresh => \A f \in Fns : software[f] # "absent" => Covered(f)
=============================================================================
