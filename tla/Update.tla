------------------------------- MODULE Update -------------------------------
(***************************************************************************)
(* exomind --update (src/src/update.c): fetch, compare, put the user's     *)
(* edits aside, pull, take the edits back, build, install.  Every step is  *)
(* a command of its own (git, make) that may fail, and the whole may be    *)
(* interrupted between any two.                                            *)
(*                                                                         *)
(* The commits of the tracked branch are numbered; several may bear the    *)
(* same version, as the version is raised by hand in version.h and         *)
(* compared by its three numbers, without the -alpha part.                 *)
(***************************************************************************)
EXTENDS Integers, Sequences

CONSTANTS
    Version,   \* the version each commit of origin bears, a sequence
    MaxRuns    \* bound: calls of --update

VARIABLES
    origin,     \* the newest commit of origin
    fetched,    \* origin/<branch> of the clone
    head,       \* HEAD: [base, ahead]: a commit of origin, local ones on top
    rebasing,   \* a rebase stopped at a conflict
    edits,      \* uncommitted changes: none, in the tree, or in the stash
    built,      \* the commit that the build directory's programs are from
    installed,  \* the one the installed programs are from
    step,       \* where exo_update_self is
    stashOk,    \* its stash_ok
    pullRc,     \* its pull_rc: ok, failed
    answer,     \* what the last call came to: none, "up to date", updated, failed
    runs,
    mishap      \* history: a call was interrupted, or the edits did not fit
                \* the tree they were put back on

vars == <<origin, fetched, head, rebasing, edits, built, installed, step, stashOk, pullRc,
          answer, runs, mishap>>

clone == <<fetched, head, rebasing, edits>>
programs == <<built, installed>>
locals == <<stashOk, pullRc>>

Init ==
    /\ origin = 1 /\ fetched = 1
    /\ head = [base |-> 1, ahead |-> FALSE] /\ rebasing = FALSE
    /\ edits = "none"
    /\ built = 1 /\ installed = 1
    /\ step = "idle" /\ stashOk = FALSE /\ pullRc = "ok"
    /\ answer = "none" /\ runs = 0
    /\ mishap = FALSE

-----------------------------------------------------------------------------
(* Other people, and the user *)

Push ==
    /\ origin < Len(Version)
    /\ origin' = origin + 1
    /\ UNCHANGED <<clone, programs, step, locals, answer, runs, mishap>>

Edit ==
    /\ step = "idle" /\ edits = "none" /\ ~rebasing
    /\ edits' = "tree"
    /\ UNCHANGED <<origin, fetched, head, rebasing, programs, step, locals, answer, runs, mishap>>

Commit ==
    /\ step = "idle" /\ edits = "tree" /\ ~rebasing
    /\ edits' = "none"
    /\ head' = [head EXCEPT !.ahead = TRUE]
    /\ UNCHANGED <<origin, fetched, rebasing, programs, step, locals, answer, runs, mishap>>

-----------------------------------------------------------------------------
(* exo_update_self *)

Goto(s) == step' = s /\ UNCHANGED answer
End(a) == step' = "idle" /\ answer' = a
Fails == End("failed")

(* a clone that is in the middle of a rebase has no branch to follow *)
Begin ==
    /\ step = "idle" /\ runs < MaxRuns
    /\ runs' = runs + 1
    /\ stashOk' = FALSE /\ pullRc' = "ok"
    /\ IF rebasing THEN Fails ELSE step' = "fetch" /\ answer' = "none"
    /\ UNCHANGED <<origin, clone, programs, mishap>>

Fetch ==
    /\ step = "fetch"
    /\ \/ fetched' = origin /\ Goto("compare")
       \/ Fails /\ UNCHANGED fetched
    /\ UNCHANGED <<origin, head, rebasing, edits, programs, locals, runs, mishap>>

(* cmp_version of the program that runs, and of version.h in the tree *)
SameVersion(a, b) == Version[a] = Version[b]

UpToDate ==
    /\ step = "compare"
    /\ head = [base |-> fetched, ahead |-> FALSE]
    /\ SameVersion(installed, head.base)
    /\ End("up to date")
    /\ UNCHANGED <<origin, clone, programs, locals, runs, mishap>>

Outdated ==
    /\ step = "compare"
    /\ \/ head # [base |-> fetched, ahead |-> FALSE]
       \/ ~SameVersion(installed, head.base)
    /\ Goto("stash")
    /\ UNCHANGED <<origin, clone, programs, locals, runs, mishap>>

(* what cannot be put aside stays, and pull may refuse *)
Stash ==
    /\ step = "stash"
    /\ \/ edits = "tree" /\ edits' = "stash" /\ stashOk' = TRUE
       \/ UNCHANGED <<edits, stashOk>>
    /\ Goto("pull")
    /\ UNCHANGED <<origin, fetched, head, rebasing, programs, pullRc, runs, mishap>>

(* stash pop comes before the result of pull is looked at *)
AfterPullGood(rc) == IF rc = "ok" THEN "pop" ELSE "idle"
AfterPull(rc) == "pop"

(* pull --ff-only, or --rebase below local commits; either fetches again *)
Pull ==
    /\ step = "pull"
    /\ edits = "tree" => ~head.ahead
    /\ fetched' = origin
    /\ head' = [head EXCEPT !.base = origin]
    /\ pullRc' = "ok"
    /\ Goto(AfterPull("ok"))
    /\ UNCHANGED <<origin, rebasing, edits, programs, stashOk, runs, mishap>>

(* the network, edits in the way, or a local commit that does not apply *)
PullFails ==
    /\ step = "pull"
    /\ \/ UNCHANGED rebasing
       \/ edits # "tree" /\ head.ahead /\ head.base < origin /\ rebasing' = TRUE
    /\ pullRc' = "failed"
    /\ Goto(AfterPull("failed"))
    /\ UNCHANGED <<origin, fetched, head, edits, programs, stashOk, runs, mishap>>

Pop ==
    /\ step = "pop"
    /\ \/ /\ stashOk
          /\ edits' = "tree" /\ UNCHANGED mishap
       \/ /\ stashOk            \* a conflict: a warning, and the stash is kept
          /\ mishap' = TRUE /\ UNCHANGED edits
       \/ ~stashOk /\ UNCHANGED <<edits, mishap>>
    /\ IF pullRc = "ok" THEN Goto("build") ELSE Fails
    /\ UNCHANGED <<origin, fetched, head, rebasing, programs, locals, runs>>

Make ==
    /\ step = "build"
    /\ built' = head.base
    /\ Goto("install")
    /\ UNCHANGED <<origin, clone, installed, locals, runs, mishap>>

MakeFails ==
    /\ step = "build"
    /\ Fails
    /\ UNCHANGED <<origin, clone, programs, locals, runs, mishap>>

(* the prefix may be unknown, or not writable, or not for all the programs *)
Install ==
    /\ step = "install"
    /\ \/ installed' = built /\ answer' = "updated"
       \/ installed' \in {installed, built} /\ answer' = "failed"
    /\ step' = "idle"
    /\ UNCHANGED <<origin, clone, built, locals, runs, mishap>>

Interrupt ==
    /\ step # "idle"
    /\ step' = "idle" /\ answer' = "none"
    /\ mishap' = TRUE
    /\ UNCHANGED <<origin, clone, programs, locals, runs>>

Next ==
    \/ Push \/ Edit \/ Commit
    \/ Begin \/ Fetch \/ UpToDate \/ Outdated \/ Stash \/ Pull \/ PullFails \/ Pop
    \/ Make \/ MakeFails \/ Install \/ Interrupt

Spec == Init /\ [][Next]_vars

-----------------------------------------------------------------------------
(***************************************************************************)
(* Uncommitted changes of the user are back in the tree when --update      *)
(* ends, in whatever way, unless it was interrupted or they no longer fit. *)
(***************************************************************************)
EditsReturn == step = "idle" /\ edits = "stash" => mishap

(***************************************************************************)
(* "updated": the newest commit that was fetched is in the tree, built,    *)
(* and installed.                                                          *)
(***************************************************************************)
UpdatedIsNewest == answer = "updated" => installed = fetched /\ head.base = fetched

(***************************************************************************)
(* "up to date": the installed programs are built from HEAD.               *)
(***************************************************************************)
UpToDateIsInstalled == answer = "up to date" => installed = head.base

-----------------------------------------------------------------------------
(***************************************************************************)
(* The inductive invariant.                                                *)
(***************************************************************************)
TypeOK ==
    /\ origin \in Nat /\ fetched \in Nat
    /\ head \in [base : Nat, ahead : BOOLEAN]
    /\ step \in {"idle", "fetch", "compare", "stash", "pull", "pop", "build", "install"}

(* edits are in the stash only until they are popped, which pull does not prevent *)
Stashed ==
    edits = "stash" => mishap \/ (stashOk /\ step \in {"pull", "pop"})

(* once a pull went well, the tree is the newest fetched, and so is the build *)
Pulled ==
    /\ step = "pop" /\ pullRc = "ok" => head.base = fetched
    /\ step \in {"build", "install"} => head.base = fetched
    /\ step = "install" => built = fetched
    /\ answer = "updated" => step = "idle"

Inv == TypeOK /\ Stashed /\ Pulled /\ UpdatedIsNewest
=============================================================================
