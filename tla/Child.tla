------------------------------- MODULE Child -------------------------------
(***************************************************************************)
(* run_child of exoqms (src/exoqms/src/checks.c): the checks of an audit   *)
(* run test commands and analysers as child processes.  The parent reads   *)
(* the pipe without blocking, asks whether the child has exited, looks at  *)
(* the clock, and waits 50 ms for more output.  Child and clock go on      *)
(* between any two of these.                                               *)
(*                                                                         *)
(* Output is a sequence of numbered chunks; the number MaxChunks stands    *)
(* for all the rest, so a child may write for ever.                        *)
(***************************************************************************)
EXTENDS Integers, Sequences

CONSTANTS
    MaxChunks,  \* bound: chunks told apart
    PipeSize,   \* what the pipe holds
    Cap,        \* OUT_CAP
    PerRead,    \* what one read returns at most
    Timeout     \* seconds

VARIABLES
    phase,    \* the child: running, exited (not waited for), reaped
    ending,   \* how it exited, see Endings of module Checks
    written,  \* how much it has written
    pipe, out,
    at,       \* where the parent is
    result,   \* what run_child returned
    sec       \* seconds since the start

vars == <<phase, ending, written, pipe, out, at, result, sec>>

Init ==
    /\ phase = "running" /\ ending = "none"
    /\ written = 0
    /\ pipe = <<>> /\ out = <<>>
    /\ at = "read" /\ result = "none"
    /\ sec = 0

-----------------------------------------------------------------------------
(* The child, and the clock *)

Least(a, b) == IF a < b THEN a ELSE b

Write ==
    /\ phase = "running" /\ Len(pipe) < PipeSize
    /\ written' = Least(written + 1, MaxChunks)
    /\ pipe' = Append(pipe, written')
    /\ UNCHANGED <<phase, ending, out, at, result, sec>>

Exit ==
    /\ phase = "running"
    /\ phase' = "exited"
    /\ ending' \in {"zero", "nonzero", "error"}  \* error: status 127, or a signal
    /\ UNCHANGED <<written, pipe, out, at, result, sec>>

Tick ==
    /\ sec <= Timeout
    /\ sec' = sec + 1
    /\ UNCHANGED <<phase, ending, written, pipe, out, at, result>>

-----------------------------------------------------------------------------
(* The parent *)

Return(r) == at' = "returned" /\ result' = r

Kept(n) == IF Len(out) + n <= Cap THEN out \o SubSeq(pipe, 1, n) ELSE out

AskWhenEmpty(n) == at' = IF n = 0 THEN "ask" ELSE "read"
AskNext(n) == at' = "ask"

(* what does not fit the cap is left out as one piece, a smaller one after it is kept *)
Read ==
    /\ at = "read"
    /\ LET n == Least(Len(pipe), PerRead)
       IN  /\ out' = Kept(n)
           /\ pipe' = SubSeq(pipe, n + 1, Len(pipe))
           /\ AskNext(n)
    /\ UNCHANGED <<phase, ending, written, result, sec>>

AnsweredAnyway(p) == TRUE
Answered(p) == p = "exited"

(***************************************************************************)
(* waitpid, without blocking; when the child has exited, what it wrote     *)
(* since the read is read and thrown away.                                 *)
(***************************************************************************)
Ask ==
    /\ at = "ask"
    /\ IF Answered(phase)
       THEN /\ phase' = IF phase = "exited" THEN "reaped" ELSE phase
            /\ pipe' = <<>>
            /\ Return(IF phase = "exited" THEN ending ELSE "zero")
       ELSE /\ at' = "clock"
            /\ UNCHANGED <<phase, pipe, result>>
    /\ UNCHANGED <<ending, written, out, sec>>

(* past the time the child and its group are killed, and waited for *)
Clock ==
    /\ at = "clock"
    /\ IF sec > Timeout
       THEN /\ phase' = "reaped"
            /\ ending' = IF phase = "running" THEN "error" ELSE ending
            /\ pipe' = <<>>
            /\ Return("timeout")
       ELSE /\ at' = "poll"
            /\ UNCHANGED <<phase, ending, pipe, result>>
    /\ UNCHANGED <<written, out, sec>>

Poll ==
    /\ at = "poll"
    /\ at' = "read"
    /\ UNCHANGED <<phase, ending, written, pipe, out, result, sec>>

(***************************************************************************)
(* poll fails, for want of memory: the loop ends with the status it began  *)
(* with, 0, which stands for exit status 0; the child is not waited for.   *)
(***************************************************************************)
PollFails ==
    /\ at = "poll"
    /\ Return("unpolled")
    /\ UNCHANGED <<phase, ending, written, pipe, out, sec>>

Parent == Read \/ Ask \/ Clock \/ Poll
Next == Write \/ Exit \/ Tick \/ Parent \/ PollFails

-----------------------------------------------------------------------------
(***************************************************************************)
(* run_child's contract (checks.c:47-49): result 0 is exit status 0, 1     *)
(* another one, and the child has been waited for; a child that was killed *)
(* for its time is reaped too.  Only a failed poll returns early.          *)
(***************************************************************************)
ResultIsEnding ==
    at = "returned" /\ result # "unpolled" =>
        phase = "reaped" /\ result \in {ending, "timeout"}

(***************************************************************************)
(* run_child collects the output (checks.c:47): as long as it fits the     *)
(* cap, what is kept is the beginning of what the child wrote; the end is  *)
(* missing that was written after the parent's last read.                  *)
(***************************************************************************)
OutputIsPrefix == written <= Cap => \A i \in DOMAIN out : out[i] = i

(***************************************************************************)
(* The inductive invariant: until the child has been waited for, what is   *)
(* kept and what is in the pipe are all it wrote, in its order, as long as *)
(* the cap has kept all of it.                                             *)
(***************************************************************************)
TypeOK ==
    /\ phase \in {"running", "exited", "reaped"}
    /\ written \in Nat
    /\ pipe \in Seq(Nat) /\ out \in Seq(Nat)
    /\ phase = "reaped" => at = "returned"

InOrder ==
    written <= Cap =>
        /\ \A i \in DOMAIN out : out[i] = i
        /\ \A i \in DOMAIN pipe : pipe[i] = Len(out) + i
        /\ phase # "reaped" => written = Len(out) + Len(pipe)

Inv == TypeOK /\ InOrder /\ ResultIsEnding

(***************************************************************************)
(* CHECK_TIMEOUT_S: run_child returns, also when the child writes for ever *)
(* or never exits.                                                         *)
(***************************************************************************)
Returned == at = "returned"
Returns == <>Returned

Spec == Init /\ [][Next]_vars /\ WF_vars(Parent) /\ WF_vars(Tick)
=============================================================================
