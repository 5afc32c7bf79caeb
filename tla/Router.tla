------------------------------- MODULE Router -------------------------------
(***************************************************************************)
(* exomind-server: the MCP loop over stdin (src/common/exo.c) and the      *)
(* router (src/src/router.c), which answers a call of a sibling's tool by  *)
(* running the sibling's binary: before it exocontext, after it exomind    *)
(* with the result as a note, and a crawler or github client for a claim   *)
(* in the result.  One child at a time prints into a pipe; its stdin is    *)
(* the server's own, and a sibling's console mode reads it to the end when *)
(* an operation that takes a body was given none.                          *)
(***************************************************************************)
EXTENDS Integers, Sequences

CONSTANTS
    Calls,     \* number of calls the client makes
    Bodiless,  \* the calls of an operation that takes a body, without one
    Ahead,     \* calls the client sends before the first is answered
    MaxOut,    \* chunks a child prints at most
    PipeSize,  \* chunks a pipe holds
    Cap        \* chunks the server's buffer holds

VARIABLES
    sent, closed,   \* the client: calls sent, and whether it closed its end
    stdin, lines,   \* calls in the pipe, and in the server's stdio buffer
    at,             \* getline, reading, waiting, exited
    call, step,     \* the call being served, and which child runs for it
    child,          \* its state
    pipe, out,      \* chunks in its pipe, chunks the server has read
    result,         \* of the tool, kept while the other children run
    claims,         \* claims of this result looked at
    reply,          \* to each call: none, ok, error
    effect          \* history: what became of the operation of each call

vars == <<sent, closed, stdin, lines, at, call, step, child, pipe, out, result,
          claims, reply, effect>>

client == <<sent, closed>>

NoChild == [at |-> "none", left |-> 0, status |-> "none"]
NoResult == [status |-> "none", out |-> 0]

Init ==
    /\ sent = 0 /\ closed = FALSE
    /\ stdin = <<>> /\ lines = <<>>
    /\ at = "getline" /\ call = 0 /\ step = "none"
    /\ child = NoChild /\ pipe = 0 /\ out = 0
    /\ result = NoResult /\ claims = 0
    /\ reply = [c \in 1..Calls |-> "none"]
    /\ effect = [c \in 1..Calls |-> "none"]

-----------------------------------------------------------------------------
(* The client *)

Answered == {c \in 1..Calls : reply[c] # "none"}

Send ==
    /\ ~closed /\ sent < Calls
    /\ sent < Ahead \/ sent + 1 - Ahead \in Answered
    /\ sent' = sent + 1
    /\ stdin' = Append(stdin, sent')
    /\ UNCHANGED <<closed, lines, at, call, step, child, pipe, out, result, claims,
                   reply, effect>>

Hangup ==
    /\ ~closed /\ closed' = TRUE
    /\ UNCHANGED <<sent, stdin, lines, at, call, step, child, pipe, out, result,
                   claims, reply, effect>>

-----------------------------------------------------------------------------
(* run_binary: the child *)

(* the console mode of a sibling: it wants a body, or not *)
Console == IF step = "tool" /\ call \in Bodiless THEN "stdin" ELSE "work"

ChildReads ==
    /\ child.at = "stdin"
    /\ stdin' = <<>>
    /\ stdin # <<>> \/ closed
    /\ child' = [child EXCEPT !.at = IF closed THEN "work" ELSE "stdin"]
    /\ UNCHANGED <<client, lines, at, call, step, pipe, out, result, claims, reply, effect>>

(* what it was asked to do, unless it is not installed or refuses *)
ChildWorks ==
    /\ child.at = "work"
    /\ \E done \in BOOLEAN : \E n \in 0..MaxOut :
        /\ child' = [at |-> "print", left |-> IF done THEN n ELSE 0,
                     status |-> IF done THEN "ok" ELSE "failed"]
        /\ effect' = IF step = "tool"
                     THEN [effect EXCEPT ![call] = IF done THEN "done" ELSE "refused"]
                     ELSE effect
    /\ UNCHANGED <<client, stdin, lines, at, call, step, pipe, out, result, claims, reply>>

(* a print into a pipe nobody reads any more kills it *)
ChildPrints ==
    /\ child.at = "print" /\ child.left > 0
    /\ IF at = "waiting"
       THEN child' = [child EXCEPT !.at = "exited", !.status = "killed"] /\ UNCHANGED pipe
       ELSE /\ pipe < PipeSize
            /\ pipe' = pipe + 1
            /\ child' = [child EXCEPT !.left = @ - 1]
    /\ UNCHANGED <<client, stdin, lines, at, call, step, out, result, claims, reply, effect>>

ChildExits ==
    /\ child.at = "print" /\ child.left = 0
    /\ child' = [child EXCEPT !.at = "exited"]
    /\ UNCHANGED <<client, stdin, lines, at, call, step, pipe, out, result, claims, reply,
                   effect>>

-----------------------------------------------------------------------------
(* run_binary: the server, which reads until the end or until its buffer is full *)

ReadAtExit == child.at = "exited"
ReadWhile == out < Cap /\ (pipe > 0 \/ child.at = "exited")

Read ==
    /\ at = "reading"
    /\ ReadWhile
    /\ IF pipe > 0
       THEN pipe' = pipe - 1 /\ out' = out + 1 /\ UNCHANGED at
       ELSE at' = "waiting" /\ UNCHANGED <<pipe, out>>
    /\ UNCHANGED <<client, stdin, lines, call, step, child, result, claims, reply, effect>>

BufferFull ==
    /\ at = "reading" /\ out = Cap
    /\ at' = "waiting"
    /\ UNCHANGED <<client, stdin, lines, call, step, child, pipe, out, result, claims,
                   reply, effect>>

StatusUnseen(s) == "ok"  \* a bug: how the child exited is not looked at
Status(s) == IF s = "ok" THEN "ok" ELSE "failed"

(***************************************************************************)
(* exo_router_call: which child comes after this one, "none" for the       *)
(* reply.  The result of context and note is not looked at; a claim that   *)
(* holds becomes a note of its own, and so may one whose child could not   *)
(* be started: its output is looked at uninitialised.                      *)
(***************************************************************************)
After(status) ==
    CASE step = "context" -> {"tool"}
      [] step = "tool" -> IF out > 0 THEN {"note"} ELSE {"none"}
      [] step = "note" -> IF claims = 0 THEN {"claim", "none"} ELSE {"none"}
      [] step = "claim" -> CASE status = "unstarted" -> {"note", "none"}
                             [] status = "ok" /\ out > 0 -> {"note"}
                             [] OTHER -> {"none"}

Run(s) ==
    /\ step' = s
    /\ IF s = "none"
       THEN at' = "reply" /\ child' = NoChild
       ELSE at' = "reading" /\ child' = [at |-> "start", left |-> 0, status |-> "none"]
    /\ pipe' = 0 /\ out' = 0

Ended(status) ==
    /\ result' = IF step = "tool" THEN [status |-> status, out |-> out] ELSE result
    /\ claims' = IF step = "claim" THEN 1 ELSE claims
    /\ \E s \in After(status) : Run(s)
    /\ UNCHANGED <<client, stdin, lines, call, reply, effect>>

Reap == at = "waiting" /\ child.at = "exited" /\ Ended(Status(child.status))

Forked ==
    /\ at = "reading" /\ child.at = "start"
    /\ child' = [child EXCEPT !.at = Console]
    /\ UNCHANGED <<client, stdin, lines, at, call, step, pipe, out, result, claims, reply,
                   effect>>

ForkFails == at = "reading" /\ child.at = "start" /\ Ended("unstarted")

-----------------------------------------------------------------------------
(* exo_mcp_stdio *)

(* getline takes what the pipe holds, and serves the first line of it *)
Getline ==
    /\ at = "getline"
    /\ LET all == IF lines = <<>> THEN stdin ELSE lines
       IN  /\ all # <<>>
           /\ call' = Head(all)
           /\ lines' = Tail(all)
           /\ stdin' = IF lines = <<>> THEN <<>> ELSE stdin
    /\ result' = NoResult /\ claims' = 0
    /\ Run("context")
    /\ UNCHANGED <<client, reply, effect>>

Eof ==
    /\ at = "getline" /\ lines = <<>> /\ stdin = <<>> /\ closed
    /\ at' = "exited"
    /\ UNCHANGED <<client, stdin, lines, call, step, child, pipe, out, result, claims,
                   reply, effect>>

Reply ==
    /\ at = "reply"
    /\ reply' = [reply EXCEPT ![call] = IF result.status = "ok" THEN "ok" ELSE "error"]
    /\ at' = "getline"
    /\ UNCHANGED <<client, stdin, lines, call, step, child, pipe, out, result, claims,
                   effect>>

Server == Getline \/ Eof \/ Forked \/ Read \/ BufferFull \/ Reap \/ Reply
Child == ChildReads \/ ChildWorks \/ ChildPrints \/ ChildExits

Next == Send \/ Hangup \/ Server \/ ForkFails \/ Child

Spec == Init /\ [][Next]_vars /\ WF_vars(Server) /\ WF_vars(Child)

-----------------------------------------------------------------------------
(***************************************************************************)
(* "Failures come back as isError" (README.md:423): a call answered ok has *)
(* been carried out by the sibling, also when its output overflowed the    *)
(* buffer.                                                                 *)
(***************************************************************************)
OkMeansDone == \A c \in Answered : reply[c] = "ok" => effect[c] = "done"

(***************************************************************************)
(* Calls are answered in their order, and one is passed over only when a   *)
(* child that waited for a body read it.                                   *)
(***************************************************************************)
Swallowed(c) == \E b \in Bodiless : b < c /\ effect[b] # "none"

InOrder ==
    \A c \in Answered : \A b \in 1..(c - 1) : b \in Answered \/ Swallowed(b)

(***************************************************************************)
(* Every call gets its reply: what the client waits for.                   *)
(***************************************************************************)
CallAnswered == \A c \in 1..Calls : sent >= c ~> c \in Answered

(***************************************************************************)
(* It does as long as no operation lacks the body its console mode wants,  *)
(* whatever the children print.                                            *)
(***************************************************************************)
SentWithBody(c) == sent >= c /\ \A b \in Bodiless : b > c
HasReply(c) == c \in Answered
AnsweredWithBody == \A c \in 1..Calls : SentWithBody(c) ~> HasReply(c)

-----------------------------------------------------------------------------
(***************************************************************************)
(* The inductive invariant.                                                *)
(***************************************************************************)
TypeOK ==
    /\ sent \in 0..Calls /\ call \in 0..sent
    /\ stdin \in Seq(1..Calls) /\ lines \in Seq(1..Calls)
    /\ at \in {"getline", "reading", "waiting", "reply", "exited"}
    /\ step \in {"none", "context", "tool", "note", "claim"}
    /\ child \in [at : {"none", "start", "stdin", "work", "print", "exited"}, left : Nat,
                  status : {"none", "ok", "failed", "killed"}]
    /\ reply \in [1..Calls -> {"none", "ok", "error"}]
    /\ effect \in [1..Calls -> {"none", "done", "refused"}]

(* a call is being served, by a child or with its reply due *)
Serving == at \in {"reading", "waiting", "reply"}

Served ==
    /\ Serving => call > 0
    /\ step # "none" <=> at \in {"reading", "waiting"}
    /\ child.at = "stdin" => step = "tool" /\ call \in Bodiless

(* what ended well did what it was asked to *)
Truthful ==
    /\ step = "tool" /\ child.at \in {"print", "exited"} =>
        /\ effect[call] # "none"
        /\ child.status = "ok" => effect[call] = "done"
    /\ result.status = "ok" =>
        effect[call] = "done" /\ step \in {"note", "claim", "none"}
    /\ OkMeansDone

(* the calls the server has, in their order, behind the one it serves *)
Ascending(s) == \A i, j \in DOMAIN s : i < j => s[i] < s[j]

Queued ==
    /\ Ascending(lines) /\ Ascending(stdin)
    /\ \A i \in DOMAIN lines : call < lines[i] /\ lines[i] <= sent
    /\ \A i \in DOMAIN stdin : call < stdin[i] /\ stdin[i] <= sent
    /\ \A i \in DOMAIN lines, j \in DOMAIN stdin : lines[i] < stdin[j]
    /\ \A c \in Answered : c <= call /\ (Serving => c < call)

(* a call that is not answered is being served, or waits, or was read by a child *)
Lost(b) ==
    \E d \in Bodiless :
        /\ d < b
        /\ \/ effect[d] # "none"
           \/ d = call /\ step = "tool" /\ child.at \in {"stdin", "work"}

Kept ==
    \A b \in 1..sent :
        \/ b \in Answered
        \/ Serving /\ b = call
        \/ \E i \in DOMAIN lines : lines[i] = b
        \/ \E i \in DOMAIN stdin : stdin[i] = b
        \/ Lost(b)

Inv == TypeOK /\ Served /\ Truthful /\ Queued /\ Kept
=============================================================================
