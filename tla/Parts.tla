------------------------------- MODULE Parts -------------------------------
(***************************************************************************)
(* Eight parts of the programs that share nothing with each other, in one  *)
(* specification: which part a behaviour is about is chosen at the start.  *)
(* As only that part takes steps, all of them are instantiated on the same *)
(* variables v1, v2, ...; those a part does not need stay 0.  MCParts adds *)
(* the parts that need no constants of their own, and checks them all.     *)
(***************************************************************************)
EXTENDS Integers, Sequences, FiniteSets

CONSTANTS
    (* Qms *) QmsObjIds, QmsNcIds, QmsAuditIds, QmsThreads, NoId, QmsScenarios,
    (* Serve *) ServeConns, PerSec, Second, Grace, ServeMaxTime,
    (* Child *) MaxChunks, ChildPipe, OutCap, PerRead, Timeout,
    (* Ws *) WsConns, WsFds, NoConn, MaxPushes,
    (* Pool *) Workers, PoolRequests, Jobs,
    (* Fetch *) Fetches, Hosts, HostOf, Forbidden, Bypassing, Pace, Delay, Tries,
                FetchMaxTime,
    (* Router *) Calls, Bodiless, Ahead, MaxOut, RouterPipe, RouterCap,
    (* Update *) UpdateVersions, UpdateMaxRuns

(* ids have the prefix of their kind; requests create what is not there *)
ASSUME QmsAssumption ==
    /\ QmsObjIds \cap QmsNcIds = {} /\ QmsObjIds \cap QmsAuditIds = {}
    /\ QmsNcIds \cap QmsAuditIds = {} /\ IsFiniteSet(QmsAuditIds)
    /\ NoId \notin QmsObjIds \cup QmsNcIds \cup QmsAuditIds
    /\ \A s \in QmsScenarios :
        /\ s.new \subseteq (QmsObjIds \cup QmsNcIds \cup QmsAuditIds) \ s.old
        /\ s.acts \subseteq {"analyse", "correct", "verify", "close"}

(* OUT_CAP is within the chunks that are told apart *)
ASSUME ChildAssumption ==
    /\ MaxChunks \in Nat /\ OutCap \in Nat /\ PerRead \in Nat
    /\ OutCap < MaxChunks

(* --rate-limit is given *)
ASSUME ServeAssumption ==
    /\ IsFiniteSet(ServeConns)
    /\ PerSec \in Nat \ {0} /\ Second \in Nat \ {0} /\ Grace \in Nat

(* 0 stands for no descriptor *)
ASSUME WsAssumption == WsFds \subseteq Nat \ {0} /\ NoConn \notin WsConns

(* a worker's states are no requests *)
ASSUME PoolAssumption ==
    /\ IsFiniteSet(Workers) /\ Jobs \in Nat
    /\ PoolRequests \cap {"ready", "asleep", "gone"} = {}

ASSUME FetchAssumption ==
    HostOf \in [Fetches -> Hosts] /\ Pace \in Nat /\ Delay \in Nat

ASSUME RouterAssumption == Calls \in Nat /\ Bodiless \subseteq 1..Calls

VARIABLES part,
    v1, v2, v3, v4, v5, v6, v7, v8, v9, v10, v11, v12, v13, v14

vars == <<part,
         v1, v2, v3, v4, v5, v6, v7, v8, v9, v10, v11, v12, v13, v14>>

-----------------------------------------------------------------------------
QmsPart == INSTANCE Qms WITH
    ObjIds <- QmsObjIds, NcIds <- QmsNcIds, AuditIds <- QmsAuditIds,
    Threads <- QmsThreads, Scenarios <- QmsScenarios,
    disk <- v1, issues <- v2, rework <- v3, trail <- v4, mem <- v5,
    serving <- v6, loader <- v7, th <- v8, doubtful <- v9, changes <- v10,
    scenario <- v11, troubles <- v12, requests <- v13, untold <- v14

ServePart == INSTANCE Serve WITH
    Conns <- ServeConns, MaxTime <- ServeMaxTime,
    clock <- v1, bucket <- v2, lastRefill <- v3, th <- v4, active <- v5,
    server <- v6, deadline <- v7, granted <- v8, raced <- v9, left <- v10

ChildPart == INSTANCE Child WITH
    PipeSize <- ChildPipe, Cap <- OutCap,
    phase <- v1, ending <- v2, written <- v3, pipe <- v4, out <- v5, at <- v6,
    result <- v7, sec <- v8

WsPart == INSTANCE Ws WITH
    Conns <- WsConns, Fds <- WsFds,
    owner <- v1, fd <- v2, peer <- v3, th <- v4, clients <- v5, push <- v6,
    acks <- v7, pushes <- v8, got <- v9, again <- v10, stale <- v11,
    strays <- v12

PoolPart == INSTANCE Pool WITH
    Requests <- PoolRequests,
    queue <- v1, active <- v2, quit <- v3, worker <- v4, request <- v5,
    submitted <- v6, done <- v7

FetchPart == INSTANCE Fetch WITH
    MaxTime <- FetchMaxTime,
    clock <- v1, policy <- v2, answer <- v3, disk <- v4, slots <- v5, at <- v6,
    tries <- v7, known <- v8, unheard <- v9, wake <- v10, cache <- v11

RouterPart == INSTANCE Router WITH
    PipeSize <- RouterPipe, Cap <- RouterCap,
    sent <- v1, closed <- v2, stdin <- v3, lines <- v4, at <- v5, call <- v6,
    step <- v7, child <- v8, pipe <- v9, out <- v10, result <- v11,
    claims <- v12, reply <- v13, effect <- v14

UpdatePart == INSTANCE Update WITH
    Version <- UpdateVersions, MaxRuns <- UpdateMaxRuns,
    origin <- v1, fetched <- v2, head <- v3, rebasing <- v4, edits <- v5,
    built <- v6, installed <- v7, step <- v8, stashOk <- v9, pullRc <- v10,
    answer <- v11, runs <- v12, mishap <- v13

-----------------------------------------------------------------------------
(* a part with n variables does not use the others *)
None13 == v14 = 0
None12 == None13 /\ v13 = 0
None11 == None12 /\ v12 = 0
None10 == None11 /\ v11 = 0
None9 == None10 /\ v10 = 0
None8 == None9 /\ v9 = 0
None7 == None8 /\ v8 = 0
None6 == None7 /\ v7 = 0
None4 == None6 /\ v6 = 0 /\ v5 = 0

Same13 == UNCHANGED <<v14>>
Same12 == UNCHANGED <<v13, v14>>
Same11 == UNCHANGED <<v12, v13, v14>>
Same10 == UNCHANGED <<v11, v12, v13, v14>>
Same9 == UNCHANGED <<v10, v11, v12, v13, v14>>
Same8 == UNCHANGED <<v9, v10, v11, v12, v13, v14>>
Same7 == UNCHANGED <<v8, v9, v10, v11, v12, v13, v14>>
Same6 == UNCHANGED <<v7, v8, v9, v10, v11, v12, v13, v14>>
Same4 == UNCHANGED <<v5, v6, v7, v8, v9, v10, v11, v12, v13, v14>>

Init ==
    \/ part = "qms" /\ QmsPart!Init
    \/ part = "serve" /\ ServePart!Init /\ None10
    \/ part = "child" /\ ChildPart!Init /\ None8
    \/ part = "ws" /\ WsPart!Init /\ None12
    \/ part = "pool" /\ PoolPart!Init /\ None7
    \/ part = "fetch" /\ FetchPart!Init /\ None11
    \/ part = "router" /\ RouterPart!Init
    \/ part = "update" /\ UpdatePart!Init /\ None13

Next ==
    /\ UNCHANGED part
    /\ \/ part = "qms" /\ QmsPart!Next
       \/ part = "serve" /\ ServePart!Next /\ Same10
       \/ part = "child" /\ ChildPart!Next /\ Same8
       \/ part = "ws" /\ WsPart!Next /\ Same12
       \/ part = "pool" /\ PoolPart!Next /\ Same7
       \/ part = "fetch" /\ FetchPart!Next /\ Same11
       \/ part = "router" /\ RouterPart!Next
       \/ part = "update" /\ UpdatePart!Next /\ Same13

Spec == Init /\ [][Next]_vars

(***************************************************************************)
(* The parts something has to end in, with their fairness: the processes,  *)
(* threads and clocks in them go on.                                       *)
(***************************************************************************)
LiveInit == Init /\ part \in {"child", "pool", "router"}

LiveSpec ==
    /\ LiveInit
    /\ [][Next]_vars
    /\ WF_vars(part = "child" /\ ChildPart!Parent /\ UNCHANGED part /\ Same8)
    /\ WF_vars(part = "child" /\ ChildPart!Tick /\ UNCHANGED part /\ Same8)
    /\ \A w \in Workers :
        WF_vars(part = "pool" /\ PoolPart!WorkerSteps(w) /\ UNCHANGED part /\ Same7)
    /\ \A r \in PoolRequests :
        WF_vars(part = "pool" /\ PoolPart!RequestSteps(r) /\ UNCHANGED part /\ Same7)
    /\ WF_vars(part = "pool" /\ PoolPart!Destroy /\ UNCHANGED part /\ Same7)
    /\ WF_vars(part = "router" /\ RouterPart!Server /\ UNCHANGED part)
    /\ WF_vars(part = "router" /\ RouterPart!Child /\ UNCHANGED part)

-----------------------------------------------------------------------------
(***************************************************************************)
(* PoolRequests: main waits for the threads that answer them, and the rate     *)
(* limit holds (Serve); one for many pages goes on with its own jobs done  *)
(* (Pool); and a fetch keeps to a policy that was read, and to the pace    *)
(* (Fetch).                                                                *)
(***************************************************************************)
RequestsServed ==
    /\ part = "serve" => ServePart!ShutdownWaits /\ ServePart!LimitHolds
    /\ part = "pool" => PoolPart!ReadsFinished
    /\ part = "fetch" => FetchPart!RulesHeard /\ FetchPart!SlotsApart

(***************************************************************************)
(* Child: run_child reports how the child ended, with the beginning of its *)
(* output, and it returns.                                                 *)
(***************************************************************************)
ChildReported ==
    part = "child" => ChildPart!ResultIsEnding /\ ChildPart!OutputIsPrefix
ChildReturns == <>(part = "child" => ChildPart!Returned)

(***************************************************************************)
(* Ws: a client stays on the list, and acknowledgements are counted right. *)
(***************************************************************************)
WsDelivers == part = "ws" => WsPart!StaysRegistered /\ WsPart!AckedWithinTotal

(***************************************************************************)
(* Pool: everybody who waits goes on.                                      *)
(***************************************************************************)
PoolReturns == <>(part = "pool" => PoolPart!AllGone)

(***************************************************************************)
(* Router: a reply is true, replies are in order, and each call gets one.  *)
(***************************************************************************)
RouterTrue == part = "router" => RouterPart!OkMeansDone /\ RouterPart!InOrder
RouterAnswers ==
    \A c \in 1..Calls : part = "router" /\ RouterPart!SentWithBody(c)
                     ~> part = "router" /\ RouterPart!HasReply(c)

(***************************************************************************)
(* Update: what --update leaves of the user's edits, and what is installed *)
(* when it says "updated".                                                 *)
(***************************************************************************)
UpdateKeeps == part = "update" => UpdatePart!EditsReturn /\ UpdatePart!UpdatedIsNewest

(***************************************************************************)
(* Qms: what exoqms keeps of an NC, its registry, notes and issues.        *)
(***************************************************************************)
QmsLifecycle == [][part = "qms" => QmsPart!LifecycleStep]_vars
QmsClosed == part = "qms" => QmsPart!ClosedHasEvidence
QmsAgrees == part = "qms" => QmsPart!QuietAgreement
QmsTrail == part = "qms" => QmsPart!TrailComplete
QmsReopens == part = "qms" => QmsPart!ReopensCoverRework
=============================================================================
