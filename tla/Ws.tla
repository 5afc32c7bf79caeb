--------------------------------- MODULE Ws ---------------------------------
(***************************************************************************)
(* The WebSocket clients of exosched (src/exosched/src/ws.c): each has a   *)
(* thread that reads its frames, and an entry in a list, by the number of  *)
(* its descriptor; the timer thread pushes a frame to the whole list,      *)
(* closes and forgets whom it cannot reach, and waits a short while for    *)
(* the others to acknowledge.                                              *)
(*                                                                         *)
(* A descriptor is a number: once closed, the next connection gets it.     *)
(* ws_mu is held throughout the sending, and not while waiting.            *)
(***************************************************************************)
EXTENDS Integers, Sequences, FiniteSets, SequencesExt

CONSTANTS
    Conns,      \* connections
    Fds,        \* descriptor numbers
    NoConn,
    MaxPushes   \* bound: broadcasts

VARIABLES
    owner,      \* the kernel's table: the connection a number stands for
    fd,         \* each thread's own number, 0 before it has one
    peer,       \* new, up, down: the other end
    th,         \* the threads: where, the connection recv waits on, the
                \* push that the frame just read acknowledges
    clients,    \* g_clients, numbers, the newest first
    push,       \* ws_broadcast: where, the next entry, total
    acks,       \* g_pending.fds and acked
    pushes,
    got,        \* history: whom the frame in flight has reached
    again,      \* history: someone it has not reached acknowledged
    stale,      \* history: numbers that the broadcaster closed
    strays      \* history: connections closed by the thread of another one

vars == <<owner, fd, peer, th, clients, push, acks, pushes, got, again, stale, strays>>

net == <<owner, fd, peer>>
broadcaster == <<push, pushes>>
history == <<got, again, stale, strays>>

Idle == [at |-> "idle", next |-> 1, total |-> 0]

Thread(p) == [pc |-> p, on |-> NoConn, ack |-> 0]

Init ==
    /\ owner = [f \in Fds |-> NoConn]
    /\ fd = [c \in Conns |-> 0]
    /\ peer = [c \in Conns |-> "new"]
    /\ th = [c \in Conns |-> Thread("none")]
    /\ clients = <<>>
    /\ push = Idle
    /\ acks = [fds |-> {}, n |-> 0]
    /\ pushes = 0
    /\ got = {} /\ again = FALSE /\ stale = {} /\ strays = {}

At(c, p) == th[c].pc = p
Goto(c, p) == th' = [th EXCEPT ![c] = Thread(p)]
Unlocked == push.at \in {"idle", "wait"}

-----------------------------------------------------------------------------
(* The other ends *)

(* accept gives the lowest free number *)
Connect(c) ==
    /\ peer[c] = "new"
    /\ \E f \in Fds :
        /\ owner[f] = NoConn
        /\ \A g \in Fds : g < f => owner[g] # NoConn
        /\ owner' = [owner EXCEPT ![f] = c]
        /\ fd' = [fd EXCEPT ![c] = f]
    /\ peer' = [peer EXCEPT ![c] = "up"]
    /\ Goto(c, "join")
    /\ UNCHANGED <<clients, broadcaster, acks, history>>

HangUp(c) ==
    /\ peer[c] = "up"
    /\ peer' = [peer EXCEPT ![c] = "down"]
    /\ UNCHANGED <<owner, fd, th, clients, broadcaster, acks, history>>

-----------------------------------------------------------------------------
(* The thread of a client *)

Join(c) ==
    /\ At(c, "join") /\ Unlocked
    /\ clients' = <<fd[c]>> \o clients
    /\ Goto(c, "top")
    /\ UNCHANGED <<net, broadcaster, acks, history>>

(* recv keeps the connection its number stood for when it was called *)
Recv(c) ==
    /\ At(c, "top")
    /\ th' = [th EXCEPT ![c].pc = IF owner[fd[c]] = NoConn THEN "out" ELSE "recv",
                        ![c].on = owner[fd[c]]]
    /\ UNCHANGED <<net, clients, broadcaster, acks, history>>

(* the end of the stream, or an error *)
Eof(c) ==
    /\ At(c, "recv") /\ peer[th[c].on] = "down"
    /\ Goto(c, "out")
    /\ UNCHANGED <<net, clients, broadcaster, acks, history>>

(* a close frame is echoed *)
CloseFrame(c) ==
    /\ At(c, "recv") /\ peer[th[c].on] = "up"
    /\ peer' = [peer EXCEPT ![th[c].on] = "down"]
    /\ Goto(c, "out")
    /\ UNCHANGED <<owner, fd, clients, broadcaster, acks, history>>

(***************************************************************************)
(* A client acknowledges the frame in flight: one it has reached, or one   *)
(* that lost its connection and does it on the next.                       *)
(***************************************************************************)
AckFrame(c) ==
    /\ At(c, "recv") /\ peer[th[c].on] = "up"
    /\ th[c].on \in got \/ \E d \in got : peer[d] = "down"
    /\ again' = (again \/ th[c].on \notin got)
    /\ th' = [th EXCEPT ![c] = [Thread("note") EXCEPT !.ack = pushes]]
    /\ UNCHANGED <<net, clients, broadcaster, acks, got, stale, strays>>

(* ws_note_ack: id and epoch are those of the frame in flight, and the number is new *)
PendingAny(n) == push.at = "wait"
Pending(n) == push.at = "wait" /\ n = pushes
Counted(f) == [fds |-> acks.fds \cup {f}, n |-> IF f \in acks.fds THEN acks.n ELSE acks.n + 1]

NoteAck(c) ==
    /\ At(c, "note") /\ Unlocked
    /\ acks' = IF Pending(th[c].ack) THEN Counted(fd[c]) ELSE acks
    /\ Goto(c, "top")
    /\ UNCHANGED <<net, clients, broadcaster, history>>

(* the first entry with the number *)
EntryOf(f) ==
    CHOOSE i \in DOMAIN clients :
        clients[i] = f /\ \A j \in 1..(i - 1) : clients[j] # f
Without(f) == RemoveAt(clients, EntryOf(f))

(* out: the thread takes the entry with its number off the list *)
Leave(c) ==
    /\ At(c, "out") /\ Unlocked
    /\ IF fd[c] \in ToSet(clients)
       THEN /\ clients' = Without(fd[c])
            /\ Goto(c, "close")
       ELSE /\ Goto(c, "gone")
            /\ UNCHANGED clients
    /\ UNCHANGED <<net, broadcaster, acks, history>>

Close(c) ==
    /\ At(c, "close")
    /\ owner' = [owner EXCEPT ![fd[c]] = NoConn]
    /\ strays' = strays \cup ({owner[fd[c]]} \ {c, NoConn})
    /\ Goto(c, "gone")
    /\ UNCHANGED <<fd, peer, clients, broadcaster, acks, got, again, stale>>

-----------------------------------------------------------------------------
(* The timer thread: ws_broadcast *)

Start ==
    /\ push.at = "idle" /\ pushes < MaxPushes
    /\ push' = [Idle EXCEPT !.at = "send"]
    /\ pushes' = pushes + 1
    /\ acks' = [fds |-> {}, n |-> 0]
    /\ got' = {} /\ again' = FALSE
    /\ UNCHANGED <<net, th, clients, stale, strays>>

Target == clients[push.next]
Reachable == owner[Target] # NoConn /\ peer[owner[Target]] = "up"

Send ==
    /\ push.at = "send" /\ push.next <= Len(clients)
    /\ Reachable
    /\ push' = [push EXCEPT !.next = @ + 1, !.total = @ + 1]
    /\ got' = got \cup {owner[Target]}
    /\ UNCHANGED <<net, th, clients, acks, pushes, again, stale, strays>>

(* the peer is gone, and this end may not have noticed *)
SendLost ==
    /\ push.at = "send" /\ push.next <= Len(clients)
    /\ ~Reachable /\ owner[Target] # NoConn
    /\ push' = [push EXCEPT !.next = @ + 1, !.total = @ + 1]
    /\ UNCHANGED <<net, th, clients, acks, pushes, history>>

SendFails ==
    /\ push.at = "send" /\ push.next <= Len(clients)
    /\ ~Reachable
    /\ clients' = RemoveAt(clients, push.next)
    /\ owner' = [owner EXCEPT ![Target] = NoConn]
    /\ stale' = stale \cup {Target}
    /\ UNCHANGED <<fd, peer, th, broadcaster, acks, got, again, strays>>

Sent ==
    /\ push.at = "send" /\ push.next > Len(clients)
    /\ push' = IF push.total = 0 THEN Idle ELSE [push EXCEPT !.at = "wait"]
    /\ UNCHANGED <<net, th, clients, acks, pushes, history>>

(* all have acknowledged, or the time is up *)
Return ==
    /\ push.at = "wait"
    /\ push' = Idle
    /\ UNCHANGED <<net, th, clients, acks, pushes, history>>

Next ==
    \/ Start \/ Send \/ SendLost \/ SendFails \/ Sent \/ Return
    \/ \E c \in Conns :
        \/ Connect(c) \/ HangUp(c) \/ Join(c) \/ Recv(c) \/ Eof(c) \/ CloseFrame(c)
        \/ AckFrame(c) \/ NoteAck(c) \/ Leave(c) \/ Close(c)

Spec == Init /\ [][Next]_vars

-----------------------------------------------------------------------------
(***************************************************************************)
(* A client whose number the broadcaster never closed is on the list for   *)
(* as long as its thread reads, once, and its number is its own: nobody    *)
(* else removes it, and every push is sent to it.                          *)
(***************************************************************************)
StaysRegistered ==
    \A c \in Conns :
        fd[c] \notin stale /\ th[c].pc \in {"top", "recv", "note", "out"} =>
            /\ owner[fd[c]] = c
            /\ Cardinality({i \in DOMAIN clients : clients[i] = fd[c]}) = 1

(***************************************************************************)
(* The delivery record "acked n/m" (README.md:145): of the m clients the   *)
(* frame was sent to, n acknowledged, unless one did so on a connection    *)
(* that it did not arrive on.                                              *)
(***************************************************************************)
AckedWithinTotal ==
    push.at = "wait" /\ ~again => acks.n <= Cardinality(got) /\ acks.n <= push.total

(***************************************************************************)
(* A thread closes its own connection (ws.c:245-248): the broadcaster has  *)
(* closed the others it let go of.                                         *)
(***************************************************************************)
OwnClose == strays = {}

-----------------------------------------------------------------------------
(***************************************************************************)
(* The inductive invariant.                                                *)
(***************************************************************************)
Listed == {"top", "recv", "note", "out"}

TypeOK ==
    /\ owner \in [Fds -> Conns \cup {NoConn}]
    /\ fd \in [Conns -> Fds \cup {0}]
    /\ peer \in [Conns -> {"new", "up", "down"}]
    /\ th \in [Conns -> [pc : Listed \cup {"none", "join", "close", "gone"},
                         on : Conns \cup {NoConn}, ack : Nat]]
    /\ clients \in Seq(Fds)
    /\ push \in [at : {"idle", "send", "wait"}, next : Nat \ {0}, total : Nat]
    /\ acks \in [fds : SUBSET Fds, n : Nat]
    /\ pushes \in Nat
    /\ got \in SUBSET Conns /\ IsFiniteSet(got)
    /\ again \in BOOLEAN

(* a connection keeps the number it got, and its thread waits on a connection with it *)
Numbered ==
    /\ \A c \in Conns :
        /\ (fd[c] = 0) <=> (peer[c] = "new")
        /\ (fd[c] = 0) <=> (th[c].pc = "none")
        /\ th[c].pc = "recv" => th[c].on # NoConn
        /\ th[c].on # NoConn => fd[c] # 0 /\ fd[th[c].on] = fd[c]
    /\ \A f \in Fds : owner[f] # NoConn => fd[owner[f]] = f
    /\ \A d \in got : fd[d] # 0

(* numbers that acknowledged the frame in flight are those of connections it reached *)
Reached == {fd[d] : d \in got}

Acknowledged ==
    /\ again \/ acks.fds \subseteq Reached
    /\ IsFiniteSet(acks.fds) /\ acks.n = Cardinality(acks.fds)
    /\ push.at # "idle" => Cardinality(got) <= push.total
    /\ \A c \in Conns :
        /\ th[c].ack <= pushes
        /\ th[c].pc = "note" /\ th[c].ack = pushes => again \/ fd[c] \in Reached

(* numbers the broadcaster has not closed, and the list *)
Registered ==
    /\ \A c \in Conns : fd[c] \notin stale =>
        /\ th[c].pc \in Listed \cup {"join", "close"} => owner[fd[c]] = c
        /\ th[c].pc \in Listed => \E i \in DOMAIN clients : clients[i] = fd[c]
    /\ \A i \in DOMAIN clients : clients[i] \notin stale =>
        \E c \in Conns : th[c].pc \in Listed /\ fd[c] = clients[i]
    /\ \A i, j \in DOMAIN clients : clients[i] = clients[j] => i = j \/ clients[i] \in stale

Inv == TypeOK /\ Numbered /\ Acknowledged /\ Registered
=============================================================================
