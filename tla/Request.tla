------------------------------ MODULE Request ------------------------------
(***************************************************************************)
(* How a daemon reads an HTTP request from its connection: read_request of *)
(* exomind (src/src/http.c), its copy in exoflow, exosched and exoqms, and *)
(* conn_thread of exocontext.  The bytes arrive in pieces of any size, the *)
(* client may stop sending or hang up anywhere, and the result should be   *)
(* the one for the same bytes in one piece.                                *)
(*                                                                         *)
(* A byte is "l" for the request line, "c" for the Content-Length header,  *)
(* "h" for another header, "r" and "n" for CR and LF, or "b" for a byte of *)
(* the body.                                                               *)
(***************************************************************************)
EXTENDS Integers, Sequences, SequencesExt, FiniteSetsExt

CONSTANTS
    Eols,        \* the line ends clients use: CRLF, LF
    Headers,     \* the headers of a request, as sequences of "c" and "h"
    Lengths,     \* the values of Content-Length
    Sent,        \* the numbers of body bytes clients mean to send
    MaxHeaders,  \* the buffer for line and headers
    MaxBody      \* the largest Content-Length

VARIABLES
    daemon,      \* whose code reads
    request,     \* what the client sends
    arrived,     \* bytes that have arrived
    open,        \* the client has not hung up
    n,           \* bytes read
    hdrEnd,      \* offset behind the headers, 0 until it is found
    result       \* "reading", then what the request came to

vars == <<daemon, request, arrived, open, n, hdrEnd, result>>

Daemons == {"exomind", "sibling", "exocontext"}

CRLF == <<"r", "n">>
LF == <<"n">>

(* the bytes of a request: line, headers, empty line, body *)
Bytes(q) ==
    <<"l">> \o q.eol
        \o FlattenSeq([i \in DOMAIN q.headers |-> <<q.headers[i]>> \o q.eol])
        \o q.eol \o [i \in 1..q.sent |-> "b"]

Requests == [eol : Eols, headers : Headers, length : Lengths, sent : Sent]

Smaller(a, b) == IF a < b THEN a ELSE b

(* a result: the status of a refusal, or the body the request goes on with *)
Refused(status) == [status |-> status, body |-> 0]
Dispatched(length) == [status |-> 200, body |-> length]
Reading == [status |-> 0, body |-> 0]

Init ==
    /\ daemon \in Daemons
    /\ request \in Requests
    /\ arrived = 0 /\ open = TRUE
    /\ n = 0 /\ hdrEnd = 0
    /\ result = Reading

-----------------------------------------------------------------------------
(* What the code makes of the bytes *)

At(s, i, what) ==
    /\ i + Len(what) <= Len(s)
    /\ SubSeq(s, i + 1, i + Len(what)) = what

(***************************************************************************)
(* The offset behind the first empty line that starts at or after offset   *)
(* from, 0 if there is none.  The siblings look at an offset only when     *)
(* four bytes are there; exocontext knows no other line end than CRLF.     *)
(***************************************************************************)
HeaderEnd(d, s, from) ==
    LET Room(i) == d = "sibling" => i + 4 <= Len(s)
        Crlf(i) == At(s, i, CRLF \o CRLF)
        Lf(i) == d # "exocontext" /\ At(s, i, LF \o LF) /\ Room(i)
        I == {i \in from..Len(s) : Crlf(i) \/ Lf(i)}
    IN  IF I = {} THEN 0
        ELSE IF Crlf(Min(I)) THEN Min(I) + 4 ELSE Min(I) + 2

WindowNew(len, got) == len - got
(* after a read of got bytes only those are searched, and four before them *)
Window(len, got) == IF len > got + 4 THEN len - got - 4 ELSE 0

(* a request line that ends where the headers do is malformed *)
Malformed(d, q) == d # "exocontext" /\ q.eol = LF /\ q.headers = <<>>

(* the siblings take what follows the first LF for one header *)
Fields(d, q) ==
    IF d = "sibling" /\ q.eol = LF THEN {q.headers[1]} ELSE ToSet(q.headers)

Declared(d, q) == IF "c" \in Fields(d, q) THEN q.length ELSE 0

(* what is known once the headers are read *)
AfterHeaders(d, q, here) ==
    IF Malformed(d, q) THEN Refused(400)
    ELSE IF d # "exocontext" /\ Declared(d, q) > MaxBody THEN Refused(413)
    ELSE IF here < Declared(d, q) THEN Reading
    ELSE Dispatched(IF d = "exocontext" THEN here ELSE Declared(d, q))

(***************************************************************************)
(* What follows when no more is read.  Only exocontext goes on with what   *)
(* it has, if that is a line at least.                                     *)
(***************************************************************************)
Broken(d, s, end) ==
    IF d # "exocontext" THEN Refused(400)
    ELSE IF ~Contains(s, "n") THEN Refused(0)
    ELSE Dispatched(IF end = 0 THEN 0 ELSE Len(s) - end)

(* exocontext has one buffer for headers and body *)
Capacity(d, end) ==
    IF end = 0 \/ d = "exocontext" THEN MaxHeaders ELSE MaxHeaders + MaxBody

(***************************************************************************)
(* What the first len bytes come to when they are read at once and no more *)
(* of them can be.                                                         *)
(***************************************************************************)
Whole(d, q, len) ==
    LET s == SubSeq(Bytes(q), 1, Smaller(len, MaxHeaders))
        end == HeaderEnd(d, s, 0)
        all == SubSeq(Bytes(q), 1, Smaller(len, Capacity(d, end)))
        known == AfterHeaders(d, q, Len(all) - end)
    IN  IF end # 0 /\ known # Reading THEN known ELSE Broken(d, all, end)

-----------------------------------------------------------------------------
Arrive ==
    /\ open
    /\ arrived < Len(Bytes(request))
    /\ arrived' = arrived + 1
    /\ UNCHANGED <<daemon, request, open, n, hdrEnd, result>>

HangUp ==
    /\ open /\ open' = FALSE
    /\ UNCHANGED <<daemon, request, arrived, n, hdrEnd, result>>

Buffered == SubSeq(Bytes(request), 1, n')

(* one read: in the loop over the headers, and what follows when that ends *)
ReadHead ==
    /\ result = Reading /\ hdrEnd = 0
    /\ \E got \in 1..Smaller(arrived - n, MaxHeaders - n) :
        /\ n' = n + got
        /\ hdrEnd' = HeaderEnd(daemon, Buffered,
                        IF daemon = "exocontext" THEN 0 ELSE Window(n', got))
        /\ result' = IF hdrEnd' # 0
                     THEN AfterHeaders(daemon, request, n' - hdrEnd')
                     ELSE Reading
    /\ UNCHANGED <<daemon, request, arrived, open>>

(* in the loop over the body *)
ReadBody ==
    /\ result = Reading /\ hdrEnd # 0
    /\ \E got \in 1..Smaller(arrived - n, Capacity(daemon, hdrEnd) - n) :
        /\ n' = n + got
        /\ result' = AfterHeaders(daemon, request, n' - hdrEnd)
    /\ UNCHANGED <<daemon, request, arrived, open, hdrEnd>>

(* the buffer is full *)
Full ==
    /\ result = Reading
    /\ n = Capacity(daemon, hdrEnd)
    /\ result' = Broken(daemon, SubSeq(Bytes(request), 1, n), hdrEnd)
    /\ UNCHANGED <<daemon, request, arrived, open, n, hdrEnd>>

(* read returns 0, or nothing for ten seconds; exocontext waits for ever *)
ReadFails ==
    /\ result = Reading
    /\ n = arrived
    /\ ~open \/ (daemon # "exocontext" /\ arrived = Len(Bytes(request)))
    /\ result' = Broken(daemon, SubSeq(Bytes(request), 1, n), hdrEnd)
    /\ UNCHANGED <<daemon, request, arrived, open, n, hdrEnd>>

Next == Arrive \/ HangUp \/ ReadHead \/ ReadBody \/ Full \/ ReadFails

Spec == Init /\ [][Next]_vars

-----------------------------------------------------------------------------
(* Properties *)

Done == result # Reading

(* a request as the RFC has it that is what it says and fits in the buffer *)
Proper(q) ==
    /\ q.eol = CRLF
    /\ q.sent = Declared("exocontext", q)
    /\ Len(Bytes(q)) <= MaxHeaders

(***************************************************************************)
(* How the network cuts a request into pieces does not matter: a result is *)
(* the one for the whole request, or for all that had arrived when the     *)
(* client was gone.  (exocontext takes what it happens to have read beyond *)
(* the declared length for body, too.)                                     *)
(***************************************************************************)
CutsDoNotMatter ==
    Done /\ (daemon = "exocontext" => Proper(request)) =>
        \/ result = Whole(daemon, request, Len(Bytes(request)))
        \/ ~open /\ result = Whole(daemon, request, n)

(***************************************************************************)
(* No handler sees a part of a body; but exocontext, when the client hangs *)
(* up in the middle of it or its buffer is full.                           *)
(***************************************************************************)
BodyIsComplete ==
    Done /\ result.status = 200
         /\ (daemon = "exocontext" => open /\ Proper(request)) =>
        result.body = Declared(daemon, request)
=============================================================================
