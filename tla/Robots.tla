-------------------------------- MODULE Robots --------------------------------
(***************************************************************************)
(* How exocrawl reads a robots.txt (robots_parse) and tells by it whether  *)
(* a url may be fetched (robots_denied), src/exocrawl/src/main.c.          *)
(*                                                                         *)
(* The file is read line by line until it ends or the table of rules is    *)
(* full.  A line that disallows everything is not left once its rule is    *)
(* noted: it is noted again and again until the table is full, and what is *)
(* behind it is not read.                                                  *)
(***************************************************************************)
EXTENDS Integers, Sequences, FiniteSets
LOCAL INSTANCE SequencesExt
LOCAL INSTANCE FiniteSetsExt

CONSTANTS
    Files,     \* the files there may be, as sequences of lines
    Targets,   \* urls behind their host: [path, query], sequences of characters
    MaxRules,  \* 16
    MaxDelay   \* 3600: a Crawl-delay is shorter than this

VARIABLES
    file,
    at,        \* the line that is read next
    rules,     \* noted so far
    delay      \* crawl_delay_ms

vars == <<file, at, rules, delay>>

Init ==
    /\ file \in Files
    /\ at = 1 /\ rules = <<>> /\ delay = 0

-----------------------------------------------------------------------------
(* robots_parse *)

Everything(v) == v \in {<<>>, <<"*">>}

(* a "$" at the end and every "*" are left out, a "/" is put in front *)
Rule(v) ==
    LET shown == IF v # <<>> /\ Last(v) = "$" THEN Front(v) ELSE v
        kept  == SelectSeq(shown, LAMBDA c : c # "*")
    IN  IF v # <<>> /\ Head(v) = "/" THEN kept ELSE <<"/">> \o kept

Reads(kind) ==
    /\ at \in DOMAIN file /\ Len(rules) < MaxRules
    /\ file[at].kind = kind
    /\ UNCHANGED file

DisallowAll ==
    /\ Reads("disallow") /\ Everything(file[at].value)
    /\ rules' = Append(rules, <<"/">>)
    /\ UNCHANGED <<at, delay>>

Disallow ==
    /\ Reads("disallow") /\ ~Everything(file[at].value)
    /\ rules' = Append(rules, Rule(file[at].value))
    /\ at' = at + 1
    /\ UNCHANGED delay

CrawlDelay ==
    /\ Reads("delay")
    /\ delay' = IF file[at].sec \in 1..(MaxDelay - 1) THEN Max({delay, file[at].sec})
                                                      ELSE delay
    /\ at' = at + 1
    /\ UNCHANGED rules

OtherLine ==
    /\ Reads("other")
    /\ at' = at + 1
    /\ UNCHANGED <<rules, delay>>

Next == DisallowAll \/ Disallow \/ CrawlDelay \/ OtherLine

Spec == Init /\ [][Next]_vars

-----------------------------------------------------------------------------
(* robots_denied *)

(* from the first "/" on, also where that is in the query; with no "/" the *)
(* host is taken for the beginning of the path if there is a query         *)
url_path(u) ==
    LET slashes == {i \in DOMAIN u.query : u.query[i] = "/"}
    IN  CASE u.path # <<>>  -> u.path \o u.query
          [] u.query = <<>> -> <<"/">>
          [] slashes # {}   -> SubSeq(u.query, Min(slashes), Len(u.query))
          [] OTHER          -> <<"host">> \o u.query

Covers(rule, u) == Len(rule) <= 1 \/ IsPrefix(rule, url_path(u))

Denied(u) == \E i \in DOMAIN rules : Covers(rules[i], u)

-----------------------------------------------------------------------------
(* the file has been read as far as it will be *)
Parsed == at > Len(file) \/ Len(rules) = MaxRules

Disallows == {i \in DOMAIN file : file[i].kind = "disallow"}
Delays == {file[i].sec : i \in {j \in DOMAIN file : file[j].kind = "delay"}}
Forbids(i, u) ==
    Everything(file[i].value) \/ Covers(Rule(file[i].value), u)

(***************************************************************************)
(* What is denied is what the lines of the file disallow, wherever they    *)
(* stand, unless there are more of them than the table holds; then nothing *)
(* else is denied.                                                         *)
(***************************************************************************)
DeniedAsWritten ==
    Parsed => \A u \in Targets :
        /\ Denied(u) => \E i \in Disallows : Forbids(i, u)
        /\ Cardinality(Disallows) <= MaxRules =>
              (\A i \in Disallows : Forbids(i, u) => Denied(u))

(***************************************************************************)
(* Where a url may be fetched and the table was not filled, the longest    *)
(* Crawl-delay that counts is kept, wherever it stands: the lines that are *)
(* lost are behind one that forbids every url.                             *)
(***************************************************************************)
DelayHeard ==
    Parsed /\ Cardinality(Disallows) < MaxRules
           /\ (\E u \in Targets : ~Denied(u))
        => delay = Max({0} \cup (Delays \cap 1..(MaxDelay - 1)))
=============================================================================
