-------------------------------- MODULE Fetch --------------------------------
(***************************************************************************)
(* Fetches of exocrawl in robots mode (src/exocrawl/src/main.c): several   *)
(* threads, of /fetch and of /scrape, each with one page to get.  Before   *)
(* the page a thread asks three times for the host's policy: to have it    *)
(* read, to look for a rule, and for the pace.  The first that asks reads  *)
(* the policy, from disk or from the host; the others look again every     *)
(* 5 ms and go on without a policy after a second.                         *)
(*                                                                         *)
(* Of a policy one Disallow rule and the Crawl-delay are kept; the pages   *)
(* in Forbidden are those the rule covers.  The answers of a host are      *)
(* chosen freely; the retries inside net_fetch count as one request.       *)
(***************************************************************************)
EXTENDS Integers, Sequences, FiniteSets

CONSTANTS
    Fetches,   \* threads with one page each
    Hosts,
    HostOf,    \* the host of each page
    Forbidden, \* the fetches of a page that the host's robots.txt disallows
    Bypassing, \* the fetches with polite=0
    Pace,      \* --pace-ms
    Delay,     \* the hosts' Crawl-delay
    Tries,     \* how often a thread looks for a policy another one reads
    MaxTime    \* bound of the clock

VARIABLES
    clock,
    policy,    \* of each host: unread, being read, read
    answer,    \* what the host's robots.txt gave: none (not looked at), rules, failed
    disk,      \* hosts whose robots.txt is in the directory
    slots,     \* times each host may be asked at, in the order they were given
    at,        \* where each fetch is
    tries,
    known,     \* whether the fetch got the policy at its last look
    unheard,   \* history: the fetches that looked for a rule without a policy
    wake,      \* when its slot comes
    cache      \* pages that exomind holds the text of

vars == <<clock, policy, answer, disk, slots, at, tries, known, unheard, wake,
          cache>>

Init ==
    /\ clock = 1
    /\ policy = [h \in Hosts |-> "unread"]
    /\ answer = [h \in Hosts |-> "none"]
    /\ disk \in SUBSET Hosts
    /\ slots = [h \in Hosts |-> <<>>]
    /\ at = [f \in Fetches |-> IF f \in Bypassing THEN "pace" ELSE "policy"]
    /\ tries = [f \in Fetches |-> 0]
    /\ known = [f \in Fetches |-> FALSE]
    /\ unheard = {}
    /\ wake = [f \in Fetches |-> 0]
    /\ cache \in SUBSET Fetches  \* from earlier requests

-----------------------------------------------------------------------------
(* pace_wait *)

(* a slot is at least min after the last one of the host, and never in the past *)
Slot(h, min) ==
    IF slots[h] = <<>> THEN clock
    ELSE LET next == slots[h][Len(slots[h])].time + min
         IN  IF clock < next THEN next ELSE clock

TakeSlot(f, min) ==
    LET h == HostOf[f]
    IN  /\ wake' = [wake EXCEPT ![f] = Slot(h, min)]
        /\ slots' = [slots EXCEPT ![h] =
                        Append(@, [time |-> Slot(h, min), min |-> min])]

-----------------------------------------------------------------------------
(* robots_get; where a fetch asks: *)

Asking == {"policy", "rules", "pace"}

(* what the fetch does with the policy, or without one *)
After(f, got) ==
    CASE at[f] = "policy" -> "rules"
      [] at[f] = "rules" ->
            IF got /\ answer[HostOf[f]] = "rules" /\ f \in Forbidden
            THEN "disallowed" ELSE "pace"
      [] at[f] = "pace" -> "slot"

Go(f, got) ==
    /\ at' = [at EXCEPT ![f] = After(f, got)]
    /\ tries' = [tries EXCEPT ![f] = 0]
    /\ known' = [known EXCEPT ![f] = got]
    /\ unheard' = IF at[f] # "rules" THEN unheard
                  ELSE IF got THEN unheard \ {f} ELSE unheard \cup {f}

IsRead(p) == p = "read"

Got(f) ==
    /\ at[f] \in Asking /\ IsRead(policy[HostOf[f]])
    /\ Go(f, TRUE)
    /\ UNCHANGED <<clock, policy, answer, disk, slots, wake, cache>>

LookAgain(f) ==
    /\ at[f] \in Asking /\ policy[HostOf[f]] = "reading"
    /\ IF tries[f] + 1 < Tries
       THEN tries' = [tries EXCEPT ![f] = @ + 1] /\ UNCHANGED <<at, known, unheard>>
       ELSE Go(f, FALSE)
    /\ UNCHANGED <<clock, policy, answer, disk, slots, wake, cache>>

(***************************************************************************)
(* The first that asks reads the policy.  The question for the pace comes  *)
(* without a url: then only the disk is looked at, and the host counts as  *)
(* read.                                                                   *)
(***************************************************************************)
ReadDisk(f) ==
    LET h == HostOf[f]
    IN  /\ at[f] \in Asking /\ policy[h] = "unread"
        /\ h \in disk \/ at[f] = "pace"
        /\ policy' = [policy EXCEPT ![h] = "read"]
        /\ answer' = [answer EXCEPT ![h] = IF h \in disk THEN "rules" ELSE "none"]
        /\ Go(f, TRUE)
        /\ UNCHANGED <<clock, disk, slots, wake, cache>>

(* robots_fetch: its request takes a slot of the host too *)
AskHost(f) ==
    LET h == HostOf[f]
    IN  /\ at[f] \in {"policy", "rules"} /\ policy[h] = "unread"
        /\ h \notin disk
        /\ policy' = [policy EXCEPT ![h] = "reading"]
        /\ TakeSlot(f, Pace)
        /\ at' = [at EXCEPT ![f] = IF @ = "policy" THEN "fetching policy" ELSE "fetching rules"]
        /\ UNCHANGED <<clock, answer, disk, tries, known, unheard, cache>>

(* a robots.txt with rules; or none, or no connection, which allows everything *)
HostAnswers(f) ==
    LET h == HostOf[f]
    IN  /\ at[f] \in {"fetching policy", "fetching rules"} /\ wake[f] <= clock
        /\ \E a \in {"rules", "failed"} :
            /\ answer' = [answer EXCEPT ![h] = a]
            /\ disk' = IF a = "rules" THEN disk \cup {h} ELSE disk
            /\ at' = [at EXCEPT ![f] =
                        IF @ = "fetching policy" THEN "rules"
                        ELSE IF a = "rules" /\ f \in Forbidden THEN "disallowed"
                        ELSE "pace"]
        /\ policy' = [policy EXCEPT ![h] = "read"]
        /\ known' = [known EXCEPT ![f] = TRUE]
        /\ unheard' = unheard \ {f}
        /\ tries' = [tries EXCEPT ![f] = 0]
        /\ UNCHANGED <<clock, slots, wake, cache>>

-----------------------------------------------------------------------------
(* fetch_worker, once it may *)

(* robots_effective_pace *)
PaceFor(f) ==
    IF known[f] /\ answer[HostOf[f]] = "rules" /\ Delay > Pace THEN Delay ELSE Pace

WaitTurn(f) ==
    /\ at[f] = "slot"
    /\ TakeSlot(f, PaceFor(f))
    /\ at' = [at EXCEPT ![f] = "waiting"]
    /\ UNCHANGED <<clock, policy, answer, disk, tries, known, unheard, cache>>

FromCache(f) ==
    /\ at[f] = "waiting" /\ wake[f] <= clock
    /\ f \in cache
    /\ at' = [at EXCEPT ![f] = "cached"]
    /\ UNCHANGED <<clock, policy, answer, disk, slots, tries, known, unheard, wake, cache>>

Request(f) ==
    /\ at[f] = "waiting" /\ wake[f] <= clock
    /\ f \notin cache
    /\ at' = [at EXCEPT ![f] = "requested"]
    /\ UNCHANGED <<clock, policy, answer, disk, slots, tries, known, unheard, wake, cache>>

(* net_fetch has ended; only a page that came with status 200 is cached *)
Extract(f) ==
    /\ at[f] = "requested"
    /\ \/ at' = [at EXCEPT ![f] = "fetched"] /\ cache' \in {cache, cache \cup {f}}
       \/ at' = [at EXCEPT ![f] = "error"] /\ UNCHANGED cache
    /\ UNCHANGED <<clock, policy, answer, disk, slots, tries, known, unheard, wake>>

Tick ==
    /\ clock < MaxTime
    /\ clock' = clock + 1
    /\ UNCHANGED <<policy, answer, disk, slots, at, tries, known, unheard, wake, cache>>

Steps(f) ==
    \/ Got(f) \/ LookAgain(f) \/ ReadDisk(f) \/ AskHost(f) \/ HostAnswers(f)
    \/ WaitTurn(f) \/ FromCache(f) \/ Request(f) \/ Extract(f)

Next == (\E f \in Fetches : Steps(f)) \/ Tick

Spec == Init /\ [][Next]_vars

-----------------------------------------------------------------------------
Asked(f) == at[f] \in {"requested", "fetched", "error"}
Misses(f) == Asked(f) /\ f \in Forbidden \ Bypassing

(***************************************************************************)
(* "A disallowed target is skipped": only a host whose robots.txt could    *)
(* not be had is asked for one (src/exocrawl/README.md:97-99).             *)
(***************************************************************************)
DisallowEnforced == \A f \in Fetches : Misses(f) => answer[HostOf[f]] = "failed"

(***************************************************************************)
(* What the code does keep: a thread that got the policy from the host or  *)
(* from disk never asks for a page it disallows, however many threads ask  *)
(* for the policy at once.                                                 *)
(***************************************************************************)
RulesHeard ==
    \A f \in Fetches :
        Misses(f) => \/ answer[HostOf[f]] # "rules"
                     \/ f \in unheard

(***************************************************************************)
(* pace_wait: the times a host is asked at, its robots.txt included, keep  *)
(* the distance each of them was to have from the one before.              *)
(***************************************************************************)
SlotsApart ==
    \A h \in Hosts : \A i \in DOMAIN slots[h] : i > 1 =>
        slots[h][i].time >= slots[h][i - 1].time + slots[h][i].min

-----------------------------------------------------------------------------
(***************************************************************************)
(* The inductive invariant.                                                *)
(***************************************************************************)
Fetching == {"fetching policy", "fetching rules"}
Past == {"pace", "slot", "waiting", "requested", "cached", "fetched", "error"}

TypeOK ==
    /\ clock \in Nat
    /\ policy \in [Hosts -> {"unread", "reading", "read"}]
    /\ answer \in [Hosts -> {"none", "rules", "failed"}]
    /\ slots \in [Hosts -> Seq([time : Nat, min : Nat])]
    /\ at \in [Fetches -> {"policy", "rules", "disallowed"} \cup Fetching \cup Past]

(* a policy is read by one fetch, and others have looked for it before they go on *)
OneReads ==
    \A f \in Fetches :
        /\ at[f] \in Fetching => policy[HostOf[f]] = "reading"
        /\ f \in Bypassing \/ at[f] = "policy" \/ policy[HostOf[f]] # "unread"
        /\ \A g \in Fetches :
            at[f] \in Fetching /\ at[g] \in Fetching /\ HostOf[f] = HostOf[g] => f = g

(* who has passed a rule that covers its page found no policy, or one without rules *)
RulePassed ==
    \A f \in Forbidden \cap Fetches :
        f \in Bypassing \/ f \in unheard \/ at[f] \notin Past
        \/ (policy[HostOf[f]] = "read" /\ answer[HostOf[f]] # "rules")

Inv == TypeOK /\ OneReads /\ RulePassed /\ SlotsApart
=============================================================================
