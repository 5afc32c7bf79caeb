---------------------------- MODULE RegistryLock ----------------------------
(***************************************************************************)
(* The lock of exoqms's registry (qms_t.mu).  The mutex is a field of the  *)
(* registry it protects, and the reload replaces the registry as a whole   *)
(* while it holds the lock (model.c, qms_reload): the lock's state becomes *)
(* that of the new registry's mutex, which nobody has locked.              *)
(*                                                                         *)
(* The mutex is the one of the C library the daemon is built with: a word, *)
(* 0 free, 1 locked, 2 locked and perhaps waited for; a thread that finds  *)
(* it locked sets 2 and sleeps, and the unlock wakes one sleeper if it     *)
(* finds 2.                                                                *)
(***************************************************************************)
EXTENDS Naturals, FiniteSets

CONSTANTS Requests,  \* connection threads, each for one request
          Reloader   \* reload_thread

VARIABLES word, pc
vars == <<word, pc>>

Threads == Requests \cup {Reloader}

Init ==
    /\ word = 0
    /\ pc = [t \in Threads |-> "away"]

Go(t, from, to) == pc[t] = from /\ pc' = [pc EXCEPT ![t] = to]

(* a request needs the registry; the reload has read all of exomind *)
Arrive(t) ==
    /\ Go(t, "away", "lock")
    /\ UNCHANGED word

Lock(t) ==
    \/ word = 0 /\ word' = 1 /\ Go(t, "lock", "inside")
    \/ word # 0 /\ word' = 2 /\ Go(t, "lock", "wait")
Wait(t) ==  \* the kernel puts it to sleep only if the word is still 2
    /\ Go(t, "wait", IF word = 2 THEN "asleep" ELSE "woken")
    /\ UNCHANGED word
Relock(t) ==
    /\ word' = 2
    /\ Go(t, "woken", IF word = 0 THEN "inside" ELSE "wait")

Replace ==
    /\ Go(Reloader, "inside", "replaced")
    /\ word' = 0

Inside(t) == pc[t] = (IF t = Reloader THEN "replaced" ELSE "inside")
Unlock(t) ==
    /\ Inside(t)
    /\ word' = 0
    /\ LET asleep == {u \in Threads : pc[u] = "asleep"}
           left == [pc EXCEPT ![t] = "done"]
       IN  IF word = 2 /\ asleep # {}
           THEN \E u \in asleep : pc' = [left EXCEPT ![u] = "woken"]
           ELSE pc' = left

Runs(t) == Lock(t) \/ Wait(t) \/ Relock(t) \/ Unlock(t)
Next ==
    \/ \E t \in Threads : Arrive(t) \/ Runs(t)
    \/ Replace

(* every thread that can run does; requests need not come *)
Spec ==
    /\ Init /\ [][Next]_vars
    /\ \A t \in Threads : WF_vars(Runs(t))
    /\ WF_vars(Replace)

-----------------------------------------------------------------------------
(***************************************************************************)
(* standard.md:174-177 of exoqms: while the reload is retried in the       *)
(* background the daemon serves requests; a request that needs the         *)
(* registry gets it and is done.                                           *)
(***************************************************************************)
Served == \A t \in Requests : pc[t] = "lock" ~> pc[t] = "done"
=============================================================================
