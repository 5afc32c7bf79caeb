------------------------------ MODULE MCSched ------------------------------
(***************************************************************************)
(* Instance of Sched: bodies "in 1s", "every 1s", "every 1s until 2" and a *)
(* recurring one whose duration wraps to -2 s, all with a quoted message.  *)
(***************************************************************************)
EXTENDS Sched

Body(form, n, unit, until) == [form |-> form, n |-> n, unit |-> unit, quoted |-> TRUE,
                         text |-> "words", until |-> until, tail |-> ""]
MCBodies == {Body("in", 1, 1, 0), Body("every", 1, 1, 0), Body("every", 1, 1, 2),
             Body("every", 127, 2, 0)}

=============================================================================
