------------------------------ MODULE Schedule ------------------------------
(***************************************************************************)
(* What a body of POST /remind schedules (src/exosched/src/schedule.c).    *)
(*                                                                         *)
(* A body is a record of its parts:                                        *)
(*   form    "in", "at", "every", or anything else                         *)
(*   n       the number behind it, unit the seconds of its unit            *)
(*   quoted  is the message in quotes                                      *)
(*   text    the message: "", "receipt=1" or "words"                       *)
(*   until   the epoch of an `until` behind the message, 0 when there is   *)
(*           none                                                          *)
(*   tail    what is left behind: "", "receipt=1" or "garbage"             *)
(***************************************************************************)
EXTENDS Integers

CONSTANTS
    MaxDuration,  \* 10 years in seconds
    MaxEpoch,     \* 4102444800
    Modulus       \* 2^64: the product of parse_duration wraps

ASSUME ScheduleAssumption ==
    /\ {MaxDuration, MaxEpoch, Modulus} \subseteq Nat \ {0}
    /\ MaxDuration < Modulus \div 2

(***************************************************************************)
(* Signed arithmetic of the width of Modulus, and strtoll, which saturates.*)
(***************************************************************************)
Wrap(x) == ((x + Modulus \div 2) % Modulus) - Modulus \div 2
Saturated(x) == IF x >= Modulus \div 2 THEN Modulus \div 2 - 1 ELSE x

Seconds(b) == Wrap(Saturated(b.n) * b.unit)
DurationOK(b) == Saturated(b.n) > 0 /\ Seconds(b) <= MaxDuration

(***************************************************************************)
(* parse_in, parse_at and parse_every.                                     *)
(***************************************************************************)
Repeat(b) == IF b.form = "every" THEN Seconds(b) ELSE 0
FirstFire(b, t) == IF b.form = "at" THEN Saturated(b.n) ELSE t + Seconds(b)
TimeOK(b, t) ==
    \/ b.form \in {"in", "every"} /\ DurationOK(b)
    \/ b.form = "at" /\ Saturated(b.n) <= MaxEpoch /\ t <= Saturated(b.n)

(***************************************************************************)
(* The message and what may stand behind it: an `until` only with a        *)
(* recurring timer and a quoted message, then at most receipt=1.  Behind   *)
(* an unquoted message everything is message.                              *)
(***************************************************************************)
TextOK(b) ==
    IF b.quoted THEN /\ b.until # 0 => Repeat(b) > 0 /\ b.until <= MaxEpoch
                     /\ b.tail # "garbage"
    ELSE b.text # ""

UntilOf(b) == IF b.quoted THEN b.until ELSE 0

UntilOK(b, t) == Repeat(b) > 0 /\ UntilOf(b) > 0 => UntilOf(b) >= FirstFire(b, t)

(***************************************************************************)
(* parse_schedule at time t: whether the body is accepted, and as what.    *)
(***************************************************************************)
Accepts(b, t) == TimeOK(b, t) /\ TextOK(b) /\ UntilOK(b, t)

Parsed(b, t) == [fire |-> FirstFire(b, t), repeat |-> Repeat(b),
                 until |-> UntilOf(b),
                 receipt |-> "receipt=1" = IF b.quoted THEN b.tail ELSE b.text]

=============================================================================
