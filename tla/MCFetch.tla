------------------------------ MODULE MCFetch ------------------------------
(***************************************************************************)
(* A small instance of Fetch for TLC: all fetches are of one host.         *)
(***************************************************************************)
EXTENDS Fetch

MCHostOf == [f \in Fetches |-> CHOOSE h \in Hosts : TRUE]
=============================================================================
