------------------------------ MODULE MCStore ------------------------------
(***************************************************************************)
(* Small instances of Store for TLC.                                       *)
(***************************************************************************)
EXTENDS StoreImplements

MCTTLs == {0, 1}

(***************************************************************************)
(* The calls whose failure the code tolerates.                             *)
(***************************************************************************)
MCTolerated == {"set", "import", "compact_open"}
=============================================================================
