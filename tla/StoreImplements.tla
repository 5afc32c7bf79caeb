--------------------------- MODULE StoreImplements --------------------------
(***************************************************************************)
(* Store implements DurableMap: the versions of the map are the meanings   *)
(* of the prefixes of the log from the synced one on.                      *)
(***************************************************************************)
EXTENDS Store

Records == IF file # <<>> /\ file[Len(file)] = Torn THEN Len(file) - 1
           ELSE Len(file)

Versions ==
    [i \in 1..(Records - synced + 1) |-> View(file, synced + i - 1, now)]

Map == INSTANCE DurableMap WITH versions <- Versions

(***************************************************************************)
(* Every step of the store (its sets, deletes, imports, loads, the turns   *)
(* of a compaction, crashes at any of these) is a step of the map that     *)
(* src/README.md promises, or no step of it at all.  This is Map!Spec; no  *)
(* step is what most steps of the store are, and TLC decides it first.     *)
(***************************************************************************)
ImplementsDurableMap ==
    Map!Init /\ [][UNCHANGED Map!vars \/ Map!Next]_(Map!vars)
=============================================================================
