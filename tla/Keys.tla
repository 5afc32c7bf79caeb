-------------------------------- MODULE Keys --------------------------------
(***************************************************************************)
(* The keys file: `keys add` and `keys remove` (src/common/exo.c) are run  *)
(* as processes of their own, several at a time when several people do so, *)
(* with no lock between them.                                              *)
(*                                                                         *)
(* A line is the name of a key, its rights left out, or a comment.  A file *)
(* is what an open descriptor refers to; `path` and `temp` say which file  *)
(* the names <keys> and <keys>.tmp refer to.                               *)
(***************************************************************************)
EXTENDS Integers, Sequences, SequencesExt, FiniteSets

CONSTANTS
    Names,
    Procs,      \* runs of the command
    NoFile

VARIABLES
    lines,      \* what is in each file
    path, temp,
    run,        \* the state of each run
    granted,    \* history: the keys the answers so far have left
    doubtful    \* history: a removal overlapped another run, or the disk was full

vars == <<lines, path, temp, run, granted, doubtful>>

Comment == "#"
Files == {"keys"} \cup Procs  \* a removal creates one
Fresh == [at |-> "off", name |-> Comment, copy |-> <<>>, out |-> NoFile]

Init ==
    /\ lines = [f \in Files |-> IF f = "keys" THEN <<Comment>> ELSE <<>>]
    /\ path = "keys" /\ temp = NoFile
    /\ run = [p \in Procs |-> Fresh]
    /\ granted = {} /\ doubtful = FALSE

Active == {p \in Procs : run[p].at \notin {"off", "done"}}
Removes(p) == run[p].at \in {"open", "read", "close", "rename"}
HasLine(f, n) == \E i \in DOMAIN lines[f] : lines[f][i] = n

Begin(p, n, at) ==
    /\ run[p].at = "off"
    /\ run' = [run EXCEPT ![p].at = at, ![p].name = n]
    /\ doubtful' = (doubtful \/ \E q \in Active : Removes(q) \/ at = "open")
    /\ UNCHANGED <<lines, path, temp, granted>>

Said(p, keys) ==
    /\ run' = [run EXCEPT ![p].at = "done"]
    /\ granted' = keys

-----------------------------------------------------------------------------
(* exo_keys_add: look for the name, then append; nobody sees a full disk *)

AddCheck(p) ==
    /\ run[p].at = "check"
    /\ IF HasLine(path, run[p].name) THEN Said(p, granted)  \* already present
       ELSE /\ run' = [run EXCEPT ![p].at = "append", ![p].out = path]
            /\ UNCHANGED granted
    /\ UNCHANGED <<lines, path, temp, doubtful>>

AddAppend(p, full) ==
    /\ run[p].at = "append"
    /\ lines' = IF full THEN lines
                ELSE [lines EXCEPT ![run[p].out] = Append(@, run[p].name)]
    /\ Said(p, granted \cup {run[p].name})
    /\ doubtful' = (doubtful \/ full)
    /\ UNCHANGED <<path, temp>>

-----------------------------------------------------------------------------
(***************************************************************************)
(* exo_keys_remove: every run writes to the same <keys>.tmp, which it      *)
(* empties, and renames it; what does not fit on the disk is missing.      *)
(***************************************************************************)
RemoveOpen(p) ==
    /\ run[p].at = "open"
    /\ temp' = IF temp = NoFile THEN p ELSE temp
    /\ lines' = [lines EXCEPT ![temp'] = <<>>]
    /\ run' = [run EXCEPT ![p].at = "read", ![p].out = temp']
    /\ UNCHANGED <<path, granted, doubtful>>

RemoveRead(p) ==
    /\ run[p].at = "read"
    /\ run' = [run EXCEPT
        ![p].at = "close",
        ![p].copy = SelectSeq(lines[path], LAMBDA l : l # run[p].name)]
    /\ UNCHANGED <<lines, path, temp, granted, doubtful>>

(* fclose writes from the beginning of the file *)
Over(old, new) == new \o SubSeq(old, Len(new) + 1, Len(old))

RemoveClose(p, n) ==
    /\ run[p].at = "close" /\ n \in 0..Len(run[p].copy)
    /\ lines' = [lines EXCEPT ![run[p].out] = Over(@, SubSeq(run[p].copy, 1, n))]
    /\ run' = [run EXCEPT ![p].at = "rename"]
    /\ doubtful' = (doubtful \/ n < Len(run[p].copy))
    /\ UNCHANGED <<path, temp, granted>>

(* a name that was not there leaves the file as it was *)
RemoveRename(p) ==
    /\ run[p].at = "rename"
    /\ temp' = NoFile
    /\ path' = IF HasLine(path, run[p].name) /\ temp # NoFile THEN temp ELSE path
    /\ Said(p, granted \ {run[p].name})
    /\ UNCHANGED <<lines, doubtful>>

Next ==
    \E p \in Procs :
        \/ \E n \in Names : \E at \in {"check", "open"} : Begin(p, n, at)
        \/ AddCheck(p) \/ (\E full \in BOOLEAN : AddAppend(p, full))
        \/ RemoveOpen(p) \/ RemoveRead(p)
        \/ (\E n \in 0..(Cardinality(Procs) + 1) : RemoveClose(p, n))
        \/ RemoveRename(p)

Spec == Init /\ [][Next]_vars

-----------------------------------------------------------------------------
(***************************************************************************)
(* "ok key added", "ok key removed" (src/src/main.c:559,568): when all     *)
(* runs have ended the file has the keys they said, and its comments, as   *)
(* long as no removal overlapped with another run and the disk had room;   *)
(* additions may overlap.                                                  *)
(***************************************************************************)
KeysAsSaid ==
    Active = {} /\ ~doubtful =>
        ToSet(lines[path]) = granted \cup {Comment}
=============================================================================
