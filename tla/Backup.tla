------------------------------- MODULE Backup -------------------------------
(***************************************************************************)
(* Backups of the data file (exo_backup_now, src/src/http.c): a thread     *)
(* copies the file piece by piece, without the lock of the store, while    *)
(* others write to it, compact it or, on a follower, empty it.             *)
(*                                                                         *)
(* Changes of the store are numbered; a record is written as pieces        *)
(* [change, key, part, of], as many as it takes in the file.               *)
(***************************************************************************)
EXTENDS Integers, Sequences, SequencesExt, FiniteSetsExt

CONSTANTS
    Keys,
    Threads,     \* threads that make backups
    Keep,        \* copies the directory keeps, 24
    MaxChanges, MaxBackups, MaxFiles  \* bounds

VARIABLES
    files,       \* the data files: a compaction makes a new one, the last
    size,        \* how much of it is the log; what is behind is garbage
    past,        \* history: what the store held after each change
    th,          \* the state of each thread
    dir,         \* the backup directory, in the order of the last writes
    made         \* backups begun

vars == <<files, size, past, th, dir, made>>

Pieces(w, k, n) == [i \in 1..n |-> [change |-> w, key |-> k, part |-> i, of |-> n]]
Empty == [k \in Keys |-> 0]
Idle == [at |-> "idle", file |-> 0, pos |-> 0, from |-> 0, sound |-> TRUE]

(* a backup of a time before these *)
Earlier == [by |-> "nobody", data |-> <<>>, sound |-> TRUE, of |-> {Empty}]

Init ==
    /\ files = <<<<>>>> /\ size = 0 /\ past = <<Empty>>
    /\ th = [t \in Threads |-> Idle]
    /\ dir = [i \in 1..Keep |-> Earlier] /\ made = 0

-----------------------------------------------------------------------------
(* store_load: the records up to the first that is not whole *)

Whole(f, i) ==
    /\ f[i].part = 1 /\ i + f[i].of - 1 <= Len(f)
    /\ \A j \in 1..f[i].of : f[i + j - 1] = [f[i] EXCEPT !.part = j]

GoodEnd(f) ==
    LET end[i \in 1..(Len(f) + 1)] ==
            IF i <= Len(f) /\ Whole(f, i) THEN end[i + f[i].of] ELSE i - 1
    IN  end[1]

LastOf(f, k) == {i \in 1..GoodEnd(f) : f[i].key = k}
Loaded(f) ==
    [k \in Keys |-> IF LastOf(f, k) = {} THEN 0 ELSE f[Max(LastOf(f, k))].change]

-----------------------------------------------------------------------------
(* The store, as far as its file goes *)

Now == past[Len(past)]
Log == SubSeq(Last(files), 1, size)

(***************************************************************************)
(* An append writes header, key and value one after the other: one that is *)
(* under way, or has failed, leaves a part behind the end of the log.      *)
(***************************************************************************)
PutAt(f, new) == SubSeq(f, 1, size) \o new \o SubSeq(f, size + Len(new) + 1, Len(f))

Write(k, n, written) ==
    /\ Len(past) <= MaxChanges
    /\ files' = [files EXCEPT ![Len(files)] =
                   PutAt(@, SubSeq(Pieces(Len(past), k, n), 1, written))]
    /\ IF written = n
       THEN /\ size' = size + n
            /\ past' = Append(past, [Now EXCEPT ![k] = Len(past)])
       ELSE UNCHANGED <<size, past>>
    /\ UNCHANGED <<th, dir, made>>

(* compact: the live records, in a new file that is renamed over the old *)
Compact ==
    /\ Len(files) < MaxFiles
    /\ files' = Append(files, SelectSeq(Log, LAMBDA p : p.change = Now[p.key]))
    /\ size' = Len(Last(files'))
    /\ UNCHANGED <<past, th, dir, made>>

(* store_reset, of a follower that starts again, empties the file in place *)
Reset ==
    /\ size > 0 /\ Len(past) <= MaxChanges
    /\ files' = [files EXCEPT ![Len(files)] = <<>>]
    /\ size' = 0
    /\ past' = Append(past, Empty)
    /\ th' = [t \in Threads |-> [th[t] EXCEPT !.sound = th[t].at = "idle"]]
    /\ UNCHANGED <<dir, made>>

-----------------------------------------------------------------------------
(* exo_backup_now *)

Source(t) == files[th[t].file]
Mine(t) == {i \in DOMAIN dir : dir[i].by = t}  \* {} when others have deleted it

Begin(t) ==
    /\ th[t].at = "idle" /\ made < MaxBackups
    /\ made' = made + 1
    /\ th' = [th EXCEPT ![t] = [Idle EXCEPT !.at = "copy", !.file = Len(files),
                                            !.from = Len(past)]]
    /\ dir' = Append(dir, [by |-> t, data |-> <<>>, sound |-> FALSE, of |-> {}])
    /\ UNCHANGED <<files, size, past>>

(* fread and fwrite: what does not fit on the disk is left out *)
Copy(t, fits) ==
    /\ th[t].at = "copy" /\ th[t].pos < Len(Source(t))
    /\ th' = [th EXCEPT ![t].pos = @ + 1, ![t].sound = @ /\ fits]
    /\ dir' = IF ~fits \/ Mine(t) = {} THEN dir
              ELSE LET i == Min(Mine(t))
                   IN  Append(RemoveAt(dir, i),
                              [dir[i] EXCEPT !.data = Append(@, Source(t)[th[t].pos + 1])])
    /\ UNCHANGED <<files, size, past, made>>

(* the end of the file; then all but the newest copies are deleted *)
Pruned(d) == SubSeq(d, Max({0, Len(d) - Keep}) + 1, Len(d))

End(t) ==
    /\ th[t].at = "copy" /\ th[t].pos >= Len(Source(t))
    /\ dir' = Pruned([i \in DOMAIN dir |->
                IF i \notin Mine(t) THEN dir[i]
                ELSE [by |-> "nobody", data |-> dir[i].data, sound |-> th[t].sound,
                      of |-> {past[j] : j \in th[t].from..Len(past)}]])
    /\ th' = [th EXCEPT ![t] = Idle]
    /\ UNCHANGED <<files, size, past, made>>

Next ==
    \/ \E k \in Keys : \E n \in 1..2 : \E written \in 1..n : Write(k, n, written)
    \/ Compact \/ Reset
    \/ \E t \in Threads :
        Begin(t) \/ (\E fits \in BOOLEAN : Copy(t, fits)) \/ End(t)

Spec == Init /\ [][Next]_vars

-----------------------------------------------------------------------------
(***************************************************************************)
(* Backups are copies "of the main memory file" (src/README.md:438-440): a *)
(* backup that was answered loads as something the store held between the  *)
(* request and the answer, whatever was written, torn or compacted         *)
(* meanwhile, unless the disk was full or the store was emptied.           *)
(***************************************************************************)
BackupIsState ==
    \A i \in DOMAIN dir : dir[i].sound => Loaded(dir[i].data) \in dir[i].of
=============================================================================
