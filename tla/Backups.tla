------------------------------ MODULE Backups -------------------------------
(***************************************************************************)
(* Backups of the database (modules/backups/backups.module.ts) and the     *)
(* daily one of the scheduler: the rows of the table, the dump files, and  *)
(* the jobs that write, prune, remove and restore them.                    *)
(*                                                                         *)
(* Backups are numbered in the order of their rows' createdAt.  Each await *)
(* is a step.  The table of backups is part of what is dumped: pg_dump     *)
(* sees the rows of the moment it begins, its own as 'running'.            *)
(* pg_restore is taken to load a whole dump or nothing.                    *)
(***************************************************************************)
EXTENDS Integers, FiniteSets

CONSTANTS
    BackupMax,    \* bound: backups in all
    ActiveMax,    \* bound: backups being made at one time
    Keeps,        \* values of backup.keepCount, unchecked; 0 also for what is not a number
    RequestMax,   \* bound: removals, restores and changes of the setting
    FaultMax      \* bound: crashes, and failures of the database

ASSUME BackupsAssumption == BackupMax \in Nat /\ ActiveMax \in Nat /\ Keeps \subseteq Int /\ RequestMax \in Nat /\ FaultMax \in Nat

VARIABLES
    keep,         \* backup.keepCount; the seed's is positive
    made,         \* the backups made so far are 1..made
    auto,         \* those of them that the scheduler made
    row,          \* row[b]: the status in its row, or "none"
    file,         \* file[b]: its dump
    dumped,       \* dumped[b]: the rows in its dump
    job,          \* job[b]: where its create() is
    doomed,       \* doomed[b]: what the prune of its create() has left to delete
    removal,      \* DELETE /backups/:id at work, <<backup, step>>
    restoring,    \* the backup that is being restored, or 0
    asked, faults,
    excused       \* history: how the last good dump may have been lost

backupVars == <<keep, made, auto, row, file, dumped, job, doomed, removal, restoring, asked, faults, excused>>

Ids     == 1..BackupMax
Rows    == {b \in Ids : row[b] # "none"}
Active  == {b \in Ids : job[b] # "none"}
NoRows  == [b \in Ids |-> "none"]
NoRemoval == <<0, "none">>

BackupInit ==
    /\ keep \in Keeps /\ keep > 0
    /\ made = 0 /\ auto = {}
    /\ row = NoRows
    /\ file = [b \in Ids |-> "none"]
    /\ dumped = [b \in Ids |-> NoRows]
    /\ job = [b \in Ids |-> "none"]
    /\ doomed = [b \in Ids |-> {}]
    /\ removal = NoRemoval
    /\ restoring = 0
    /\ asked = 0 /\ faults = 0
    /\ excused = FALSE

Goes(b, step) == job' = [job EXCEPT ![b] = step]
At(b, step)   == job[b] = step
Asks == asked < RequestMax /\ asked' = asked + 1
Unlinked(b)   == file' = [file EXCEPT ![b] = "none"] /\ dumped' = [dumped EXCEPT ![b] = NoRows]
Excuse(why)   == excused' = (excused \/ why)

----------------------------------------------------------------------------
(* create(), of POST /backups and of the scheduler's dailyBackup().        *)

\* Two dumps of the scheduler are a day apart, and a dump is given ten minutes.
Create ==
    LET b == made + 1
    IN  /\ made < BackupMax /\ Cardinality(Active) < ActiveMax
        /\ made' = b
        /\ \/ UNCHANGED auto
           \/ auto \cap Active = {} /\ auto' = auto \cup {b}
        /\ row' = [row EXCEPT ![b] = "running"]
        /\ Goes(b, "dump")
        /\ Excuse(Active # {})
        /\ UNCHANGED <<keep, file, dumped, doomed, removal, restoring, asked, faults>>

DumpBegins(b) ==
    /\ At(b, "dump")
    /\ file' = [file EXCEPT ![b] = "partial"]
    /\ dumped' = [dumped EXCEPT ![b] = row]
    /\ Goes(b, "dumping")
    /\ UNCHANGED <<keep, made, auto, row, doomed, removal, restoring, asked, faults, excused>>

\* A file that was unlinked meanwhile is written to its end, and gone.
DumpEnds(b) ==
    /\ At(b, "dumping")
    /\ file' = [file EXCEPT ![b] = IF file[b] = "partial" THEN "complete" ELSE file[b]]
    /\ Goes(b, "stat")
    /\ UNCHANGED <<keep, made, auto, row, dumped, doomed, removal, restoring, asked, faults, excused>>

\* Mutant of DumpFails: the failure is not seen.
DumpFailsUnseen(b) ==
    /\ At(b, "dumping")
    /\ Goes(b, "stat")
    /\ UNCHANGED <<keep, made, auto, row, file, dumped, doomed, removal, restoring, asked, faults, excused>>

\* pg_dump fails, or runs into its timeout, and leaves what it has written, which no
\* restore can use.
DumpFails(b) ==
    /\ At(b, "dumping")
    /\ Goes(b, "fail")
    /\ dumped' = [dumped EXCEPT ![b] = NoRows]
    /\ UNCHANGED <<keep, made, auto, row, file, doomed, removal, restoring, asked, faults, excused>>

Stat(b) ==
    /\ At(b, "stat")
    /\ Goes(b, IF file[b] = "none" THEN "fail" ELSE "save")
    /\ UNCHANGED <<keep, made, auto, row, file, dumped, doomed, removal, restoring, asked, faults, excused>>

\* save() adds the row again where it was removed or restored away.
SaveDone(b) ==
    /\ At(b, "save")
    /\ row' = [row EXCEPT ![b] = "done"]
    /\ Goes(b, "prune")
    /\ UNCHANGED <<keep, made, auto, file, dumped, doomed, removal, restoring, asked, faults, excused>>

\* save() fails: the good dump is taken for a failed one, or a failure is not recorded.
SaveFails(b) ==
    /\ job[b] \in {"save", "fail"}
    /\ faults < FaultMax /\ faults' = faults + 1
    /\ Goes(b, IF job[b] = "save" THEN "fail" ELSE "none")
    /\ UNCHANGED <<keep, made, auto, row, file, dumped, doomed, removal, restoring, asked, excused>>

Older(b) == {c \in Rows : c < b}
Newer(b) == {c \in Rows : c > b}

\* Mutant of Surplus: the newest are deleted, not the oldest.
SurplusNewest == {b \in Rows : Cardinality(Older(b)) >= keep}

\* All but the newest, whatever their status; slice() takes a negative number from the end,
\* so that many of the oldest.
Surplus ==
    IF keep >= 0 THEN {b \in Rows : Cardinality(Newer(b)) >= keep}
                 ELSE {b \in Rows : Cardinality(Older(b)) < -keep}

Prune(b) ==
    /\ At(b, "prune")
    /\ doomed' = [doomed EXCEPT ![b] = Surplus]
    /\ Goes(b, IF Surplus = {} THEN "none" ELSE "unlink")
    /\ UNCHANGED <<keep, made, auto, row, file, dumped, removal, restoring, asked, faults, excused>>

Newest(b, S) == b \in S /\ \A c \in S : c <= b

PruneUnlink(b) ==
    /\ At(b, "unlink")
    /\ \E old \in doomed[b] : Newest(old, doomed[b]) /\ Unlinked(old)
    /\ Goes(b, "remove")
    /\ UNCHANGED <<keep, made, auto, row, doomed, removal, restoring, asked, faults, excused>>

PruneRemove(b) ==
    /\ At(b, "remove")
    /\ \E old \in doomed[b] :
          /\ Newest(old, doomed[b])
          /\ row' = [row EXCEPT ![old] = "none"]
          /\ doomed' = [doomed EXCEPT ![b] = doomed[b] \ {old}]
          /\ Goes(b, IF doomed[b] = {old} THEN "none" ELSE "unlink")
    /\ UNCHANGED <<keep, made, auto, file, dumped, removal, restoring, asked, faults, excused>>

\* A query of the prune fails: the good dump is taken for a failed one.
PruneFails(b) ==
    /\ job[b] \in {"prune", "remove"}
    /\ faults < FaultMax /\ faults' = faults + 1
    /\ doomed' = [doomed EXCEPT ![b] = {}]
    /\ Goes(b, "fail")
    /\ Excuse(TRUE)
    /\ UNCHANGED <<keep, made, auto, row, file, dumped, removal, restoring, asked>>

\* The catch; the alert it raises is taken by AlertDispatcherService.
SaveFailed(b) ==
    /\ At(b, "fail")
    /\ row' = [row EXCEPT ![b] = "failed"]
    /\ Goes(b, "none")
    /\ UNCHANGED <<keep, made, auto, file, dumped, doomed, removal, restoring, asked, faults, excused>>

----------------------------------------------------------------------------
(* The other endpoints.                                                    *)

\* DELETE /backups/:id has found the row.
Remove(b) ==
    /\ removal = NoRemoval /\ b \in Rows
    /\ removal' = <<b, "unlink">>
    /\ Asks /\ Excuse(TRUE)
    /\ UNCHANGED <<keep, made, auto, row, file, dumped, job, doomed, restoring, faults>>

RemoveUnlink ==
    /\ removal[2] = "unlink"
    /\ Unlinked(removal[1])
    /\ removal' = <<removal[1], "row">>
    /\ UNCHANGED <<keep, made, auto, row, job, doomed, restoring, asked, faults, excused>>

RemoveRow ==
    /\ removal[2] = "row"
    /\ row' = [row EXCEPT ![removal[1]] = "none"]
    /\ removal' = NoRemoval
    /\ UNCHANGED <<keep, made, auto, file, dumped, job, doomed, restoring, asked, faults, excused>>

\* POST /backups/:id/restore
Restore(b) ==
    /\ restoring = 0 /\ row[b] = "done"
    /\ restoring' = b
    /\ Asks /\ Excuse(TRUE)
    /\ UNCHANGED <<keep, made, auto, row, file, dumped, job, doomed, removal, faults>>

\* pg_restore; a file that is not there, or not a whole archive, is refused.
PgRestore ==
    /\ restoring # 0
    /\ row' = IF file[restoring] = "complete" THEN dumped[restoring] ELSE row
    /\ restoring' = 0
    /\ UNCHANGED <<keep, made, auto, file, dumped, job, doomed, removal, asked, faults, excused>>

\* PUT /settings
SetKeep ==
    /\ keep' \in Keeps \ {keep}
    /\ Asks /\ Excuse(keep' <= 0)
    /\ UNCHANGED <<made, auto, row, file, dumped, job, doomed, removal, restoring, faults>>

\* The API dies, or the scheduler; a pg_dump it has started may go on to its end.
Crash ==
    /\ faults < FaultMax /\ faults' = faults + 1
    /\ \E lost \in {auto, Ids \ auto} :
          /\ job' = [b \in Ids |-> IF b \in lost THEN "none" ELSE job[b]]
          /\ doomed' = [b \in Ids |-> IF b \in lost THEN {} ELSE doomed[b]]
          /\ IF lost = auto THEN UNCHANGED <<removal, restoring>>
                            ELSE removal' = NoRemoval /\ restoring' = 0
          /\ \E through \in SUBSET {b \in lost : job[b] = "dumping" /\ file[b] = "partial"} :
                file' = [b \in Ids |-> IF b \in through THEN "complete" ELSE file[b]]
    /\ UNCHANGED <<keep, made, auto, row, dumped, asked, excused>>

BackupStep(b) ==
    \/ DumpBegins(b) \/ DumpEnds(b) \/ DumpFails(b) \/ Stat(b) \/ SaveDone(b) \/ SaveFails(b)
    \/ Prune(b) \/ PruneUnlink(b) \/ PruneRemove(b) \/ PruneFails(b) \/ SaveFailed(b)
    \/ Remove(b) \/ Restore(b)

BackupNext ==
    \/ Create \/ RemoveUnlink \/ RemoveRow \/ PgRestore \/ SetKeep \/ Crash
    \/ \E b \in Ids : BackupStep(b)

BackupSpec == BackupInit /\ [][BackupNext]_backupVars

----------------------------------------------------------------------------
(* Properties.                                                             *)

Statuses == {"none", "running", "done", "failed"}

BackupsTypeOK ==
    /\ keep \in Keeps /\ made \in 0..BackupMax /\ auto \subseteq Ids
    /\ row \in [Ids -> Statuses]
    /\ file \in [Ids -> {"none", "partial", "complete"}]
    /\ dumped \in [Ids -> [Ids -> Statuses]]
    /\ job \in [Ids -> {"none", "dump", "dumping", "stat", "save", "prune", "unlink", "remove",
                        "fail"}]
    /\ doomed \in [Ids -> SUBSET Ids]
    /\ removal \in (Ids \X {"unlink", "row"}) \cup {NoRemoval}
    /\ restoring \in Ids \cup {0}
    /\ asked \in 0..RequestMax /\ faults \in 0..FaultMax
    /\ excused \in BOOLEAN

\* What is offered for restoring is a whole dump or has no file any more: no overlap, crash,
\* removal under way, or restore (which brings old rows back) makes a part of a dump good.
DoneIsComplete == \A b \in Ids : row[b] = "done" => file[b] \in {"complete", "none"}

GoodDumps == {b \in Ids : row[b] = "done" /\ file[b] = "complete"}

\* Pruning never takes the last good dump: once one is there, one stays, though failed and
\* running backups count as much as good ones.  Out of this are a keepCount of 0 or
\* less, dumps that overlap, a query of the prune that fails, and what a user removes or restores.
LastGoodKept == [][GoodDumps # {} /\ ~excused' => GoodDumps' # {}]_backupVars
=============================================================================
