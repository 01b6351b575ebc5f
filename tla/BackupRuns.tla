------------------------------ MODULE BackupRuns ------------------------------
(***************************************************************************)
(* Recovery bundles: app/ops/backup.py writes a copy of both databases, of *)
(* the evidence and of the reports into a staging directory, restores and  *)
(* checks it, publishes it by a rename, records it in backup_runs, and     *)
(* only then deletes older bundles.  One process at a time may do so: a    *)
(* kernel lock on a guard file, and below it an owner file that survives   *)
(* its process.  A bridge is the run a deployment starts with the code of  *)
(* the candidate release: it leaves the live operations database alone.    *)
(*                                                                         *)
(* A bundle is a number, given when its capture starts; a greater number   *)
(* is a later capture.  What is in the copies is module FormalMutation's   *)
(* affair: here a capture passes its restore drill or it does not.         *)
(***************************************************************************)
EXTENDS Naturals, Sequences, FiniteSets

CONSTANTS
    Backups,      \* processes that may run create_and_verify
    None,         \* no process, no bundle, no row
    Retention,    \* --retention: complete bundles to keep
    StaleAfter,   \* age of an owner file that may be reclaimed, in ticks
    MaxBundles,   \* bound on captures
    MaxFaults     \* bound on crashes and failing steps

ASSUME BackupConstants ==
    /\ None \notin Backups /\ None \notin Nat
    /\ {Retention, StaleAfter, MaxBundles, MaxFaults} \subseteq Nat

VARIABLES
    guard,     \* who holds the kernel lock on the guard file
    owner,     \* the owner file: whose token it has, how old it is, and
               \* whether the process number in it is another process's now
    run,       \* each process: where it is, and with what
    rows,      \* backup_runs, oldest first
    disk,      \* the bundles with a manifest in the backup directory
    torn,      \* those of them whose deletion was broken off
    staging,   \* the .partial directories
    captures,  \* captures so far
    faults     \* faults so far

vars == <<guard, owner, run, rows, disk, torn, staging, captures, faults>>

Bundles == 1 .. MaxBundles
MaxRows == MaxBundles + MaxFaults   \* a run without a capture has failed
NoFile == [by |-> None, age |-> 0, taken |-> FALSE]
Idle == [pc |-> "idle", bridge |-> FALSE, bundle |-> None, row |-> None]

\* The steps of create_and_verify, all of them inside both locks.
Inside == {"locked", "capturing", "drilling", "published", "recorded",
           "pruning", "weekly", "failed", "failing", "leaving"}

TypeOK ==
    /\ guard \in Backups \cup {None}
    /\ owner \in [by: Backups \cup {None}, age: 0 .. StaleAfter, taken: BOOLEAN]
    /\ run \in [Backups ->
                  [pc: Inside \cup {"idle", "guarded", "reclaiming"},
                   bridge: BOOLEAN, bundle: Bundles \cup {None},
                   row: (1 .. MaxRows) \cup {None}]]
    /\ rows \in Seq([status: {"RUNNING", "VERIFIED", "FAILED"},
                    bundle: Bundles \cup {None}])
    /\ torn \subseteq disk /\ disk \subseteq Bundles
    /\ staging \subseteq Bundles
    /\ captures \in 0 .. MaxBundles
    /\ faults \in 0 .. MaxFaults

Init ==
    /\ guard = None /\ owner = NoFile
    /\ run = [b \in Backups |-> Idle]
    /\ rows = <<>>
    /\ disk = {} /\ torn = {} /\ staging = {}
    /\ captures = 0 /\ faults = 0

Fault == faults < MaxFaults /\ faults' = faults + 1
Goto(b, pc) == run' = [run EXCEPT ![b].pc = pc]

-----------------------------------------------------------------------------
(* _backup_lock *)

\* flock without waiting: a second process raises at once and records nothing.
GuardIgnored == TRUE   \* a fault
GuardFree == guard = None

TakeGuard(b, bridge) ==
    /\ run[b].pc = "idle" /\ GuardFree
    /\ guard' = b
    /\ run' = [run EXCEPT ![b] = [Idle EXCEPT !.pc = "guarded", !.bridge = bridge]]
    /\ UNCHANGED <<owner, rows, disk, torn, staging, captures, faults>>

\* An owner file is stale when it is old and no process has its number.  Who
\* has the number of a run that is over is taken for its owner: the daemon
\* whose run it was, the next process 1 of a container, and any process that
\* got the number by chance, the one that asks included.
Alive == owner.by # None /\ (run[owner.by].pc \in Inside \/ owner.taken)
StaleIfNobody == owner.age >= StaleAfter /\ owner.by = None   \* a fault
Stale == owner.age >= StaleAfter /\ ~Alive

DropGuard(b) == guard' = IF guard = b THEN None ELSE guard

CreateOwnerFile(b) ==
    /\ run[b].pc = "guarded" /\ owner = NoFile
    /\ owner' = [NoFile EXCEPT !.by = b]
    /\ Goto(b, "locked")
    /\ UNCHANGED <<guard, rows, disk, torn, staging, captures, faults>>

\* The file exists: it is found stale, or the run ends without a record.
JudgeOwnerFile(b) ==
    /\ run[b].pc = "guarded" /\ owner # NoFile
    /\ IF Stale THEN Goto(b, "reclaiming") /\ UNCHANGED guard
                ELSE run' = [run EXCEPT ![b] = Idle] /\ DropGuard(b)
    /\ UNCHANGED <<owner, rows, disk, torn, staging, captures, faults>>

\* os.replace moves whatever file is there now out of the way, then tries
\* to create its own again.
ReclaimOwnerFile(b) ==
    /\ run[b].pc = "reclaiming"
    /\ owner' = NoFile
    /\ Goto(b, "guarded")
    /\ UNCHANGED <<guard, rows, disk, torn, staging, captures, faults>>

\* A run is over and its owner file stays.  Its number stays in use if the
\* process goes on, and comes back at once if it was process 1 of a container.
Orphan(b, taken) ==
    owner' = IF owner.by = b THEN [owner EXCEPT !.taken = taken] ELSE owner

\* The owner file goes only if it has this run's token, and an error of the
\* unlink is swallowed; the kernel lock goes.
LeaveLocks(b) ==
    /\ run[b].pc = "leaving"
    /\ \/ owner' = (IF owner.by = b THEN NoFile ELSE owner) /\ UNCHANGED faults
       \/ Fault /\ \E taken \in BOOLEAN : Orphan(b, taken)
    /\ DropGuard(b)
    /\ run' = [run EXCEPT ![b] = Idle]
    /\ UNCHANGED <<rows, disk, torn, staging, captures>>

\* A process that has the number of a run that is over ends, or one gets it.
Misjudged == owner.by # None /\ run[owner.by].pc \notin Inside /\ owner.taken

NumberChangesHands ==
    /\ \/ Misjudged /\ UNCHANGED faults
       \/ owner.by # None /\ run[owner.by].pc \notin Inside /\ ~owner.taken /\ Fault
    /\ owner' = [owner EXCEPT !.taken = ~@]
    /\ UNCHANGED <<guard, run, rows, disk, torn, staging, captures>>

-----------------------------------------------------------------------------
(* create_and_verify *)

\* reconcile_abandoned_backup_runs closes every RUNNING row in one
\* transaction; the formal reconciliation follows.  A bridge does neither.
Reconciled ==
    [i \in DOMAIN rows |-> IF rows[i].status = "RUNNING"
                             THEN [rows[i] EXCEPT !.status = "FAILED"]
                             ELSE rows[i]]

Reconcile(b) ==
    /\ run[b].pc = "locked"
    /\ rows' = IF run[b].bridge THEN rows ELSE Reconciled
    /\ Goto(b, "capturing")
    /\ UNCHANGED <<guard, owner, disk, torn, staging, captures, faults>>

\* A staging directory of its own name, both copies behind the write barrier.
Capture(b) ==
    /\ run[b].pc = "capturing" /\ captures < MaxBundles
    /\ captures' = captures + 1
    /\ staging' = staging \cup {captures + 1}
    /\ run' = [run EXCEPT ![b].pc = "drilling", ![b].bundle = captures + 1]
    /\ UNCHANGED <<guard, owner, rows, disk, torn, faults>>

\* Bound: without a number left the run ends before it captures anything.
NoCaptureLeft(b) ==
    /\ run[b].pc = "capturing" /\ captures = MaxBundles
    /\ Goto(b, "leaving")
    /\ UNCHANGED <<guard, owner, rows, disk, torn, staging, captures, faults>>

\* The manifest and the isolated restore are fine: the rename publishes.
Publish(b) ==
    /\ run[b].pc = "drilling"
    /\ staging' = staging \ {run[b].bundle}
    /\ disk' = disk \cup {run[b].bundle}
    /\ Goto(b, IF run[b].bridge THEN "pruning" ELSE "published")
    /\ UNCHANGED <<guard, owner, rows, torn, captures, faults>>

CreateRow(b) == rows' = Append(rows, [status |-> "RUNNING", bundle |-> run[b].bundle])

\* create_backup_run, only after the drill.
CreateBackupRun(b) ==
    /\ run[b].pc = "published"
    /\ CreateRow(b)
    /\ run' = [run EXCEPT ![b].pc = "recorded", ![b].row = Len(rows) + 1]
    /\ UNCHANGED <<guard, owner, disk, torn, staging, captures, faults>>

\* finish_backup_run asks nothing of the row it sets to VERIFIED.
FinishBackupRun(b) ==
    /\ run[b].pc = "recorded"
    /\ rows' = [rows EXCEPT ![run[b].row].status = "VERIFIED"]
    /\ Goto(b, "pruning")
    /\ UNCHANGED <<guard, owner, disk, torn, staging, captures, faults>>

\* prune_backups: the bundle just proved good comes first, then the newest
\* by file time - which is any order, for a file time may be wrong.
Keep == IF Retention = 0 THEN 1 ELSE Retention
KeptByTime(b) ==   \* a fault
    {keep \in SUBSET disk :
        Cardinality(keep) = Keep \/ (keep = disk /\ Cardinality(disk) < Keep)}
Kept(b) ==
    {keep \in SUBSET disk :
        /\ run[b].bundle \in keep
        /\ Cardinality(keep) = Keep \/ (keep = disk /\ Cardinality(disk) < Keep)}

Prune(b) ==
    /\ run[b].pc = "pruning"
    /\ \E keep \in Kept(b) : disk' = keep /\ torn' = torn \cap keep
    /\ Goto(b, "weekly")
    /\ UNCHANGED <<guard, owner, rows, staging, captures, faults>>

\* Bundles go one after the other, each file by file: a deletion that raises
\* leaves one that still has its manifest but not all of its files.
PruneBreaksOff(b) ==
    /\ run[b].pc = "pruning"
    /\ Fault
    /\ \E keep \in Kept(b) : \E gone \in SUBSET (disk \ keep) :
          \E broken \in (disk \ keep) \ gone :
             /\ disk' = disk \ gone
             /\ torn' = (torn \ gone) \cup {broken}
    /\ Goto(b, "failed")
    /\ UNCHANGED <<guard, owner, rows, staging, captures>>

\* create_weekly_snapshot, the last thing that can fail.
WeeklySnapshot(b) ==
    /\ run[b].pc = "weekly"
    /\ Goto(b, "leaving")
    /\ UNCHANGED <<guard, owner, rows, disk, torn, staging, captures, faults>>

\* Whatever raises, the drill that fails among it, ends in one handler.
StepFails(b) ==
    /\ run[b].pc \in {"locked", "capturing", "drilling", "published", "recorded",
                      "pruning", "weekly"}
    /\ Fault
    /\ Goto(b, "failed")
    /\ UNCHANGED <<guard, owner, rows, disk, torn, staging, captures>>

\* The handler: a run that has no row yet gets one, a bridge never does.
\* create_backup_run may raise in turn, and is then left out.
NeedsRow(b) == ~run[b].bridge /\ run[b].row = None

RecordFailure(b) ==
    /\ run[b].pc = "failed"
    /\ \/ /\ NeedsRow(b)
          /\ CreateRow(b)
          /\ run' = [run EXCEPT ![b].pc = "failing", ![b].row = Len(rows) + 1]
          /\ UNCHANGED faults
       \/ /\ ~NeedsRow(b)
          /\ Goto(b, "failing") /\ UNCHANGED <<rows, faults>>
       \/ /\ NeedsRow(b) /\ Fault
          /\ Goto(b, "failing") /\ UNCHANGED rows
    /\ UNCHANGED <<guard, owner, disk, torn, staging, captures>>

\* fail_backup_run, of whatever the row is by now, then the staging directory
\* is removed.  An error of the update is swallowed.
FailBackupRun(b) ==
    /\ run[b].pc = "failing"
    /\ \/ /\ rows' = IF run[b].row = None THEN rows
                    ELSE [rows EXCEPT ![run[b].row].status = "FAILED"]
          /\ UNCHANGED faults
       \/ Fault /\ UNCHANGED rows
    /\ staging' = staging \ {run[b].bundle}
    /\ Goto(b, "leaving")
    /\ UNCHANGED <<guard, owner, disk, torn, captures>>

\* The process dies: the kernel lock goes with it, the owner file, the
\* staging directory and the row stay.
Crash(b) ==
    /\ run[b].pc # "idle"
    /\ Fault
    /\ run' = [run EXCEPT ![b] = Idle]
    /\ DropGuard(b)
    /\ \E taken \in BOOLEAN : Orphan(b, taken)
    /\ UNCHANGED <<rows, disk, torn, staging, captures>>

Tick ==
    /\ owner # NoFile /\ owner.age < StaleAfter
    /\ owner' = [owner EXCEPT !.age = @ + 1]
    /\ UNCHANGED <<guard, run, rows, disk, torn, staging, captures, faults>>

-----------------------------------------------------------------------------

\* What a process does next when nothing goes wrong.
Step(b) ==
    \/ CreateOwnerFile(b) \/ JudgeOwnerFile(b) \/ ReclaimOwnerFile(b)
    \/ Reconcile(b) \/ Capture(b) \/ NoCaptureLeft(b) \/ Publish(b)
    \/ CreateBackupRun(b) \/ FinishBackupRun(b) \/ Prune(b) \/ WeeklySnapshot(b)
    \/ RecordFailure(b) \/ FailBackupRun(b) \/ LeaveLocks(b)

Next ==
    \/ \E b \in Backups :
          \/ \E bridge \in BOOLEAN : TakeGuard(b, bridge)
          \/ Step(b) \/ StepFails(b) \/ PruneBreaksOff(b) \/ Crash(b)
    \/ NumberChangesHands
    \/ Tick

\* A process goes on until it dies; the daily timer starts normal backups
\* again and again, and not always while a bridge is running.
Fairness ==
    /\ WF_vars(Tick)
    /\ \A b \in Backups : WF_vars(Step(b)) /\ SF_vars(TakeGuard(b, FALSE))

Spec == Init /\ [][Next]_vars /\ Fairness

-----------------------------------------------------------------------------

\* Two processes are never between the locks at a time, although the owner
\* file outlives its process and two that find it stale both move it away.
OneBackupAtATime ==
    \A b, c \in Backups : run[b].pc \in Inside /\ run[c].pc \in Inside => b = c

Good == disk \ torn

\* Whatever fails or dies, and in whatever order file times put the bundles:
\* once a run is VERIFIED, a whole bundle at least as new as its own stays.
KnownGoodKept ==
    \A i \in DOMAIN rows :
        rows[i].status = "VERIFIED" => \E k \in Good : k >= rows[i].bundle

\* A run that was closed as FAILED, by its own process or by the next one's
\* reconciliation, never comes back as VERIFIED.
FailedIsFinal ==
    [][\A i \in DOMAIN rows :
          rows[i].status = "FAILED" => rows'[i].status = "FAILED"]_vars

\* Every run record is closed in the end, also one whose process died: a
\* later backup gets past the dead owner's file and reconciles it.  One thing
\* only prevents it: that the number in that file stays in use for ever, as
\* process 1 of a container that is started again does; then no backup begins.
RunOpen(i) == i \in DOMAIN rows /\ rows[i].status = "RUNNING"
RunsClosed ==
    \/ <>[]Misjudged
    \/ \A i \in 1 .. MaxRows : RunOpen(i) ~> ~RunOpen(i)
=============================================================================
