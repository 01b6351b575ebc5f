------------------------------ MODULE LiveCycle ------------------------------
(***************************************************************************)
(* The live collection cycle: scripts/run_live_cycle.py runs one cycle in  *)
(* a process of its own under the row 'live_cycle' of runtime_leases, and  *)
(* app/workers/continuous.py starts such a process every five minutes,     *)
(* kills it when it takes too long, and records in worker_cycles what came *)
(* of it.  An operator may start further cycles by hand: nobody times      *)
(* those out.  Both write the same report file.                            *)
(*                                                                         *)
(* Time is kept as what is left of the lease and the age of the            *)
(* supervisor's child, in ticks.  A token names one process run (uuid4 in  *)
(* the code): it is taken again only when nothing carries it any more.     *)
(***************************************************************************)
EXTENDS Naturals, FiniteSets

CONSTANTS
    Children,     \* tokens of the processes the supervisor starts
    Manual,       \* tokens of the cycles an operator starts, one run each
    None,         \* no token
    Ttl,          \* ticks a lease lasts: max(900, 2 * outer timeout) seconds
    Timeout,      \* the outer timeout: ticks after which the child is killed
    KillBy,       \* the kill has taken effect before the child is so old
    MaxFaults     \* bound on the faults of one behaviour

ASSUME TokensDistinct == /\ Children \cap Manual = {}
                         /\ None \notin Children \cup Manual
\* cycle_lease_ttl_seconds: the lease outlasts a child that is killed late.
ASSUME TimesOrdered == /\ {Ttl, Timeout, KillBy, MaxFaults} \subseteq Nat
                       /\ 0 < Timeout /\ Timeout < KillBy /\ KillBy <= Ttl

VARIABLES
    lease,     \* runtime_leases 'live_cycle': its token and the time left
    proc,      \* what each process is doing
    beating,   \* the processes whose heartbeat thread is renewing
    lost,      \* the processes whose heartbeat found another token
    report,    \* reports/live_cycle_latest.json: its writer and its stage
    sup,       \* the supervisor: what it does, for which child, with what
    age,       \* ticks since the supervisor started its child
    row,       \* the newest worker_cycles row
    faults     \* faults so far

vars == <<lease, proc, beating, lost, report, sup, age, row, faults>>

Tokens == Children \cup Manual
NoLease == [owner |-> None, left |-> 0]
NoReport == [by |-> None, stage |-> "none"]

Pcs == {"off", "used", "opening", "acquired", "collecting", "working",
        "finished", "raised", "reporting"}
Running == {"acquired", "collecting", "working", "finished", "raised"}
ExitCodes == {"none", "ok", "errors", "skipped", "signalled", "timeout"}
Statuses == {"SUCCESS", "SKIPPED", "DEGRADED", "FAILED"}

TypeOK ==
    /\ lease \in [owner: Tokens \cup {None}, left: 0 .. Ttl]
    /\ proc \in [Tokens -> Pcs]
    /\ beating \subseteq Tokens /\ lost \subseteq Tokens
    /\ report \in [by: Tokens \cup {None},
                   stage: {"none", "collecting", "working", "complete"}]
    /\ sup \in [pc: {"down", "idle", "started", "watching", "timedout",
                     "judging"},
                child: Children \cup {None}, code: ExitCodes, stop: BOOLEAN]
    /\ age \in 0 .. Ttl
    /\ row \in {"none", "RUNNING"} \cup Statuses
    /\ faults \in 0 .. MaxFaults

Init ==
    /\ lease = NoLease
    /\ proc = [t \in Tokens |-> "off"]
    /\ beating = {} /\ lost = {}
    /\ report = NoReport
    /\ sup = [pc |-> "idle", child |-> None, code |-> "none", stop |-> FALSE]
    /\ age = 0
    /\ row = "none"
    /\ faults = 0

Live(t) == proc[t] \notin {"off", "used"}
HeldEvenExpired == lease.owner # None   \* a fault
Held == lease.owner # None /\ lease.left > 0

\* The process t ends with an exit code; a supervised one is waited for.
Gone(t) == IF t \in Manual THEN "used" ELSE "off"
Exit(t, code) ==
    /\ proc' = [proc EXCEPT ![t] = Gone(t)]
    /\ beating' = beating \ {t}
    /\ lost' = lost \ {t}
    /\ IF sup.pc = "watching" /\ sup.child = t
         THEN sup' = [sup EXCEPT !.pc = "judging", !.code = code]
         ELSE sup' = sup

Fault == faults < MaxFaults /\ faults' = faults + 1

-----------------------------------------------------------------------------
(* One cycle: scripts/run_live_cycle.py *)

StartManual(t) ==
    /\ t \in Manual /\ proc[t] = "off"
    /\ proc' = [proc EXCEPT ![t] = "opening"]
    /\ UNCHANGED <<lease, beating, lost, report, sup, age, row, faults>>

\* Anything before the lease may raise: the ledger is locked, no settings.
FailOpening(t) ==
    /\ proc[t] = "opening"
    /\ Fault
    /\ Exit(t, "errors")
    /\ UNCHANGED <<lease, report, age, row>>

Renewed == [lease EXCEPT !.left = Ttl]

\* acquire_cycle_lease in its one transaction: delete the row if it has
\* expired, insert if none is left; without it the process exits with 3.
MayTake == ~Held

AcquireCycleLease(t) ==
    /\ proc[t] = "opening" /\ MayTake
    /\ lease' = [owner |-> t, left |-> Ttl]
    /\ proc' = [proc EXCEPT ![t] = "acquired"]
    /\ beating' = beating \cup {t}
    /\ UNCHANGED <<lost, report, sup, age, row, faults>>

LeaseHeldElsewhere(t) ==
    /\ proc[t] = "opening" /\ Held
    /\ Exit(t, "skipped")
    /\ UNCHANGED <<lease, report, age, row, faults>>

\* The heartbeat thread: renewed by token alone, an expired row that nobody
\* took included; no row of this token sets the flag and ends the thread.
\* A renewal that raises changes nothing, so it is no step at all.
RenewCycleLease(t) ==
    /\ t \in beating
    /\ IF lease.owner = t
         THEN /\ lease' = Renewed
              /\ UNCHANGED <<beating, lost>>
         ELSE /\ lost' = lost \cup {t}
              /\ beating' = beating \ {t}
              /\ UNCHANGED lease
    /\ UNCHANGED <<proc, report, sup, age, row, faults>>

\* run_cycle's checkpoints, each written over the shared report at once:
\* before the sources are collected, and at every stage after them.
Checkpoint(t) ==
    /\ \/ /\ proc[t] = "acquired"
          /\ proc' = [proc EXCEPT ![t] = "collecting"]
          /\ report' = [by |-> t, stage |-> "collecting"]
       \/ /\ proc[t] \in {"collecting", "working"}
          /\ proc' = [proc EXCEPT ![t] = "working"]
          /\ report' = [by |-> t, stage |-> "working"]
    /\ UNCHANGED <<lease, beating, lost, sup, age, row, faults>>

\* run_cycle returns its result, or raises at any of its calls.
ReturnFromCycle(t) ==
    /\ proc[t] = "working"
    /\ proc' = [proc EXCEPT ![t] = "finished"]
    /\ UNCHANGED <<lease, beating, lost, report, sup, age, row, faults>>

RaiseInCycle(t) ==
    /\ proc[t] \in {"acquired", "collecting", "working"}
    /\ proc' = [proc EXCEPT ![t] = "raised"]
    /\ UNCHANGED <<lease, beating, lost, report, sup, age, row, faults>>

\* DELETE ... AND lease_token=?: only the row that carries the token.
WithoutAnyLease(t) == NoLease   \* a fault
WithoutLeaseOf(t) == IF lease.owner = t THEN NoLease ELSE lease

\* The finally block: stop the heartbeat, release.  A cycle that raised ends
\* here with its report as the last checkpoint left it.
ReleaseCycleLease(t) ==
    /\ lease' = WithoutLeaseOf(t)
    /\ \/ /\ proc[t] = "finished"
          /\ proc' = [proc EXCEPT ![t] = "reporting"]
          /\ beating' = beating \ {t}
          /\ UNCHANGED <<lost, sup>>
       \/ /\ proc[t] = "raised"
          /\ Exit(t, "errors")
    /\ UNCHANGED <<report, age, row, faults>>

\* The DELETE itself raises: the row stays until it expires.
ReleaseFails(t) ==
    /\ proc[t] \in {"finished", "raised"}
    /\ Fault
    /\ Exit(t, "errors")
    /\ UNCHANGED <<lease, report, age, row>>

\* After the release the complete report, with live_cycle_lease_lost among
\* its errors if the heartbeat said so; errors make the exit code 1.
WriteFinalReport(t) ==
    /\ proc[t] = "reporting"
    /\ report' = [by |-> t, stage |-> "complete"]
    /\ \E code \in {"ok", "errors"} :
          /\ t \in lost => code = "errors"
          /\ Exit(t, code)
    /\ UNCHANGED <<lease, age, row, faults>>

-----------------------------------------------------------------------------
(* The supervisor: app/workers/continuous.py *)

StartWorkerCycle ==
    /\ sup.pc = "idle" /\ ~sup.stop
    /\ row' = "RUNNING"
    /\ sup' = [sup EXCEPT !.pc = "started"]
    /\ UNCHANGED <<lease, proc, beating, lost, report, age, faults>>

\* The loop goes on, or ends when a stop was requested meanwhile.
AfterRow == [pc |-> IF sup.stop THEN "down" ELSE "idle", child |-> None,
             code |-> "none", stop |-> FALSE]

\* report_path.unlink before every child.
ReportKept == report   \* a fault
ReportUnlinked == NoReport

\* The previous report is unlinked, then the child starts with a new token.
SpawnChild(t) ==
    /\ sup.pc = "started"
    /\ t \in Children /\ ~Live(t) /\ lease.owner # t
    /\ report' = ReportUnlinked
    /\ proc' = [proc EXCEPT ![t] = "opening"]
    /\ sup' = [sup EXCEPT !.pc = "watching", !.child = t, !.code = "none"]
    /\ age' = 0
    /\ UNCHANGED <<lease, beating, lost, row, faults>>

\* The child cannot be started, or the file not removed: the row is FAILED.
ExecuteCycleFails ==
    /\ sup.pc = "started"
    /\ Fault
    /\ row' = "FAILED"
    /\ sup' = AfterRow
    /\ UNCHANGED <<lease, proc, beating, lost, report, age>>

\* subprocess.run kills the child and waits for it, then raises.
KillTimedOutChild ==
    /\ sup.pc = "watching" /\ age >= Timeout
    /\ proc' = [proc EXCEPT ![sup.child] = "off"]
    /\ beating' = beating \ {sup.child}
    /\ lost' = lost \ {sup.child}
    /\ sup' = [sup EXCEPT !.pc = "timedout", !.code = "timeout"]
    /\ UNCHANGED <<lease, report, age, row, faults>>

\* release_owned_cycle_lease for the killed child's token; an error is noted
\* and the supervisor goes on.
LeftToExpire(t) == lease   \* a fault
WithoutLeaseOfKilled(t) == WithoutLeaseOf(t)

ReleaseOwnedCycleLease ==
    /\ sup.pc = "timedout"
    /\ sup' = [sup EXCEPT !.pc = "judging"]
    /\ \/ lease' = WithoutLeaseOfKilled(sup.child) /\ UNCHANGED faults
       \/ Fault /\ UNCHANGED lease
    /\ UNCHANGED <<proc, beating, lost, report, age, row>>

\* The status of the row, from the exit code and whatever report file there
\* is now (timed_out_cycle_status for a child that was killed).
Judged ==
    CASE sup.code = "timeout" ->
             IF report.stage \in {"working", "complete"} THEN "DEGRADED"
                                                         ELSE "FAILED"
      [] sup.code = "ok" -> "SUCCESS"
      [] sup.code = "skipped" -> "SKIPPED"
      [] OTHER -> IF report.stage = "complete" THEN "DEGRADED" ELSE "FAILED"

FinishWorkerCycle ==
    /\ sup.pc = "judging"
    /\ row' = Judged
    /\ sup' = AfterRow
    /\ UNCHANGED <<lease, proc, beating, lost, report, age, faults>>

\* systemctl stop signals the whole unit: the child has no handler and dies
\* of it, the supervisor ends after the row it is at.
TerminateUnit ==
    /\ sup.pc # "down" /\ ~sup.stop
    /\ Fault
    /\ IF sup.pc = "watching"
         THEN /\ proc' = [proc EXCEPT ![sup.child] = "off"]
              /\ beating' = beating \ {sup.child}
              /\ lost' = lost \ {sup.child}
              /\ sup' = [sup EXCEPT !.pc = "judging", !.code = "signalled",
                                    !.stop = TRUE]
         ELSE /\ sup' = IF sup.pc = "idle" THEN [sup EXCEPT !.pc = "down"]
                                           ELSE [sup EXCEPT !.stop = TRUE]
              /\ UNCHANGED <<proc, beating, lost>>
    /\ UNCHANGED <<lease, report, age, row>>

\* The memory limit or the machine kills the unit with everything in it: the
\* row stays RUNNING, the lease stays behind.
KillUnit ==
    /\ sup.pc # "down"
    /\ Fault
    /\ proc' = [t \in Tokens |-> IF t \in Children THEN "off" ELSE proc[t]]
    /\ beating' = beating \cap Manual
    /\ lost' = lost \cap Manual
    /\ sup' = [pc |-> "down", child |-> None, code |-> "none", stop |-> FALSE]
    /\ UNCHANGED <<lease, report, age, row>>

StartUnit ==
    /\ sup.pc = "down"
    /\ sup' = [sup EXCEPT !.pc = "idle"]
    /\ UNCHANGED <<lease, proc, beating, lost, report, age, row, faults>>

-----------------------------------------------------------------------------

\* A tick passes; the child that is due for the kill dies before KillBy.
Tick ==
    /\ sup.pc = "watching" => age + 1 < KillBy
    /\ lease' = [lease EXCEPT !.left = IF @ = 0 THEN 0 ELSE @ - 1]
    /\ age' = IF sup.pc = "watching" THEN age + 1 ELSE 0
    /\ UNCHANGED <<proc, beating, lost, report, sup, row, faults>>

CycleStep(t) ==
    \/ FailOpening(t) \/ AcquireCycleLease(t) \/ LeaseHeldElsewhere(t)
    \/ Checkpoint(t) \/ ReturnFromCycle(t) \/ RaiseInCycle(t)
    \/ ReleaseCycleLease(t) \/ ReleaseFails(t) \/ WriteFinalReport(t)

SupervisorStep ==
    \/ StartWorkerCycle \/ ExecuteCycleFails \/ (\E t \in Children : SpawnChild(t))
    \/ KillTimedOutChild \/ ReleaseOwnedCycleLease \/ FinishWorkerCycle

Next ==
    \/ \E t \in Tokens : StartManual(t) \/ CycleStep(t) \/ RenewCycleLease(t)
    \/ SupervisorStep \/ TerminateUnit \/ KillUnit \/ StartUnit \/ Tick

\* The loop sleeps a bounded interval; its calls and the cycle's have
\* timeouts; systemd, or the backup wrapper, starts the unit again.  A start
\* takes seconds of the ten minutes a child has: it is not always too slow.
Fairness ==
    /\ WF_vars(Tick) /\ WF_vars(StartUnit) /\ WF_vars(SupervisorStep)
    /\ \A t \in Tokens :
          /\ SF_vars(AcquireCycleLease(t)) /\ WF_vars(LeaseHeldElsewhere(t))
          /\ WF_vars(Checkpoint(t)) /\ WF_vars(ReturnFromCycle(t))
          /\ WF_vars(ReleaseCycleLease(t)) /\ WF_vars(WriteFinalReport(t))

Spec == Init /\ [][Next]_vars /\ Fairness

-----------------------------------------------------------------------------

\* A cycle the supervisor started works only while the lease is its own and
\* has time left, whatever its heartbeat did: the kill comes first, and no
\* other process, killed, late or resumed, takes the row away from it.  Two
\* supervised cycles therefore never work together, and a cycle that works
\* without the lease is one an operator started.
SupervisedOwnsLease ==
    \A t \in Children : proc[t] \in Running => lease.owner = t /\ lease.left > 0

\* Without a fault no lease outlives its process: the next cycle is never
\* kept out by the row of one that was killed for its time.
NoOrphanLease ==
    Held /\ faults = 0 =>
        \/ proc[lease.owner] \in Running
        \/ sup.pc = "timedout" /\ sup.child = lease.owner

\* A lease with time left changes hands, or goes away, only after its holder
\* stopped working: a release by token never hits the lease of another.
OnlyOwnersRelease ==
    [][\A t \in Tokens :
          lease.owner = t /\ lease.left > 0 /\ lease'.owner # t
             => proc[t] \notin {"acquired", "collecting", "working"}]_vars

\* A failed or killed child is DEGRADED only on a report that was written
\* while it was the child: its own, or that of an operator's cycle, never
\* what an earlier child left in the file.
ReportIsCurrent ==
    [][row = "RUNNING" /\ row' = "DEGRADED"
          => report.by \in {sup.child} \cup Manual]_vars

\* Once the faults are over, supervised cycles get to work again and again:
\* neither an orphan lease nor a cycle started by hand keeps them out.
CyclesResume == []<>(\E t \in Children : proc[t] \in Running)
=============================================================================
