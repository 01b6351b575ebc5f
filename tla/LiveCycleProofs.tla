--------------------------- MODULE LiveCycleProofs ---------------------------
(***************************************************************************)
(* For every set of children and of cycles started by hand, and all times  *)
(* with Timeout < KillBy <= Ttl: what the supervisor's children and the    *)
(* lease promise each other.                                               *)
(***************************************************************************)
EXTENDS LiveCycle, TLAPS

\* Only the child the supervisor waits for is alive, and it is young.
ChildrenWatched ==
    /\ \A t \in Children : Live(t) => sup.pc = "watching" /\ sup.child = t
    /\ sup.pc \in {"watching", "timedout"} => sup.child \in Children
    /\ sup.pc = "watching" => age < KillBy

\* The lease of a working child has at least what is left until the kill.
ChildrenLeased ==
    \A t \in Children :
        proc[t] \in Running => lease.owner = t /\ lease.left + age >= Ttl

\* A heartbeat renews only inside its cycle's try block.
HeartbeatsInside == \A t \in beating : proc[t] \in Running

\* The report file, while a row is open: none, the child's or an operator's.
ReportOwned ==
    /\ sup.pc \in {"watching", "timedout", "judging"} =>
          report.by \in {None, sup.child} \cup Manual
    /\ report.stage # "none" => report.by # None

IInv == TypeOK /\ ChildrenWatched /\ ChildrenLeased
        /\ HeartbeatsInside /\ ReportOwned /\ NoOrphanLease

LEMMA InitInv == Init => IInv
  <1> SUFFICES ASSUME Init PROVE IInv
    OBVIOUS
  <1> QED
    BY TokensDistinct, TimesOrdered
    DEF Init, IInv, TypeOK, ChildrenWatched, ChildrenLeased,
        HeartbeatsInside, ReportOwned, NoOrphanLease, Live, Held, Tokens, NoLease, NoReport, Pcs, Running,
        ExitCodes, Statuses

\* What the end of a process leaves: the supervisor, if it waited for this
\* one, judges with the exit code; it forgets nothing else.
LEMMA ExitKeeps ==
  ASSUME IInv, NEW t \in Tokens, NEW code \in ExitCodes, Exit(t, code)
  PROVE  /\ proc' \in [Tokens -> Pcs]
         /\ \A u \in Tokens : proc'[u] = IF u = t THEN Gone(t) ELSE proc[u]
         /\ Gone(t) \in {"off", "used"}
         /\ beating' = beating \ {t}
         /\ beating' \subseteq Tokens /\ lost' \subseteq Tokens
         /\ sup'.pc \in {"down", "idle", "started", "watching", "timedout", "judging"}
         /\ sup' \in [pc: {"down", "idle", "started", "watching", "timedout",
                          "judging"},
                     child: Children \cup {None}, code: ExitCodes, stop: BOOLEAN]
         /\ sup'.child = sup.child
         /\ \/ sup'.pc = sup.pc /\ ~(sup.pc = "watching" /\ sup.child = t)
            \/ sup.pc = "watching" /\ sup.child = t /\ sup'.pc = "judging"
  <1>1. CASE sup.pc = "watching" /\ sup.child = t
    BY <1>1 DEF IInv, TypeOK, Exit, Gone, Pcs
  <1>2. CASE ~(sup.pc = "watching" /\ sup.child = t)
    BY <1>2 DEF IInv, TypeOK, Exit, Gone, Pcs
  <1> QED
    BY <1>1, <1>2

LEMMA FailOpeningKeeps ==
  ASSUME IInv, NEW t \in Tokens, FailOpening(t)
  PROVE  IInv'
  <1> USE TokensDistinct, TimesOrdered
        DEF IInv, Live, Held, Running, Tokens, NoLease, NoReport, Fault, WithoutLeaseOf
  <1>1. "errors" \in ExitCodes /\ Exit(t, "errors")
    BY DEF FailOpening, ExitCodes
  <1>2. TypeOK'
    BY <1>1, ExitKeeps DEF TypeOK, FailOpening
  <1>3. ChildrenWatched'
    BY <1>1, ExitKeeps DEF TypeOK, ChildrenWatched, FailOpening
  <1>4. ChildrenLeased'
    BY <1>1, ExitKeeps DEF TypeOK, ChildrenWatched, ChildrenLeased, FailOpening
  <1>5. ReportOwned'
    BY <1>1, ExitKeeps DEF TypeOK, ChildrenWatched, ReportOwned, FailOpening
  <1>6. NoOrphanLease'
    BY <1>1, ExitKeeps DEF TypeOK, ChildrenWatched, NoOrphanLease, FailOpening
  <1>7. HeartbeatsInside'
    BY <1>1, ExitKeeps DEF TypeOK, ChildrenWatched, HeartbeatsInside, FailOpening
  <1> QED
    BY <1>2, <1>3, <1>4, <1>5, <1>6, <1>7

LEMMA AcquireCycleLeaseKeeps ==
  ASSUME IInv, NEW t \in Tokens, AcquireCycleLease(t)
  PROVE  IInv'
  <1> USE TokensDistinct, TimesOrdered
        DEF IInv, Live, Held, Running, Pcs, Tokens, NoLease, NoReport,
            ExitCodes, Statuses, Exit, Gone, Fault, WithoutLeaseOf,
            MayTake, Renewed, ReportUnlinked, AcquireCycleLease
  <1>1. TypeOK'
    BY DEF TypeOK
  <1>2. ChildrenWatched'
    BY DEF TypeOK, ChildrenWatched
  <1>3. ChildrenLeased'
    BY DEF TypeOK, ChildrenWatched, ChildrenLeased
  <1>4. ReportOwned'
    BY DEF TypeOK, ChildrenWatched, ReportOwned
  <1>5. NoOrphanLease'
    BY DEF TypeOK, ChildrenWatched, NoOrphanLease
  <1>6. HeartbeatsInside'
    BY DEF TypeOK, ChildrenWatched, HeartbeatsInside
  <1> QED
    BY <1>1, <1>2, <1>3, <1>4, <1>5, <1>6

LEMMA LeaseHeldElsewhereKeeps ==
  ASSUME IInv, NEW t \in Tokens, LeaseHeldElsewhere(t)
  PROVE  IInv'
  <1> USE TokensDistinct, TimesOrdered
        DEF IInv, Live, Held, Running, Pcs, Tokens, NoLease, NoReport,
            ExitCodes, Statuses, Exit, Gone, Fault, WithoutLeaseOf,
            MayTake, Renewed, ReportUnlinked, LeaseHeldElsewhere
  <1>1. TypeOK'
    BY DEF TypeOK
  <1>2. ChildrenWatched'
    BY DEF TypeOK, ChildrenWatched
  <1>3. ChildrenLeased'
    BY DEF TypeOK, ChildrenWatched, ChildrenLeased
  <1>4. ReportOwned'
    BY DEF TypeOK, ChildrenWatched, ReportOwned
  <1>5. NoOrphanLease'
    BY DEF TypeOK, ChildrenWatched, NoOrphanLease
  <1>6. HeartbeatsInside'
    BY DEF TypeOK, ChildrenWatched, HeartbeatsInside
  <1> QED
    BY <1>1, <1>2, <1>3, <1>4, <1>5, <1>6

LEMMA CheckpointKeeps ==
  ASSUME IInv, NEW t \in Tokens, Checkpoint(t)
  PROVE  IInv'
  <1> USE TokensDistinct, TimesOrdered
        DEF IInv, Live, Held, Running, Pcs, Tokens, NoLease, NoReport,
            ExitCodes, Statuses, Exit, Gone, Fault, WithoutLeaseOf,
            MayTake, Renewed, ReportUnlinked, Checkpoint
  <1>1. TypeOK'
    BY DEF TypeOK
  <1>2. ChildrenWatched'
    BY DEF TypeOK, ChildrenWatched
  <1>3. ChildrenLeased'
    BY DEF TypeOK, ChildrenWatched, ChildrenLeased
  <1>4. ReportOwned'
    BY DEF TypeOK, ChildrenWatched, ReportOwned
  <1>5. NoOrphanLease'
    BY DEF TypeOK, ChildrenWatched, NoOrphanLease
  <1>6. HeartbeatsInside'
    BY DEF TypeOK, ChildrenWatched, HeartbeatsInside
  <1> QED
    BY <1>1, <1>2, <1>3, <1>4, <1>5, <1>6

LEMMA ReturnFromCycleKeeps ==
  ASSUME IInv, NEW t \in Tokens, ReturnFromCycle(t)
  PROVE  IInv'
  <1> USE TokensDistinct, TimesOrdered
        DEF IInv, Live, Held, Running, Pcs, Tokens, NoLease, NoReport,
            ExitCodes, Statuses, Exit, Gone, Fault, WithoutLeaseOf,
            MayTake, Renewed, ReportUnlinked, ReturnFromCycle
  <1>1. TypeOK'
    BY DEF TypeOK
  <1>2. ChildrenWatched'
    BY DEF TypeOK, ChildrenWatched
  <1>3. ChildrenLeased'
    BY DEF TypeOK, ChildrenWatched, ChildrenLeased
  <1>4. ReportOwned'
    BY DEF TypeOK, ChildrenWatched, ReportOwned
  <1>5. NoOrphanLease'
    BY DEF TypeOK, ChildrenWatched, NoOrphanLease
  <1>6. HeartbeatsInside'
    BY DEF TypeOK, ChildrenWatched, HeartbeatsInside
  <1> QED
    BY <1>1, <1>2, <1>3, <1>4, <1>5, <1>6

LEMMA RaiseInCycleKeeps ==
  ASSUME IInv, NEW t \in Tokens, RaiseInCycle(t)
  PROVE  IInv'
  <1> USE TokensDistinct, TimesOrdered
        DEF IInv, Live, Held, Running, Pcs, Tokens, NoLease, NoReport,
            ExitCodes, Statuses, Exit, Gone, Fault, WithoutLeaseOf,
            MayTake, Renewed, ReportUnlinked, RaiseInCycle
  <1>1. TypeOK'
    BY DEF TypeOK
  <1>2. ChildrenWatched'
    BY DEF TypeOK, ChildrenWatched
  <1>3. ChildrenLeased'
    BY DEF TypeOK, ChildrenWatched, ChildrenLeased
  <1>4. ReportOwned'
    BY DEF TypeOK, ChildrenWatched, ReportOwned
  <1>5. NoOrphanLease'
    BY DEF TypeOK, ChildrenWatched, NoOrphanLease
  <1>6. HeartbeatsInside'
    BY DEF TypeOK, ChildrenWatched, HeartbeatsInside
  <1> QED
    BY <1>1, <1>2, <1>3, <1>4, <1>5, <1>6

LEMMA ReleaseCycleLeaseKeeps ==
  ASSUME IInv, NEW t \in Tokens, ReleaseCycleLease(t)
  PROVE  IInv'
  <1> USE TokensDistinct, TimesOrdered
        DEF IInv, Live, Held, Running, Tokens, NoLease, NoReport, Fault, WithoutLeaseOf
  <1>1. CASE proc[t] = "finished" /\ proc' = [proc EXCEPT ![t] = "reporting"]
              /\ beating' = beating \ {t} /\ UNCHANGED <<lost, sup>>
    <2>1. TypeOK'
      BY <1>1 DEF TypeOK, Pcs, ReleaseCycleLease
    <2>2. ChildrenWatched'
      BY <1>1 DEF TypeOK, Pcs, ChildrenWatched, ReleaseCycleLease
    <2>3. ChildrenLeased'
      BY <1>1 DEF TypeOK, ChildrenWatched, ChildrenLeased, ReleaseCycleLease
    <2>4. ReportOwned'
      BY <1>1 DEF TypeOK, ReportOwned, ReleaseCycleLease
    <2>5. NoOrphanLease'
      BY <1>1 DEF TypeOK, NoOrphanLease, ReleaseCycleLease
    <2>6. HeartbeatsInside'
      BY <1>1 DEF TypeOK, HeartbeatsInside, ReleaseCycleLease
    <2> QED
      BY <2>1, <2>2, <2>3, <2>4, <2>5, <2>6
  <1>2. CASE proc[t] = "raised" /\ Exit(t, "errors")
    <2>1. "errors" \in ExitCodes
      BY DEF ExitCodes
    <2>2. TypeOK'
      BY <1>2, <2>1, ExitKeeps DEF TypeOK, ReleaseCycleLease
    <2>3. ChildrenWatched'
      BY <1>2, <2>1, ExitKeeps DEF TypeOK, ChildrenWatched, ReleaseCycleLease
    <2>4. ChildrenLeased'
      BY <1>2, <2>1, ExitKeeps DEF TypeOK, ChildrenWatched, ChildrenLeased, ReleaseCycleLease
    <2>5. ReportOwned'
      BY <1>2, <2>1, ExitKeeps DEF TypeOK, ChildrenWatched, ReportOwned, ReleaseCycleLease
    <2>6. NoOrphanLease'
      BY <1>2, <2>1, ExitKeeps DEF TypeOK, ChildrenWatched, NoOrphanLease, ReleaseCycleLease
    <2>7. HeartbeatsInside'
      BY <1>2, <2>1, ExitKeeps DEF TypeOK, ChildrenWatched, HeartbeatsInside, ReleaseCycleLease
    <2> QED
      BY <2>2, <2>3, <2>4, <2>5, <2>6, <2>7
  <1> QED
    BY <1>1, <1>2 DEF ReleaseCycleLease

LEMMA ReleaseFailsKeeps ==
  ASSUME IInv, NEW t \in Tokens, ReleaseFails(t)
  PROVE  IInv'
  <1> USE TokensDistinct, TimesOrdered
        DEF IInv, Live, Held, Running, Tokens, NoLease, NoReport, Fault, WithoutLeaseOf
  <1>1. "errors" \in ExitCodes /\ Exit(t, "errors")
    BY DEF ReleaseFails, ExitCodes
  <1>2. TypeOK'
    BY <1>1, ExitKeeps DEF TypeOK, ReleaseFails
  <1>3. ChildrenWatched'
    BY <1>1, ExitKeeps DEF TypeOK, ChildrenWatched, ReleaseFails
  <1>4. ChildrenLeased'
    BY <1>1, ExitKeeps DEF TypeOK, ChildrenWatched, ChildrenLeased, ReleaseFails
  <1>5. ReportOwned'
    BY <1>1, ExitKeeps DEF TypeOK, ChildrenWatched, ReportOwned, ReleaseFails
  <1>6. NoOrphanLease'
    BY <1>1, ExitKeeps DEF TypeOK, ChildrenWatched, NoOrphanLease, ReleaseFails
  <1>7. HeartbeatsInside'
    BY <1>1, ExitKeeps DEF TypeOK, ChildrenWatched, HeartbeatsInside, ReleaseFails
  <1> QED
    BY <1>2, <1>3, <1>4, <1>5, <1>6, <1>7

LEMMA WriteFinalReportKeeps ==
  ASSUME IInv, NEW t \in Tokens, WriteFinalReport(t)
  PROVE  IInv'
  <1> USE TokensDistinct, TimesOrdered
        DEF IInv, Live, Held, Running, Tokens, NoLease, NoReport, Fault, WithoutLeaseOf
  <1>1. PICK code \in {"ok", "errors"} : Exit(t, code)
    BY DEF WriteFinalReport
  <1>2. code \in ExitCodes
    BY DEF ExitCodes
  <1>3. TypeOK'
    BY <1>1, <1>2, ExitKeeps DEF TypeOK, WriteFinalReport
  <1>4. ChildrenWatched'
    BY <1>1, <1>2, ExitKeeps DEF TypeOK, ChildrenWatched, WriteFinalReport
  <1>5. ChildrenLeased'
    BY <1>1, <1>2, ExitKeeps DEF TypeOK, ChildrenWatched, ChildrenLeased, WriteFinalReport
  <1>6. ReportOwned'
    BY <1>1, <1>2, ExitKeeps DEF TypeOK, ChildrenWatched, ReportOwned, WriteFinalReport
  <1>7. NoOrphanLease'
    BY <1>1, <1>2, ExitKeeps DEF TypeOK, ChildrenWatched, NoOrphanLease, WriteFinalReport
  <1>8. HeartbeatsInside'
    BY <1>1, <1>2, ExitKeeps DEF TypeOK, ChildrenWatched, HeartbeatsInside, WriteFinalReport
  <1> QED
    BY <1>3, <1>4, <1>5, <1>6, <1>7, <1>8

LEMMA StartManualKeeps ==
  ASSUME IInv, NEW t \in Tokens, StartManual(t)
  PROVE  IInv'
  <1> USE TokensDistinct, TimesOrdered
        DEF IInv, Live, Held, Running, Pcs, Tokens, NoLease, NoReport,
            ExitCodes, Statuses, Exit, Gone, Fault, WithoutLeaseOf,
            MayTake, Renewed, ReportUnlinked, StartManual
  <1>1. TypeOK'
    BY DEF TypeOK
  <1>2. ChildrenWatched'
    BY DEF TypeOK, ChildrenWatched
  <1>3. ChildrenLeased'
    BY DEF TypeOK, ChildrenWatched, ChildrenLeased
  <1>4. ReportOwned'
    BY DEF TypeOK, ChildrenWatched, ReportOwned
  <1>5. NoOrphanLease'
    BY DEF TypeOK, ChildrenWatched, NoOrphanLease
  <1>6. HeartbeatsInside'
    BY DEF TypeOK, ChildrenWatched, HeartbeatsInside
  <1> QED
    BY <1>1, <1>2, <1>3, <1>4, <1>5, <1>6

LEMMA RenewCycleLeaseKeeps ==
  ASSUME IInv, NEW t \in Tokens, RenewCycleLease(t)
  PROVE  IInv'
  <1> USE TokensDistinct, TimesOrdered
        DEF IInv, Live, Held, Running, Pcs, Tokens, NoLease, NoReport,
            ExitCodes, Statuses, Exit, Gone, Fault, WithoutLeaseOf,
            MayTake, Renewed, ReportUnlinked, RenewCycleLease
  <1>1. TypeOK'
    BY DEF TypeOK
  <1>2. ChildrenWatched'
    BY DEF TypeOK, ChildrenWatched
  <1>3. ChildrenLeased'
    BY DEF TypeOK, ChildrenWatched, ChildrenLeased
  <1>4. ReportOwned'
    BY DEF TypeOK, ChildrenWatched, ReportOwned
  <1>5. NoOrphanLease'
    BY DEF TypeOK, HeartbeatsInside, NoOrphanLease
  <1>6. HeartbeatsInside'
    BY DEF TypeOK, ChildrenWatched, HeartbeatsInside
  <1> QED
    BY <1>1, <1>2, <1>3, <1>4, <1>5, <1>6

LEMMA SpawnChildKeeps ==
  ASSUME IInv, NEW t \in Tokens, SpawnChild(t)
  PROVE  IInv'
  <1> USE TokensDistinct, TimesOrdered
        DEF IInv, Live, Held, Running, Pcs, Tokens, NoLease, NoReport,
            ExitCodes, Statuses, Exit, Gone, Fault, WithoutLeaseOf,
            MayTake, Renewed, ReportUnlinked, SpawnChild
  <1>1. TypeOK'
    <2>1. sup' \in [pc: {"down", "idle", "started", "watching", "timedout",
                        "judging"},
                   child: Children \cup {None}, code: ExitCodes, stop: BOOLEAN]
      BY DEF TypeOK
    <2>2. proc' \in [Tokens -> Pcs] /\ report' \in [by: Tokens \cup {None},
                   stage: {"none", "collecting", "working", "complete"}]
      BY DEF TypeOK
    <2> QED
      BY <2>1, <2>2 DEF TypeOK
  <1>2. ChildrenWatched'
    BY DEF TypeOK, ChildrenWatched
  <1>3. ChildrenLeased'
    BY DEF TypeOK, ChildrenWatched, ChildrenLeased
  <1>4. ReportOwned'
    BY DEF TypeOK, ChildrenWatched, ReportOwned
  <1>5. NoOrphanLease'
    BY DEF TypeOK, ChildrenWatched, NoOrphanLease
  <1>6. HeartbeatsInside'
    BY DEF TypeOK, ChildrenWatched, HeartbeatsInside
  <1> QED
    BY <1>1, <1>2, <1>3, <1>4, <1>5, <1>6

LEMMA StartWorkerCycleKeeps ==
  ASSUME IInv, StartWorkerCycle
  PROVE  IInv'
  <1> USE TokensDistinct, TimesOrdered
        DEF IInv, Live, Held, Running, Pcs, Tokens, NoLease, NoReport,
            ExitCodes, Statuses, Fault, WithoutLeaseOf, WithoutLeaseOfKilled,
            AfterRow, Judged, StartWorkerCycle
  <1>1. TypeOK'
    BY DEF TypeOK
  <1>2. ChildrenWatched'
    BY DEF TypeOK, ChildrenWatched
  <1>3. ChildrenLeased'
    BY DEF TypeOK, ChildrenWatched, ChildrenLeased
  <1>4. ReportOwned'
    BY DEF TypeOK, ChildrenWatched, ReportOwned
  <1>5. NoOrphanLease'
    BY DEF TypeOK, ChildrenWatched, NoOrphanLease
  <1>6. HeartbeatsInside'
    BY DEF TypeOK, ChildrenWatched, HeartbeatsInside
  <1> QED
    BY <1>1, <1>2, <1>3, <1>4, <1>5, <1>6

LEMMA ExecuteCycleFailsKeeps ==
  ASSUME IInv, ExecuteCycleFails
  PROVE  IInv'
  <1> USE TokensDistinct, TimesOrdered
        DEF IInv, Live, Held, Running, Pcs, Tokens, NoLease, NoReport,
            ExitCodes, Statuses, Fault, WithoutLeaseOf, WithoutLeaseOfKilled,
            AfterRow, Judged, ExecuteCycleFails
  <1>1. TypeOK'
    BY DEF TypeOK
  <1>2. ChildrenWatched'
    BY DEF TypeOK, ChildrenWatched
  <1>3. ChildrenLeased'
    BY DEF TypeOK, ChildrenWatched, ChildrenLeased
  <1>4. ReportOwned'
    BY DEF TypeOK, ChildrenWatched, ReportOwned
  <1>5. NoOrphanLease'
    BY DEF TypeOK, ChildrenWatched, NoOrphanLease
  <1>6. HeartbeatsInside'
    BY DEF TypeOK, ChildrenWatched, HeartbeatsInside
  <1> QED
    BY <1>1, <1>2, <1>3, <1>4, <1>5, <1>6

LEMMA KillTimedOutChildKeeps ==
  ASSUME IInv, KillTimedOutChild
  PROVE  IInv'
  <1> USE TokensDistinct, TimesOrdered
        DEF IInv, Live, Held, Running, Pcs, Tokens, NoLease, NoReport,
            ExitCodes, Statuses, Fault, WithoutLeaseOf, WithoutLeaseOfKilled,
            AfterRow, Judged, KillTimedOutChild
  <1>1. TypeOK'
    BY DEF TypeOK
  <1>2. ChildrenWatched'
    BY DEF TypeOK, ChildrenWatched
  <1>3. ChildrenLeased'
    BY DEF TypeOK, ChildrenWatched, ChildrenLeased
  <1>4. ReportOwned'
    BY DEF TypeOK, ChildrenWatched, ReportOwned
  <1>5. NoOrphanLease'
    BY DEF TypeOK, ChildrenWatched, NoOrphanLease
  <1>6. HeartbeatsInside'
    BY DEF TypeOK, ChildrenWatched, HeartbeatsInside
  <1> QED
    BY <1>1, <1>2, <1>3, <1>4, <1>5, <1>6

LEMMA ReleaseOwnedCycleLeaseKeeps ==
  ASSUME IInv, ReleaseOwnedCycleLease
  PROVE  IInv'
  <1> USE TokensDistinct, TimesOrdered
        DEF IInv, Live, Held, Running, Pcs, Tokens, NoLease, NoReport,
            ExitCodes, Statuses, Fault, WithoutLeaseOf, WithoutLeaseOfKilled,
            AfterRow, Judged, ReleaseOwnedCycleLease
  <1>1. TypeOK'
    BY DEF TypeOK
  <1>2. ChildrenWatched'
    BY DEF TypeOK, ChildrenWatched
  <1>3. ChildrenLeased'
    BY DEF TypeOK, ChildrenWatched, ChildrenLeased
  <1>4. ReportOwned'
    BY DEF TypeOK, ChildrenWatched, ReportOwned
  <1>5. NoOrphanLease'
    BY DEF TypeOK, ChildrenWatched, NoOrphanLease
  <1>6. HeartbeatsInside'
    BY DEF TypeOK, ChildrenWatched, HeartbeatsInside
  <1> QED
    BY <1>1, <1>2, <1>3, <1>4, <1>5, <1>6

LEMMA FinishWorkerCycleKeeps ==
  ASSUME IInv, FinishWorkerCycle
  PROVE  IInv'
  <1> USE TokensDistinct, TimesOrdered
        DEF IInv, Live, Held, Running, Pcs, Tokens, NoLease, NoReport,
            ExitCodes, Statuses, Fault, WithoutLeaseOf, WithoutLeaseOfKilled,
            AfterRow, Judged, FinishWorkerCycle
  <1>1. TypeOK'
    BY DEF TypeOK
  <1>2. ChildrenWatched'
    BY DEF TypeOK, ChildrenWatched
  <1>3. ChildrenLeased'
    BY DEF TypeOK, ChildrenWatched, ChildrenLeased
  <1>4. ReportOwned'
    BY DEF TypeOK, ChildrenWatched, ReportOwned
  <1>5. NoOrphanLease'
    BY DEF TypeOK, ChildrenWatched, NoOrphanLease
  <1>6. HeartbeatsInside'
    BY DEF TypeOK, ChildrenWatched, HeartbeatsInside
  <1> QED
    BY <1>1, <1>2, <1>3, <1>4, <1>5, <1>6

\* A stop request leaves the supervisor's state well formed.
LEMMA TerminateTyped ==
  ASSUME TypeOK, TerminateUnit
  PROVE  sup' \in [pc: {"down", "idle", "started", "watching", "timedout",
                        "judging"},
                   child: Children \cup {None}, code: ExitCodes, stop: BOOLEAN]
  <1>1. sup \in [pc: {"down", "idle", "started", "watching", "timedout",
                      "judging"},
                 child: Children \cup {None}, code: ExitCodes, stop: BOOLEAN]
    BY DEF TypeOK
  <1>2. "signalled" \in ExitCodes
    BY DEF ExitCodes
  <1>3. \/ sup' = [sup EXCEPT !.pc = "judging", !.code = "signalled", !.stop = TRUE]
        \/ sup' = [sup EXCEPT !.pc = "down"]
        \/ sup' = [sup EXCEPT !.stop = TRUE]
    BY DEF TerminateUnit
  <1>4. CASE sup' = [sup EXCEPT !.pc = "judging", !.code = "signalled", !.stop = TRUE]
    BY <1>1, <1>2, <1>4
  <1>5. CASE sup' = [sup EXCEPT !.pc = "down"]
    BY <1>1, <1>5
  <1>6. CASE sup' = [sup EXCEPT !.stop = TRUE]
    BY <1>1, <1>6
  <1> QED
    BY <1>3, <1>4, <1>5, <1>6

LEMMA TerminateUnitKeeps ==
  ASSUME IInv, TerminateUnit
  PROVE  IInv'
  <1> USE TokensDistinct, TimesOrdered
        DEF IInv, Live, Held, Running, Pcs, Tokens, NoLease, NoReport,
            ExitCodes, Statuses, Fault, WithoutLeaseOf, WithoutLeaseOfKilled,
            AfterRow, Judged, TerminateUnit
  <1>1. TypeOK'
    <2>1. CASE sup.pc = "watching"
      <3>1. sup.child \in Children
        BY <2>1 DEF ChildrenWatched
      <3>2. sup' \in [pc: {"down", "idle", "started", "watching", "timedout",
                          "judging"},
                     child: Children \cup {None}, code: ExitCodes, stop: BOOLEAN]
        BY TerminateTyped DEF IInv
      <3>3. proc' \in [Tokens -> Pcs] /\ beating' \subseteq Tokens
              /\ lost' \subseteq Tokens /\ faults' \in 0 .. MaxFaults
        BY <2>1, <3>1 DEF TypeOK
      <3> QED
        BY <2>1, <3>2, <3>3 DEF TypeOK
    <2>2. CASE sup.pc = "idle"
      BY <2>2 DEF TypeOK
    <2>3. CASE sup.pc \notin {"watching", "idle"}
      <3>1. sup' \in [pc: {"down", "idle", "started", "watching", "timedout",
                          "judging"},
                     child: Children \cup {None}, code: ExitCodes, stop: BOOLEAN]
        BY TerminateTyped DEF IInv
      <3> QED
        BY <2>3, <3>1 DEF TypeOK
    <2> QED
      BY <2>1, <2>2, <2>3
  <1>2. ChildrenWatched'
    BY DEF TypeOK, ChildrenWatched
  <1>3. ChildrenLeased'
    BY DEF TypeOK, ChildrenWatched, ChildrenLeased
  <1>4. ReportOwned'
    BY DEF TypeOK, ChildrenWatched, ReportOwned
  <1>5. NoOrphanLease'
    BY DEF TypeOK, ChildrenWatched, NoOrphanLease
  <1>6. HeartbeatsInside'
    BY DEF TypeOK, ChildrenWatched, HeartbeatsInside
  <1> QED
    BY <1>1, <1>2, <1>3, <1>4, <1>5, <1>6

LEMMA KillUnitKeeps ==
  ASSUME IInv, KillUnit
  PROVE  IInv'
  <1> USE TokensDistinct, TimesOrdered
        DEF IInv, Live, Held, Running, Pcs, Tokens, NoLease, NoReport,
            ExitCodes, Statuses, Fault, WithoutLeaseOf, WithoutLeaseOfKilled,
            AfterRow, Judged, KillUnit
  <1>1. TypeOK'
    BY DEF TypeOK
  <1>2. ChildrenWatched'
    BY DEF TypeOK, ChildrenWatched
  <1>3. ChildrenLeased'
    BY DEF TypeOK, ChildrenWatched, ChildrenLeased
  <1>4. ReportOwned'
    BY DEF TypeOK, ChildrenWatched, ReportOwned
  <1>5. NoOrphanLease'
    BY DEF TypeOK, ChildrenWatched, NoOrphanLease
  <1>6. HeartbeatsInside'
    BY DEF TypeOK, ChildrenWatched, HeartbeatsInside
  <1> QED
    BY <1>1, <1>2, <1>3, <1>4, <1>5, <1>6

LEMMA StartUnitKeeps ==
  ASSUME IInv, StartUnit
  PROVE  IInv'
  <1> USE TokensDistinct, TimesOrdered
        DEF IInv, Live, Held, Running, Pcs, Tokens, NoLease, NoReport,
            ExitCodes, Statuses, Fault, WithoutLeaseOf, WithoutLeaseOfKilled,
            AfterRow, Judged, StartUnit
  <1>1. TypeOK'
    BY DEF TypeOK
  <1>2. ChildrenWatched'
    BY DEF TypeOK, ChildrenWatched
  <1>3. ChildrenLeased'
    BY DEF TypeOK, ChildrenWatched, ChildrenLeased
  <1>4. ReportOwned'
    BY DEF TypeOK, ChildrenWatched, ReportOwned
  <1>5. NoOrphanLease'
    BY DEF TypeOK, ChildrenWatched, NoOrphanLease
  <1>6. HeartbeatsInside'
    BY DEF TypeOK, ChildrenWatched, HeartbeatsInside
  <1> QED
    BY <1>1, <1>2, <1>3, <1>4, <1>5, <1>6

LEMMA TickKeeps ==
  ASSUME IInv, Tick
  PROVE  IInv'
  <1> USE TokensDistinct, TimesOrdered
        DEF IInv, Live, Held, Running, Pcs, Tokens, NoLease, NoReport,
            ExitCodes, Statuses, Fault, WithoutLeaseOf, WithoutLeaseOfKilled,
            AfterRow, Judged, Tick
  <1>1. TypeOK'
    BY DEF TypeOK
  <1>2. ChildrenWatched'
    BY DEF TypeOK, ChildrenWatched
  <1>3. ChildrenLeased'
    BY DEF TypeOK, ChildrenWatched, ChildrenLeased
  <1>4. ReportOwned'
    BY DEF TypeOK, ChildrenWatched, ReportOwned
  <1>5. NoOrphanLease'
    BY DEF TypeOK, ChildrenWatched, NoOrphanLease
  <1>6. HeartbeatsInside'
    BY DEF TypeOK, ChildrenWatched, HeartbeatsInside
  <1> QED
    BY <1>1, <1>2, <1>3, <1>4, <1>5, <1>6

\* Every step keeps the invariant, one lemma for each action.
LEMMA NextInv == IInv /\ [Next]_vars => IInv'
  <1> SUFFICES ASSUME IInv, [Next]_vars PROVE IInv'
    OBVIOUS
  <1>1. CASE \E t \in Tokens : StartManual(t) \/ CycleStep(t) \/ RenewCycleLease(t)
    BY <1>1, FailOpeningKeeps, AcquireCycleLeaseKeeps, LeaseHeldElsewhereKeeps,
       CheckpointKeeps, ReturnFromCycleKeeps, RaiseInCycleKeeps,
       ReleaseCycleLeaseKeeps, ReleaseFailsKeeps, WriteFinalReportKeeps,
       StartManualKeeps, RenewCycleLeaseKeeps DEF CycleStep
  <1>2. CASE SupervisorStep
    BY <1>2, StartWorkerCycleKeeps, ExecuteCycleFailsKeeps, SpawnChildKeeps,
       KillTimedOutChildKeeps, ReleaseOwnedCycleLeaseKeeps,
       FinishWorkerCycleKeeps DEF SupervisorStep, Tokens
  <1>3. CASE TerminateUnit \/ KillUnit \/ StartUnit \/ Tick
    BY <1>3, TerminateUnitKeeps, KillUnitKeeps, StartUnitKeeps, TickKeeps
  <1>4. CASE UNCHANGED vars
    BY <1>4 DEF vars, IInv, TypeOK, ChildrenWatched, ChildrenLeased,
       HeartbeatsInside, ReportOwned, NoOrphanLease, Live, Held
  <1> QED
    BY <1>1, <1>2, <1>3, <1>4 DEF Next

\* The inductive invariant of leases, children and the report.
THEOREM Inductive == Spec => []IInv
  <1> QED
    BY InitInv, NextInv, PTL DEF Spec

\* Leases, processes, report and supervisor are well formed, whatever the
\* sets and the times.
THEOREM TypeCorrect == Spec => []TypeOK
  <1>1. IInv => TypeOK
    BY DEF IInv
  <1> QED
    BY <1>1, Inductive, PTL

\* A supervised cycle works only under its own lease, with time left on it,
\* for any number of cycles started by hand, heartbeats that never come and
\* any number of faults.
THEOREM SupervisedHolds == Spec => []SupervisedOwnsLease
  <1>1. IInv => SupervisedOwnsLease
    <2> SUFFICES ASSUME IInv, NEW t \in Children, proc[t] \in Running
                 PROVE  lease.owner = t /\ lease.left > 0
      BY DEF SupervisedOwnsLease
    <2>1. sup.pc = "watching" /\ age < KillBy
      BY DEF IInv, ChildrenWatched, Live, Running
    <2>2. lease.owner = t /\ lease.left + age >= Ttl
      BY DEF IInv, ChildrenLeased
    <2> QED
      BY <2>1, <2>2, TimesOrdered DEF IInv, TypeOK
  <1> QED
    BY <1>1, Inductive, PTL

\* Before the first fault every lease with time left has a process that
\* works under it, or a supervisor that is about to release it.
THEOREM OrphanFree == Spec => []NoOrphanLease
  <1>1. IInv => NoOrphanLease
    BY DEF IInv
  <1> QED
    BY <1>1, Inductive, PTL

\* No step takes a lease with time left from a cycle that still works.
THEOREM OwnersRelease == Spec => OnlyOwnersRelease
  <1>1. ASSUME IInv, [Next]_vars, NEW t \in Tokens, lease.owner = t,
               lease.left > 0, lease'.owner # t
        PROVE  proc[t] \notin {"acquired", "collecting", "working"}
    <2> USE <1>1, TokensDistinct DEF Tokens
    <2>1. CASE \E u \in Tokens : StartManual(u) \/ CycleStep(u) \/ RenewCycleLease(u)
      BY <2>1 DEF StartManual, CycleStep, FailOpening, AcquireCycleLease,
           LeaseHeldElsewhere, Checkpoint, ReturnFromCycle, RaiseInCycle,
           ReleaseCycleLease, ReleaseFails, WriteFinalReport, RenewCycleLease,
           MayTake, Held, Renewed, WithoutLeaseOf, IInv, TypeOK
    <2>2. CASE ReleaseOwnedCycleLease
      <3>1. sup.child = t /\ t \in Children
        BY <2>2 DEF ReleaseOwnedCycleLease, WithoutLeaseOfKilled,
             WithoutLeaseOf, IInv, ChildrenWatched
      <3> QED
        BY <2>2, <3>1 DEF ReleaseOwnedCycleLease, IInv, ChildrenWatched, Live
    <2>3. CASE SupervisorStep /\ ~ReleaseOwnedCycleLease
      BY <2>3 DEF SupervisorStep, StartWorkerCycle, ExecuteCycleFails,
           SpawnChild, KillTimedOutChild, FinishWorkerCycle
    <2>4. CASE TerminateUnit \/ KillUnit \/ StartUnit \/ UNCHANGED vars
      BY <2>4 DEF TerminateUnit, KillUnit, StartUnit, vars
    <2>5. CASE Tick
      BY <2>5 DEF Tick, IInv, TypeOK
    <2> QED
      BY <2>1, <2>2, <2>3, <2>4, <2>5 DEF Next
  <1>2. IInv /\ [Next]_vars =>
          [\A t \in Tokens :
             lease.owner = t /\ lease.left > 0 /\ lease'.owner # t
                => proc[t] \notin {"acquired", "collecting", "working"}]_vars
    BY <1>1
  <1> QED
    BY <1>2, Inductive, PTL DEF Spec, OnlyOwnersRelease

\* A row becomes DEGRADED only on a report written while its child was the
\* supervisor's.
THEOREM CurrentReport == Spec => ReportIsCurrent
  <1>1. ASSUME IInv, [Next]_vars, row = "RUNNING", row' = "DEGRADED"
        PROVE  report.by \in {sup.child} \cup Manual
    <2>1. FinishWorkerCycle
      BY <1>1 DEF Next, CycleStep, SupervisorStep, vars, StartManual,
           FailOpening, AcquireCycleLease, LeaseHeldElsewhere, Checkpoint,
           ReturnFromCycle, RaiseInCycle, ReleaseCycleLease, ReleaseFails,
           WriteFinalReport, RenewCycleLease, StartWorkerCycle,
           ExecuteCycleFails, SpawnChild, KillTimedOutChild,
           ReleaseOwnedCycleLease, TerminateUnit, KillUnit, StartUnit, Tick
    <2>2. report.stage # "none" /\ sup.pc = "judging"
      BY <1>1, <2>1 DEF FinishWorkerCycle, Judged
    <2> QED
      BY <1>1, <2>2 DEF IInv, ReportOwned
  <1>2. IInv /\ [Next]_vars =>
          [row = "RUNNING" /\ row' = "DEGRADED"
             => report.by \in {sup.child} \cup Manual]_vars
    BY <1>1
  <1> QED
    BY <1>2, Inductive, PTL DEF Spec, ReportIsCurrent
=============================================================================
