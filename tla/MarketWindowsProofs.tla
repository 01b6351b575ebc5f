-------------------------- MODULE MarketWindowsProofs --------------------------
(***************************************************************************)
(* Proofs about MarketWindows, for every set of runs, windows and plans    *)
(* and every bound.                                                        *)
(*                                                                         *)
(* OutcomeRecorded is not inductive: a job that has a price must also not  *)
(* be absent, for an absent job becomes open, nor have the error that a    *)
(* former release's spent quota left, for the repair opens it.  And what a *)
(* run has found when it writes the returns must be on record, as the      *)
(* returns are.                                                            *)
(***************************************************************************)
EXTENDS MarketWindows, TLAPS

Settled ==
    \A j \in Jobs :
        /\ IsOpen(j) => job[j].attempts < MaxAttempts
        /\ job[j].status = "COMPLETED" => Observed(j)
        /\ Observed(j) => job[j].status \notin Open \cup {"ABSENT"} /\ job[j].error # "429"
        /\ job[j].error = "429" => job[j].attempts <= MaxAttempts

Grounded(m) ==
    /\ <<m.job, m.at>> \in snapshots
    /\ <<<<m.job[1], Initial>>, m.base>> \in snapshots

FoundGrounded == \A p \in Runs : \A m \in run[p].found : Grounded(m)

IInv == TypeOK /\ Settled /\ FoundGrounded /\ MetricsGrounded

-----------------------------------------------------------------------------
\* Every job has a row.
LEMMA RowTyped ==
    ASSUME TypeOK, NEW j \in Jobs
    PROVE  job[j] \in Row /\ job[j].attempts \in Nat
<1>1. job \in [Jobs -> Row] BY DEF TypeOK
<1>2. job[j] \in Row BY <1>1
<1> QED BY <1>2 DEF Row

\* A state of a run that stays in its type gives a table of runs of its type.
LEMMA RunsTyped ==
    ASSUME TypeOK, NEW p \in Runs, NEW r \in Run, run' = [run EXCEPT ![p] = r]
    PROVE  run' \in [Runs -> Run]
BY DEF TypeOK

\* What a lookup leaves of the rows is a choice of minutes.
LEMMA LeftTyped ==
    ASSUME TypeOK, NEW p \in Runs, NEW w
    PROVE  Left(p, w) \in Targets
<1>1. run[p].rows \in Targets BY DEF TypeOK, Run
<1>2. PICK S \in SUBSET Windows : run[p].rows \in [S -> Minutes] BY <1>1 DEF Targets
<1>3. Left(p, w) \in [S \ Group(p, w) -> Minutes] BY <1>2 DEF Left
<1> QED BY <1>3 DEF Targets

\* So is what it adds to the rows that are ready.
LEMMA ReadyTyped ==
    ASSUME TypeOK, NEW p \in Runs, NEW w \in DOMAIN run[p].rows
    PROVE  Ready(p, w) \in Targets /\ run[p].rows[w] \in Minutes
<1>1. run[p].rows \in Targets /\ run[p].ready \in Targets BY DEF TypeOK, Run
<1>2. PICK S \in SUBSET Windows : run[p].rows \in [S -> Minutes] BY <1>1 DEF Targets
<1>3. PICK T \in SUBSET Windows : run[p].ready \in [T -> Minutes] BY <1>1 DEF Targets
<1>4. run[p].rows[w] \in Minutes BY <1>2
<1>5. Group(p, w) \subseteq S BY <1>2 DEF Group
<1>6. Ready(p, w) \in [T \cup Group(p, w) -> Minutes] BY <1>3, <1>4, <1>5 DEF Ready
<1> QED BY <1>4, <1>5, <1>6 DEF Targets

\* No row is a choice of minutes as well, and an idle run is a run.
LEMMA IdleTyped == Nowhere \in Targets /\ Idle \in Run
<1>1. Nowhere \in [{} -> Minutes] BY DEF Nowhere
<1>2. Nowhere \in Targets BY <1>1 DEF Targets
<1>3. 1 \in 1 .. MaxVersion /\ 1 \in DOMAIN Plans /\ 0 \in 0 .. MaxRequests BY MarketConstants
<1> QED BY <1>2, <1>3 DEF Idle, Run

\* A run that has only its place in the program is a run.
LEMMA AtTyped ==
    ASSUME NEW pc \in {"repair", "metrics"}, NEW S
    PROVE  [Idle EXCEPT !.pc = pc] \in Run /\ [Idle EXCEPT !.pc = pc].found \subseteq S
BY IdleTyped DEF Idle, Run

\* A change of rows that opens none with a price or without attempts left, and
\* completes none, keeps what is said of the rows.
FairRow(j, row) ==
    \/ row = job[j]
    \/ /\ row.status \in Open => ~Observed(j) /\ row.attempts < MaxAttempts
       /\ row.status \notin {"COMPLETED", "ABSENT"} /\ row.error # "429"

LEMMA SettledKept ==
    ASSUME TypeOK, Settled, snapshots' = snapshots,
           NEW f \in [Jobs -> Row], job' = f, \A j \in Jobs : FairRow(j, f[j])
    PROVE  Settled'
<1> SUFFICES ASSUME NEW j \in Jobs
             PROVE  /\ IsOpen(j)' => job'[j].attempts < MaxAttempts
                    /\ job'[j].status = "COMPLETED" => Observed(j)'
                    /\ Observed(j)' =>
                          job'[j].status \notin Open \cup {"ABSENT"} /\ job'[j].error # "429"
                    /\ job'[j].error = "429" => job'[j].attempts <= MaxAttempts
    BY DEF Settled
<1>1. Observed(j)' <=> Observed(j) BY DEF Observed
<1>2. FairRow(j, job'[j]) OBVIOUS
<1>3. CASE job'[j] = job[j] BY <1>1, <1>3 DEF Settled, IsOpen
<1>4. CASE job'[j] # job[j] BY <1>1, <1>2, <1>4 DEF FairRow, IsOpen
<1> QED BY <1>3, <1>4

\* Returns stay grounded as long as no snapshot is lost.
LEMMA GroundKept ==
    ASSUME FoundGrounded, MetricsGrounded, snapshots \subseteq snapshots',
           \A p \in Runs : run'[p].found \subseteq run[p].found, metrics' = metrics
    PROVE  FoundGrounded' /\ MetricsGrounded'
<1>1. FoundGrounded' BY DEF FoundGrounded, Grounded
<1>2. MetricsGrounded' BY DEF MetricsGrounded
<1> QED BY <1>1, <1>2

\* A step of one run that finds no return finds none the others have not.
LEMMA FoundKept ==
    ASSUME TypeOK, NEW p \in Runs, NEW r \in Run, run' = [run EXCEPT ![p] = r],
           r.found \subseteq run[p].found
    PROVE  \A q \in Runs : run'[q].found \subseteq run[q].found
BY DEF TypeOK

-----------------------------------------------------------------------------
\* The rows a step makes are rows, and fair.  First the cancelled ones.
LEMMA CancelledRows ==
    ASSUME TypeOK
    PROVE  CancelledAll \in [Jobs -> Row] /\ \A j \in Jobs : FairRow(j, CancelledAll[j])
<1>1. \A j \in Jobs : job[j] \in Row BY RowTyped
<1> QED BY <1>1 DEF CancelledAll, Marked, FairRow, Row, Open

\* What schedule_jobs makes of a row.
LEMMA ScheduledRow ==
    ASSUME TypeOK, Settled, NEW j \in Jobs, NEW t \in Minutes, NEW b \in BOOLEAN
    PROVE  Scheduled(j, t, b) \in Row /\ FairRow(j, Scheduled(j, t, b))
<1>1. job[j] \in Row BY RowTyped
<1>2. 0 < MaxAttempts BY MarketConstants
<1>3. CASE job[j].status = "ABSENT"
    <2>1. ~Observed(j) BY <1>3 DEF Settled
    <2> QED BY <1>2, <1>3, <2>1 DEF Scheduled, Inserted, Asked, Row, FairRow, Open
<1>4. CASE job[j].status # "ABSENT" /\ Untraded(j, b)
    BY <1>1, <1>4 DEF Scheduled, Marked, Row, FairRow, Open
<1>5. CASE job[j].status # "ABSENT" /\ ~Untraded(j, b) /\ Retargetable(j, t)
    BY <1>2, <1>5 DEF Scheduled, Asked, Retargetable, Row, FairRow, Open
<1>6. CASE job[j].status # "ABSENT" /\ ~Untraded(j, b) /\ ~Retargetable(j, t)
    BY <1>1, <1>6 DEF Scheduled, FairRow
<1> QED BY <1>3, <1>4, <1>5, <1>6

\* A row with one more attempt.
LEMMA AttemptedRow ==
    ASSUME TypeOK, NEW j \in Jobs,
           NEW s \in {"RETRY", "UNAVAILABLE", "COMPLETED"}
    PROVE  Attempted(j, s) \in Row
<1>1. job[j] \in Row /\ job[j].attempts + 1 \in Nat BY RowTyped
<1> QED BY <1>1 DEF Attempted, Marked, Row

\* _mark_retry opens only rows that were open, and these have no price.
LEMMA RetriedRow ==
    ASSUME TypeOK, Settled, NEW j \in Jobs
    PROVE  Retried(j) \in Row /\ FairRow(j, Retried(j))
<1>1. job[j] \in Row BY RowTyped
<1>2. job[j].attempts \in Nat /\ MaxAttempts \in Nat BY RowTyped, MarketConstants
<1>3. CASE ~IsOpen(j) BY <1>1, <1>3 DEF Retried, FairRow
<1>4. CASE IsOpen(j)
    <2>1. ~Observed(j) BY <1>4 DEF Settled, IsOpen
    <2>2. Retried(j) = Attempted(j, Again(j)) BY <1>4 DEF Retried
    <2>3. Again(j) \in {"RETRY", "UNAVAILABLE"} BY DEF Again
    <2>4. Again(j) = "RETRY" => job[j].attempts + 1 < MaxAttempts BY <1>2 DEF Again
    <2>5. FairRow(j, Retried(j)) BY <1>1, <2>1, <2>2, <2>3, <2>4 DEF FairRow, Attempted, Marked, Open, Row
    <2> QED BY <2>2, <2>3, <2>5, AttemptedRow
<1> QED BY <1>3, <1>4

\* _mark_unavailable opens none.
LEMMA UnavailableRow ==
    ASSUME TypeOK, NEW j \in Jobs
    PROVE  Unavailable(j) \in Row /\ FairRow(j, Unavailable(j))
<1>1. Unavailable(j) \in Row BY AttemptedRow DEF Unavailable
<1>2. job[j] \in Row BY RowTyped
<1> QED BY <1>1, <1>2 DEF Unavailable, Attempted, Marked, FairRow, Open, Row

\* The repair opens rows that have no price, with an attempt less than there are.
LEMMA RepairedRow ==
    ASSUME TypeOK, Settled, NEW j \in Jobs
    PROVE  Repaired(j) \in Row /\ FairRow(j, Repaired(j))
<1>1. job[j] \in Row BY RowTyped
<1>2. job[j].attempts \in Nat /\ MaxAttempts \in Nat /\ MaxAttempts > 0
    BY RowTyped, MarketConstants
<1> DEFINE quota == job[j].error = "429" /\ job[j].status \in {"RETRY", "UNAVAILABLE"}
           less == IF job[j].attempts > 0 THEN job[j].attempts - 1 ELSE 0
<1>3. CASE quota
    <2>1. ~Observed(j) /\ job[j].attempts <= MaxAttempts BY <1>3 DEF Settled
    <2>2. less \in Nat /\ less < MaxAttempts BY <1>2, <2>1
    <2>3. Repaired(j) = [job[j] EXCEPT !.status = "PENDING", !.error = "other",
                                       !.attempts = less]
        BY <1>3 DEF Repaired
    <2> HIDE DEF less
    <2> QED BY <1>1, <2>1, <2>2, <2>3 DEF FairRow, Row, Open
<1>4. CASE ~quota BY <1>1, <1>4 DEF Repaired, Marked, FairRow, Row, Open
<1> QED BY <1>3, <1>4

-----------------------------------------------------------------------------
\* What is common to the steps of a run that add no snapshot and no metric.
LEMMA RunKeeps ==
    ASSUME IInv, NEW p \in Runs, NEW r \in Run, NEW f \in [Jobs -> Row],
           run' = [run EXCEPT ![p] = r], r.found \subseteq run[p].found,
           job' = f, \A j \in Jobs : FairRow(j, f[j]),
           snapshots' = snapshots, metrics' = metrics, UNCHANGED world,
           anchored' \subseteq 1 .. MaxVersion,
           bars' \subseteq Minutes, writer' \in Runs \cup {None},
           manual' \in 0 .. MaxManual, faults' \in 0 .. MaxFaults
    PROVE  IInv'
<1> USE DEF IInv
<1>1. TypeOK'
    <2>1. run' \in [Runs -> Run] BY RunsTyped
    <2> QED BY <2>1 DEF TypeOK, world
<1>2. Settled' BY SettledKept
<1>3. \A q \in Runs : run'[q].found \subseteq run[q].found BY FoundKept
<1>4. FoundGrounded' /\ MetricsGrounded' BY <1>3, GroundKept
<1> QED BY <1>1, <1>2, <1>4

\* The same for a step that leaves the rows alone.
LEMMA RunOnly ==
    ASSUME IInv, NEW p \in Runs, NEW r \in Run,
           run' = [run EXCEPT ![p] = r], r.found \subseteq run[p].found,
           UNCHANGED <<world, job, anchored, snapshots, metrics>>,
           bars' \subseteq Minutes, writer' \in Runs \cup {None},
           manual' \in 0 .. MaxManual, faults' \in 0 .. MaxFaults
    PROVE  IInv'
<1>1. job \in [Jobs -> Row] /\ \A j \in Jobs : FairRow(j, job[j]) BY DEF IInv, TypeOK, FairRow
<1>2. anchored' \subseteq 1 .. MaxVersion BY DEF IInv, TypeOK
<1> QED BY <1>1, <1>2, RunKeeps

\* What TypeOK says of one run, and of the bounds.
LEMMA RunTyped ==
    ASSUME TypeOK, NEW p \in Runs
    PROVE  /\ run[p] \in Run
           /\ bars \subseteq Minutes /\ writer \in Runs \cup {None}
           /\ manual \in 0 .. MaxManual /\ faults \in 0 .. MaxFaults
           /\ version \in 1 .. MaxVersion /\ edition \in DOMAIN Plans
           /\ anchored \subseteq 1 .. MaxVersion
BY DEF TypeOK

\* Both cancellations.
LEMMA CancelKeeps ==
    ASSUME IInv, NEW p \in Runs, NEW from, NEW to \in {"read", "select"},
           CancelSuperseded(p, from, to), manual' \in 0 .. MaxManual
    PROVE  IInv'
<1> DEFINE r == [run[p] EXCEPT !.pc = to]
<1>1. TypeOK BY DEF IInv
<1>2. r \in Run /\ r.found = run[p].found BY <1>1, RunTyped DEF Run
<1>3. run' = [run EXCEPT ![p] = r] BY DEF CancelSuperseded
<1>4. job' = CancelledAll BY DEF CancelSuperseded
<1> QED BY <1>1, <1>2, <1>3, <1>4, RunTyped, CancelledRows, RunKeeps DEF CancelSuperseded

\* schedule_jobs.
LEMMA ScheduleKeeps ==
    ASSUME IInv, NEW p \in Runs, ScheduleJobs(p)
    PROVE  IInv'
<1> DEFINE r == [Idle EXCEPT !.pc = "repair"]
           q == Plans[run[p].plan]
<1>1. TypeOK /\ Settled BY DEF IInv
<1>3. r \in Run /\ r.found \subseteq run[p].found BY AtTyped
<1>4. run' = [run EXCEPT ![p] = r] BY DEF ScheduleJobs
<1>5. q \in Plan
    <2>1. run[p].plan \in DOMAIN Plans BY <1>1, RunTyped DEF Run
    <2> QED BY <2>1, MarketConstants
<1>6. \A w \in DOMAIN q.at : q.at[w] \in Minutes
    <2>1. PICK S \in SUBSET Windows : q.at \in [S -> Minutes] BY <1>5 DEF Plan, Targets
    <2> QED BY <2>1
<1>7. \A j \in Jobs : job'[j] \in Row /\ FairRow(j, job'[j])
    <2> SUFFICES ASSUME NEW j \in Jobs PROVE job'[j] \in Row /\ FairRow(j, job'[j])
        OBVIOUS
    <2>1. CASE q.exact /\ j[1] = run[p].v /\ j[2] \in DOMAIN q.at
        <3> DEFINE b == j[2] \in q.tradable
                   t == q.at[j[2]]
        <3>1. job'[j] = Scheduled(j, t, b) BY <2>1 DEF ScheduleJobs
        <3>2. t \in Minutes BY <1>6, <2>1
        <3>3. b \in BOOLEAN OBVIOUS
        <3> HIDE DEF t, b
        <3> QED BY <1>1, <3>1, <3>2, <3>3, ScheduledRow
    <2>2. CASE ~(q.exact /\ j[1] = run[p].v /\ j[2] \in DOMAIN q.at)
        <3>1. job'[j] = job[j] BY <2>2 DEF ScheduleJobs
        <3> QED BY <1>1, <3>1, RowTyped DEF FairRow
    <2> QED BY <2>1, <2>2
<1>8. job' \in [Jobs -> Row]
    <2>1. job' = [j \in Jobs |-> job'[j]] BY DEF ScheduleJobs
    <2> QED BY <1>7, <2>1
<1>9. /\ UNCHANGED world /\ snapshots' = snapshots /\ metrics' = metrics
      /\ bars' \subseteq Minutes /\ writer' \in Runs \cup {None}
      /\ manual' \in 0 .. MaxManual /\ faults' \in 0 .. MaxFaults
    BY <1>1, RunTyped DEF ScheduleJobs, bounds
<1>10. anchored' \subseteq 1 .. MaxVersion
    <2>1. run[p].v \in 1 .. MaxVersion BY <1>1, RunTyped DEF Run
    <2>2. anchored' = anchored \cup {run[p].v} \/ anchored' = anchored \ {run[p].v}
        BY DEF ScheduleJobs
    <2> QED BY <1>1, <2>1, <2>2, RunTyped
<1> HIDE DEF r, q
<1> QED BY <1>3, <1>4, <1>7, <1>8, <1>9, <1>10, RunKeeps

\* repair_legacy_provider_outcomes.
LEMMA RepairKeeps ==
    ASSUME IInv, NEW p \in Runs, RepairLegacy(p)
    PROVE  IInv'
<1> DEFINE r == [run[p] EXCEPT !.pc = "cancel"]
<1>1. TypeOK /\ Settled BY DEF IInv
<1>2. run' = [run EXCEPT ![p] = r] BY DEF RepairLegacy
<1>3. r \in Run /\ r.found = run[p].found BY <1>1, RunTyped DEF Run
<1>4. \A j \in Jobs : job'[j] \in Row /\ FairRow(j, job'[j])
    BY <1>1, RepairedRow DEF RepairLegacy
<1>5. job' \in [Jobs -> Row]
    <2>1. job' = [j \in Jobs |-> job'[j]] BY DEF RepairLegacy
    <2> QED BY <1>4, <2>1
<1>6. /\ UNCHANGED world /\ snapshots' = snapshots /\ metrics' = metrics
      /\ anchored' \subseteq 1 .. MaxVersion
      /\ bars' \subseteq Minutes /\ writer' \in Runs \cup {None}
      /\ manual' \in 0 .. MaxManual /\ faults' \in 0 .. MaxFaults
    BY <1>1, RunTyped DEF RepairLegacy, bounds
<1> HIDE DEF r
<1> QED BY <1>2, <1>3, <1>4, <1>5, <1>6, RunKeeps

\* ReadEvent, SelectDue.
LEMMA SelectKeeps ==
    ASSUME IInv, NEW p \in Runs, ReadEvent(p) \/ SelectDue(p)
    PROVE  IInv'
<1>1. TypeOK BY DEF IInv
<1>2. /\ UNCHANGED <<world, job, anchored, snapshots, metrics>>
      /\ bars' \subseteq Minutes /\ writer' \in Runs \cup {None}
      /\ manual' \in 0 .. MaxManual /\ faults' \in 0 .. MaxFaults
    BY <1>1, RunTyped DEF ReadEvent, SelectDue, bounds
<1>3. CASE ReadEvent(p)
    <2> DEFINE r == [run[p] EXCEPT !.pc = "schedule", !.v = version, !.plan = edition]
    <2>1. r \in Run /\ r.found = run[p].found BY <1>1, RunTyped DEF Run
    <2>2. run' = [run EXCEPT ![p] = r] BY <1>3 DEF ReadEvent
    <2> HIDE DEF r
    <2> QED BY <1>2, <2>1, <2>2, RunOnly
<1>4. CASE SelectDue(p)
    <2> DEFINE due == [w \in DueWindows |-> job[<<version, w>>].at]
               look == [Idle EXCEPT !.pc = "look", !.v = version, !.left = MaxRequests,
                                    !.rows = due]
               r == IF DueWindows = {} THEN [Idle EXCEPT !.pc = "metrics"] ELSE look
    <2>1. due \in Targets
        <3>1. \A w \in DueWindows : w \in Windows /\ <<version, w>> \in Jobs
            BY <1>1, RunTyped DEF DueWindows, Jobs
        <3>2. \A w \in DueWindows : job[<<version, w>>].at \in Minutes
            BY <1>1, <3>1, RowTyped DEF Row
        <3>3. due \in [DueWindows -> Minutes] BY <3>2
        <3> QED BY <3>1, <3>3 DEF Targets
    <2>3. run' = [run EXCEPT ![p] = r] BY <1>4 DEF SelectDue
    <2>4. MaxRequests \in 0 .. MaxRequests BY MarketConstants
    <2> HIDE DEF due
    <2>2. look \in Run /\ look.found = {}
        BY <1>1, <2>1, <2>4, IdleTyped, RunTyped DEF Idle, Run
    <2> HIDE DEF look
    <2>5. r \in Run /\ r.found \subseteq run[p].found BY <2>2, AtTyped
    <2> HIDE DEF r
    <2> QED BY <1>2, <2>3, <2>5, RunOnly
<1> QED BY <1>3, <1>4

\* The lookups that leave the rows alone.
LEMMA LookKeeps ==
    ASSUME IInv, NEW p \in Runs, NEW w \in Windows,
           UseCache(p, w) \/ Defer(p, w) \/ RateLimited(p, w) \/ Fetched(p, w)
    PROVE  IInv'
<1> DEFINE left == Left(p, w)
           ready == Ready(p, w)
<1>1. TypeOK BY DEF IInv
<1>2. w \in DOMAIN run[p].rows BY DEF UseCache, Defer, RateLimited, Fetched, MayCall, Looking
<1>3. left \in Targets /\ ready \in Targets /\ run[p].rows[w] \in Minutes
    BY <1>1, <1>2, LeftTyped, ReadyTyped
<1>4. /\ UNCHANGED <<world, job, anchored, snapshots, metrics>>
      /\ bars' \subseteq Minutes /\ writer' \in Runs \cup {None}
      /\ manual' \in 0 .. MaxManual /\ faults' \in 0 .. MaxFaults
    BY <1>1, RunTyped DEF UseCache, Defer, RateLimited, Fetched, bounds
<1>5. MaxRequests \in Nat BY MarketConstants
<1>6. CASE UseCache(p, w)
    <2> DEFINE r == [run[p] EXCEPT !.rows = left, !.ready = ready]
    <2>1. run' = [run EXCEPT ![p] = r] BY <1>6 DEF UseCache
    <2> HIDE DEF left, ready
    <2>2. r \in Run /\ r.found = run[p].found BY <1>1, <1>3, RunTyped DEF Run
    <2> HIDE DEF r
    <2> QED BY <1>4, <2>1, <2>2, RunOnly
<1>7. CASE Defer(p, w)
    <2> DEFINE r == [run[p] EXCEPT !.rows = left]
    <2>1. run' = [run EXCEPT ![p] = r] BY <1>7 DEF Defer
    <2> HIDE DEF left
    <2>2. r \in Run /\ r.found = run[p].found BY <1>1, <1>3, RunTyped DEF Run
    <2> HIDE DEF r
    <2> QED BY <1>4, <2>1, <2>2, RunOnly
<1>8. CASE RateLimited(p, w)
    <2> DEFINE r == [run[p] EXCEPT !.left = 0, !.rows = left]
    <2>1. run' = [run EXCEPT ![p] = r] BY <1>8 DEF RateLimited
    <2>2. 0 \in 0 .. MaxRequests BY <1>5
    <2> HIDE DEF left
    <2>3. r \in Run /\ r.found = run[p].found BY <1>1, <1>3, <2>2, RunTyped DEF Run
    <2> HIDE DEF r
    <2> QED BY <1>4, <2>1, <2>3, RunOnly
<1>9. CASE Fetched(p, w)
    <2> DEFINE bar == run[p].rows[w]
               r == [run[p] EXCEPT !.left = run[p].left - 1, !.staged = run[p].staged \cup {bar},
                                   !.rows = left, !.ready = ready]
    <2>1. run' = [run EXCEPT ![p] = r] BY <1>9 DEF Fetched
    <2>2. run[p].left - 1 \in 0 .. MaxRequests
        <3>1. run[p].left \in 0 .. MaxRequests BY <1>1, RunTyped DEF Run
        <3>2. run[p].left > 0 BY <1>9 DEF Fetched, MayCall
        <3> QED BY <1>5, <3>1, <3>2
    <2> HIDE DEF left, ready, bar
    <2>3. bar \in Minutes BY <1>3 DEF bar
    <2>4. r \in Run /\ r.found = run[p].found BY <1>1, <1>3, <2>2, <2>3, RunTyped DEF Run
    <2> HIDE DEF r
    <2> QED BY <1>4, <2>1, <2>4, RunOnly
<1> QED BY <1>6, <1>7, <1>8, <1>9

\* A provider that refuses, for each of the two reasons.
LEMMA RefusedKeeps ==
    ASSUME IInv, NEW p \in Runs, NEW w \in Windows, Refused(p, w)
    PROVE  IInv'
<1> DEFINE left == Left(p, w)
           group == {<<run[p].v, x>> : x \in Group(p, w)}
           r == [run[p] EXCEPT !.left = run[p].left - 1, !.staged = {}, !.rows = left]
<1>1. TypeOK /\ Settled BY DEF IInv
<1>2. run' = [run EXCEPT ![p] = r] BY DEF Refused
<1>3. r \in Run /\ r.found = run[p].found
    <2>1. left \in Targets BY <1>1, LeftTyped
    <2>2. run[p].left - 1 \in 0 .. MaxRequests
        <3>1. run[p].left \in 0 .. MaxRequests BY <1>1, RunTyped DEF Run
        <3>2. run[p].left > 0 BY DEF Refused, MayCall
        <3> QED BY <3>1, <3>2, MarketConstants
    <2> HIDE DEF left
    <2> QED BY <1>1, <2>1, <2>2, RunTyped DEF Run
<1>4. \E f \in [Jobs -> Row] : job' = f /\ \A j \in Jobs : FairRow(j, f[j])
    <2>1. CASE job' = [j \in Jobs |-> IF j \in group THEN Unavailable(j) ELSE job[j]]
        <3>1. \A j \in Jobs : job'[j] \in Row /\ FairRow(j, job'[j])
            BY <1>1, <2>1, UnavailableRow, RowTyped DEF FairRow
        <3>2. job' \in [Jobs -> Row] BY <2>1, <3>1
        <3> QED BY <3>1, <3>2
    <2>2. CASE job' = [j \in Jobs |-> IF j \in group THEN Retried(j) ELSE job[j]]
        <3>1. \A j \in Jobs : job'[j] \in Row /\ FairRow(j, job'[j])
            BY <1>1, <2>2, RetriedRow, RowTyped DEF FairRow
        <3>2. job' \in [Jobs -> Row] BY <2>2, <3>1
        <3> QED BY <3>1, <3>2
    <2> QED BY <2>1, <2>2 DEF Refused
<1>5. bars' \subseteq Minutes /\ writer' \in Runs \cup {None}
    BY <1>1, RunTyped DEF Refused, Commit, Run
<1>6. /\ UNCHANGED world /\ snapshots' = snapshots /\ metrics' = metrics
      /\ anchored' \subseteq 1 .. MaxVersion
      /\ manual' \in 0 .. MaxManual /\ faults' \in 0 .. MaxFaults
    BY <1>1, RunTyped DEF Refused, bounds
<1> HIDE DEF r
<1> QED BY <1>2, <1>3, <1>4, <1>5, <1>6, RunKeeps

\* A symbol that is refused.
LEMMA SymbolKeeps ==
    ASSUME IInv, NEW p \in Runs, SymbolRefused(p)
    PROVE  IInv'
<1> DEFINE r == [Idle EXCEPT !.pc = "metrics"]
<1>1. TypeOK /\ Settled BY DEF IInv
<1>2. run' = [run EXCEPT ![p] = r] BY DEF SymbolRefused
<1>3. r \in Run /\ r.found \subseteq run[p].found BY AtTyped
<1>4. \A j \in Jobs : job'[j] \in Row /\ FairRow(j, job'[j])
    BY <1>1, RetriedRow, RowTyped DEF SymbolRefused, FairRow
<1>5. job' \in [Jobs -> Row]
    <2>1. job' = [j \in Jobs |-> job'[j]] BY DEF SymbolRefused
    <2> QED BY <1>4, <2>1
<1>6. /\ UNCHANGED world /\ snapshots' = snapshots /\ metrics' = metrics
      /\ bars' \subseteq Minutes /\ writer' \in Runs \cup {None}
      /\ anchored' \subseteq 1 .. MaxVersion
      /\ manual' \in 0 .. MaxManual /\ faults' \in 0 .. MaxFaults
    BY <1>1, RunTyped DEF SymbolRefused, bounds
<1> HIDE DEF r
<1> QED BY <1>2, <1>3, <1>4, <1>5, <1>6, RunKeeps

\* The end of the lookup commits what was stored.
LEMMA EndKeeps ==
    ASSUME IInv, NEW p \in Runs, EndLookup(p)
    PROVE  IInv'
<1> DEFINE persist == [Idle EXCEPT !.pc = "persist", !.v = run[p].v, !.ready = run[p].ready]
           r == IF run[p].ready = Nowhere THEN [Idle EXCEPT !.pc = "metrics"] ELSE persist
<1>1. TypeOK BY DEF IInv
<1>2. run' = [run EXCEPT ![p] = r] BY DEF EndLookup
<1>3. persist \in Run /\ persist.found = {} BY <1>1, IdleTyped, RunTyped DEF Idle, Run
<1>4. /\ UNCHANGED <<world, job, anchored, snapshots, metrics>>
      /\ bars' \subseteq Minutes /\ writer' \in Runs \cup {None}
      /\ manual' \in 0 .. MaxManual /\ faults' \in 0 .. MaxFaults
    BY <1>1, RunTyped DEF EndLookup, Commit, Run, bounds
<1> HIDE DEF persist
<1>5. r \in Run /\ r.found \subseteq run[p].found BY <1>3, AtTyped
<1> HIDE DEF r
<1> QED BY <1>2, <1>4, <1>5, RunOnly

\* Stored prices complete their jobs, and ground whatever was grounded.
LEMMA PersistKeeps ==
    ASSUME IInv, NEW p \in Runs, PersistQuotes(p)
    PROVE  IInv'
<1> DEFINE ready == run[p].ready
           answered == {<<run[p].v, w>> : w \in DOMAIN ready}
           r == [Idle EXCEPT !.pc = "metrics"]
<1>1. TypeOK /\ Settled /\ FoundGrounded /\ MetricsGrounded BY DEF IInv
<1>2. run' = [run EXCEPT ![p] = r] BY DEF PersistQuotes
<1>3. r \in Run /\ r.found \subseteq run[p].found BY AtTyped
<1>4. PICK S \in SUBSET Windows : ready \in [S -> Minutes]
    BY <1>1, RunTyped DEF Run, Targets
<1>5. answered \subseteq Jobs /\ \A j \in answered : ready[j[2]] \in Minutes
    BY <1>1, <1>4, RunTyped DEF Run, Jobs
<1>6. \A j \in Jobs : job'[j] = IF j \in answered THEN Attempted(j, "COMPLETED") ELSE job[j]
    BY DEF PersistQuotes
<1>7. snapshots' = snapshots \cup {<<j, ready[j[2]]>> : j \in answered} BY DEF PersistQuotes
<1>8. \A j \in Jobs : job'[j] \in Row BY <1>1, <1>6, AttemptedRow, RowTyped
<1>9. job' \in [Jobs -> Row]
    <2>1. job' = [j \in Jobs |-> job'[j]] BY DEF PersistQuotes
    <2> QED BY <1>8, <2>1
<1>10. TypeOK'
    <2>1. run' \in [Runs -> Run] BY <1>1, <1>2, <1>3, RunsTyped
    <2>2. snapshots' \subseteq Jobs \X Minutes BY <1>1, <1>5, <1>7 DEF TypeOK
    <2> QED BY <1>1, <1>9, <2>1, <2>2 DEF TypeOK, PersistQuotes, world, bounds
<1>11. Settled'
    <2> SUFFICES ASSUME NEW j \in Jobs
                 PROVE  /\ IsOpen(j)' => job'[j].attempts < MaxAttempts
                        /\ job'[j].status = "COMPLETED" => Observed(j)'
                        /\ Observed(j)' =>
                              job'[j].status \notin Open \cup {"ABSENT"} /\ job'[j].error # "429"
                        /\ job'[j].error = "429" => job'[j].attempts <= MaxAttempts
        BY DEF Settled
    <2> HIDE DEF answered, ready
    <2>1. CASE j \in answered
        <3>1. job'[j].status = "COMPLETED" /\ job'[j].error = "other"
            <4>1. job'[j] = Attempted(j, "COMPLETED") BY <1>6, <2>1
            <4>2. job[j] \in Row BY <1>1, RowTyped
            <4> QED BY <4>1, <4>2 DEF Attempted, Marked, Row
        <3>2. <<j, ready[j[2]]>> \in snapshots' BY <1>7, <2>1
        <3>3. Observed(j)' BY <1>5, <2>1, <3>2 DEF Observed
        <3> QED BY <3>1, <3>3 DEF IsOpen, Open
    <2>2. CASE j \notin answered
        <3>1. job'[j] = job[j] BY <1>6, <2>2
        <3>2. \A m \in Minutes : <<j, m>> \in snapshots' <=> <<j, m>> \in snapshots
            BY <1>7, <2>2
        <3>3. Observed(j)' <=> Observed(j) BY <3>2 DEF Observed
        <3> QED BY <1>1, <3>1, <3>3 DEF Settled, IsOpen
    <2> QED BY <2>1, <2>2
<1>12. \A q \in Runs : run'[q].found \subseteq run[q].found
    <2> HIDE DEF r
    <2> QED BY <1>1, <1>2, <1>3, FoundKept
<1>13. metrics' = metrics /\ snapshots \subseteq snapshots' BY <1>7 DEF PersistQuotes
<1>14. FoundGrounded' /\ MetricsGrounded' BY <1>1, <1>12, <1>13, GroundKept
<1> QED BY <1>10, <1>11, <1>14 DEF IInv

-----------------------------------------------------------------------------
\* The rows stay fair as long as neither they nor the snapshots change.
LEMMA SettledStill ==
    ASSUME Settled, UNCHANGED <<job, snapshots>>
    PROVE  Settled'
BY DEF Settled, Observed, IsOpen

\* The returns a run finds are on record.
LEMMA ReadKeeps ==
    ASSUME IInv, NEW p \in Runs, ReadSnapshots(p)
    PROVE  IInv'
<1> DEFINE r == IF Returns = {} THEN Idle ELSE [Idle EXCEPT !.pc = "record", !.found = Returns]
<1>1. TypeOK /\ Settled /\ FoundGrounded /\ MetricsGrounded BY DEF IInv
<1>2. run' = [run EXCEPT ![p] = r] BY DEF ReadSnapshots
<1>3. Returns \subseteq Metric /\ \A m \in Returns : Grounded(m)
    BY DEF Returns, SameVersion, Grounded
<1>4. r \in Run /\ r.found \subseteq Returns
    <2>1. CASE Returns = {} BY <2>1, IdleTyped DEF Idle
    <2>2. CASE Returns # {} BY <1>3, <2>2, IdleTyped DEF Idle, Run
    <2> QED BY <2>1, <2>2
<1> HIDE DEF r
<1>5. TypeOK'
    <2>1. run' \in [Runs -> Run] BY <1>1, <1>2, <1>4, RunsTyped
    <2> QED BY <1>1, <2>1 DEF TypeOK, ReadSnapshots, world, bounds
<1>6. Settled' BY <1>1, SettledStill DEF ReadSnapshots
<1>7. FoundGrounded'
    <2>1. \A q \in Runs : run'[q] = IF q = p THEN r ELSE run[q] BY <1>1, <1>2 DEF TypeOK
    <2>2. \A q \in Runs : \A m \in run'[q].found : Grounded(m)
        BY <1>1, <1>3, <1>4, <2>1 DEF FoundGrounded
    <2> QED BY <2>2 DEF FoundGrounded, Grounded, ReadSnapshots
<1>8. MetricsGrounded' BY <1>1 DEF MetricsGrounded, ReadSnapshots
<1> QED BY <1>5, <1>6, <1>7, <1>8 DEF IInv

\* So are the ones it records.
LEMMA RecordKeeps ==
    ASSUME IInv, NEW p \in Runs, RecordMetrics(p)
    PROVE  IInv'
<1>1. TypeOK /\ Settled /\ FoundGrounded /\ MetricsGrounded BY DEF IInv
<1>2. run' = [run EXCEPT ![p] = Idle] BY DEF RecordMetrics
<1>3. metrics' \subseteq metrics \cup run[p].found BY DEF RecordMetrics
<1>4. snapshots' = snapshots BY DEF RecordMetrics
<1>5. \A q \in Runs : run'[q].found \subseteq run[q].found
    <2>1. Idle.found = {} BY DEF Idle
    <2> QED BY <1>1, <1>2, <2>1 DEF TypeOK
<1>6. TypeOK'
    <2>1. run' \in [Runs -> Run] BY <1>1, <1>2, IdleTyped, RunsTyped
    <2>2. run[p].found \subseteq Metric BY <1>1, RunTyped DEF Run
    <2>3. metrics' \subseteq Metric BY <1>1, <1>3, <2>2 DEF TypeOK
    <2> QED BY <1>1, <2>1, <2>3 DEF TypeOK, RecordMetrics, world, bounds
<1>7. Settled' BY <1>1, SettledStill DEF RecordMetrics
<1>8. FoundGrounded' BY <1>1, <1>4, <1>5 DEF FoundGrounded, Grounded
<1>9. MetricsGrounded' BY <1>1, <1>3, <1>4 DEF MetricsGrounded, FoundGrounded, Grounded
<1> QED BY <1>6, <1>7, <1>8, <1>9 DEF IInv

\* A run that dies takes with it what it had found.
LEMMA CrashKeeps ==
    ASSUME IInv, NEW p \in Runs, Crash(p)
    PROVE  IInv'
<1>1. TypeOK BY DEF IInv
<1>2. Idle \in Run /\ Idle.found \subseteq run[p].found BY IdleTyped DEF Idle
<1>3. /\ run' = [run EXCEPT ![p] = Idle] /\ UNCHANGED <<world, job, anchored, snapshots, metrics>>
      /\ bars' \subseteq Minutes /\ writer' \in Runs \cup {None}
      /\ manual' \in 0 .. MaxManual
    BY <1>1, RunTyped DEF Crash, Dies
<1>4. faults' \in 0 .. MaxFaults
    BY <1>1, RunTyped, MarketConstants DEF Crash, Dies
<1> QED BY <1>2, <1>3, <1>4, RunOnly

\* What happens around the runs touches no row and no price.
LEMMA WorldKeeps ==
    ASSUME IInv, Revise \/ MovePlan \/ Tick
    PROVE  IInv'
<1>1. TypeOK /\ Settled /\ FoundGrounded /\ MetricsGrounded BY DEF IInv
<1>2. UNCHANGED <<job, anchored, snapshots, bars, metrics, writer, run, manual, faults>>
    BY DEF Revise, MovePlan, Tick, bounds
<1>3. version' \in 1 .. MaxVersion
    BY <1>1, RunTyped, MarketConstants DEF Revise, MovePlan, Tick, TypeOK
<1>4. edition' \in DOMAIN Plans
    <2>1. CASE MovePlan
        <3>1. edition' \in 2 .. Len(Plans) /\ DOMAIN Plans = 1 .. Len(Plans)
            BY <2>1, MarketConstants DEF MovePlan
        <3> QED BY <3>1
    <2>2. CASE Revise \/ Tick BY <1>1, <2>2 DEF Revise, Tick, TypeOK
    <2> QED BY <2>1, <2>2
<1>5. now' \in Minutes
    BY <1>1, MarketConstants DEF Revise, MovePlan, Tick, TypeOK, Minutes
<1>6. TypeOK' BY <1>1, <1>2, <1>3, <1>4, <1>5 DEF TypeOK
<1>7. Settled' BY <1>1, <1>2, SettledStill
<1>8. FoundGrounded' BY <1>1, <1>2 DEF FoundGrounded, Grounded
<1>9. MetricsGrounded' BY <1>1, <1>2 DEF MetricsGrounded
<1> QED BY <1>6, <1>7, <1>8, <1>9 DEF IInv

\* One case for each action.
LEMMA StepKeeps == IInv /\ [Next]_vars => IInv'
<1> SUFFICES ASSUME IInv, [Next]_vars PROVE IInv' OBVIOUS
<1>1. ASSUME NEW p \in Runs, Begin(p) PROVE IInv'
    <2>1. manual' \in 0 .. MaxManual
        BY <1>1, MarketConstants DEF Begin, IInv, TypeOK
    <2> QED BY <1>1, <2>1, CancelKeeps DEF Begin
<1>2. ASSUME NEW p \in Runs, CancelAgain(p) PROVE IInv'
    <2>1. manual' \in 0 .. MaxManual BY <1>2 DEF CancelAgain, IInv, TypeOK
    <2> QED BY <1>2, <2>1, CancelKeeps DEF CancelAgain
<1>3. ASSUME NEW p \in Runs, ReadEvent(p) PROVE IInv' BY <1>3, SelectKeeps
<1>4. ASSUME NEW p \in Runs, ScheduleJobs(p) PROVE IInv' BY <1>4, ScheduleKeeps
<1>5. ASSUME NEW p \in Runs, SelectDue(p) PROVE IInv' BY <1>5, SelectKeeps
<1>6. ASSUME NEW p \in Runs, NEW w \in Windows,
             UseCache(p, w) \/ Defer(p, w) \/ Fetched(p, w) \/ RateLimited(p, w)
      PROVE IInv' BY <1>6, LookKeeps
<1>7. ASSUME NEW p \in Runs, NEW w \in Windows, Refused(p, w) PROVE IInv'
    BY <1>7, RefusedKeeps
<1>8. ASSUME NEW p \in Runs, SymbolRefused(p) PROVE IInv' BY <1>8, SymbolKeeps
<1>9. ASSUME NEW p \in Runs, EndLookup(p) PROVE IInv' BY <1>9, EndKeeps
<1>10. ASSUME NEW p \in Runs, PersistQuotes(p) PROVE IInv' BY <1>10, PersistKeeps
<1>11. ASSUME NEW p \in Runs, ReadSnapshots(p) PROVE IInv' BY <1>11, ReadKeeps
<1>12. ASSUME NEW p \in Runs, RecordMetrics(p) PROVE IInv' BY <1>12, RecordKeeps
<1>13. ASSUME NEW p \in Runs, Crash(p) PROVE IInv' BY <1>13, CrashKeeps
<1>14. CASE Revise \/ MovePlan \/ Tick BY <1>14, WorldKeeps
<1>16. ASSUME NEW p \in Runs, RepairLegacy(p) PROVE IInv' BY <1>16, RepairKeeps
<1>15. CASE UNCHANGED vars
    <2>1. TypeOK' BY <1>15 DEF IInv, TypeOK, vars, world, bounds
    <2>2. Settled' BY <1>15, SettledStill DEF IInv, vars
    <2>3. FoundGrounded' BY <1>15 DEF IInv, FoundGrounded, Grounded, vars
    <2>4. MetricsGrounded' BY <1>15 DEF IInv, MetricsGrounded, vars
    <2> QED BY <2>1, <2>2, <2>3, <2>4 DEF IInv
<1> QED
    BY <1>1, <1>2, <1>3, <1>4, <1>5, <1>6, <1>7, <1>8, <1>9, <1>10, <1>11, <1>12, <1>13,
       <1>14, <1>15, <1>16 DEF Next, RunStep

\* The first rows: none, or what former releases have left.
LEMMA FirstRows ==
    ASSUME Init
    PROVE  /\ job = [j \in Jobs |-> job[j]]
           /\ \A j \in Jobs : job[j] = Unwritten \/ job[j] \in LeftOver
<1>1. PICK table \in Formers :
          job = [j \in Jobs |-> IF j[1] = 1 THEN table[j[2]] ELSE Unwritten]
    BY DEF Init
<1>2. \A w \in Windows : table[w] \in LeftOver BY MarketConstants
<1>3. \A j \in Jobs : j[2] \in Windows BY DEF Jobs
<1> QED BY <1>1, <1>2, <1>3

\* The first state: no job has a price, and no run has begun.
LEMMA InitHolds == Init => IInv
<1> SUFFICES ASSUME Init PROVE IInv OBVIOUS
<1>1. TypeOK
    <2>1. Unwritten \in Row BY MarketConstants DEF Unwritten, Row, Minutes
    <2>2. job \in [Jobs -> Row] BY <2>1, FirstRows DEF LeftOver
    <2>3. run \in [Runs -> Run] BY IdleTyped DEF Init
    <2>4. version \in 1 .. MaxVersion /\ edition \in DOMAIN Plans BY MarketConstants DEF Init
    <2>5. now \in Minutes /\ manual \in 0 .. MaxManual /\ faults \in 0 .. MaxFaults
        BY MarketConstants DEF Init, Minutes
    <2> QED BY <2>2, <2>3, <2>4, <2>5 DEF TypeOK, Init
<1>2. Settled
    <2>1. \A j \in Jobs : ~Observed(j) BY DEF Init, Observed
    <2>2. \A j \in Jobs : job[j] = Unwritten \/ job[j] \in LeftOver BY FirstRows
    <2> QED BY <2>1, <2>2 DEF Settled, IsOpen, Open, Unwritten, LeftOver
<1>3. FoundGrounded BY DEF Init, FoundGrounded, Idle
<1>4. MetricsGrounded BY DEF Init, MetricsGrounded
<1> QED BY <1>1, <1>2, <1>3, <1>4 DEF IInv

-----------------------------------------------------------------------------
\* The inductive invariant holds in every behaviour.
THEOREM Inductive == Spec => []IInv
BY InitHolds, StepKeeps, PTL DEF Spec

\* The variables keep their types.
THEOREM TypeCorrect == Spec => []TypeOK
<1>1. IInv => TypeOK BY DEF IInv
<1> QED BY <1>1, Inductive, PTL

\* What may still be asked for has no price and attempts left, and what is
\* completed has a price.
THEOREM Outcomes == Spec => []OutcomeRecorded
<1>1. IInv => OutcomeRecorded
    BY DEF IInv, Settled, OutcomeRecorded, IsOpen, Open
<1> QED BY <1>1, Inductive, PTL

\* Every return is between two prices of one version, both on record.
THEOREM GroundedReturns == Spec => []MetricsGrounded
<1>1. IInv => MetricsGrounded BY DEF IInv
<1> QED BY <1>1, Inductive, PTL

\* A change of a row that opens it only where that is right.
ShutRow(j, row) ==
    row.status \in Open =>
        /\ job[j].status \notin {"COMPLETED", "CANCELLED"}
        /\ job[j].status = "UNAVAILABLE" =>
              /\ ~Observed(j)
              /\ \/ /\ j[2] = Initial
                    /\ row.at # job[j].at \/ row.contract # job[j].contract
                 \/ job[j].error = "429" /\ row.error # "429"

\* Every step's changes are of this kind.
LEMMA StepShuts ==
    ASSUME IInv, [Next]_vars, NEW j \in Jobs
    PROVE  ShutRow(j, job'[j])
<1>1. job[j] \in Row BY RowTyped DEF IInv
<1>2. ShutRow(j, job[j]) BY DEF ShutRow, Open
<1>3. CASE job' = job BY <1>2, <1>3
<1>4. CASE job' = CancelledAll BY <1>1, <1>2, <1>4 DEF CancelledAll, Marked, ShutRow, Open, Row
<1>5. ASSUME NEW p \in Runs, ScheduleJobs(p) PROVE ShutRow(j, job'[j])
    <2> DEFINE q == Plans[run[p].plan]
               t == q.at[j[2]]
               b == j[2] \in q.tradable
    <2>1. job'[j] = job[j] \/ job'[j] = Scheduled(j, t, b) BY <1>5 DEF ScheduleJobs
    <2> HIDE DEF t, b
    <2>2. ShutRow(j, Scheduled(j, t, b))
        <3>1. CASE job[j].status = "ABSENT" BY <3>1 DEF Scheduled, ShutRow
        <3>2. CASE job[j].status # "ABSENT" /\ Untraded(j, b)
            BY <1>1, <3>2 DEF Scheduled, Marked, ShutRow, Open, Row
        <3>3. CASE job[j].status # "ABSENT" /\ ~Untraded(j, b) /\ Retargetable(j, t)
            BY <3>3 DEF Scheduled, Retargetable, Asked, ShutRow, Open
        <3>4. CASE job[j].status # "ABSENT" /\ ~Untraded(j, b) /\ ~Retargetable(j, t)
            BY <1>2, <3>4 DEF Scheduled
        <3> QED BY <3>1, <3>2, <3>3, <3>4
    <2> QED BY <1>2, <2>1, <2>2
<1>6. ShutRow(j, Retried(j)) BY <1>2 DEF Retried, IsOpen, Open, ShutRow
<1>7. ShutRow(j, Unavailable(j)) BY <1>1 DEF Unavailable, Attempted, Marked, ShutRow, Open, Row
<1>8. ShutRow(j, Attempted(j, "COMPLETED")) BY <1>1 DEF Attempted, Marked, ShutRow, Open, Row
<1>9. ASSUME NEW p \in Runs, NEW w \in Windows, Refused(p, w) PROVE ShutRow(j, job'[j])
    <2>1. job'[j] \in {job[j], Unavailable(j), Retried(j)} BY <1>9 DEF Refused
    <2> QED BY <1>2, <1>6, <1>7, <2>1
<1>10. ASSUME NEW p \in Runs, SymbolRefused(p) PROVE ShutRow(j, job'[j])
    <2>1. job'[j] \in {job[j], Retried(j)} BY <1>10 DEF SymbolRefused
    <2> QED BY <1>2, <1>6, <2>1
<1>11. ASSUME NEW p \in Runs, PersistQuotes(p) PROVE ShutRow(j, job'[j])
    <2>1. job'[j] \in {job[j], Attempted(j, "COMPLETED")} BY <1>11 DEF PersistQuotes
    <2> QED BY <1>2, <1>8, <2>1
<1>12. ASSUME NEW p \in Runs, Begin(p) \/ CancelAgain(p) PROVE ShutRow(j, job'[j])
    BY <1>4, <1>12 DEF Begin, CancelAgain, CancelSuperseded
<1>13. ASSUME NEW p \in Runs,
              \/ ReadEvent(p) \/ SelectDue(p) \/ EndLookup(p) \/ ReadSnapshots(p)
              \/ RecordMetrics(p) \/ Crash(p)
       PROVE ShutRow(j, job'[j])
    BY <1>3, <1>13 DEF ReadEvent, SelectDue, EndLookup, ReadSnapshots, RecordMetrics, Crash,
       Dies
<1>14. ASSUME NEW p \in Runs, NEW w \in Windows,
              UseCache(p, w) \/ Defer(p, w) \/ Fetched(p, w) \/ RateLimited(p, w)
       PROVE ShutRow(j, job'[j])
    BY <1>3, <1>14 DEF UseCache, Defer, Fetched, RateLimited
<1>15. CASE Revise \/ MovePlan \/ Tick \/ UNCHANGED vars
    BY <1>3, <1>15 DEF Revise, MovePlan, Tick, vars
<1>16. ASSUME NEW p \in Runs, RepairLegacy(p) PROVE ShutRow(j, job'[j])
    <2>1. job'[j] = Repaired(j) BY <1>16 DEF RepairLegacy
    <2>2. job[j].error = "429" => ~Observed(j) BY DEF IInv, Settled
    <2> QED BY <1>1, <1>2, <2>1, <2>2 DEF Repaired, Marked, ShutRow, Open, Row
<1> QED
    BY <1>5, <1>9, <1>10, <1>11, <1>12, <1>13, <1>14, <1>15, <1>16 DEF Next, RunStep

\* No finished job is asked for again, and an unavailable one only without a
\* price: as a baseline that is moved or has another contract, or when a former
\* release's spent quota is repaired.
THEOREM Closed == Spec => ClosedStaysClosed
<1>1. IInv /\ [Next]_vars =>
        [\A j \in Jobs : job'[j].status \in Open =>
          /\ job[j].status \notin {"COMPLETED", "CANCELLED"}
          /\ job[j].status = "UNAVAILABLE" =>
                ~Observed(j) /\ (Moved(j) \/ (job[j].error = "429" /\ job'[j].error # "429"))]_vars
    BY StepShuts DEF ShutRow, Moved
<1> QED BY <1>1, Inductive, PTL DEF Spec, ClosedStaysClosed
=============================================================================
