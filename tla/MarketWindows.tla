---------------------------- MODULE MarketWindows ----------------------------
(***************************************************************************)
(* Price observations after an event (scripts/observe_live_event_markets). *)
(*                                                                         *)
(* Each version of an event has one job per observation window; a job asks *)
(* for the price of one exact minute.  A run of the market cycle schedules *)
(* the jobs, looks the due minutes up in the table of bars or asks the     *)
(* provider, stores a snapshot of each answer and derives the returns.     *)
(* The timer's runs exclude each other by a file lock, a run started by    *)
(* hand takes none.  All runs write one SQLite ledger: a transaction opens *)
(* with its first write and keeps every other writer out until it commits, *)
(* which a run that has stored a bar does only after further calls.        *)
(*                                                                         *)
(* The module follows one event with one asset.  Former releases have left *)
(* jobs with another window contract, and with errors that say HTTP 429 or *)
(* 404, which this release writes no more but repairs.  MISSED_WINDOW,     *)
(* left by providers of latest prices, is not used by the exact providers. *)
(***************************************************************************)
EXTENDS Naturals, Sequences, FiniteSets

CONSTANTS
    Timer,          \* the process that the timer starts
    Manual,         \* processes that somebody starts by hand
    Windows,        \* the observation windows
    Rank,           \* [Windows -> Nat], the order they are asked for
    Plans,          \* what anchor and calendar say of the windows, at first and later
    Price,          \* [Minutes -> Prices], what the provider says of a minute
    Formers,        \* tables of rows that former releases may have left
    MaxVersion,     \* bound on the versions of the event
    MaxRequests,    \* provider calls of one run
    MaxAttempts,    \* MAX_MARKET_ATTEMPTS
    MaxTime,        \* bound on the clock, in minutes
    MaxManual,      \* bound on runs started by hand
    MaxFaults,      \* bound on runs that die
    None

Runs == Manual \cup {Timer}
Jobs == (1 .. MaxVersion) \X Windows
Minutes == 0 .. MaxTime
Initial == "initial"

\* A plan says whether the event's anchor is EXACT, gives windows a minute, and
\* says which minutes are traded.
Targets == UNION {[S -> Minutes] : S \in SUBSET Windows}
Plan == [exact: BOOLEAN, at: Targets, tradable: SUBSET Windows]

\* Nothing checks that an answer's price is a number, or above zero.
Prices == {"positive", "zero", "no number"}

\* A row with its link's window_contract_version, and of last_error whether it
\* is a former release's HTTP 429 or 404.
Row == [status: {"ABSENT", "PENDING", "RETRY", "UNAVAILABLE", "COMPLETED",
                 "CANCELLED"},
        attempts: Nat, at: Minutes, contract: {"current", "former"},
        error: {"other", "429", "404"}]
Open == {"PENDING", "RETRY"}

\* A former release has stored no price of these rows, and had the same limit.
LeftOver == {row \in Row : /\ row.status # "COMPLETED" /\ row.attempts <= MaxAttempts
                           /\ row.status \in Open => row.attempts < MaxAttempts}

ASSUME MarketConstants ==
    /\ {MaxVersion, MaxRequests, MaxAttempts, MaxTime, MaxManual, MaxFaults} \subseteq Nat
    /\ MaxVersion > 0 /\ MaxAttempts > 0 /\ MaxRequests > 0
    /\ Plans \in Seq(Plan) /\ Plans # <<>>
    /\ Initial \in Windows /\ Rank \in [Windows -> Nat]
    /\ Price \in [Minutes -> Prices]
    /\ \A table \in Formers : DOMAIN table = Windows /\ \A w \in Windows : table[w] \in LeftOver
    /\ None \notin Runs

VARIABLES
    version,    \* current_version of the event
    edition,    \* the plan that holds now
    job,        \* market_jobs and their links
    anchored,   \* the versions whose market_event_anchors row is EXACT
    snapshots,  \* market_snapshots: job and minute of each
    bars,       \* market_bars that are committed: their minutes
    metrics,    \* event_market_metrics: minutes of baseline and horizon
    writer,     \* the run whose transaction holds the ledger's write lock
    run,        \* each run
    now,
    manual,
    faults

bounds == <<manual, faults>>
world == <<version, edition, now>>
vars == <<world, job, anchored, snapshots, bars, metrics, writer, run, bounds>>

Unwritten == [status |-> "ABSENT", attempts |-> 0, at |-> 0,
              contract |-> "current", error |-> "other"]
Nowhere == [w \in {} |-> 0]
Idle == [pc |-> "idle", v |-> 1, plan |-> 1, rows |-> Nowhere, ready |-> Nowhere,
         left |-> 0, staged |-> {}, found |-> {}]

Metric == [job: Jobs, base: Minutes, at: Minutes]
Run == [pc: {"idle", "read", "schedule", "repair", "cancel", "select", "look",
             "persist", "metrics", "record"},
        v: 1 .. MaxVersion, plan: DOMAIN Plans, rows: Targets, ready: Targets,
        left: 0 .. MaxRequests, staged: SUBSET Minutes, found: SUBSET Metric]

TypeOK ==
    /\ version \in 1 .. MaxVersion
    /\ edition \in DOMAIN Plans
    /\ job \in [Jobs -> Row]
    /\ anchored \subseteq 1 .. MaxVersion
    /\ snapshots \subseteq Jobs \X Minutes
    /\ bars \subseteq Minutes
    /\ metrics \subseteq Metric
    /\ writer \in Runs \cup {None}
    /\ run \in [Runs -> Run]
    /\ now \in Minutes /\ manual \in 0 .. MaxManual /\ faults \in 0 .. MaxFaults

Init ==
    /\ version = 1
    /\ edition = 1
    /\ \E table \in Formers :
          job = [j \in Jobs |-> IF j[1] = 1 THEN table[j[2]] ELSE Unwritten]
    /\ anchored = {}
    /\ snapshots = {} /\ bars = {} /\ metrics = {}
    /\ writer = None
    /\ run = [p \in Runs |-> Idle]
    /\ now = 0 /\ manual = 0 /\ faults = 0

-----------------------------------------------------------------------------
(* Jobs *)

IsOpen(j) == job[j].status \in Open
Observed(j) == \E m \in Minutes : <<j, m>> \in snapshots

CanWrite(p) == writer \in {None, p}

\* Nearly every update of a row writes an error of its own, or none.
Marked(status, j) == [job[j] EXCEPT !.status = status, !.error = "other"]

Superseded(j) == j[1] # version /\ IsOpen(j)
CancelledAll ==
    [j \in Jobs |-> IF Superseded(j) THEN Marked("CANCELLED", j) ELSE job[j]]

\* cancel_superseded_version_jobs: at the head of schedule_jobs and again of
\* run_pending.
CancelSuperseded(p, from, to) ==
    /\ run[p].pc = from /\ CanWrite(p)
    /\ job' = CancelledAll
    /\ run' = [run EXCEPT ![p] = [@ EXCEPT !.pc = to]]
    /\ UNCHANGED <<anchored, snapshots, bars, metrics, writer, world, faults>>

Begin(p) ==
    /\ CancelSuperseded(p, "idle", "read")
    /\ IF p = Timer THEN UNCHANGED manual ELSE manual < MaxManual /\ manual' = manual + 1
CancelAgain(p) == CancelSuperseded(p, "cancel", "select") /\ UNCHANGED manual

ReadEvent(p) ==
    /\ run[p].pc = "read"
    /\ run' = [run EXCEPT ![p] = [@ EXCEPT !.pc = "schedule", !.v = version, !.plan = edition]]
    /\ UNCHANGED <<job, anchored, snapshots, bars, metrics, writer, world, bounds>>

\* What schedule_jobs makes of a row, given the plan it has read.
Asked(target) ==
    [status |-> "PENDING", attempts |-> 0, at |-> target,
     contract |-> "current", error |-> "other"]
Inserted(target, traded) ==
    IF traded THEN Asked(target) ELSE [Asked(target) EXCEPT !.status = "UNAVAILABLE"]
Untraded(j, traded) == IsOpen(j) /\ ~traded /\ ~Observed(j)
RetargetableAnyway(j, target) ==   \* a fault
    /\ j[2] = Initial /\ job[j].status \in Open \cup {"UNAVAILABLE"}
    /\ job[j].at # target \/ job[j].contract # "current"
Retargetable(j, target) ==
    /\ j[2] = Initial /\ job[j].status \in Open \cup {"UNAVAILABLE"}
    /\ job[j].at # target \/ job[j].contract # "current"
    /\ ~Observed(j)

Scheduled(j, target, traded) ==
    IF job[j].status = "ABSENT" THEN Inserted(target, traded)
    ELSE IF Untraded(j, traded) THEN [Marked("UNAVAILABLE", j) EXCEPT !.contract = "current"]
    ELSE IF Retargetable(j, target) THEN Asked(target)
    ELSE job[j]

\* The rows were read before the transaction: the version may be an old one.
\* The anchor of an event dated by the day may be lost again; then its jobs are
\* left as they are.
ScheduleJobs(p) ==
    LET q == Plans[run[p].plan]
        v == run[p].v
    IN /\ run[p].pc = "schedule" /\ CanWrite(p)
       /\ anchored' = IF q.exact THEN anchored \cup {v} ELSE anchored \ {v}
       /\ job' = [j \in Jobs |->
                    IF q.exact /\ j[1] = v /\ j[2] \in DOMAIN q.at
                      THEN Scheduled(j, q.at[j[2]], j[2] \in q.tradable)
                      ELSE job[j]]
       /\ run' = [run EXCEPT ![p] = [Idle EXCEPT !.pc = "repair"]]
       /\ UNCHANGED <<snapshots, bars, metrics, writer, world, bounds>>

-----------------------------------------------------------------------------
(* run_pending *)

\* repair_legacy_provider_outcomes, on the errors former releases have left.
Repaired(j) ==
    LET row == job[j]
    IN IF row.error = "429" /\ row.status \in {"RETRY", "UNAVAILABLE"}
         THEN [row EXCEPT !.status = "PENDING", !.error = "other",
                          !.attempts = IF @ > 0 THEN @ - 1 ELSE 0]
       ELSE IF row.error = "404" /\ row.status \in Open \cup {"UNAVAILABLE"}
         THEN Marked("UNAVAILABLE", j)
       ELSE row
RepairLegacy(p) ==
    /\ run[p].pc = "repair" /\ CanWrite(p)
    /\ job' = [j \in Jobs |-> Repaired(j)]
    /\ run' = [run EXCEPT ![p] = [@ EXCEPT !.pc = "cancel"]]
    /\ UNCHANGED <<anchored, snapshots, bars, metrics, writer, world, bounds>>

\* A minute is asked for once it is over and the provider had time to take it.
DueWindows == {w \in Windows : IsOpen(<<version, w>>) /\ job[<<version, w>>].at <= now}

SelectDueOrEnd(p) ==   \* a fault
    /\ run[p].pc = "select"
    /\ run' = [run EXCEPT ![p] = IF DueWindows = {} THEN Idle
                 ELSE [Idle EXCEPT !.pc = "look", !.v = version, !.left = MaxRequests,
                                   !.rows = [w \in DueWindows |-> job[<<version, w>>].at]]]
    /\ UNCHANGED <<job, anchored, snapshots, bars, metrics, writer, world, bounds>>
SelectDue(p) ==
    /\ run[p].pc = "select"
    /\ run' = [run EXCEPT ![p] =
                IF DueWindows = {} THEN [Idle EXCEPT !.pc = "metrics"]
                ELSE [Idle EXCEPT !.pc = "look", !.v = version, !.left = MaxRequests,
                                  !.rows = [w \in DueWindows |-> job[<<version, w>>].at]]]
    /\ UNCHANGED <<job, anchored, snapshots, bars, metrics, writer, world, bounds>>

\* w is the first of the rows left; its minute is looked up for every row that
\* wants it.
Looking(p, w) ==
    /\ run[p].pc = "look" /\ w \in DOMAIN run[p].rows
    /\ \A x \in DOMAIN run[p].rows : Rank[w] <= Rank[x]
Group(p, w) == {x \in DOMAIN run[p].rows : run[p].rows[x] = run[p].rows[w]}
Cached(p, w) == run[p].rows[w] \in bars \cup run[p].staged

Left(p, w) == [x \in DOMAIN run[p].rows \ Group(p, w) |-> run[p].rows[x]]
Ready(p, w) == [x \in DOMAIN run[p].ready \cup Group(p, w) |->
                  IF x \in Group(p, w) THEN run[p].rows[w] ELSE run[p].ready[x]]

\* A bar that is there serves every row of the group without a call.
UseCache(p, w) ==
    /\ Looking(p, w) /\ Cached(p, w)
    /\ run' = [run EXCEPT ![p] = [@ EXCEPT !.rows = Left(p, w), !.ready = Ready(p, w)]]
    /\ UNCHANGED <<job, anchored, snapshots, bars, metrics, writer, world, bounds>>

\* No call is left, or the provider's quota is spent: the rows wait for
\* another run.
Defer(p, w) ==
    /\ Looking(p, w) /\ ~Cached(p, w) /\ run[p].left = 0
    /\ run' = [run EXCEPT ![p] = [@ EXCEPT !.rows = Left(p, w)]]
    /\ UNCHANGED <<job, anchored, snapshots, bars, metrics, writer, world, bounds>>

MayCall(p, w) == Looking(p, w) /\ ~Cached(p, w) /\ run[p].left > 0

\* The provider has the bar: it is stored, and the transaction stays open.
Fetched(p, w) ==
    /\ MayCall(p, w) /\ CanWrite(p)
    /\ writer' = p
    /\ run' = [run EXCEPT ![p] =
                [@ EXCEPT !.left = run[p].left - 1,
                          !.staged = run[p].staged \cup {run[p].rows[w]},
                          !.rows = Left(p, w), !.ready = Ready(p, w)]]
    /\ UNCHANGED <<job, anchored, snapshots, bars, metrics, world, bounds>>

\* HTTP 429 of Twelve Data; Binance's is a failure like any other.
RateLimited(p, w) ==
    /\ MayCall(p, w)
    /\ run' = [run EXCEPT ![p] = [@ EXCEPT !.left = 0, !.rows = Left(p, w)]]
    /\ UNCHANGED <<job, anchored, snapshots, bars, metrics, writer, world, bounds>>

\* _mark_retry, which looks at the status, and _mark_unavailable, which does not.
Attempted(j, status) == [Marked(status, j) EXCEPT !.attempts = @ + 1]
Again(j) == IF job[j].attempts + 1 >= MaxAttempts THEN "UNAVAILABLE" ELSE "RETRY"
RetriedUnguarded(j) == Attempted(j, Again(j))   \* a fault
RetriedForFree(j) ==   \* a fault
    IF IsOpen(j) THEN Marked("RETRY", j) ELSE job[j]
Retried(j) == IF IsOpen(j) THEN Attempted(j, Again(j)) ELSE job[j]
Unavailable(j) == Attempted(j, "UNAVAILABLE")

\* Both commit, and with them what the run has stored.
Commit(p) == bars' = bars \cup run[p].staged /\ writer' = None

\* The provider does not have the minute; or it failed, or has not got it yet.
Refused(p, w) ==
    LET group == {<<run[p].v, x>> : x \in Group(p, w)}
    IN /\ MayCall(p, w) /\ CanWrite(p)
       /\ \/ job' = [j \in Jobs |-> IF j \in group THEN Unavailable(j) ELSE job[j]]
          \/ job' = [j \in Jobs |-> IF j \in group THEN Retried(j) ELSE job[j]]
       /\ Commit(p)
       /\ run' = [run EXCEPT ![p] =
                   [@ EXCEPT !.left = run[p].left - 1, !.staged = {}, !.rows = Left(p, w)]]
       /\ UNCHANGED <<anchored, snapshots, metrics, world, bounds>>

\* binance_symbol does not take the symbol of one of the rows: an attempt of
\* every row of the provider is spent, before any of them is looked up.
SymbolRefused(p) ==
    /\ run[p].pc = "look" /\ run[p].rows # Nowhere /\ CanWrite(p)
    /\ run[p].left = MaxRequests /\ run[p].ready = Nowhere
    /\ job' = [j \in Jobs |-> IF j[1] = run[p].v /\ j[2] \in DOMAIN run[p].rows
                                THEN Retried(j) ELSE job[j]]
    /\ run' = [run EXCEPT ![p] = [Idle EXCEPT !.pc = "metrics"]]
    /\ UNCHANGED <<anchored, snapshots, bars, metrics, writer, world, bounds>>

EndLookup(p) ==
    /\ run[p].pc = "look" /\ run[p].rows = Nowhere
    /\ IF run[p].staged # {} THEN Commit(p) ELSE UNCHANGED <<bars, writer>>
    /\ run' = [run EXCEPT ![p] =
                IF run[p].ready = Nowhere THEN [Idle EXCEPT !.pc = "metrics"]
                ELSE [Idle EXCEPT !.pc = "persist", !.v = run[p].v, !.ready = run[p].ready]]
    /\ UNCHANGED <<job, anchored, snapshots, metrics, world, bounds>>

\* _persist_quotes, one transaction, whatever has become of the rows.
PersistQuotes(p) ==
    LET ready == run[p].ready
        answered == {<<run[p].v, w>> : w \in DOMAIN ready}
    IN /\ run[p].pc = "persist" /\ CanWrite(p)
       /\ snapshots' = snapshots \cup {<<j, ready[j[2]]>> : j \in answered}
       /\ job' = [j \in Jobs |-> IF j \in answered
                    THEN Attempted(j, "COMPLETED") ELSE job[j]]
       /\ run' = [run EXCEPT ![p] = [Idle EXCEPT !.pc = "metrics"]]
       /\ UNCHANGED <<anchored, bars, metrics, writer, world, bounds>>

-----------------------------------------------------------------------------
(* upsert_horizon_metrics *)

AnyVersion(j, v) == TRUE   \* a fault
SameVersion(j, v) == j[1] = v

\* A return is worked out of two numbers, the baseline's not zero.
Computable(base, at) == Price[base] = "positive" /\ Price[at] # "no number"

\* The returns the snapshots of the current version allow.
Returns ==
    {m \in Metric :
        /\ m.job[1] = version /\ m.job[2] # Initial
        /\ m.job[1] \in anchored /\ Computable(m.base, m.at)
        /\ job[m.job].status = "COMPLETED" /\ <<m.job, m.at>> \in snapshots
        /\ \E v \in 1 .. MaxVersion :
              SameVersion(m.job, v) /\ <<<<v, Initial>>, m.base>> \in snapshots}

ReadSnapshots(p) ==
    /\ run[p].pc = "metrics"
    /\ run' = [run EXCEPT ![p] = IF Returns = {} THEN Idle
                                 ELSE [Idle EXCEPT !.pc = "record", !.found = Returns]]
    /\ UNCHANGED <<job, anchored, snapshots, bars, metrics, writer, world, bounds>>

\* One metric for each job: the last of several returns stays.
RecordMetrics(p) ==
    LET known == {m.job : m \in run[p].found}
    IN /\ run[p].pc = "record" /\ CanWrite(p)
       /\ \E last \in SUBSET run[p].found :
             /\ \A j \in known : Cardinality({m \in last : m.job = j}) = 1
             /\ metrics' = {m \in metrics : m.job \notin known} \cup last
       /\ run' = [run EXCEPT ![p] = Idle]
       /\ UNCHANGED <<job, anchored, snapshots, bars, writer, world, bounds>>

-----------------------------------------------------------------------------
(* Faults and surroundings *)

Dies(p) ==
    /\ faults < MaxFaults /\ faults' = faults + 1
    /\ run' = [run EXCEPT ![p] = Idle]
    /\ writer' = IF writer = p THEN None ELSE writer
    /\ UNCHANGED <<job, anchored, snapshots, bars, metrics, manual, world>>

\* The process is stopped, or has waited a minute for the write lock
\* ("database is locked"): SQLite rolls its transaction back.
Crash(p) == run[p].pc # "idle" /\ Dies(p)

Revise ==
    /\ version < MaxVersion /\ version' = version + 1
    /\ UNCHANGED <<edition, job, anchored, snapshots, bars, metrics, writer, run, now, bounds>>

\* Somebody corrects the calendar of the exchange, or the evidence that dates
\* an event by the day: once, for one of the other plans.
MovePlan ==
    /\ edition = 1 /\ edition' \in 2 .. Len(Plans)
    /\ UNCHANGED <<version, job, anchored, snapshots, bars, metrics, writer, run, now, bounds>>

Tick ==
    /\ now < MaxTime /\ now' = now + 1
    /\ UNCHANGED <<version, edition, job, anchored, snapshots, bars, metrics, writer, run, bounds>>

RunStep(p) ==
    \/ ReadEvent(p) \/ ScheduleJobs(p)
    \/ RepairLegacy(p) \/ CancelAgain(p) \/ SelectDue(p)
    \/ \E w \in Windows : \/ UseCache(p, w) \/ Defer(p, w) \/ Fetched(p, w)
                          \/ RateLimited(p, w) \/ Refused(p, w)
    \/ SymbolRefused(p) \/ EndLookup(p) \/ PersistQuotes(p)
    \/ ReadSnapshots(p) \/ RecordMetrics(p)

Next ==
    \/ \E p \in Runs : Begin(p) \/ RunStep(p) \/ Crash(p)
    \/ Revise \/ MovePlan \/ Tick

\* The timer starts a run a minute after the last one ended, a call ends in
\* thirty seconds, a busy ledger is free again in the end, and so is a quota.
Fairness ==
    /\ WF_vars(Tick)
    /\ SF_vars(Begin(Timer) \/ RunStep(Timer))
    /\ SF_vars(\E w \in Windows : Fetched(Timer, w) \/ Refused(Timer, w))
    /\ \A p \in Manual : WF_vars(RunStep(p))

Spec == Init /\ [][Next]_vars /\ Fairness

-----------------------------------------------------------------------------
\* A job that may still be asked for has no price yet and attempts left, and
\* a completed one has a price, however runs overlap.
OutcomeRecorded ==
    \A j \in Jobs :
        /\ IsOpen(j) => ~Observed(j) /\ job[j].attempts < MaxAttempts
        /\ job[j].status = "COMPLETED" => Observed(j)

\* A job that was completed or cancelled is never asked for again.  One that is
\* unavailable is asked for again only if it has no price, and only as the
\* baseline at another minute or under another contract, or once because a
\* former release took a spent quota for a failure.
Moved(j) == j[2] = Initial /\ (job'[j].at # job[j].at \/ job'[j].contract # job[j].contract)
ClosedStaysClosed ==
    [][\A j \in Jobs : job'[j].status \in Open =>
          /\ job[j].status \notin {"COMPLETED", "CANCELLED"}
          /\ job[j].status = "UNAVAILABLE" =>
                ~Observed(j) /\ (Moved(j) \/ (job[j].error = "429" /\ job'[j].error # "429"))]_vars

\* A return is between two prices of one version of the event, both on record.
MetricsGrounded ==
    \A m \in metrics :
        /\ <<m.job, m.at>> \in snapshots
        /\ <<<<m.job[1], Initial>>, m.base>> \in snapshots

\* The due jobs are all settled again and again, in spite of calls that fail,
\* quotas that run out and runs that die.
Due(j) == IsOpen(j) /\ job[j].at <= now
DueSettle == []<>(\A j \in Jobs : ~Due(j))

\* A run that dies between storing the prices and deriving the returns loses
\* none that can be worked out for the current version: a later run catches up.
Owed(j) ==
    /\ j[1] = version /\ version \in anchored
    /\ j[2] # Initial /\ job[j].status = "COMPLETED"
    /\ \E base, at \in Minutes :
          /\ <<<<version, Initial>>, base>> \in snapshots /\ <<j, at>> \in snapshots
          /\ Computable(base, at)
ReturnsFollow == []<>(\A j \in Jobs : Owed(j) => \E m \in metrics : m.job = j)
=============================================================================
