---------------------------- MODULE CaptureQueue ----------------------------
(***************************************************************************)
(* The durable queue of external capture interpretations: the tables       *)
(* capture_interpretation_runs and capture_interpretation_attempts and the *)
(* public-priority list of the operations database                         *)
(* (app/storage/operations.py), the API handler that accepts a public      *)
(* request (app/api/main.py), and the worker that selects, binds, claims   *)
(* and interprets jobs (scripts/run_capture_interpretation_worker.py and   *)
(* scripts/run_capture_interpretation_deepseek.py).                        *)
(*                                                                         *)
(* A job is an immutable identity <<capture, input version>>.  Every       *)
(* operation of the repository class is one BEGIN IMMEDIATE transaction,   *)
(* hence one step; what a process remembers between two transactions is in *)
(* its record of `runner` or `request`, and may be stale when it is used.  *)
(***************************************************************************)
EXTENDS Naturals, Sequences, FiniteSets, Lists

CONSTANTS
    Observations,   \* captured sources, each linked to its own event
    MaxVersion,     \* bound on the input versions of one capture
    NoJob,          \* "no row", never a job
    Runners,        \* concurrent executions of the worker's code
    Requests,       \* concurrent API handlers
    MaxAttempts,    \* MAX_ATTEMPTS of the worker
    Capacity,       \* max_items of the public-priority list
    LeaseTicks,     \* lease_seconds
    BackoffTicks,   \* backoff_seconds
    DayTicks,       \* length of a UTC day
    MaxTime,        \* bound on the clock
    MaxCrashes,     \* bound on worker crashes
    MaxGateMoves,   \* bound on the changes of a capture's eligibility
    RequestCap,     \* daily_request_cap, 0 = unlimited
    RequestReserve, \* public_request_reserve
    CnyCap,         \* daily_cny_cap, 0 = unlimited
    CnyReserve,     \* public_cny_reserve
    CallReserve,    \* reserve_cny of one call
    Costs           \* usage a finished call may report, 0 = not reported

ASSUME BoundsAssumption ==
    /\ MaxVersion \in Nat \ {0} /\ MaxAttempts \in Nat \ {0}
    /\ Capacity \in Nat \ {0} /\ LeaseTicks \in Nat \ {0}
    /\ BackoffTicks \in Nat \ {0} /\ DayTicks \in Nat \ {0}
    /\ MaxTime \in Nat /\ MaxCrashes \in Nat /\ MaxGateMoves \in Nat

ASSUME BudgetAssumption ==
    /\ RequestCap \in Nat /\ RequestReserve \in Nat
    /\ CnyCap \in Nat /\ CnyReserve \in Nat
    /\ CallReserve \in Nat \ {0} /\ Costs \subseteq Nat

Versions == 1 .. MaxVersion
Jobs == Observations \X Versions

ASSUME NoJobAssumption == NoJob \notin Jobs

VARIABLES
    ledger,     \* each capture's current input version and moves of its eligibility gate
    job,        \* capture_interpretation_runs
    attempts,   \* capture_interpretation_attempts; an attempt's index is its id and its lease token
    priority,   \* items of the public-priority list, in order
    runner,     \* what each worker execution remembers
    request,    \* what each API handler remembers
    now,        \* the wall clock
    crashes     \* worker crashes so far

vars == <<ledger, job, attempts, priority, runner, request, now, crashes>>

-----------------------------------------------------------------------------
(* Rows.                                                                   *)

Statuses == {"ABSENT", "PENDING", "RUNNING", "COMPLETED", "FAILED", "BUDGET_BLOCKED"}
Waiting == {"PENDING", "BUDGET_BLOCKED"}
Terminal == {"COMPLETED", "FAILED"}

\* The values of the error column that some statement compares, or that a
\* property is about; "NONE" is any other.
Errors == {"NONE", "DAILY_CAP", "PUBLIC_DAILY_CAP", "STALE_INPUT"}

Lanes == {"public", "background"}

JobRow == [status : Statuses, attempts : Nat, available : Nat,
           token : Nat, lease : Nat, error : Errors]

AttemptRow == [job : Jobs, status : {"RUNNING", "COMPLETED", "FAILED"},
               day : Nat, countedDay : Nat, lane : Lanes, cost : Nat]

RunnerPcs == {"idle", "row", "reject", "start", "context", "claim", "calling", "failing"}

RunnerState == [pc : RunnerPcs, lane : Lanes, job : Jobs \cup {NoJob},
                seen : Jobs \cup {NoJob}, since : Nat, token : Nat, retryable : BOOLEAN]

RequestState == [pc : {"idle", "read", "enqueued", "full"},
                 job : Jobs \cup {NoJob}, accepted : BOOLEAN]

TypeOK ==
    /\ ledger \in [Observations -> [version : Versions, moves : 0 .. MaxGateMoves]]
    /\ job \in [Jobs -> JobRow]
    /\ attempts \in Seq(AttemptRow)
    /\ priority \in Seq(Jobs)
    /\ runner \in [Runners -> RunnerState]
    /\ request \in [Requests -> RequestState]
    /\ now \in 0 .. MaxTime
    /\ crashes \in 0 .. MaxCrashes

Absent == [status |-> "ABSENT", attempts |-> 0, available |-> 0,
           token |-> 0, lease |-> 0, error |-> "NONE"]

IdleRunner == [pc |-> "idle", lane |-> "background", job |-> NoJob,
               seen |-> NoJob, since |-> 0, token |-> 0, retryable |-> FALSE]

IdleRequest == [pc |-> "idle", job |-> NoJob, accepted |-> FALSE]

Init ==
    /\ ledger = [o \in Observations |-> [version |-> 1, moves |-> 0]]
    /\ job = [j \in Jobs |-> Absent]
    /\ attempts = <<>>
    /\ priority = <<>>
    /\ runner = [r \in Runners |-> IdleRunner]
    /\ request = [q \in Requests |-> IdleRequest]
    /\ now = 0
    /\ crashes = 0

-----------------------------------------------------------------------------
(* Time.  Deadlines beyond the bound of the clock fall on it.              *)

Clip(t) == IF t < MaxTime THEN t ELSE MaxTime
DayOf(t) == t \div DayTicks
DayEnd(d) == Clip((d + 1) * DayTicks)

Tick ==
    /\ now < MaxTime
    /\ now' = now + 1
    /\ UNCHANGED <<ledger, job, attempts, priority, runner, request, crashes>>

-----------------------------------------------------------------------------
(* The ledger the queue reads: a revision of the event or of the capture   *)
(* gives the capture a new input identity, and evidence that arrives or    *)
(* leaves closes or reopens the eligibility gate.                          *)

CurrentJob(o) == <<o, ledger[o].version>>

\* The gate is open at first and changes with every move.
Eligible(o) == ledger[o].moves % 2 = 0

Revise(o) ==
    /\ ledger[o].version < MaxVersion
    /\ ledger' = [ledger EXCEPT ![o].version = @ + 1]
    /\ UNCHANGED <<job, attempts, priority, runner, request, now, crashes>>

MoveGate(o) ==
    /\ ledger[o].moves < MaxGateMoves
    /\ ledger' = [ledger EXCEPT ![o].moves = @ + 1]
    /\ UNCHANGED <<job, attempts, priority, runner, request, now, crashes>>

-----------------------------------------------------------------------------
(* Row operations shared by several transactions.                          *)

Queued(row, available) ==
    [row EXCEPT !.status = "PENDING", !.available = available,
                !.token = 0, !.lease = 0, !.error = "NONE"]

\* A fault of reopening: the attempts are forgotten.
ReopenedAfresh(row) ==
    IF row.status = "FAILED" THEN [Queued(row, now) EXCEPT !.attempts = 0] ELSE row

\* A failed identity may be reopened while it has provider attempts left;
\* the attempts it has used stay used.
Reopened(row) ==
    IF row.status = "FAILED" /\ row.attempts < MaxAttempts
    THEN Queued(row, now)
    ELSE row

\* fail_capture_interpretation: an unconditional update of the row.
ForceFailed(row, error) == [row EXCEPT !.status = "FAILED", !.error = error]

\* INSERT OR IGNORE of a job, reopening a failed one on an explicit request.
Enqueued(row, requeueTerminal) ==
    IF row.status = "ABSENT" THEN Queued(row, 0)
    ELSE IF requeueTerminal THEN Reopened(row) ELSE row

Ready(row) ==
    /\ row.status \in Waiting
    /\ row.available <= now
    /\ row.attempts < MaxAttempts

\* A job deferred on the background budget may still use the public reserve.
Promotable(row) ==
    /\ row.status = "BUDGET_BLOCKED"
    /\ row.error = "DAILY_CAP"
    /\ row.attempts < MaxAttempts

-----------------------------------------------------------------------------
(* The API handler of a public request.  It reads the exact current input, *)
(* then enqueues, prioritises and, when the list is full, takes its        *)
(* acceptance back, in three separate transactions.                        *)

RequestRead(q) ==
    /\ request[q].pc = "idle"
    /\ \E o \in Observations :
        /\ Eligible(o)
        /\ job[CurrentJob(o)].status \in {"ABSENT", "FAILED"} \cup Waiting
        /\ request' = [request EXCEPT ![q] = [pc |-> "read", job |-> CurrentJob(o),
                                              accepted |-> FALSE]]
    /\ UNCHANGED <<ledger, job, attempts, priority, runner, now, crashes>>

RequestEnqueue(q) ==
    LET j == request[q].job
        row == Enqueued(job[j], TRUE)
    IN  /\ request[q].pc = "read"
        /\ job' = [job EXCEPT ![j] = row]
        /\ request' = [request EXCEPT ![q].pc = "enqueued",
                                      ![q].accepted = (row # job[j])]
        /\ UNCHANGED <<ledger, attempts, priority, runner, now, crashes>>

\* enqueue_capture_interpretation_priority drops terminal entries and the
\* job's own, and appends the job if that leaves room.
Live(j) == job[j].status \notin Terminal \cup {"ABSENT"}

EntriesIn(kept) == AtPositions(priority, {i \in DOMAIN priority : priority[i] \in kept})

OthersStillLive(j) == EntriesIn({k \in Jobs \ {j} : Live(k)})

FitsUpTo(list) == Len(list) <= Capacity   \* a fault
Fits(list) == Len(list) < Capacity

RequestPrioritise(q) ==
    LET j == request[q].job
        wanted == request[q].accepted \/ job[j].status \in Waiting
        others == OthersStillLive(j)
        fits == Fits(others)
    IN  /\ request[q].pc = "enqueued"
        /\ priority' = IF wanted /\ fits THEN Append(others, j) ELSE priority
        /\ request' = [request EXCEPT ![q] =
                          IF wanted /\ ~fits /\ request[q].accepted
                          THEN [@ EXCEPT !.pc = "full"]
                          ELSE IdleRequest]
        /\ UNCHANGED <<ledger, job, attempts, runner, now, crashes>>

RequestRejectFull(q) ==
    /\ request[q].pc = "full"
    /\ job' = [job EXCEPT ![request[q].job] = ForceFailed(@, "NONE")]
    /\ request' = [request EXCEPT ![q] = IdleRequest]
    /\ UNCHANGED <<ledger, attempts, priority, runner, now, crashes>>

\* The API process stops between two transactions of a request.
RequestAborts(q) ==
    /\ request[q].pc # "idle"
    /\ request' = [request EXCEPT ![q] = IdleRequest]
    /\ UNCHANGED <<ledger, job, attempts, priority, runner, now, crashes>>

-----------------------------------------------------------------------------
(* The worker selects a row, from the public list or from the pending      *)
(* jobs, or a capture from the inventory.                                  *)

\* capture_interpretation_priority_runs: prune terminal entries, return the
\* first job in list order that is ready or promotable.
KeptWhenFailed == EntriesIn({k \in Jobs : Live(k) \/ job[k].status = "FAILED"})   \* a fault

StillLive == EntriesIn({k \in Jobs : Live(k)})

Selectable(j) == Ready(job[j]) \/ Promotable(job[j])

IsFirstSelectable(j, items) ==
    \E i \in DOMAIN items :
        /\ items[i] = j
        /\ Selectable(j)
        /\ \A k \in 1 .. (i - 1) : ~Selectable(items[k])

SelectPriority(r) ==
    /\ runner[r].pc = "idle"
    /\ priority' = StillLive
    /\ \/ \E j \in Jobs :
            /\ IsFirstSelectable(j, StillLive)
            /\ runner' = [runner EXCEPT ![r] = [IdleRunner EXCEPT !.pc = "row",
                                               !.lane = "public", !.job = j]]
       \/ /\ \A j \in Jobs : ~IsFirstSelectable(j, StillLive)
          /\ runner' = runner
    /\ UNCHANGED <<ledger, job, attempts, request, now, crashes>>

SelectPending(r) ==
    /\ runner[r].pc = "idle"
    /\ \E j \in Jobs :
        /\ Ready(job[j])
        /\ runner' = [runner EXCEPT ![r] = [IdleRunner EXCEPT !.pc = "row", !.job = j]]
    /\ UNCHANGED <<ledger, job, attempts, priority, request, now, crashes>>

ActiveWhileRunning(row) == row.status \in Waiting \cup {"RUNNING"}   \* a fault

\* capture_interpretation_active_keys: waiting, or running under a live lease.
Active(row) == \/ row.status \in Waiting
               \/ row.status = "RUNNING" /\ row.lease > now

SelectInventory(r) ==
    /\ runner[r].pc = "idle"
    /\ \E o \in Observations :
        LET row == job[CurrentJob(o)]
        IN  /\ Eligible(o)
            /\ row.status \notin Terminal
            /\ ~Active(row)
            /\ runner' = [runner EXCEPT ![r] = [IdleRunner EXCEPT !.pc = "start",
                                               !.job = CurrentJob(o)]]
    /\ UNCHANGED <<ledger, job, attempts, priority, request, now, crashes>>

-----------------------------------------------------------------------------
(* prepare_persisted_pending_requests binds a selected row to the current  *)
(* input.  The ledger is another database: it is read first, and the row   *)
(* is failed or replaced afterwards.                                       *)

Capture(j) == j[1]

CheckInput(r) ==
    LET j == runner[r].job
        o == Capture(j)
    IN  /\ runner[r].pc = "row"
        /\ runner' = [runner EXCEPT ![r] =
              IF Eligible(o) /\ CurrentJob(o) = j
              THEN [@ EXCEPT !.pc = "start"]
              ELSE [@ EXCEPT !.pc = "reject",
                             !.seen = IF Eligible(o) THEN CurrentJob(o) ELSE NoJob]]
        /\ UNCHANGED <<ledger, job, attempts, priority, request, now, crashes>>

\* replace_stale_capture_interpretation_priority, in one transaction: the
\* stale row fails, the replacement row is inserted or reopened and takes
\* the stale one's index in what is left of the list.
IndexOf(j, items) == CHOOSE i \in DOMAIN items : items[i] = j

PutAt(items, i, j) == SubSeq(items, 1, i - 1) \o <<j>> \o SubSeq(items, i, Len(items))

Replaceable(j) ==
    /\ \E i \in DOMAIN priority : priority[i] = j
    /\ job[j].status \in Waiting

ReplaceStale(r) ==
    LET stale == runner[r].job
        new == runner[r].seen
        row == Enqueued(job[new], TRUE)
        rest == EntriesIn(Jobs \ {stale, new})
        stalePos == IndexOf(stale, priority)
        queued == row.status \in Waiting \cup {"RUNNING"}
    IN  /\ runner[r].pc = "reject"
        /\ runner[r].lane = "public"
        /\ new # NoJob
        /\ Replaceable(stale)
        /\ job' = [job EXCEPT
                      ![stale] = [Queued(@, now) EXCEPT !.status = "FAILED",
                                                        !.error = "STALE_INPUT"],
                      ![new] = row]
        /\ priority' = IF queued
                       THEN PutAt(rest, IF stalePos > Len(rest) THEN Len(rest) + 1
                                        ELSE stalePos, new)
                       ELSE rest
        /\ runner' = [runner EXCEPT ![r] =
                         IF queued THEN [@ EXCEPT !.pc = "start", !.job = new, !.seen = NoJob]
                         ELSE IdleRunner]
        /\ UNCHANGED <<ledger, attempts, request, now, crashes>>

FailStale(r) ==
    LET j == runner[r].job
    IN  /\ runner[r].pc = "reject"
        /\ ~(runner[r].lane = "public" /\ runner[r].seen # NoJob /\ Replaceable(j))
        /\ job' = [job EXCEPT ![j] = ForceFailed(@, IF runner[r].seen = NoJob THEN "NONE"
                                                    ELSE "STALE_INPUT")]
        /\ runner' = [runner EXCEPT ![r] = IdleRunner]
        /\ UNCHANGED <<ledger, attempts, priority, request, now, crashes>>

-----------------------------------------------------------------------------
(* The single-job runner: read the ledger again, enqueue, claim, call the  *)
(* provider, and record the outcome under the claim's lease.               *)

ReadContext(r) ==
    LET o == Capture(runner[r].job)
    IN  /\ runner[r].pc = "start"
        /\ runner' = [runner EXCEPT ![r] =
                         IF Eligible(o)
                         THEN [@ EXCEPT !.pc = "context", !.job = CurrentJob(o)]
                         ELSE IdleRunner]
        /\ UNCHANGED <<ledger, job, attempts, priority, request, now, crashes>>

RunnerEnqueue(r) ==
    LET j == runner[r].job
    IN  /\ runner[r].pc = "context"
        /\ job' = [job EXCEPT ![j] = Enqueued(@, FALSE)]
        /\ runner' = [runner EXCEPT ![r] =
                         IF job[j].status = "COMPLETED" THEN IdleRunner
                         ELSE [@ EXCEPT !.pc = "claim", !.since = now]]
        /\ UNCHANGED <<ledger, attempts, priority, request, now, crashes>>

\* A claim reads the clock twice before its transaction begins, once for the
\* lease and the attempt (t) and once for the day whose usage it counts (d).
\* Every RUNNING row whose lease has run out by t is given back first.
Expired(t) == {j \in Jobs : job[j].status = "RUNNING" /\ job[j].lease <= t}

RowAfterExpiry(j, t) ==
    IF j \in Expired(t)
    THEN [job[j] EXCEPT !.status = IF job[j].attempts < MaxAttempts THEN "PENDING" ELSE "FAILED",
                        !.available = t, !.token = 0, !.lease = 0, !.error = "NONE"]
    ELSE job[j]

AttemptAfterExpiry(i, t) ==
    IF attempts[i].job \in Expired(t) /\ job[attempts[i].job].token = i
    THEN [attempts[i] EXCEPT !.status = IF @ = "RUNNING" THEN "FAILED" ELSE @]
    ELSE attempts[i]

RowsAfterExpiry(t) == [j \in Jobs |-> RowAfterExpiry(j, t)]
AttemptsAfterExpiry(t) == [i \in DOMAIN attempts |-> AttemptAfterExpiry(i, t)]

StartedOn(d) == {i \in DOMAIN attempts : attempts[i].day = d}

ChargeReported(i) == attempts[i].cost   \* a fault

\* A call that reported no usage is charged its reservation.
Charge(i) == IF attempts[i].cost > 0 THEN attempts[i].cost ELSE CallReserve
ChargedOn(d) == Total([i \in DOMAIN attempts |-> IF i \in StartedOn(d) THEN Charge(i) ELSE 0])

Less(a, b) == IF a > b THEN a - b ELSE 0
RequestCapForAll(lane) == RequestCap   \* a fault

RequestCapFor(lane) == IF lane = "public" THEN RequestCap ELSE Less(RequestCap, RequestReserve)
CnyCapFor(lane) == IF lane = "public" THEN CnyCap ELSE Less(CnyCap, CnyReserve)

BudgetSpent(lane, d) ==
    \/ RequestCap > 0 /\ Cardinality(StartedOn(d)) >= RequestCapFor(lane)
    \/ CnyCap > 0 /\ ChargedOn(d) + CallReserve > CnyCapFor(lane)

Claimable(row, lane, t) ==
    /\ row.status \in Waiting
    /\ row.attempts < MaxAttempts
    /\ \/ row.available <= t
       \/ /\ lane = "public"
          /\ row.status = "BUDGET_BLOCKED"
          /\ row.error = "DAILY_CAP"

ClaimDeferred(r, t, d) ==
    LET j == runner[r].job
        rows == RowsAfterExpiry(t)
        reason == IF runner[r].lane = "public" THEN "PUBLIC_DAILY_CAP" ELSE "DAILY_CAP"
    IN  /\ BudgetSpent(runner[r].lane, d)
        /\ job' = [rows EXCEPT ![j] =
                      IF @.status \in Waiting /\ @.attempts < MaxAttempts
                      THEN [Queued(@, DayEnd(d)) EXCEPT !.status = "BUDGET_BLOCKED",
                                                        !.error = reason]
                      ELSE @]
        /\ attempts' = AttemptsAfterExpiry(t)
        /\ runner' = [runner EXCEPT ![r] = IdleRunner]

ClaimRejected(r, t, d) ==
    /\ ~BudgetSpent(runner[r].lane, d)
    /\ ~Claimable(RowAfterExpiry(runner[r].job, t), runner[r].lane, t)
    /\ job' = RowsAfterExpiry(t)
    /\ attempts' = AttemptsAfterExpiry(t)
    /\ runner' = [runner EXCEPT ![r] = IdleRunner]

Leased(row, token, t) ==
    [row EXCEPT !.status = "RUNNING", !.attempts = @ + 1, !.token = token,
                !.lease = Clip(t + LeaseTicks), !.error = "NONE"]

ClaimGranted(r, t, d) ==
    LET j == runner[r].job
        lane == runner[r].lane
        token == Len(attempts) + 1
    IN  /\ ~BudgetSpent(lane, d)
        /\ Claimable(RowAfterExpiry(j, t), lane, t)
        /\ attempts' = Append(AttemptsAfterExpiry(t),
                          [job |-> j, status |-> "RUNNING", day |-> DayOf(t),
                           countedDay |-> d, lane |-> lane, cost |-> 0])
        /\ job' = [RowsAfterExpiry(t) EXCEPT ![j] = Leased(@, token, t)]
        /\ runner' = [runner EXCEPT ![r] = [@ EXCEPT !.pc = "calling", !.token = token]]

Claim(r) ==
    /\ runner[r].pc = "claim"
    /\ \E t \in runner[r].since .. now :
        \E d \in DayOf(t) .. DayOf(now) :
            \/ ClaimDeferred(r, t, d)
            \/ ClaimRejected(r, t, d)
            \/ ClaimGranted(r, t, d)
    /\ UNCHANGED <<ledger, priority, request, now, crashes>>

\* complete_claimed_capture_interpretation and fail_claimed_...: what each
\* requires of the row and of the attempt it names.
HoldsToken(r) == job[runner[r].job].token = runner[r].token

LeaseRuns(r) == /\ job[runner[r].job].status = "RUNNING"
                /\ attempts[runner[r].token].status = "RUNNING"

UnleasedKeepingToken(row) == [row EXCEPT !.lease = 0, !.error = "NONE"]   \* a fault

Unleased(row) == [row EXCEPT !.token = 0, !.lease = 0, !.error = "NONE"]

\* The provider answered: the result lands, or the completion is refused and
\* the runner goes on to report a failure that may not be retried.
Complete(r) ==
    /\ runner[r].pc = "calling"
    /\ LeaseRuns(r) /\ HoldsToken(r)
    /\ \E c \in Costs :
        attempts' = [attempts EXCEPT ![runner[r].token] =
                       [@ EXCEPT !.status = "COMPLETED", !.cost = c]]
    /\ job' = [job EXCEPT ![runner[r].job] = [Unleased(@) EXCEPT !.status = "COMPLETED"]]
    /\ runner' = [runner EXCEPT ![r] = IdleRunner]
    /\ UNCHANGED <<ledger, priority, request, now, crashes>>

CompletionRefused(r) ==
    /\ runner[r].pc = "calling"
    /\ ~(LeaseRuns(r) /\ HoldsToken(r))
    /\ runner' = [runner EXCEPT ![r].pc = "failing", ![r].retryable = FALSE]
    /\ UNCHANGED <<ledger, job, attempts, priority, request, now, crashes>>

ProviderFails(r) ==
    /\ runner[r].pc = "calling"
    /\ \E retryable \in BOOLEAN :
        runner' = [runner EXCEPT ![r].pc = "failing", ![r].retryable = retryable]
    /\ UNCHANGED <<ledger, job, attempts, priority, request, now, crashes>>

FailClaimed(r) ==
    LET j == runner[r].job
        retry == runner[r].retryable /\ job[j].attempts < MaxAttempts
    IN  /\ runner[r].pc = "failing"
        /\ IF HoldsToken(r)
           THEN /\ \E c \in Costs :
                    attempts' = [attempts EXCEPT ![runner[r].token] =
                                   [@ EXCEPT !.status = "FAILED", !.cost = c]]
                /\ job' = [job EXCEPT ![j] =
                      [Unleased(@) EXCEPT !.status = IF retry THEN "PENDING" ELSE "FAILED",
                                          !.available = IF retry THEN Clip(now + BackoffTicks)
                                                        ELSE now]]
           ELSE UNCHANGED <<job, attempts>>
        /\ runner' = [runner EXCEPT ![r] = IdleRunner]
        /\ UNCHANGED <<ledger, priority, request, now, crashes>>

\* The worker's process is killed; its lease stays behind.
Crash(r) ==
    /\ runner[r].pc # "idle"
    /\ crashes < MaxCrashes
    /\ crashes' = crashes + 1
    /\ runner' = [runner EXCEPT ![r] = IdleRunner]
    /\ UNCHANGED <<ledger, job, attempts, priority, request, now>>

-----------------------------------------------------------------------------
RequestStep(q) == \/ RequestRead(q) \/ RequestEnqueue(q) \/ RequestPrioritise(q)
                  \/ RequestRejectFull(q) \/ RequestAborts(q)

RunnerStep(r) == \/ SelectPriority(r) \/ SelectPending(r) \/ SelectInventory(r)
                 \/ CheckInput(r) \/ ReplaceStale(r) \/ FailStale(r)
                 \/ ReadContext(r) \/ RunnerEnqueue(r) \/ Claim(r)
                 \/ Complete(r) \/ CompletionRefused(r) \/ ProviderFails(r) \/ FailClaimed(r)

Next ==
    \/ Tick
    \/ \E o \in Observations : Revise(o) \/ MoveGate(o)
    \/ \E q \in Requests : RequestStep(q)
    \/ \E r \in Runners : RunnerStep(r) \/ Crash(r)

Spec == Init /\ [][Next]_vars

-----------------------------------------------------------------------------
(* Fairness.  systemd starts the worker again ten seconds after it ended,  *)
(* every call of the provider ends in an answer or a timeout, and every    *)
(* invocation starts with the public list.                                 *)

FairSpec ==
    /\ Spec
    /\ WF_vars(Tick)
    /\ \A r \in Runners : WF_vars(RunnerStep(r)) /\ SF_vars(SelectPriority(r))

-----------------------------------------------------------------------------
(* Properties.                                                             *)

AttemptsOf(j) == {i \in DOMAIN attempts : attempts[i].job = j}

\* A job holds the token of at most one attempt, which is its own and still
\* open, and a RUNNING job always holds one: expiry, late answers, forced
\* failures and reopening never leave a row leased by a finished attempt.
LeaseConsistent ==
    \A j \in Jobs :
        /\ job[j].status = "RUNNING" => job[j].token # 0
        /\ job[j].token # 0 =>
              /\ job[j].token \in DOMAIN attempts
              /\ attempts[job[j].token].job = j
              /\ attempts[job[j].token].status = "RUNNING"

\* The provider is called at most MaxAttempts times for one identity, over
\* all retries, expiries, crashes and explicit reopenings, and the row counts
\* exactly the attempts on record.
AttemptsBounded ==
    \A j \in Jobs : /\ Cardinality(AttemptsOf(j)) = job[j].attempts
                    /\ job[j].attempts <= MaxAttempts

CountedOn(d) == {i \in StartedOn(d) : attempts[i].countedDay = d}
Days == 0 .. DayOf(MaxTime)

\* Background work never eats into the requests reserved for readers: before
\* each of its attempts the day still had more than the reserve left.
ReaderReserveKept ==
    RequestCap > 0 =>
        \A d \in Days : \A i \in CountedOn(d) :
            attempts[i].lane = "background" =>
                Cardinality({k \in StartedOn(d) : k < i}) + RequestReserve < RequestCap

\* The attempts of a day that were claimed by reading one and the same day
\* twice respect the daily request cap, however many runners claim at once;
\* and what they cost passes the ceiling by no more than what single calls
\* report above their reservation: an open or silent call weighs its
\* reservation, and each other one what it reports, up to its reservation.
SameDayCaps ==
    LET weight(i) == IF attempts[i].cost \in 1 .. CallReserve THEN attempts[i].cost ELSE CallReserve
        spent(d) == Total([i \in DOMAIN attempts |-> IF i \in CountedOn(d) THEN weight(i) ELSE 0])
    IN  \A d \in Days :
            /\ RequestCap > 0 => Cardinality(CountedOn(d)) <= RequestCap
            /\ CnyCap > 0 => spent(d) <= CnyCap

\* The public list is bounded and names a job once, through concurrent
\* requests and replacements of stale entries.
PriorityWellFormed ==
    /\ Len(priority) <= Capacity
    /\ \A i, k \in DOMAIN priority : priority[i] = priority[k] => i = k

\* Every accepted job of an unchanging input ends, with a result or a failure,
\* in spite of crashes, expired leases and retries.
EveryJobSettles ==
    \A j \in Jobs : job[j].status # "ABSENT" ~> job[j].status \in Terminal

Listed(j) == \E i \in DOMAIN priority : priority[i] = j

\* Every entry leaves the public list: no entry blocks it for ever.
EveryEntryLeaves == \A j \in Jobs : Listed(j) ~> ~Listed(j)

=============================================================================
