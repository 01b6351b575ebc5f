---------------------------- MODULE QwenRiskQueue ----------------------------
(***************************************************************************)
(* The on-demand queue of Qwen risk assessments.  A reader's request puts  *)
(* the input of an event into a bounded priority list; a worker batch      *)
(* (app/services/qwen_risk_worker.py), started by a timer, claims readers' *)
(* requests before automatic retries and both before the background scan,  *)
(* calls the local model and records the result.  List and activities are  *)
(* two JSON values in runtime_state of the operations database; every      *)
(* method of OperationsRepository rewrites them in one transaction.        *)
(***************************************************************************)
EXTENDS Naturals, Sequences, FiniteSets, Lists

CONSTANTS
    Inputs,         \* identities: event, version, input hash and model
    Asked,          \* those that readers ask for
    Scanned,        \* those of the events in the recent and the fair window
    Revised,        \* those whose event may get a new version or other evidence
    Workers,        \* concurrent executions of run_qwen_risk_batch
    Capacity,       \* QWEN_RISK_PRIORITY_MAX_ITEMS
    ActivityMax,    \* QWEN_RISK_ACTIVITY_MAX_ITEMS
    AutoRetries,    \* QWEN_RISK_AUTO_RETRY_MAX_ATTEMPTS
    TopAttempts,    \* attempts beyond these are not told apart
    RunLimit,       \* assessments per batch (--limit)
    TtlTicks,       \* QWEN_RISK_PRIORITY_TTL_SECONDS
    StaleTicks,     \* QWEN_RISK_RUNNING_STALE_SECONDS
    BackoffTicks,   \* the first back-off of a retry, doubled each time
    BackoffCap,     \* the longest back-off
    MaxTime,        \* bound on the clock
    MaxCrashes,     \* bound on crashes
    NoInput         \* no input

ASSUME BoundsAssumption ==
    /\ Capacity \in Nat \ {0} /\ ActivityMax \in Nat \ {0}
    /\ AutoRetries \in Nat /\ RunLimit \in Nat \ {0}
    /\ TopAttempts \in Nat /\ TopAttempts > AutoRetries
    /\ TtlTicks \in Nat /\ StaleTicks \in Nat
    /\ BackoffTicks \in Nat \ {0} /\ BackoffCap \in Nat \ {0}
    /\ MaxTime \in Nat \ {0} /\ MaxCrashes \in Nat

ASSUME InputsAssumption ==
    /\ NoInput \notin Inputs
    /\ Asked \subseteq Inputs /\ Scanned \subseteq Inputs /\ Revised \subseteq Inputs

VARIABLES
    queue,      \* the priority list, in order
    activity,   \* what each input's lifecycle is at, newest change first
    runs,       \* inputs with a result in model_runs
    current,    \* inputs that are still what the ledger says of their event
    worker,     \* what each batch remembers
    now,
    crashes

vars == <<queue, activity, runs, current, worker, now, crashes>>

Attempts == 0 .. TopAttempts

\* Times start at 1; 0 is a time that is not set.
Times == 0 .. MaxTime + BackoffCap

Entry == [input : Inputs, class : {"PUBLIC", "AUTO_RETRY"}, requested : Times, available : Times]

Activity == [input : Inputs, state : {"NONE", "QUEUED", "RUNNING", "FAILED", "READY"},
             attempts : Attempts, since : Times, retry : Times]

WorkerState == [pc : {"idle", "claim", "prepare", "start", "call", "ready",
                      "scan", "background"},
                input : Inputs \cup {NoInput}, scheduled : SUBSET Inputs,
                attempted : 0 .. RunLimit, scanned : BOOLEAN, candidates : SUBSET Inputs]

TypeOK ==
    /\ queue \in Seq(Entry) /\ Len(queue) <= Capacity
    /\ activity \in Seq(Activity) /\ Len(activity) <= ActivityMax
    /\ runs \subseteq Inputs
    /\ current \subseteq Inputs
    /\ worker \in [Workers -> WorkerState]
    /\ now \in 1 .. MaxTime
    /\ crashes \in 0 .. MaxCrashes

IdleWorker == [pc |-> "idle", input |-> NoInput, scheduled |-> {}, attempted |-> 0,
               scanned |-> FALSE, candidates |-> {}]

Init ==
    /\ queue = <<>>
    /\ activity = <<>>
    /\ runs = {}
    /\ current = Inputs
    /\ worker = [w \in Workers |-> IdleWorker]
    /\ now = 1
    /\ crashes = 0

-----------------------------------------------------------------------------
(* Activities: _set_qwen_risk_activity_in_connection and qwen_risk_activity. *)

Unknown(i) == [input |-> i, state |-> "NONE", attempts |-> 0, since |-> 0, retry |-> 0]

ActivityOf(acts, i) ==
    IF \E k \in DOMAIN acts : acts[k].input = i
    THEN acts[CHOOSE k \in DOMAIN acts : acts[k].input = i] ELSE Unknown(i)

\* The back-off after the n-th failure, before and after it is cut.
Doubled[n \in 1 .. TopAttempts] == IF n = 1 THEN BackoffTicks ELSE 2 * Doubled[n - 1]
Backoff(n) == IF Doubled[n] > BackoffCap THEN BackoffCap ELSE Doubled[n]

\* From TopAttempts on no retry is scheduled any more and the back-off has
\* reached its cap.
ASSUME TopAttemptsAssumption == Backoff(TopAttempts) = BackoffCap

\* The activity of an input once it enters a state: since when it is queued, or
\* when a running call was last heard of.
Entered(was, state, retryable) ==
    LET failures == IF state # "FAILED" \/ was.attempts = TopAttempts THEN was.attempts
                    ELSE was.attempts + 1
    IN  [input |-> was.input, state |-> state, attempts |-> failures,
         since |-> CASE state = "RUNNING" -> now
                     [] state = "QUEUED" -> IF was.state = "QUEUED" THEN was.since ELSE now
                     [] OTHER -> 0,
         retry |-> IF state = "FAILED" /\ retryable THEN now + Backoff(failures) ELSE 0]

\* The list keeps the newest activities only.
Set(acts, i, state, retryable) ==
    LET others == {k \in DOMAIN acts : acts[k].input # i}
        all == <<Entered(ActivityOf(acts, i), state, retryable)>> \o AtPositions(acts, others)
    IN  SubSeq(all, 1, IF Len(all) > ActivityMax THEN ActivityMax ELSE Len(all))

\* A running call has missed its heartbeat, or a request has waited too long.
Overdue(a) ==
    \/ a.state = "RUNNING" /\ now - a.since > StaleTicks
    \/ a.state = "QUEUED" /\ now - a.since > TtlTicks

Deferred(a) == a.state = "FAILED" /\ a.retry > now

Unexpired(entry) == now - entry.requested <= TtlTicks
Available(entry) == entry.available <= now

\* Every method first parts the entries that have not waited too long.
Live == AtPositions(queue, {k \in DOMAIN queue : Unexpired(queue[k])})
Expired == AtPositions(queue, {k \in DOMAIN queue : ~Unexpired(queue[k])})

Holds(entries, i) == \E k \in DOMAIN entries : entries[k].input = i

\* What a reader is shown.
Shown(i) ==
    LET a == ActivityOf(activity, i)
        due == \E k \in DOMAIN queue : /\ queue[k].input = i
                                       /\ Unexpired(queue[k]) /\ Available(queue[k])
    IN  CASE Overdue(a) -> "FAILED"
          [] a.state = "FAILED" /\ a.retry > 0 /\ a.retry <= now /\ due -> "QUEUED"
          [] OTHER -> a.state

-----------------------------------------------------------------------------
(* The reader's side.                                                      *)

NewEntry(i, class, available) ==
    [input |-> i, class |-> class, requested |-> now, available |-> available]

WithoutInput(entries, i) ==
    AtPositions(entries, {k \in DOMAIN entries : entries[k].input # i})

EveryEntry(entries) == DOMAIN entries   \* a fault

\* The oldest automatic retry gives way to a reader.
Retries(entries) == {k \in DOMAIN entries : entries[k].class = "AUTO_RETRY"}
OldestOf(positions) == CHOOSE k \in positions : \A l \in positions : k <= l

WithRoom(entries) ==
    IF Len(entries) < Capacity THEN entries
    ELSE Without(entries, OldestOf(Retries(entries)))

\* The reader's request finds an entry of its own and makes it a reader's.
Promoted(entries, i) ==
    LET k == CHOOSE k \in DOMAIN entries : entries[k].input = i
    IN  IF entries[k].class = "PUBLIC" THEN queue
        ELSE Append(Without(entries, k), NewEntry(i, "PUBLIC", entries[k].available))

\* enqueue_qwen_risk_priority; an input that is running, ready or waits for
\* its retry changes nothing.
Request(i) ==
    LET was == ActivityOf(activity, i)
        acts == IF Overdue(was) THEN Set(activity, i, "FAILED", TRUE) ELSE activity
        full == Len(Live) >= Capacity /\ Retries(Live) = {}
    IN  /\ Overdue(was) \/ ~(was.state \in {"RUNNING", "READY"} \/ Deferred(was))
        /\ IF full /\ ~Holds(Live, i)
           THEN activity' = acts /\ queue' = queue
           ELSE /\ activity' = Set(acts, i, "QUEUED", FALSE)
                /\ queue' = IF Holds(Live, i) THEN Promoted(Live, i)
                            ELSE Append(WithRoom(Live), NewEntry(i, "PUBLIC", now))
        /\ UNCHANGED <<runs, current, worker, now, crashes>>

\* The event gets a new version or other evidence.
Revise(i) ==
    /\ i \in Revised \cap current
    /\ current' = current \ {i}
    /\ UNCHANGED <<queue, activity, runs, worker, now, crashes>>

Tick ==
    /\ now < MaxTime
    /\ now' = now + 1
    /\ UNCHANGED <<queue, activity, runs, current, worker, crashes>>

-----------------------------------------------------------------------------
(* One batch of the worker, with one model call at a time.                 *)

Goes(w, pc) == worker' = [worker EXCEPT ![w].pc = pc, ![w].input = NoInput]

Start(w) ==
    /\ worker[w].pc = "idle"
    /\ worker' = [worker EXCEPT ![w].pc = "claim"]
    /\ UNCHANGED <<queue, activity, runs, current, now, crashes>>

\* claim_qwen_risk_priority: what has waited too long fails.
AfterExpiry ==
    LET failed[n \in 0 .. Len(Expired)] ==
            IF n = 0 THEN activity ELSE Set(failed[n - 1], Expired[n].input, "FAILED", TRUE)
    IN  failed[Len(Expired)]

Claimable(entries) == {k \in DOMAIN entries : Available(entries[k])}

\* The claim takes the oldest entry of a reader, or else the oldest.
Readers(entries) == {k \in Claimable(entries) : entries[k].class = "PUBLIC"}

Taken(entries, k) == Without(entries, k)

ChosenNewest(entries) ==   \* a fault
    LET lane == IF Readers(entries) # {} THEN Readers(entries) ELSE Claimable(entries)
    IN  CHOOSE k \in lane : \A l \in lane : k >= l
Chosen(entries) ==
    OldestOf(IF Readers(entries) # {} THEN Readers(entries) ELSE Claimable(entries))

Claim(w) ==
    /\ worker[w].pc = "claim"
    /\ \E live \in {Live} :
          IF Claimable(live) = {}
          THEN /\ queue' = live
               /\ activity' = AfterExpiry
               /\ Goes(w, IF worker[w].scanned THEN "background" ELSE "scan")
          ELSE LET k == Chosen(live)
               IN  /\ queue' = Taken(live, k)
                   /\ activity' = Set(AfterExpiry, live[k].input, "RUNNING", FALSE)
                   /\ worker' = [worker EXCEPT ![w].pc = "prepare", ![w].input = live[k].input]
    /\ UNCHANGED <<runs, current, now, crashes>>

AppendedAnyway(entries, i, entry) == Append(entries, entry)   \* a fault

RoomForAny(entries, i) == TRUE   \* a fault
HasRoom(entries, i) == Holds(entries, i) \/ Len(entries) < Capacity

\* A retry takes the place of the input's entry, or the last.
Replaced(entries, i, entry) ==
    IF Holds(entries, i)
    THEN [k \in DOMAIN entries |-> IF entries[k].input = i THEN entry ELSE entries[k]]
    ELSE Append(entries, entry)

\* schedule_qwen_risk_retry: a failure, and a retry while there are attempts
\* and room for it.
ScheduleRetry(i) ==
    LET retryable == /\ ActivityOf(activity, i).attempts < AutoRetries
                     /\ HasRoom(Live, i)
        acts == Set(activity, i, "FAILED", retryable)
        entry == NewEntry(i, "AUTO_RETRY", ActivityOf(acts, i).retry)
    IN  /\ activity' = acts
        /\ queue' = IF retryable THEN Replaced(Live, i, entry) ELSE WithoutInput(Live, i)

\* The next slot of a batch, after one assessment.
AfterSlot(w) ==
    IF worker[w].attempted = RunLimit THEN "idle"
    ELSE IF worker[w].scanned THEN "claim" ELSE "scan"

SlotEnds(w) ==
    worker' = [worker EXCEPT ![w] =
        IF AfterSlot(w) = "idle" THEN IdleWorker
        ELSE [@ EXCEPT !.pc = AfterSlot(w), !.input = NoInput]]

Scheduled(w, i) ==
    worker' = [worker EXCEPT ![w].pc = "start", ![w].input = i,
                             ![w].scheduled = @ \cup {i}, ![w].attempted = @ + 1,
                             ![w].candidates = @ \ {i}]

\* _prepare_priority_candidate: the ledger cannot be read, has moved on, or the
\* result is there already.
PrepareFails(w) ==
    /\ worker[w].pc = "prepare"
    /\ ScheduleRetry(worker[w].input)
    /\ Goes(w, "claim")
    /\ UNCHANGED <<runs, current, now, crashes>>

PrepareSettles(w) ==
    LET i == worker[w].input
    IN  /\ worker[w].pc = "prepare"
        /\ \/ i \notin current /\ activity' = Set(activity, i, "FAILED", FALSE)
           \/ i \in current \cap runs /\ activity' = Set(activity, i, "READY", FALSE)
        /\ Goes(w, "claim")
        /\ UNCHANGED <<queue, runs, current, now, crashes>>

\* An input this batch has already scheduled once is dropped (next_candidate).
Prepare(w) ==
    LET i == worker[w].input
    IN  /\ worker[w].pc = "prepare"
        /\ i \in current \ runs
        /\ IF i \in worker[w].scheduled THEN Goes(w, "claim") ELSE Scheduled(w, i)
        /\ UNCHANGED <<queue, activity, runs, current, now, crashes>>

\* The recent and fair events of this batch, once the first reader is served.
Idle(i) == Shown(i) \notin {"QUEUED", "RUNNING"} /\ ~Deferred(ActivityOf(activity, i))

ScanReady(w, i) ==
    /\ worker[w].pc = "scan"
    /\ i \in Scanned \cap current \cap runs /\ Shown(i) # "READY"
    /\ activity' = Set(activity, i, "READY", FALSE)
    /\ UNCHANGED <<queue, runs, current, worker, now, crashes>>

Scan(w) ==
    /\ worker[w].pc = "scan"
    /\ \E found \in SUBSET {i \in (Scanned \cap current) \ (runs \cup worker[w].scheduled) : Idle(i)} :
        worker' = [worker EXCEPT ![w].pc = "claim", ![w].scanned = TRUE,
                                 ![w].candidates = found]
    /\ UNCHANGED <<queue, activity, runs, current, now, crashes>>

\* take_background, when no priority is left or for the slot that is reserved
\* to the fair scan.
Untaken(w) == {i \in worker[w].candidates : Idle(i)}

Background(w) ==
    /\ \/ worker[w].pc = "background"
       \/ /\ worker[w].pc = "claim" /\ worker[w].scanned
          /\ RunLimit > 1 /\ worker[w].attempted = RunLimit - 1
    /\ \E i \in Untaken(w) : Scheduled(w, i)
    /\ UNCHANGED <<queue, activity, runs, current, now, crashes>>

BatchEnds(w) ==
    /\ worker[w].pc = "background"
    /\ Untaken(w) = {}
    /\ worker' = [worker EXCEPT ![w] = IdleWorker]
    /\ UNCHANGED <<queue, activity, runs, current, now, crashes>>

\* _assess_candidate: the heartbeat, then the model call.
CallStarts(w) ==
    /\ worker[w].pc = "start"
    /\ activity' = Set(activity, worker[w].input, "RUNNING", FALSE)
    /\ worker' = [worker EXCEPT ![w].pc = "call"]
    /\ UNCHANGED <<queue, runs, current, now, crashes>>

\* The call, or storing its result, raises an exception.
Fails(w) ==
    /\ worker[w].pc \in {"start", "call", "ready"}
    /\ ScheduleRetry(worker[w].input)
    /\ SlotEnds(w)
    /\ UNCHANGED <<runs, current, now, crashes>>

\* _persist_outcome, once the model answered: record_model_run_once, then the
\* activity.
RecordedNothing(i) == runs   \* a fault
RecordedOnce(i) == runs \cup {i}

Record(w) ==
    /\ worker[w].pc = "call"
    /\ runs' = RecordedOnce(worker[w].input)
    /\ worker' = [worker EXCEPT ![w].pc = "ready"]
    /\ UNCHANGED <<queue, activity, current, now, crashes>>

SetReady(w) ==
    /\ worker[w].pc = "ready"
    /\ activity' = Set(activity, worker[w].input, "READY", FALSE)
    /\ SlotEnds(w)
    /\ UNCHANGED <<queue, runs, current, now, crashes>>

Crash(w) ==
    /\ worker[w].pc # "idle"
    /\ crashes < MaxCrashes
    /\ crashes' = crashes + 1
    /\ worker' = [worker EXCEPT ![w] = IdleWorker]
    /\ UNCHANGED <<queue, activity, runs, current, now>>

-----------------------------------------------------------------------------
Step(w) ==
    \/ Start(w) \/ Claim(w) \/ PrepareFails(w) \/ PrepareSettles(w) \/ Prepare(w)
    \/ \E i \in Inputs : ScanReady(w, i)
    \/ Scan(w) \/ Background(w) \/ BatchEnds(w) \/ CallStarts(w) \/ Fails(w) \/ Record(w) \/ SetReady(w)

Next ==
    \/ Tick
    \/ \E i \in Asked : Request(i)
    \/ \E i \in Inputs : Revise(i)
    \/ \E w \in Workers : Step(w) \/ Crash(w)

Spec == Init /\ [][Next]_vars

\* The timer starts a batch on a wall-clock schedule, whatever came of the last
\* one, a call ends within its timeout, and a scan passes each event once.  In
\* every state a worker has a step that changes what it remembers, so that weak
\* fairness of these steps is to take one again and again.
GoesOn(w) == worker'[w] # worker[w] /\ crashes' = crashes
FairSpec == Spec /\ \A w \in Workers : []<><<GoesOn(w)>>_vars

-----------------------------------------------------------------------------
(* Properties.                                                             *)

\* An input waits in the list once, however requests, promotions, retries of
\* concurrent batches and evictions follow each other.
OneEntryEach ==
    \A k, l \in DOMAIN queue : queue[k].input = queue[l].input => k = l

\* No step lets a reader wait for nothing: whoever is queued after it holds an
\* entry, or had been left without an unexpired one before. No eviction by
\* another reader, failure, expiry or claim takes the entry and leaves the
\* reader waiting.
HoldsLive(i) == \E k \in DOMAIN queue : queue[k].input = i /\ Unexpired(queue[k])
Queued(i) == ActivityOf(activity, i).state = "QUEUED"

QueuedKeepsTask ==
    [][\A i \in Inputs : Queued(i)' => Holds(queue', i) \/ (Queued(i) /\ ~HoldsLive(i))]_vars

\* An assessment is shown as ready only once its result is stored, whichever
\* of the worker's steps fails or is repeated.
ReadyIsRecorded ==
    \A k \in DOMAIN activity : activity[k].state = "READY" => activity[k].input \in runs

ReadersEntry(i) == \E k \in DOMAIN queue : queue[k].input = i /\ queue[k].class = "PUBLIC"

\* "a real FIFO lane ahead of automatic retries and background scans"
\* (CHANGELOG): a reader's entry leaves the list in the end, although other
\* readers, retries and the background scan keep the worker busy: there is
\* always a later moment without one.
ReadersServed == \A i \in Asked : []<>~ReadersEntry(i)

-----------------------------------------------------------------------------
(* What the repository says and the code does not do.                      *)

\* "A selected event is shown as queued ... only when [it] has a persisted
\* task" (CHANGELOG.md:26). A request that finds its own public entry renews the
\* activity (a new queued_at, when it was running or had failed meanwhile) and
\* leaves the entry with its old date; the entry expires first, and the reader
\* is shown as queued without one.
QueuedHasTask == \A i \in Inputs : Shown(i) = "QUEUED" => HoldsLive(i)

=============================================================================
