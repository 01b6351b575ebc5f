--------------------------- MODULE FormalMutation ---------------------------
(***************************************************************************)
(* The formal conclusions of light verification: an authorised batch of    *)
(* scripts/light_verify.py writes a verified version of an event into the  *)
(* ledger (app/services/light_verification.py), bracketed by an audit row  *)
(* in the operations database (formal_mutation_audits of                   *)
(* app/storage/operations.py).  The two databases share no transaction, so *)
(* the audit is prepared before the ledger commits and confirmed after; a  *)
(* reconciliation, run by every backup, confirms what a crash left open.   *)
(***************************************************************************)
EXTENDS Naturals, FiniteSets

CONSTANTS
    Events,
    MaxVersion,     \* bound on the versions of an event
    MaxEvidence,    \* bound on the changes of an event's evidence
    MaxRoughMoves,  \* bound on the changes of an event's rough review
    Runners,        \* concurrent executions of light_verify.py --apply
    Batches,        \* batch ids of authorisation contracts
    Latencies,      \* what an evaluation may measure; it is part of the audited payload
    MayCoincide,    \* whether two evaluations may measure the same
    BatchLimit,     \* the lesser of --max-applies and the contract's max_applies
    DailyLimit,     \* daily_budget
    MaxDay,         \* bound on the days
    MaxCrashes,     \* bound on crashes
    Nothing         \* no formal conclusion, no audit content

ASSUME EventsAssumption == IsFiniteSet(Events)

ASSUME LimitsAssumption ==
    /\ MaxVersion \in Nat \ {0} /\ MaxEvidence \in Nat /\ MaxRoughMoves \in Nat
    /\ BatchLimit \in Nat \ {0} /\ DailyLimit \in Nat
    /\ MaxDay \in Nat /\ MaxCrashes \in Nat
    /\ MayCoincide \in BOOLEAN

Versions == 1 .. MaxVersion
Evidence == 0 .. MaxEvidence
Days == 0 .. MaxDay

\* _light_mutation_identity: one audit row per event and version.
Identities == Events \X Versions

\* What the content hash covers: the batch, the evidence that was checked,
\* and the latency in the model snapshots.
Contents == [batch : Batches, evidence : Evidence, latency : Latencies]

\* A formal conclusion in the ledger.
Conclusions == [content : Contents, day : Days]

ASSUME NothingAssumption == Nothing \notin Contents \cup Conclusions

VARIABLES
    event,      \* canonical_events: current version, evidence, rough review, status;
                \* the receipt of the event's follow-up job in pipeline_jobs
    formal,     \* formal conclusions among event_versions: content and day
    audit,      \* formal_mutation_audits
    runner,     \* what each execution remembers
    recon,      \* what the reconciliation remembers
    measured,   \* latencies measured so far
    day,        \* the UTC day
    crashes

vars == <<event, formal, audit, runner, recon, measured, day, crashes>>

AuditStates == {"ABSENT", "PREPARED", "LEDGER_COMMITTED", "RECOVERED", "ABANDONED",
                "RECOVERY_CONFLICT"}
Confirmed == {"LEDGER_COMMITTED", "RECOVERED"}

ScopeEntry == [event : Events, version : Versions, evidence : Evidence]

\* What an evaluation saw of the event, in place of its evidence fingerprint.
Receipts == [version : Versions, evidence : Evidence]

RunnerState == [pc : {"idle", "evaluate", "prepare", "apply", "confirm", "abandon"},
                batch : Batches \cup {Nothing}, scope : SUBSET ScopeEntry,
                entry : ScopeEntry \cup {Nothing}, before : 0 .. MaxVersion,
                content : Contents \cup {Nothing}, prepared : BOOLEAN]

ReconState == [pc : {"idle", "pending", "confirm", "conflict"},
               seen : SUBSET Identities, pending : SUBSET Identities,
               failed : Identities \cup {Nothing}]

TypeOK ==
    /\ event \in [Events -> [version : Versions, evidence : Evidence,
                             roughMoves : 0 .. MaxRoughMoves, candidate : BOOLEAN,
                             followup : Receipts \cup {Nothing}]]
    /\ formal \in [Identities -> Conclusions \cup {Nothing}]
    /\ audit \in [Identities -> [state : AuditStates, content : Contents \cup {Nothing}]]
    /\ runner \in [Runners -> RunnerState]
    /\ \A r \in Runners : runner[r].pc = "idle" <=> runner[r].scope = {}
    /\ recon \in ReconState
    /\ measured \subseteq Latencies
    /\ day \in Days
    /\ crashes \in 0 .. MaxCrashes

\* An execution that is at no event.
Between(pc, b, S) == [pc |-> pc, batch |-> b, scope |-> S, entry |-> Nothing,
                      before |-> 0, content |-> Nothing, prepared |-> FALSE]
IdleRunner == Between("idle", Nothing, {})
IdleRecon == [pc |-> "idle", seen |-> {}, pending |-> {}, failed |-> Nothing]

Init ==
    /\ event = [e \in Events |-> [version |-> 1, evidence |-> 0, roughMoves |-> 0,
                                  candidate |-> TRUE, followup |-> Nothing]]
    /\ formal = [m \in Identities |-> Nothing]
    /\ audit = [m \in Identities |-> [state |-> "ABSENT", content |-> Nothing]]
    /\ runner = [r \in Runners |-> IdleRunner]
    /\ recon = IdleRecon
    /\ measured = {}
    /\ day = 0
    /\ crashes = 0

-----------------------------------------------------------------------------
(* What others do to the ledger meanwhile.                                 *)

\* A rough review accepts the event at first; each change blocks it or lifts
\* the block (BLOCKING_ROUGH_OUTCOMES).
Blocked(e) == event[e].roughMoves % 2 = 1

\* The strict gates of evaluate_event, which the first evidence fails.
Supports(evidence) == evidence > 0

NextDay == /\ day < MaxDay
           /\ day' = day + 1
           /\ UNCHANGED <<event, formal, audit, runner, recon, measured, crashes>>

EvidenceArrives(e) ==
    /\ event[e].evidence < MaxEvidence
    /\ event' = [event EXCEPT ![e].evidence = @ + 1]
    /\ UNCHANGED <<formal, audit, runner, recon, measured, day, crashes>>

RoughReview(e) ==
    /\ event[e].roughMoves < MaxRoughMoves
    /\ event' = [event EXCEPT ![e].roughMoves = @ + 1]
    /\ UNCHANGED <<formal, audit, runner, recon, measured, day, crashes>>

\* Another writer of the ledger gives the event a new version, and may reject
\* it, decide it, or reopen it as a candidate.
Revise(e) ==
    /\ event[e].version < MaxVersion
    /\ \E open \in BOOLEAN :
        event' = [event EXCEPT ![e].version = @ + 1, ![e].candidate = open]
    /\ UNCHANGED <<formal, audit, runner, recon, measured, day, crashes>>

-----------------------------------------------------------------------------
(* One execution of light_verify.py --apply under a contract that names    *)
(* the exact version and evidence of every event of its scope.             *)

\* The follow-up job remembers this very version and evidence as insufficient.
Attempted(e) ==
    event[e].followup = [version |-> event[e].version, evidence |-> event[e].evidence]

\* About to evaluate the events of a scope, for a batch.
Evaluating(b, S) == Between("evaluate", b, S)

\* candidate_scope and _validate_selected_scope: an attempted event is only
\* considered again by name (--event-id).
Start(r) ==
    /\ runner[r].pc = "idle"
    /\ \E S \in SUBSET {e \in Events : event[e].candidate /\ ~Blocked(e)}, b \in Batches :
        /\ S # {}
        /\ \A e \in S : Attempted(e) => S = {e}
        /\ runner' = [runner EXCEPT ![r] =
              Evaluating(b, {[event |-> e, version |-> event[e].version,
                              evidence |-> event[e].evidence] : e \in S})]
    /\ UNCHANGED <<event, formal, audit, recon, measured, day, crashes>>

\* The rest of the scope once an event is done with, whatever came of it.
Continued(run) ==
    LET rest == run.scope \ {run.entry}
    IN  IF rest = {} THEN IdleRunner ELSE Evaluating(run.batch, rest)

Evaluate(r) ==
    /\ runner[r].pc = "evaluate"
    /\ \E entry \in runner[r].scope,
          l \in IF MayCoincide THEN Latencies ELSE Latencies \ measured :
        LET now == event[entry.event]
        IN  /\ measured' = measured \cup {l}
            /\ runner' = [runner EXCEPT ![r].entry = entry,
                             ![r].before = now.version,
                             ![r].content = [batch |-> runner[r].batch,
                                             evidence |-> now.evidence, latency |-> l],
                             ![r].pc = IF Supports(now.evidence) THEN "prepare" ELSE "apply"]
    /\ UNCHANGED <<event, formal, audit, recon, day, crashes>>

\* apply_event writes one version after the one that was evaluated.
AfterVersion(before) == before + 1

Mutation(r) == <<runner[r].entry.event, AfterVersion(runner[r].before)>>

\* prepare_light_verification_mutation: insert, or find the same content.
AcceptsAny(row, content) == TRUE   \* a fault
Accepts(row, content) == row.state = "ABSENT" \/ row.content = content

Prepare(r) ==
    LET m == Mutation(r)
        content == runner[r].content
    IN  /\ runner[r].pc = "prepare"
        /\ runner[r].before < MaxVersion
        /\ IF Accepts(audit[m], content)
           THEN /\ audit' = [audit EXCEPT ![m] =
                                IF @.state = "ABSENT"
                                THEN [state |-> "PREPARED", content |-> content] ELSE @]
                /\ runner' = [runner EXCEPT ![r].pc = "apply", ![r].prepared = TRUE]
           ELSE /\ audit' = audit
                /\ runner' = [runner EXCEPT ![r] = Continued(@)]
        /\ UNCHANGED <<event, formal, recon, measured, day, crashes>>

-----------------------------------------------------------------------------
(* apply_event, in one BEGIN IMMEDIATE transaction of the ledger.          *)

FormalOf(b) == {m \in Identities : formal[m] # Nothing /\ formal[m].content.batch = b}
FormalOn(d) == {m \in Identities : formal[m] # Nothing /\ formal[m].day = d}

\* A fault of _formal_budget_block_reason.
BlocksLate(b) == \/ Cardinality(FormalOn(day)) >= DailyLimit
                 \/ Cardinality(FormalOf(b)) > BatchLimit

BudgetBlocks(b) == \/ Cardinality(FormalOn(day)) >= DailyLimit
                   \/ Cardinality(FormalOf(b)) >= BatchLimit

\* The event is still what was evaluated and what the contract authorises.
InScope(r) ==
    LET now == event[runner[r].entry.event]
    IN  /\ now.candidate
        /\ now.version = runner[r].before /\ now.version = runner[r].entry.version
        /\ now.evidence = runner[r].content.evidence
        /\ now.evidence = runner[r].entry.evidence

Applicable(r) ==
    /\ Supports(runner[r].content.evidence)
    /\ InScope(r)
    /\ ~Blocked(runner[r].entry.event)
    /\ ~BudgetBlocks(runner[r].content.batch)

\* The day is read for the budget and again for the version.
Apply(r) ==
    /\ runner[r].pc = "apply"
    /\ Applicable(r)
    /\ day' \in {day, day + 1} \cap Days
    /\ LET m == Mutation(r)
       IN  /\ event' = [event EXCEPT ![m[1]].version = m[2], ![m[1]].candidate = FALSE,
                                     ![m[1]].followup = Nothing]
           /\ formal' = [formal EXCEPT ![m] = [content |-> runner[r].content, day |-> day']]
    /\ runner' = [runner EXCEPT ![r].pc = "confirm"]
    /\ UNCHANGED <<audit, recon, measured, crashes>>

AfterRefusal(r) == IF runner[r].prepared THEN [runner[r] EXCEPT !.pc = "abandon"]
                   ELSE Continued(runner[r])

\* Without support, or blocked by the rough review, the transaction commits a
\* follow-up job (_persist_followup) and no conclusion.
FollowUp(r) ==
    LET e == runner[r].entry.event
        seen == [version |-> runner[r].before, evidence |-> runner[r].content.evidence]
    IN  /\ runner[r].pc = "apply"
        /\ event[e].version = runner[r].before
        /\ ~Supports(runner[r].content.evidence) \/ Blocked(e)
        /\ event' = [event EXCEPT ![e].followup = seen]
        /\ runner' = [runner EXCEPT ![r] = AfterRefusal(r)]
        /\ UNCHANGED <<formal, audit, recon, measured, day, crashes>>

\* The transaction rolls back, or finds the budget spent and writes nothing. An
\* expired contract and a ledger that stays locked can refuse it at any time.
ApplyRefused(r) ==
    /\ runner[r].pc = "apply"
    /\ runner' = [runner EXCEPT ![r] = AfterRefusal(r)]
    /\ UNCHANGED <<event, formal, audit, recon, measured, day, crashes>>

-----------------------------------------------------------------------------
(* The audit after the ledger transaction.                                 *)

\* confirm_light_verification_mutation, idempotent: refused when the audit is
\* abandoned or holds another content.
Confirmable(m, content) == audit[m].content = content /\ audit[m].state # "ABANDONED"

Confirm(r) ==
    LET m == Mutation(r)
    IN  /\ runner[r].pc = "confirm"
        /\ audit' = IF Confirmable(m, runner[r].content)
                    THEN [audit EXCEPT ![m].state = "LEDGER_COMMITTED"] ELSE audit
        /\ runner' = [runner EXCEPT ![r] = Continued(@)]
        /\ UNCHANGED <<event, formal, recon, measured, day, crashes>>

\* The confirmation itself fails (a locked database): the audit stays open.
AbandonAfterFailure(run) == [run EXCEPT !.pc = "abandon"]   \* a fault
AfterFailedConfirmation(run) == Continued(run)

ConfirmFails(r) ==
    /\ runner[r].pc = "confirm"
    /\ runner' = [runner EXCEPT ![r] = AfterFailedConfirmation(@)]
    /\ UNCHANGED <<event, formal, audit, recon, measured, day, crashes>>

Abandon(r) ==
    LET m == Mutation(r)
    IN  /\ runner[r].pc = "abandon"
        /\ audit' = IF audit[m].state = "PREPARED"
                    THEN [audit EXCEPT ![m].state = "ABANDONED"] ELSE audit
        /\ runner' = [runner EXCEPT ![r] = Continued(@)]
        /\ UNCHANGED <<event, formal, recon, measured, day, crashes>>

Crash(r) ==
    /\ runner[r].pc # "idle"
    /\ crashes < MaxCrashes
    /\ crashes' = crashes + 1
    /\ runner' = [runner EXCEPT ![r] = IdleRunner]
    /\ UNCHANGED <<event, formal, audit, recon, measured, day>>

-----------------------------------------------------------------------------
(* reconcile_light_verification_mutations: the ledger is read first, the   *)
(* open audits after it, and each is then confirmed in a transaction of    *)
(* its own.                                                                *)

ReconcileRead ==
    /\ recon.pc = "idle"
    /\ recon' = [IdleRecon EXCEPT !.pc = "pending",
                                  !.seen = {m \in Identities : formal[m] # Nothing}]
    /\ UNCHANGED <<event, formal, audit, runner, measured, day, crashes>>

ReconcilePending ==
    /\ recon.pc = "pending"
    /\ LET open == {m \in recon.seen : audit[m].state = "PREPARED"}
       IN  recon' = IF open = {} THEN IdleRecon
                    ELSE [recon EXCEPT !.pc = "confirm", !.pending = open]
    /\ UNCHANGED <<event, formal, audit, runner, measured, day, crashes>>

Remaining(m) == IF recon.pending = {m} THEN IdleRecon
                ELSE [recon EXCEPT !.pc = "confirm", !.pending = @ \ {m}, !.failed = Nothing]

ReconcileConfirm ==
    /\ recon.pc = "confirm"
    /\ \E m \in recon.pending :
        IF Confirmable(m, formal[m].content)
        THEN /\ audit' = [audit EXCEPT ![m].state = "RECOVERED"]
             /\ recon' = Remaining(m)
        ELSE /\ audit' = audit
             /\ recon' = [recon EXCEPT !.pc = "conflict", !.failed = m]
    /\ UNCHANGED <<event, formal, runner, measured, day, crashes>>

ReconcileConflict ==
    /\ recon.pc = "conflict"
    /\ audit' = [audit EXCEPT ![recon.failed].state = "RECOVERY_CONFLICT"]
    /\ recon' = Remaining(recon.failed)
    /\ UNCHANGED <<event, formal, runner, measured, day, crashes>>

Reconcile == ReconcileRead \/ ReconcilePending \/ ReconcileConfirm \/ ReconcileConflict

ReconcileCrash ==
    /\ recon.pc # "idle"
    /\ crashes < MaxCrashes
    /\ crashes' = crashes + 1
    /\ recon' = IdleRecon
    /\ UNCHANGED <<event, formal, audit, runner, measured, day>>

-----------------------------------------------------------------------------
Next ==
    \/ NextDay
    \/ \E e \in Events : EvidenceArrives(e) \/ RoughReview(e) \/ Revise(e)
    \/ \E r \in Runners : \/ Start(r) \/ Evaluate(r) \/ Prepare(r) \/ Apply(r)
                          \/ FollowUp(r) \/ ApplyRefused(r) \/ Confirm(r) \/ ConfirmFails(r)
                          \/ Abandon(r) \/ Crash(r)
    \/ Reconcile \/ ReconcileCrash

Spec == Init /\ [][Next]_vars

\* Every backup, started by a timer, reconciles first.
FairSpec == Spec /\ WF_vars(Reconcile)

-----------------------------------------------------------------------------
(* Properties.                                                             *)

\* An event version has one formal conclusion, and the audit prepared for it
\* is the audit of that very conclusion, through retries, concurrent batches,
\* crashes and reconciliation.
OneConclusion ==
    \A m \in Identities :
        formal[m] # Nothing => /\ audit[m].state # "ABSENT"
                               /\ audit[m].content = formal[m].content

\* A formal conclusion is only ever added, as a version newer than all the
\* event has, although its batch evaluated the event before others revised,
\* decided and reopened it: none is written over, no revision is undone.
ConclusionsAdded ==
    [][\A m \in Identities : formal'[m] # formal[m] =>
          formal[m] = Nothing /\ event[m[1]].version < m[2]]_vars

\* No audit says "committed" of a version the ledger does not have.
ConfirmedIsCommitted ==
    \A m \in Identities : audit[m].state \in Confirmed => formal[m] # Nothing

\* Reconciling never meets an audit it cannot confirm, however it interleaves
\* with the batches, as long as no two evaluations measure the same latency.
RecoveryNeverConflicts == \A m \in Identities : audit[m].state # "RECOVERY_CONFLICT"

\* "Close a prepared intent only when its ledger transaction did not commit"
\* (abandon_light_verification_mutation): an abandoned audit has no conclusion,
\* as long as no two evaluations measure the same latency. A retry whose
\* evaluation coincides finds the abandoned audit of its own content, and
\* commits the ledger under it.
AbandonedIsUncommitted ==
    \A m \in Identities : audit[m].state = "ABANDONED" => formal[m] = Nothing

\* Concurrent executions of one batch stay within its limit together.
BatchLimitKept == \A b \in Batches : Cardinality(FormalOf(b)) <= BatchLimit

\* So do all batches of a day, also around midnight.
DailyLimitKept == \A d \in Days : Cardinality(FormalOn(d)) <= DailyLimit

\* However many executions compete for the last place: no batch applies more
\* than its contract allows, and no day sees more than its budget.
LimitsKept == BatchLimitKept /\ DailyLimitKept

\* What audit and ledger show of a mutation.
VerdictOf(state) == CASE state \in Confirmed -> "committed"
                      [] state = "ABANDONED" -> "abandoned"
                      [] state = "RECOVERY_CONFLICT" -> "conflict"
                      [] OTHER -> "open"

Audited == INSTANCE AuditedLedger
               WITH Mutations <- Identities,
                    intended <- [m \in Identities |-> audit[m].content],
                    concluded <- [m \in Identities |-> IF formal[m] = Nothing THEN Nothing
                                                       ELSE formal[m].content],
                    verdict <- [m \in Identities |-> VerdictOf(audit[m].state)]

\* Two databases that share no transaction, concurrent batches and a
\* reconciliation that reads them one after the other behave as one audited
\* ledger, as long as no two evaluations measure the same latency.
ImplementsAuditedLedger == Audited!Spec

\* A formal conclusion in the ledger is confirmed in the audit in the end,
\* although its author may have crashed.
EveryConclusionAudited ==
    \A m \in Identities : formal[m] # Nothing ~> audit[m].state \in Confirmed

=============================================================================
