------------------------ MODULE FormalMutationProofs ------------------------
(***************************************************************************)
(* Proofs about FormalMutation, for every set of events, executions and    *)
(* batches and every value of the bounds.                                  *)
(***************************************************************************)
EXTENDS FormalMutation, FiniteSetTheorems, TLAPS

\* What an execution remembers between two transactions.
RunnerOK(r) ==
    /\ runner[r].pc # "idle" => runner[r].batch \in Batches
    /\ runner[r].pc \notin {"idle", "evaluate"} =>
          /\ runner[r].entry \in runner[r].scope
          /\ runner[r].content \in Contents
          /\ runner[r].before \in Versions
    /\ runner[r].pc = "apply" /\ Supports(runner[r].content.evidence) => runner[r].prepared
    /\ runner[r].pc \in {"confirm", "abandon"} => runner[r].prepared
    /\ runner[r].prepared =>
          /\ runner[r].pc \in {"apply", "confirm", "abandon"}
          /\ runner[r].before < MaxVersion
          /\ audit[Mutation(r)].content = runner[r].content
    /\ runner[r].pc = "confirm" =>
          /\ formal[Mutation(r)] # Nothing
          /\ formal[Mutation(r)].content = runner[r].content

LocalsOK == \A r \in Runners : RunnerOK(r)

\* What the reconciliation remembers: versions that the ledger has.
ReconOK ==
    /\ recon.pending \subseteq recon.seen
    /\ \A m \in recon.seen : formal[m] # Nothing
    /\ recon.pc = "conflict" => recon.failed \in recon.pending

AuditOK == \A m \in Identities : audit[m].state = "ABSENT" <=> audit[m].content = Nothing

\* A conclusion is one of the versions the event has.
VersionsOK == \A m \in Identities : formal[m] # Nothing => m[2] <= event[m[1]].version

IInv == TypeOK /\ LocalsOK /\ ReconOK /\ AuditOK /\ VersionsOK /\ OneConclusion
        /\ ConfirmedIsCommitted

-----------------------------------------------------------------------------
\* An audit keeps its content for good, the ledger keeps its conclusions.
Grows ==
    /\ \A m \in Identities : audit[m].content # Nothing => audit'[m].content = audit[m].content
    /\ \A m \in Identities : formal[m] # Nothing =>
          formal'[m] # Nothing /\ formal'[m].content = formal[m].content

LEMMA MutationType ==
    ASSUME TypeOK, NEW r \in Runners, RunnerOK(r),
           runner[r].pc \notin {"idle", "evaluate"}, runner[r].before < MaxVersion
    PROVE  /\ runner[r].entry \in ScopeEntry /\ runner[r].entry.event \in Events
           /\ Mutation(r) \in Identities
           /\ Mutation(r)[1] = runner[r].entry.event /\ Mutation(r)[2] = runner[r].before + 1
  <1>1. runner[r].entry \in ScopeEntry
    BY DEF TypeOK, RunnerState, RunnerOK
  <1> QED
    BY <1>1, LimitsAssumption
       DEF RunnerOK, Mutation, AfterVersion, Identities, Versions, ScopeEntry

LEMMA Others ==
    ASSUME IInv, Grows, NEW q \in Runners, runner'[q] = runner[q]
    PROVE  RunnerOK(q)'
  <1>1. RunnerOK(q)
    BY DEF IInv, LocalsOK
  <1>2. Mutation(q)' = Mutation(q)
    BY DEF Mutation
  <1>3. CASE runner[q].prepared
    <2>1. Mutation(q) \in Identities
      BY <1>1, <1>3, MutationType DEF IInv, RunnerOK
    <2>2. runner[q].content # Nothing
      BY <1>1, <1>3, NothingAssumption DEF RunnerOK
    <2> QED
      BY <1>1, <1>2, <1>3, <2>1, <2>2 DEF Grows, RunnerOK
  <1>4. CASE ~runner[q].prepared
    BY <1>1, <1>4 DEF RunnerOK
  <1> QED
    BY <1>3, <1>4

LEMMA EvaluatingType ==
    ASSUME NEW batch \in Batches \cup {Nothing}, NEW S \in SUBSET ScopeEntry
    PROVE  /\ Evaluating(batch, S) \in RunnerState
           /\ Evaluating(batch, S).pc = "evaluate" /\ Evaluating(batch, S).scope = S
           /\ Evaluating(batch, S).batch = batch /\ Evaluating(batch, S).prepared = FALSE
  BY LimitsAssumption DEF Evaluating, Between, RunnerState

LEMMA ContinuedType ==
    ASSUME NEW run \in RunnerState, run.entry \in run.scope
    PROVE  /\ Continued(run) \in RunnerState
           /\ Continued(run).pc \in {"idle", "evaluate"}
           /\ Continued(run).pc = "idle" <=> Continued(run).scope = {}
           /\ Continued(run).pc # "idle" => Continued(run).batch = run.batch
           /\ Continued(run).prepared = FALSE
  <1> DEFINE rest == run.scope \ {run.entry}
  <1>1. IdleRunner \in RunnerState
    BY LimitsAssumption DEF IdleRunner, Between, RunnerState
  <1>2. rest \in SUBSET ScopeEntry /\ run.batch \in Batches \cup {Nothing}
    BY DEF RunnerState
  <1>3. CASE rest = {}
    <2>1. Continued(run) = IdleRunner
      BY <1>3 DEF Continued
    <2> QED
      BY <1>1, <2>1 DEF IdleRunner, Between
  <1>4. CASE rest # {}
    <2>1. Continued(run) = Evaluating(run.batch, rest)
      BY <1>4 DEF Continued
    <2> HIDE DEF rest
    <2>2. /\ Evaluating(run.batch, rest) \in RunnerState
          /\ Evaluating(run.batch, rest).pc = "evaluate"
          /\ Evaluating(run.batch, rest).scope = rest
          /\ Evaluating(run.batch, rest).batch = run.batch
          /\ Evaluating(run.batch, rest).prepared = FALSE
      BY <1>2, EvaluatingType
    <2> QED
      BY <1>4, <2>1, <2>2
  <1> QED
    BY <1>3, <1>4

\* An execution that is between two events satisfies its invariant.
LEMMA BetweenEvents ==
    ASSUME NEW r \in Runners, runner'[r].pc \in {"idle", "evaluate"},
           runner'[r].pc # "idle" => runner'[r].batch \in Batches,
           runner'[r].prepared = FALSE
    PROVE  RunnerOK(r)'
  BY DEF RunnerOK

\* A step of one execution r: what remains to show is r's own invariant.
LEMMA OneRunner ==
    ASSUME IInv, NEW r \in Runners, NEW run \in RunnerState, Grows,
           runner' = [runner EXCEPT ![r] = run],
           run.pc = "idle" <=> run.scope = {}, RunnerOK(r)'
    PROVE  /\ runner' \in [Runners -> RunnerState]
           /\ \A q \in Runners : runner'[q].pc = "idle" <=> runner'[q].scope = {}
           /\ LocalsOK'
  <1>1. runner' \in [Runners -> RunnerState]
    BY DEF IInv, TypeOK
  <1>2. \A q \in Runners \ {r} : runner'[q] = runner[q]
    BY DEF IInv, TypeOK
  <1>3. LocalsOK'
    BY <1>2, Others DEF LocalsOK
  <1> QED
    BY <1>1, <1>2, <1>3 DEF IInv, TypeOK

-----------------------------------------------------------------------------
\* Steps that leave the audits, the conclusions and the processes alone.
LEMMA Quiet ==
    ASSUME IInv, TypeOK', UNCHANGED <<formal, audit, runner, recon>>,
           \A e \in Events : event[e].version <= event'[e].version
    PROVE  IInv'
  <1>1. VersionsOK'
    <2> SUFFICES ASSUME NEW m \in Identities, formal[m] # Nothing
                 PROVE  m[2] <= event'[m[1]].version
      BY DEF VersionsOK
    <2>1. m[1] \in Events /\ m[2] \in Nat
      BY LimitsAssumption DEF Identities, Versions
    <2>2. event[m[1]].version \in Nat /\ event'[m[1]].version \in Nat
      BY <2>1, LimitsAssumption DEF IInv, TypeOK, Versions
    <2> QED
      BY <2>1, <2>2 DEF IInv, VersionsOK
  <1>2. LocalsOK'
    BY DEF IInv, LocalsOK, RunnerOK, Mutation
  <1> QED
    BY <1>1, <1>2 DEF IInv, ReconOK, AuditOK, OneConclusion, ConfirmedIsCommitted

LEMMA IInvInit == Init => IInv
  <1> SUFFICES ASSUME Init PROVE IInv
    OBVIOUS
  <1>1. TypeOK
    <2>1. IdleRunner \in RunnerState /\ IdleRecon \in ReconState
      BY LimitsAssumption DEF IdleRunner, Between, RunnerState, IdleRecon, ReconState
    <2>2. event \in [Events -> [version : Versions, evidence : Evidence,
                                roughMoves : 0 .. MaxRoughMoves, candidate : BOOLEAN,
                                followup : Receipts \cup {Nothing}]]
      BY LimitsAssumption DEF Init, Versions, Evidence
    <2>3. audit \in [Identities -> [state : AuditStates, content : Contents \cup {Nothing}]]
      BY DEF Init, AuditStates
    <2>4. formal \in [Identities -> Conclusions \cup {Nothing}]
      BY DEF Init
    <2>5. IdleRunner.pc = "idle" /\ IdleRunner.scope = {}
      BY DEF IdleRunner, Between
    <2> QED
      BY <2>1, <2>2, <2>3, <2>4, <2>5, LimitsAssumption DEF Init, TypeOK, Days
  <1>2. LocalsOK
    BY DEF Init, LocalsOK, RunnerOK, IdleRunner, Between
  <1> QED
    BY <1>1, <1>2
       DEF Init, IInv, ReconOK, AuditOK, VersionsOK, OneConclusion, ConfirmedIsCommitted,
           Confirmed, IdleRecon

LEMMA StutterStep == IInv /\ UNCHANGED vars => IInv'
  <1> SUFFICES ASSUME IInv, UNCHANGED vars PROVE IInv'
    OBVIOUS
  <1>1. \A e \in Events : event[e].version \in Nat
    BY LimitsAssumption DEF IInv, TypeOK, Versions
  <1> QED
    BY <1>1, Quiet DEF IInv, TypeOK, vars

LEMMA NextDayStep == IInv /\ NextDay => IInv'
  <1> SUFFICES ASSUME IInv, NextDay PROVE IInv'
    OBVIOUS
  <1>1. \A e \in Events : event[e].version \in Nat
    BY LimitsAssumption DEF IInv, TypeOK, Versions
  <1>2. TypeOK'
    BY LimitsAssumption DEF IInv, TypeOK, NextDay, Days
  <1> QED
    BY <1>1, <1>2, Quiet DEF NextDay

LEMMA LedgerStep ==
    ASSUME NEW e \in Events, IInv, EvidenceArrives(e) \/ RoughReview(e) \/ Revise(e)
    PROVE  IInv'
  <1>1. TypeOK'
    <2>1. CASE EvidenceArrives(e)
      BY <2>1, LimitsAssumption DEF IInv, TypeOK, EvidenceArrives, Evidence
    <2>2. CASE RoughReview(e)
      BY <2>2, LimitsAssumption DEF IInv, TypeOK, RoughReview
    <2>3. CASE Revise(e)
      <3>1. PICK open \in BOOLEAN :
                event' = [event EXCEPT ![e].version = @ + 1, ![e].candidate = open]
        BY <2>3 DEF Revise
      <3>2. event[e].version + 1 \in Versions
        <4>1. event[e].version \in Versions
          BY DEF IInv, TypeOK
        <4> QED
          BY <2>3, <4>1, LimitsAssumption DEF Revise, Versions
      <3>3. event' \in [Events -> [version : Versions, evidence : Evidence,
                                   roughMoves : 0 .. MaxRoughMoves, candidate : BOOLEAN,
                                   followup : Receipts \cup {Nothing}]]
        BY <3>1, <3>2 DEF IInv, TypeOK
      <3> QED
        BY <2>3, <3>3 DEF IInv, TypeOK, Revise
    <2> QED
      BY <2>1, <2>2, <2>3
  <1>2. \A d \in Events : event[d].version <= event'[d].version
    BY LimitsAssumption DEF IInv, TypeOK, EvidenceArrives, RoughReview, Revise, Versions
  <1> QED
    BY <1>1, <1>2, Quiet DEF EvidenceArrives, RoughReview, Revise

-----------------------------------------------------------------------------
(* The execution of a batch.                                               *)

\* Steps of an execution that leave the ledger and the audits alone.
LEMMA RunnerOnly ==
    ASSUME IInv, NEW r \in Runners, NEW run \in RunnerState,
           runner' = [runner EXCEPT ![r] = run],
           run.pc = "idle" <=> run.scope = {}, RunnerOK(r)',
           UNCHANGED <<event, formal, audit, recon>>,
           day' = day, measured' \subseteq Latencies, crashes' \in 0 .. MaxCrashes
    PROVE  IInv'
  <1>1. Grows
    BY DEF Grows
  <1>2. TypeOK' /\ LocalsOK'
    BY <1>1, OneRunner DEF IInv, TypeOK
  <1> QED
    BY <1>2 DEF IInv, ReconOK, AuditOK, VersionsOK, OneConclusion, ConfirmedIsCommitted

LEMMA StartStep ==
    ASSUME NEW r \in Runners, IInv, Start(r) PROVE IInv'
  <1> DEFINE entry(e) == [event |-> e, version |-> event[e].version,
                          evidence |-> event[e].evidence]
             scope(S) == {entry(e) : e \in S}
  <1>1. PICK S \in SUBSET Events, b \in Batches :
            S # {} /\ runner' = [runner EXCEPT ![r] = Evaluating(b, scope(S))]
    BY DEF Start
  <1>2. scope(S) \in SUBSET ScopeEntry /\ scope(S) # {}
    <2>1. \A e \in Events : entry(e) \in ScopeEntry
      BY DEF IInv, TypeOK, ScopeEntry
    <2> HIDE DEF entry
    <2> QED
      BY <1>1, <2>1
  <1> HIDE DEF scope
  <1>3. /\ Evaluating(b, scope(S)) \in RunnerState
        /\ Evaluating(b, scope(S)).pc = "evaluate" /\ Evaluating(b, scope(S)).scope # {}
        /\ Evaluating(b, scope(S)).batch \in Batches
        /\ Evaluating(b, scope(S)).prepared = FALSE
    BY <1>2, EvaluatingType
  <1>4. runner'[r] = Evaluating(b, scope(S))
    BY <1>1 DEF IInv, TypeOK
  <1>5. RunnerOK(r)'
    BY <1>3, <1>4, BetweenEvents
  <1> QED
    BY <1>1, <1>3, <1>5, RunnerOnly DEF Start, IInv, TypeOK

LEMMA EvaluateStep ==
    ASSUME NEW r \in Runners, IInv, Evaluate(r) PROVE IInv'
  <1>1. PICK entry \in runner[r].scope, l \in Latencies :
            /\ measured' = measured \cup {l}
            /\ runner' = [runner EXCEPT ![r].entry = entry,
                             ![r].before = event[entry.event].version,
                             ![r].content = [batch |-> runner[r].batch,
                                             evidence |-> event[entry.event].evidence,
                                             latency |-> l],
                             ![r].pc = IF Supports(event[entry.event].evidence)
                                       THEN "prepare" ELSE "apply"]
    BY DEF Evaluate
  <1> DEFINE now == event[entry.event]
             content == [batch |-> runner[r].batch, evidence |-> now.evidence, latency |-> l]
             run == [pc |-> IF Supports(now.evidence) THEN "prepare" ELSE "apply",
                     batch |-> runner[r].batch, scope |-> runner[r].scope, entry |-> entry,
                     before |-> now.version, content |-> content,
                     prepared |-> runner[r].prepared]
  <1>2. runner[r] \in RunnerState /\ RunnerOK(r) /\ runner[r].pc = "evaluate"
    BY DEF IInv, TypeOK, LocalsOK, Evaluate
  <1>3. entry \in ScopeEntry /\ now.version \in Versions /\ now.evidence \in Evidence
    BY <1>2 DEF IInv, TypeOK, RunnerState, ScopeEntry
  <1>4. content \in Contents
    BY <1>2, <1>3 DEF RunnerOK, Contents
  <1>5. runner' = [runner EXCEPT ![r] = run]
    BY <1>1, <1>2 DEF IInv, TypeOK, RunnerState
  <1> HIDE DEF content
  <1>6. run \in RunnerState
    BY <1>2, <1>3, <1>4, LimitsAssumption DEF RunnerState, Versions
  <1>7. runner'[r] = run
    BY <1>5 DEF IInv, TypeOK
  <1>8. runner[r].prepared = FALSE
    BY <1>2 DEF RunnerOK, RunnerState
  <1>9. RunnerOK(r)'
    <2>1. content.evidence = now.evidence
      BY DEF content
    <2>2. /\ runner'[r].pc = IF Supports(now.evidence) THEN "prepare" ELSE "apply"
          /\ runner'[r].batch = runner[r].batch /\ runner'[r].scope = runner[r].scope
          /\ runner'[r].entry = entry /\ runner'[r].before = now.version
          /\ runner'[r].content = content /\ runner'[r].prepared = FALSE
      BY <1>7, <1>8
    <2>3. runner[r].batch \in Batches
      BY <1>2 DEF RunnerOK
    <2> HIDE DEF now
    <2> QED
      BY <1>3, <1>4, <2>1, <2>2, <2>3 DEF RunnerOK, Supports
  <1>10. run.pc # "idle" /\ run.scope # {}
    BY <1>1
  <1>11. /\ UNCHANGED <<event, formal, audit, recon>> /\ day' = day
         /\ measured' \subseteq Latencies /\ crashes' \in 0 .. MaxCrashes
    BY <1>1 DEF Evaluate, IInv, TypeOK
  <1> HIDE DEF run
  <1> QED
    BY <1>5, <1>6, <1>9, <1>10, <1>11, RunnerOnly

\* The steps that end the work on one event.
LEMMA Continues ==
    ASSUME IInv, NEW r \in Runners, runner[r].pc \notin {"idle", "evaluate"},
           runner' = [runner EXCEPT ![r] = Continued(@)]
    PROVE  /\ Continued(runner[r]) \in RunnerState
           /\ runner' = [runner EXCEPT ![r] = Continued(runner[r])]
           /\ Continued(runner[r]).pc = "idle" <=> Continued(runner[r]).scope = {}
           /\ RunnerOK(r)'
  <1>1. runner[r] \in RunnerState /\ runner[r].entry \in runner[r].scope
        /\ runner[r].batch \in Batches
    BY DEF IInv, TypeOK, LocalsOK, RunnerOK
  <1>2. runner'[r] = Continued(runner[r])
    BY DEF IInv, TypeOK
  <1> QED
    BY <1>1, <1>2, ContinuedType, BetweenEvents

LEMMA ConfirmFailsStep ==
    ASSUME NEW r \in Runners, IInv, ConfirmFails(r) PROVE IInv'
  <1>1. runner' = [runner EXCEPT ![r] = Continued(@)] /\ runner[r].pc = "confirm"
    BY DEF ConfirmFails, AfterFailedConfirmation
  <1> QED
    BY <1>1, Continues, RunnerOnly DEF ConfirmFails, IInv, TypeOK

LEMMA CrashStep ==
    ASSUME NEW r \in Runners, IInv, Crash(r) PROVE IInv'
  <1>1. IdleRunner \in RunnerState /\ IdleRunner.pc = "idle" /\ IdleRunner.scope = {}
        /\ IdleRunner.prepared = FALSE
    BY LimitsAssumption DEF IdleRunner, Between, RunnerState
  <1>2. runner'[r] = IdleRunner
    BY DEF Crash, IInv, TypeOK
  <1>3. RunnerOK(r)'
    BY <1>1, <1>2, BetweenEvents
  <1>4. crashes' \in 0 .. MaxCrashes
    BY LimitsAssumption DEF Crash, IInv, TypeOK
  <1> QED
    BY <1>1, <1>3, <1>4, RunnerOnly DEF Crash, IInv, TypeOK

LEMMA RefusedRunner ==
    ASSUME IInv, NEW r \in Runners, runner[r].pc = "apply"
    PROVE  /\ AfterRefusal(r) \in RunnerState
           /\ AfterRefusal(r).pc = "idle" <=> AfterRefusal(r).scope = {}
           /\ \/ AfterRefusal(r) = Continued(runner[r])
              \/ runner[r].prepared /\ AfterRefusal(r) = [runner[r] EXCEPT !.pc = "abandon"]
  <1>1. runner[r] \in RunnerState /\ RunnerOK(r) /\ runner[r].entry \in runner[r].scope
    BY DEF IInv, TypeOK, LocalsOK, RunnerOK
  <1>2. CASE runner[r].prepared
    BY <1>1, <1>2 DEF AfterRefusal, RunnerState
  <1>3. CASE ~runner[r].prepared
    BY <1>1, <1>3, ContinuedType DEF AfterRefusal
  <1> QED
    BY <1>2, <1>3

LEMMA RefusedOK ==
    ASSUME IInv, NEW r \in Runners, runner[r].pc = "apply",
           runner' = [runner EXCEPT ![r] = AfterRefusal(r)],
           UNCHANGED <<audit, formal>>
    PROVE  RunnerOK(r)'
  <1>1. runner[r] \in RunnerState /\ RunnerOK(r) /\ runner[r].entry \in runner[r].scope
    BY DEF IInv, TypeOK, LocalsOK, RunnerOK
  <1>2. runner'[r] = AfterRefusal(r)
    BY DEF IInv, TypeOK
  <1>3. CASE AfterRefusal(r) = Continued(runner[r])
    <2>1. runner[r].batch \in Batches
      BY <1>1 DEF RunnerOK
    <2> QED
      BY <1>1, <1>2, <1>3, <2>1, ContinuedType, BetweenEvents
  <1>4. CASE runner[r].prepared /\ AfterRefusal(r) = [runner[r] EXCEPT !.pc = "abandon"]
    <2>1. /\ runner'[r].pc = "abandon" /\ runner'[r].prepared = runner[r].prepared
          /\ runner'[r].entry = runner[r].entry /\ runner'[r].before = runner[r].before
          /\ runner'[r].content = runner[r].content /\ runner'[r].scope = runner[r].scope
          /\ runner'[r].batch = runner[r].batch
      BY <1>1, <1>2, <1>4 DEF RunnerState
    <2>2. Mutation(r)' = Mutation(r)
      BY <2>1 DEF Mutation
    <2> QED
      BY <1>1, <1>4, <2>1, <2>2 DEF RunnerOK
  <1> QED
    BY <1>3, <1>4, RefusedRunner

LEMMA ApplyRefusedStep ==
    ASSUME NEW r \in Runners, IInv, ApplyRefused(r) PROVE IInv'
  <1>1. runner[r].pc = "apply" /\ runner' = [runner EXCEPT ![r] = AfterRefusal(r)]
        /\ UNCHANGED <<audit, formal>>
    BY DEF ApplyRefused
  <1>2. RunnerOK(r)'
    BY <1>1, RefusedOK
  <1> QED
    BY <1>1, <1>2, RefusedRunner, RunnerOnly DEF ApplyRefused, IInv, TypeOK

\* A step that writes the state of an audit which has a content.
LEMMA AuditChanged ==
    ASSUME IInv, NEW m \in Identities, NEW state \in AuditStates \ {"ABSENT"},
           audit[m].content # Nothing, state \in Confirmed => formal[m] # Nothing,
           audit' = [audit EXCEPT ![m].state = state], formal' = formal
    PROVE  /\ audit' \in [Identities -> [state : AuditStates, content : Contents \cup {Nothing}]]
           /\ Grows /\ AuditOK' /\ OneConclusion' /\ ConfirmedIsCommitted'
  <1>1. audit' \in [Identities -> [state : AuditStates, content : Contents \cup {Nothing}]]
    BY DEF IInv, TypeOK
  <1>2. \A n \in Identities : /\ audit'[n].content = audit[n].content
                              /\ n # m => audit'[n].state = audit[n].state
                              /\ n = m => audit'[n].state = state
    BY DEF IInv, TypeOK
  <1> QED
    BY <1>1, <1>2 DEF IInv, Grows, AuditOK, OneConclusion, ConfirmedIsCommitted

LEMMA AuditUnchanged ==
    ASSUME IInv, audit' = audit, formal' = formal
    PROVE  /\ audit' \in [Identities -> [state : AuditStates, content : Contents \cup {Nothing}]]
           /\ Grows /\ AuditOK' /\ OneConclusion' /\ ConfirmedIsCommitted'
  BY DEF IInv, TypeOK, Grows, AuditOK, OneConclusion, ConfirmedIsCommitted

\* A step of an execution on an audit.
LEMMA RunnerAndAudit ==
    ASSUME IInv, NEW r \in Runners, NEW run \in RunnerState,
           runner' = [runner EXCEPT ![r] = run],
           run.pc = "idle" <=> run.scope = {}, RunnerOK(r)',
           UNCHANGED <<event, formal, recon, measured, day, crashes>>,
           audit' \in [Identities -> [state : AuditStates, content : Contents \cup {Nothing}]],
           Grows, AuditOK', OneConclusion', ConfirmedIsCommitted'
    PROVE  IInv'
  <1>1. TypeOK' /\ LocalsOK'
    BY OneRunner DEF IInv, TypeOK
  <1> QED
    BY <1>1 DEF IInv, ReconOK, VersionsOK

LEMMA ConfirmStep ==
    ASSUME NEW r \in Runners, IInv, Confirm(r) PROVE IInv'
  <1>1. RunnerOK(r) /\ runner[r].pc = "confirm" /\ runner[r].prepared
    BY DEF IInv, LocalsOK, Confirm, RunnerOK
  <1>2. Mutation(r) \in Identities
    BY <1>1, MutationType DEF IInv, RunnerOK
  <1>3. audit[Mutation(r)].content # Nothing /\ formal[Mutation(r)] # Nothing
    BY <1>1, NothingAssumption DEF RunnerOK
  <1>4. \/ audit' = [audit EXCEPT ![Mutation(r)].state = "LEDGER_COMMITTED"]
        \/ audit' = audit
    BY DEF Confirm
  <1>5. formal' = formal /\ "LEDGER_COMMITTED" \in AuditStates \ {"ABSENT"}
    BY DEF Confirm, AuditStates
  <1>6. /\ audit' \in [Identities -> [state : AuditStates, content : Contents \cup {Nothing}]]
        /\ Grows /\ AuditOK' /\ OneConclusion' /\ ConfirmedIsCommitted'
    BY <1>2, <1>3, <1>4, <1>5, AuditChanged, AuditUnchanged
  <1>7. runner' = [runner EXCEPT ![r] = Continued(@)]
        /\ UNCHANGED <<event, formal, recon, measured, day, crashes>>
    BY DEF Confirm
  <1> QED
    BY <1>1, <1>6, <1>7, Continues, RunnerAndAudit

LEMMA AbandonStep ==
    ASSUME NEW r \in Runners, IInv, Abandon(r) PROVE IInv'
  <1>1. RunnerOK(r) /\ runner[r].pc = "abandon" /\ runner[r].prepared
    BY DEF IInv, LocalsOK, Abandon, RunnerOK
  <1>2. Mutation(r) \in Identities
    BY <1>1, MutationType DEF IInv, RunnerOK
  <1>3. audit[Mutation(r)].content # Nothing
    BY <1>1, NothingAssumption DEF RunnerOK
  <1>4. audit' = [audit EXCEPT ![Mutation(r)].state = "ABANDONED"] \/ audit' = audit
    BY DEF Abandon
  <1>5. formal' = formal /\ "ABANDONED" \in AuditStates \ {"ABSENT"} /\ "ABANDONED" \notin Confirmed
    BY DEF Abandon, AuditStates, Confirmed
  <1>6. /\ audit' \in [Identities -> [state : AuditStates, content : Contents \cup {Nothing}]]
        /\ Grows /\ AuditOK' /\ OneConclusion' /\ ConfirmedIsCommitted'
    BY <1>2, <1>3, <1>4, <1>5, AuditChanged, AuditUnchanged
  <1>7. runner' = [runner EXCEPT ![r] = Continued(@)]
        /\ UNCHANGED <<event, formal, recon, measured, day, crashes>>
    BY DEF Abandon
  <1> QED
    BY <1>1, <1>6, <1>7, Continues, RunnerAndAudit

LEMMA PrepareStep ==
    ASSUME NEW r \in Runners, IInv, Prepare(r) PROVE IInv'
  <1> DEFINE m == Mutation(r)
             content == runner[r].content
             run == [runner[r] EXCEPT !.pc = "apply", !.prepared = TRUE]
  <1>1. /\ RunnerOK(r) /\ runner[r] \in RunnerState /\ runner[r].pc = "prepare"
        /\ runner[r].before < MaxVersion /\ content \in Contents
        /\ UNCHANGED <<event, formal, recon, measured, day, crashes>>
    BY DEF IInv, TypeOK, LocalsOK, Prepare, RunnerOK
  <1>2. m \in Identities
    BY <1>1, MutationType DEF IInv
  <1>3. CASE ~Accepts(audit[m], content)
    <2>1. audit' = audit /\ runner' = [runner EXCEPT ![r] = Continued(@)]
      BY <1>3 DEF Prepare
    <2> QED
      BY <1>1, <2>1, AuditUnchanged, Continues, RunnerAndAudit
  <1>4. CASE Accepts(audit[m], content)
    <2>1. /\ audit' = [audit EXCEPT ![m] = IF @.state = "ABSENT"
                          THEN [state |-> "PREPARED", content |-> content] ELSE @]
          /\ runner' = [runner EXCEPT ![r].pc = "apply", ![r].prepared = TRUE]
      BY <1>4 DEF Prepare
    <2>2. audit[m].state = "ABSENT" \/ audit[m].content = content
      BY <1>4 DEF Accepts
    <2>3. /\ \A n \in Identities \ {m} : audit'[n] = audit[n]
          /\ audit[m].state = "ABSENT" =>
                audit'[m] = [state |-> "PREPARED", content |-> content]
          /\ audit[m].state # "ABSENT" => audit'[m] = audit[m]
      BY <1>2, <2>1 DEF IInv, TypeOK
    <2> HIDE DEF m
    <2>4. audit' \in [Identities -> [state : AuditStates, content : Contents \cup {Nothing}]]
      <3>1. \A n \in Identities :
               audit'[n] \in [state : AuditStates, content : Contents \cup {Nothing}]
        BY <1>1, <2>3 DEF IInv, TypeOK, AuditStates
      <3> QED
        BY <2>1, <3>1 DEF IInv, TypeOK
    <2>5. audit'[m].content = content /\ audit'[m].state # "ABSENT"
      BY <2>2, <2>3
    <2>6. audit[m].state = "ABSENT" => audit[m].content = Nothing /\ formal[m] = Nothing
      BY <1>2 DEF IInv, AuditOK, OneConclusion
    <2>7. Grows
      BY <1>1, <2>3, <2>6 DEF Grows
    <2>8. AuditOK'
      BY <1>1, <2>2, <2>3, <2>5, NothingAssumption DEF IInv, AuditOK
    <2>9. OneConclusion' /\ ConfirmedIsCommitted'
      BY <1>1, <2>3, <2>6 DEF IInv, OneConclusion, ConfirmedIsCommitted, Confirmed
    <2>10. /\ run \in RunnerState /\ runner' = [runner EXCEPT ![r] = run]
           /\ run.pc = "apply" /\ run.scope = runner[r].scope /\ run.prepared
           /\ run.entry = runner[r].entry /\ run.before = runner[r].before
           /\ run.content = content /\ run.batch = runner[r].batch
      BY <1>1, <2>1 DEF RunnerState
    <2>11. runner'[r] = run
      BY <2>10 DEF IInv, TypeOK
    <2> HIDE DEF run
    <2>12. Mutation(r)' = m
      BY <2>10, <2>11 DEF Mutation, m
    <2>13. RunnerOK(r)'
      BY <1>1, <2>5, <2>10, <2>11, <2>12 DEF RunnerOK
    <2>14. run.scope # {}
      BY <1>1, <2>10 DEF RunnerOK
    <2> QED
      BY <1>1, <2>4, <2>7, <2>8, <2>9, <2>10, <2>13, <2>14, RunnerAndAudit
  <1> QED
    BY <1>3, <1>4

-----------------------------------------------------------------------------
(* The transaction on the ledger.                                          *)
EventType == [Events -> [version : Versions, evidence : Evidence,
                         roughMoves : 0 .. MaxRoughMoves, candidate : BOOLEAN,
                         followup : Receipts \cup {Nothing}]]

LEMMA FollowUpStep ==
    ASSUME NEW r \in Runners, IInv, FollowUp(r) PROVE IInv'
  <1> DEFINE e == runner[r].entry.event
             seen == [version |-> runner[r].before, evidence |-> runner[r].content.evidence]
  <1>1. /\ runner[r].pc = "apply" /\ event' = [event EXCEPT ![e].followup = seen]
        /\ runner' = [runner EXCEPT ![r] = AfterRefusal(r)]
        /\ UNCHANGED <<formal, audit, recon, measured, day, crashes>>
    BY DEF FollowUp
  <1>2. RunnerOK(r) /\ runner[r].entry \in ScopeEntry
    BY <1>1 DEF IInv, TypeOK, LocalsOK, RunnerOK, RunnerState
  <1>3. e \in Events /\ seen \in Receipts
    BY <1>1, <1>2 DEF RunnerOK, ScopeEntry, Receipts, Contents
  <1> HIDE DEF e, seen
  <1>4. event' \in EventType /\ \A d \in Events : event'[d].version = event[d].version
    BY <1>1, <1>3 DEF IInv, TypeOK, EventType
  <1>5. Grows
    BY <1>1 DEF Grows
  <1>6. /\ runner' \in [Runners -> RunnerState] /\ LocalsOK'
        /\ \A q \in Runners : runner'[q].pc = "idle" <=> runner'[q].scope = {}
    BY <1>1, <1>5, RefusedOK, RefusedRunner, OneRunner
  <1>7. TypeOK'
    BY <1>1, <1>4, <1>6 DEF IInv, TypeOK, EventType
  <1>8. VersionsOK'
    BY <1>1, <1>4 DEF IInv, VersionsOK, Identities
  <1> QED
    BY <1>1, <1>6, <1>7, <1>8 DEF IInv, ReconOK, AuditOK, OneConclusion, ConfirmedIsCommitted

\* What a formal application finds: a prepared audit of its own content, and a
\* version of the event that has no conclusion yet.
LEMMA ApplyFinds ==
    ASSUME NEW r \in Runners, IInv, Apply(r)
    PROVE  /\ RunnerOK(r) /\ runner[r].prepared /\ runner[r].before < MaxVersion
           /\ Mutation(r) \in Identities
           /\ Mutation(r)[1] \in Events
           /\ Mutation(r)[2] = event[Mutation(r)[1]].version + 1
           /\ formal[Mutation(r)] = Nothing
           /\ audit[Mutation(r)].content = runner[r].content
           /\ runner[r].content \in Contents
  <1>1. RunnerOK(r) /\ runner[r].pc = "apply" /\ Applicable(r)
    BY DEF IInv, LocalsOK, Apply
  <1>2. runner[r].prepared /\ runner[r].before < MaxVersion /\ runner[r].content \in Contents
        /\ audit[Mutation(r)].content = runner[r].content
    BY <1>1 DEF RunnerOK, Applicable
  <1>3. /\ Mutation(r) \in Identities /\ runner[r].entry.event \in Events
        /\ Mutation(r)[1] = runner[r].entry.event /\ Mutation(r)[2] = runner[r].before + 1
    BY <1>1, <1>2, MutationType DEF IInv
  <1>4. event[runner[r].entry.event].version = runner[r].before
    BY <1>1 DEF Applicable, InScope
  <1>5. runner[r].before \in Nat
    BY <1>1, LimitsAssumption DEF RunnerOK, Versions
  <1>6. formal[Mutation(r)] = Nothing
    BY <1>3, <1>4, <1>5 DEF IInv, VersionsOK
  <1> QED
    BY <1>1, <1>2, <1>3, <1>4, <1>6

LEMMA ApplyStep ==
    ASSUME NEW r \in Runners, IInv, Apply(r) PROVE IInv'
  <1> DEFINE m == Mutation(r)
             run == [runner[r] EXCEPT !.pc = "confirm"]
  <1>1. /\ day' \in Days
        /\ event' = [event EXCEPT ![m[1]].version = m[2], ![m[1]].candidate = FALSE,
                                  ![m[1]].followup = Nothing]
        /\ formal' = [formal EXCEPT ![m] = [content |-> runner[r].content, day |-> day']]
        /\ runner' = [runner EXCEPT ![r].pc = "confirm"]
        /\ UNCHANGED <<audit, recon, measured, crashes>>
    BY DEF Apply
  <1>2. /\ RunnerOK(r) /\ runner[r].prepared /\ runner[r].before < MaxVersion
        /\ m \in Identities /\ m[1] \in Events /\ m[2] = event[m[1]].version + 1
        /\ formal[m] = Nothing /\ audit[m].content = runner[r].content
        /\ runner[r].content \in Contents
    BY ApplyFinds
  <1>3. m[2] \in Versions
    BY <1>2 DEF Identities
  <1> HIDE DEF m
  <1>4. event' \in EventType
    <2> DEFINE e == m[1]
               event1 == [event EXCEPT ![e].version = m[2]]
               event2 == [event1 EXCEPT ![e].candidate = FALSE]
    <2>1. e \in Events /\ event \in EventType
      BY <1>2 DEF IInv, TypeOK, EventType
    <2>2. event' = [event2 EXCEPT ![e].followup = Nothing]
      BY <1>1
    <2> HIDE DEF e
    <2>3. event1 \in EventType
      BY <1>3, <2>1 DEF EventType
    <2> HIDE DEF event1
    <2>4. event2 \in EventType
      BY <2>1, <2>3 DEF EventType
    <2> HIDE DEF event2
    <2> QED
      BY <2>1, <2>2, <2>4 DEF EventType
  <1>5. /\ \A d \in Events \ {m[1]} : event'[d].version = event[d].version
        /\ event'[m[1]].version = m[2]
    BY <1>1, <1>2 DEF IInv, TypeOK
  <1>6. formal' \in [Identities -> Conclusions \cup {Nothing}]
    BY <1>1, <1>2 DEF IInv, TypeOK, Conclusions
  <1>7. /\ \A n \in Identities \ {m} : formal'[n] = formal[n]
        /\ formal'[m] = [content |-> runner[r].content, day |-> day']
    BY <1>1, <1>2 DEF IInv, TypeOK
  <1>8. formal'[m] # Nothing /\ formal'[m].content = runner[r].content
    <2>1. formal'[m] \in Conclusions
      BY <1>1, <1>2, <1>7 DEF Conclusions
    <2> QED
      BY <1>7, <2>1, NothingAssumption
  <1>9. Grows
    BY <1>1, <1>2, <1>7 DEF Grows
  <1>10. /\ run \in RunnerState /\ runner' = [runner EXCEPT ![r] = run]
         /\ run.pc = "confirm" /\ run.scope = runner[r].scope /\ run.prepared
         /\ run.entry = runner[r].entry /\ run.before = runner[r].before
         /\ run.content = runner[r].content /\ run.batch = runner[r].batch
    BY <1>1, <1>2 DEF IInv, TypeOK, RunnerState
  <1>11. runner'[r] = run
    BY <1>10 DEF IInv, TypeOK
  <1> HIDE DEF run
  <1>12. Mutation(r)' = m
    BY <1>10, <1>11 DEF Mutation, m
  <1>13. runner[r].pc = "apply"
    BY DEF Apply
  <1>14. RunnerOK(r)' /\ run.scope # {}
    BY <1>1, <1>2, <1>8, <1>10, <1>11, <1>12, <1>13 DEF RunnerOK
  <1>15. /\ runner' \in [Runners -> RunnerState] /\ LocalsOK'
         /\ \A q \in Runners : runner'[q].pc = "idle" <=> runner'[q].scope = {}
    BY <1>9, <1>10, <1>14, OneRunner
  <1>16. TypeOK'
    BY <1>1, <1>4, <1>6, <1>15 DEF IInv, TypeOK, EventType
  <1>17. VersionsOK'
    <2> SUFFICES ASSUME NEW n \in Identities, formal'[n] # Nothing
                 PROVE  n[2] <= event'[n[1]].version
      BY DEF VersionsOK
    <2>1. n[1] \in Events /\ n[2] \in Nat /\ m[2] \in Nat /\ event[m[1]].version \in Nat
      BY <1>2, <1>3, LimitsAssumption DEF Identities, Versions, IInv, TypeOK
    <2>2. CASE n = m
      BY <1>5, <2>1, <2>2
    <2>3. CASE n # m
      <3>1. n[2] <= event[n[1]].version
        BY <1>7, <2>3 DEF IInv, VersionsOK
      <3> QED
        BY <1>2, <1>5, <2>1, <3>1
    <2> QED
      BY <2>2, <2>3
  <1>18. OneConclusion'
    <2>1. audit[m].state # "ABSENT"
      BY <1>2, NothingAssumption DEF IInv, AuditOK
    <2> QED
      BY <1>1, <1>2, <1>7, <1>8, <2>1 DEF IInv, OneConclusion
  <1>19. ConfirmedIsCommitted' /\ ReconOK' /\ AuditOK'
    <2>1. recon.seen \in SUBSET Identities
      BY DEF IInv, TypeOK, ReconState
    <2> QED
      BY <1>1, <1>2, <1>7, <1>8, <2>1 DEF IInv, ConfirmedIsCommitted, ReconOK, AuditOK
  <1> QED
    BY <1>15, <1>16, <1>17, <1>18, <1>19 DEF IInv

-----------------------------------------------------------------------------
(* The reconciliation.                                                     *)

\* Steps of the reconciliation alone, and what they need to establish.
LEMMA ReconOnly ==
    ASSUME IInv, NEW rec \in ReconState, recon' = rec,
           rec.pending \subseteq rec.seen, \A m \in rec.seen : formal[m] # Nothing,
           rec.pc = "conflict" => rec.failed \in rec.pending,
           UNCHANGED <<event, formal, runner, measured, day>>, crashes' \in 0 .. MaxCrashes,
           audit' \in [Identities -> [state : AuditStates, content : Contents \cup {Nothing}]],
           Grows, AuditOK', OneConclusion', ConfirmedIsCommitted'
    PROVE  IInv'
  <1>1. TypeOK'
    BY DEF IInv, TypeOK
  <1>2. LocalsOK'
    BY Others DEF LocalsOK
  <1>3. ReconOK'
    BY DEF ReconOK
  <1> QED
    BY <1>1, <1>2, <1>3 DEF IInv, VersionsOK

LEMMA IdleReconOK ==
    /\ IdleRecon \in ReconState
    /\ IdleRecon.pc = "idle" /\ IdleRecon.pending = {} /\ IdleRecon.seen = {}
  BY DEF IdleRecon, ReconState

LEMMA ReconcileReadStep == IInv /\ ReconcileRead => IInv'
  <1> SUFFICES ASSUME IInv, ReconcileRead PROVE IInv'
    OBVIOUS
  <1> DEFINE found == {m \in Identities : formal[m] # Nothing}
             rec == [pc |-> "pending", seen |-> found, pending |-> {}, failed |-> Nothing]
  <1>1. recon' = rec
    BY DEF ReconcileRead, IdleRecon
  <1>2. found \subseteq Identities /\ \A m \in found : formal[m] # Nothing
    OBVIOUS
  <1> HIDE DEF found
  <1>3. rec \in ReconState /\ rec.pending \subseteq rec.seen /\ rec.pc # "conflict"
        /\ rec.seen = found
    BY <1>2 DEF ReconState
  <1> HIDE DEF rec
  <1>4. /\ UNCHANGED <<event, formal, runner, audit, measured, day>>
        /\ crashes' \in 0 .. MaxCrashes
    BY DEF ReconcileRead, IInv, TypeOK
  <1> QED
    BY <1>1, <1>2, <1>3, <1>4, AuditUnchanged, ReconOnly

LEMMA ReconcilePendingStep == IInv /\ ReconcilePending => IInv'
  <1> SUFFICES ASSUME IInv, ReconcilePending PROVE IInv'
    OBVIOUS
  <1> DEFINE open == {m \in recon.seen : audit[m].state = "PREPARED"}
             rec == [recon EXCEPT !.pc = "confirm", !.pending = open]
  <1>1. /\ UNCHANGED <<event, formal, runner, audit, measured, day>>
        /\ crashes' \in 0 .. MaxCrashes
    BY DEF ReconcilePending, IInv, TypeOK
  <1>2. CASE open = {}
    <2>1. recon' = IdleRecon
      BY <1>2 DEF ReconcilePending
    <2> QED
      BY <1>1, <2>1, IdleReconOK, AuditUnchanged, ReconOnly
  <1>3. CASE open # {}
    <2>1. recon' = rec
      BY <1>3 DEF ReconcilePending
    <2>2. open \subseteq recon.seen
      OBVIOUS
    <2> HIDE DEF open
    <2>3. rec \in ReconState /\ rec.pending \subseteq rec.seen /\ rec.pc # "conflict"
          /\ rec.seen = recon.seen
      BY <2>2 DEF IInv, TypeOK, ReconState
    <2> HIDE DEF rec
    <2>4. \A m \in rec.seen : formal[m] # Nothing
      BY <2>3 DEF IInv, ReconOK
    <2> QED
      BY <1>1, <2>1, <2>3, <2>4, AuditUnchanged, ReconOnly
  <1> QED
    BY <1>2, <1>3

LEMMA RemainingType ==
    ASSUME IInv, NEW m \in recon.pending
    PROVE  /\ Remaining(m) \in ReconState
           /\ Remaining(m).pc # "conflict"
           /\ Remaining(m).pending \subseteq Remaining(m).seen
           /\ \A n \in Remaining(m).seen : formal[n] # Nothing
  <1>1. recon \in ReconState /\ ReconOK
    BY DEF IInv, TypeOK
  <1>2. CASE recon.pending = {m}
    BY <1>2, IdleReconOK DEF Remaining
  <1>3. CASE recon.pending # {m}
    BY <1>1, <1>3 DEF Remaining, ReconState, ReconOK
  <1> QED
    BY <1>2, <1>3

LEMMA ReconcileConfirmStep == IInv /\ ReconcileConfirm => IInv'
  <1> SUFFICES ASSUME IInv, ReconcileConfirm PROVE IInv'
    OBVIOUS
  <1>1. PICK m \in recon.pending :
            IF Confirmable(m, formal[m].content)
            THEN /\ audit' = [audit EXCEPT ![m].state = "RECOVERED"]
                 /\ recon' = Remaining(m)
            ELSE /\ audit' = audit
                 /\ recon' = [recon EXCEPT !.pc = "conflict", !.failed = m]
    BY DEF ReconcileConfirm
  <1>2. /\ m \in Identities /\ formal[m] # Nothing /\ recon \in ReconState /\ ReconOK
        /\ audit[m].content # Nothing
    BY DEF IInv, TypeOK, ReconState, ReconOK, OneConclusion, AuditOK
  <1>3. /\ UNCHANGED <<event, formal, runner, measured, day>> /\ crashes' \in 0 .. MaxCrashes
    BY DEF ReconcileConfirm, IInv, TypeOK
  <1>4. CASE Confirmable(m, formal[m].content)
    <2>1. audit' = [audit EXCEPT ![m].state = "RECOVERED"] /\ recon' = Remaining(m)
      BY <1>1, <1>4
    <2>2. "RECOVERED" \in AuditStates \ {"ABSENT"}
      BY DEF AuditStates
    <2> QED
      BY <1>2, <1>3, <2>1, <2>2, AuditChanged, RemainingType, ReconOnly
  <1>5. CASE ~Confirmable(m, formal[m].content)
    <2> DEFINE rec == [recon EXCEPT !.pc = "conflict", !.failed = m]
    <2>1. audit' = audit /\ recon' = rec
      BY <1>1, <1>5
    <2>2. rec \in ReconState /\ rec.pending = recon.pending /\ rec.seen = recon.seen
          /\ rec.failed = m
      BY <1>2 DEF ReconState
    <2> HIDE DEF rec
    <2> QED
      BY <1>2, <1>3, <2>1, <2>2, AuditUnchanged, ReconOnly DEF ReconOK
  <1> QED
    BY <1>4, <1>5

LEMMA ReconcileConflictStep == IInv /\ ReconcileConflict => IInv'
  <1> SUFFICES ASSUME IInv, ReconcileConflict PROVE IInv'
    OBVIOUS
  <1> DEFINE m == recon.failed
  <1>1. /\ m \in recon.pending /\ m \in Identities /\ audit[m].content # Nothing
    BY DEF ReconcileConflict, IInv, TypeOK, ReconState, ReconOK, OneConclusion, AuditOK
  <1>2. /\ audit' = [audit EXCEPT ![m].state = "RECOVERY_CONFLICT"] /\ recon' = Remaining(m)
        /\ UNCHANGED <<event, formal, runner, measured, day>> /\ crashes' \in 0 .. MaxCrashes
    BY DEF ReconcileConflict, IInv, TypeOK
  <1>3. "RECOVERY_CONFLICT" \in AuditStates \ {"ABSENT"} /\ "RECOVERY_CONFLICT" \notin Confirmed
    BY DEF AuditStates, Confirmed
  <1> HIDE DEF m
  <1> QED
    BY <1>1, <1>2, <1>3, AuditChanged, RemainingType, ReconOnly

LEMMA ReconcileCrashStep == IInv /\ ReconcileCrash => IInv'
  <1> SUFFICES ASSUME IInv, ReconcileCrash PROVE IInv'
    OBVIOUS
  <1>1. /\ UNCHANGED <<event, formal, runner, audit, measured, day>> /\ recon' = IdleRecon
        /\ crashes' \in 0 .. MaxCrashes
    BY LimitsAssumption DEF ReconcileCrash, IInv, TypeOK
  <1> QED
    BY <1>1, IdleReconOK, AuditUnchanged, ReconOnly

-----------------------------------------------------------------------------
(* The theorems.                                                           *)

LEMMA IInvStep == IInv /\ [Next]_vars => IInv'
  <1> SUFFICES ASSUME IInv, Next \/ UNCHANGED vars PROVE IInv'
    OBVIOUS
  <1>1. ASSUME NEW e \in Events, EvidenceArrives(e) \/ RoughReview(e) \/ Revise(e) PROVE IInv'
    BY <1>1, LedgerStep
  <1>2. ASSUME NEW r \in Runners,
               \/ Start(r) \/ Evaluate(r) \/ Prepare(r) \/ Apply(r) \/ FollowUp(r)
               \/ ApplyRefused(r) \/ Confirm(r) \/ ConfirmFails(r) \/ Abandon(r) \/ Crash(r)
        PROVE  IInv'
    BY <1>2, StartStep, EvaluateStep, PrepareStep, ApplyStep, FollowUpStep, ApplyRefusedStep,
       ConfirmStep, ConfirmFailsStep, AbandonStep, CrashStep
  <1>3. CASE Reconcile \/ ReconcileCrash
    BY <1>3, ReconcileReadStep, ReconcilePendingStep, ReconcileConfirmStep,
       ReconcileConflictStep, ReconcileCrashStep DEF Reconcile
  <1> QED
    BY <1>1, <1>2, <1>3, NextDayStep, StutterStep DEF Next

\* Every behaviour keeps the inductive invariant.
THEOREM Inductive == Spec => []IInv
  BY IInvInit, IInvStep, PTL DEF Spec

\* The tables, and what each process remembers of them, are well formed.
THEOREM TypeCorrect == Spec => []TypeOK
  <1>1. IInv => TypeOK
    BY DEF IInv
  <1> QED
    BY <1>1, Inductive, PTL

\* However many batches run, crash and are retried, the audit of a version is
\* the audit of the conclusion that the ledger has of it (prepare and apply).
THEOREM AuditsOneConclusion == Spec => []OneConclusion
  <1>1. IInv => OneConclusion
    BY DEF IInv
  <1> QED
    BY <1>1, Inductive, PTL

\* The two databases share no transaction, yet no audit is confirmed or
\* recovered of a version the ledger lacks.
THEOREM ConfirmsOnlyCommitted == Spec => []ConfirmedIsCommitted
  <1>1. IInv => ConfirmedIsCommitted
    BY DEF IInv
  <1> QED
    BY <1>1, Inductive, PTL

-----------------------------------------------------------------------------
\* An application is the only step that adds a conclusion, and ApplyFinds says
\* that its version is the next one of the event and has none yet.
THEOREM AddsConclusions == Spec => ConclusionsAdded
  <1> DEFINE Added == \A m \in Identities : formal'[m] # formal[m] =>
                         formal[m] = Nothing /\ event[m[1]].version < m[2]
  <1>1. IInv /\ [Next]_vars => Added \/ UNCHANGED vars
    <2> SUFFICES ASSUME IInv, Next PROVE Added
      OBVIOUS
    <2>1. ASSUME NEW r \in Runners, Apply(r) PROVE Added
      <3> DEFINE n == Mutation(r)
      <3>1. n \in Identities /\ n[1] \in Events /\ n[2] = event[n[1]].version + 1
            /\ formal[n] = Nothing
        BY <2>1, ApplyFinds
      <3>2. \A m \in Identities : m # n => formal'[m] = formal[m]
        BY <2>1, <3>1 DEF Apply, IInv, TypeOK
      <3>3. event[n[1]].version \in Nat
        BY <3>1, LimitsAssumption DEF IInv, TypeOK, Versions
      <3> HIDE DEF n
      <3> QED
        BY <3>1, <3>2, <3>3
    <2>2. CASE formal' = formal
      BY <2>2
    <2>3. (\E r \in Runners : Apply(r)) \/ formal' = formal
      BY DEF Next, NextDay, EvidenceArrives, RoughReview, Revise, Start, Evaluate, Prepare,
             FollowUp, ApplyRefused, Confirm, ConfirmFails, Abandon, Crash, Reconcile,
             ReconcileRead, ReconcilePending, ReconcileConfirm, ReconcileConflict,
             ReconcileCrash
    <2> QED
      BY <2>1, <2>2, <2>3
  <1> QED
    BY <1>1, Inductive, PTL DEF Spec, ConclusionsAdded

-----------------------------------------------------------------------------
(* When no two evaluations measure the same, an audit has one owner, and   *)
(* the reconciliation meets no conflict.                                   *)

Working(r) == runner[r].pc \notin {"idle", "evaluate"}
Latency(r) == runner[r].content.latency

\* Evaluations, and the audits and conclusions that come of them, are told
\* apart by what they measured; an execution that may still apply or abandon
\* its audit finds it as it prepared it.
MeasuredOK ==
    /\ \A r \in Runners : Working(r) => Latency(r) \in measured
    /\ \A m \in Identities : audit[m].content # Nothing => audit[m].content.latency \in measured
    /\ \A q, r \in Runners : q # r /\ Working(q) /\ Working(r) => Latency(q) # Latency(r)

Undecided(r) ==
    /\ runner[r].pc = "prepare" =>
          \A m \in Identities : audit[m].content # Nothing =>
              audit[m].content.latency # Latency(r)
    /\ runner[r].pc \in {"apply", "abandon"} =>
          \A m \in Identities : formal[m] # Nothing =>
              formal[m].content.latency # Latency(r)
    /\ runner[r].pc \in {"apply", "abandon"} /\ runner[r].prepared =>
          audit[Mutation(r)].state = "PREPARED"

UndecidedOK == \A r \in Runners : Undecided(r)

NoConflict == RecoveryNeverConflicts /\ recon.pc # "conflict"

DInv == IInv /\ MeasuredOK /\ UndecidedOK /\ AbandonedIsUncommitted /\ NoConflict

LEMMA DInvInit == Init => DInv
  <1> SUFFICES ASSUME Init PROVE DInv
    OBVIOUS
  <1>1. IInv
    BY IInvInit
  <1> QED
    BY <1>1 DEF Init, DInv, MeasuredOK, UndecidedOK, Undecided, AbandonedIsUncommitted, NoConflict,
       RecoveryNeverConflicts, Working, IdleRunner, Between, IdleRecon

\* Steps that leave executions, audits and conclusions alone.
LEMMA DQuiet ==
    ASSUME DInv, IInv', UNCHANGED <<runner, audit, formal, measured>>, recon'.pc # "conflict"
    PROVE  DInv'
  BY DEF DInv, MeasuredOK, UndecidedOK, Undecided, AbandonedIsUncommitted, NoConflict,
         RecoveryNeverConflicts, Working, Latency, Mutation

\* Steps by which an execution is done with an event, leaving the audit alone.
LEMMA DReleased ==
    ASSUME DInv, IInv', NEW r \in Runners, runner'[r].pc \in {"idle", "evaluate"},
           \A q \in Runners \ {r} : runner'[q] = runner[q],
           UNCHANGED <<audit, formal, measured, recon>>
    PROVE  DInv'
  BY DEF DInv, MeasuredOK, UndecidedOK, Undecided, AbandonedIsUncommitted, NoConflict,
         RecoveryNeverConflicts, Working, Latency, Mutation

\* Steps that write the state of one audit, and take its execution r to its
\* next event, if there is one at it.
LEMMA DAuditState ==
    ASSUME DInv, IInv', NEW m \in Identities, NEW state \in AuditStates,
           audit' = [audit EXCEPT ![m].state = state],
           \A q \in Runners : \/ runner'[q] = runner[q]
                              \/ runner'[q].pc \in {"idle", "evaluate"},
           \A q \in Runners : runner'[q] = runner[q] /\ runner[q].prepared
                                 /\ runner[q].pc \in {"apply", "abandon"} => Mutation(q) # m,
           UNCHANGED <<formal, measured>>, recon'.pc # "conflict",
           state # "RECOVERY_CONFLICT", state = "ABANDONED" => formal[m] = Nothing
    PROVE  DInv'
  <1>1. \A n \in Identities : /\ audit'[n].content = audit[n].content
                              /\ n # m => audit'[n].state = audit[n].state
                              /\ n = m => audit'[n].state = state
    BY DEF DInv, IInv, TypeOK
  <1>2. MeasuredOK'
    BY <1>1 DEF DInv, MeasuredOK, Working, Latency
  <1>3. UndecidedOK'
    <2> SUFFICES ASSUME NEW q \in Runners, runner'[q] = runner[q] PROVE Undecided(q)'
      BY DEF UndecidedOK, Undecided
    <2>1. Undecided(q) /\ RunnerOK(q)
      BY DEF DInv, UndecidedOK, IInv, LocalsOK
    <2>2. Mutation(q)' = Mutation(q) /\ Latency(q)' = Latency(q)
      BY DEF Mutation, Latency
    <2>3. runner[q].prepared => Mutation(q) \in Identities
      BY <2>1, MutationType DEF DInv, IInv, RunnerOK
    <2> QED
      BY <1>1, <2>1, <2>2, <2>3 DEF Undecided
  <1>4. AbandonedIsUncommitted' /\ NoConflict'
    BY <1>1 DEF DInv, AbandonedIsUncommitted, NoConflict, RecoveryNeverConflicts
  <1> QED
    BY <1>2, <1>3, <1>4 DEF DInv

LEMMA DEvaluateStep ==
    ASSUME ~MayCoincide, NEW r \in Runners, DInv, IInv', Evaluate(r) PROVE DInv'
  <1>1. PICK entry \in runner[r].scope, l \in Latencies \ measured :
            /\ measured' = measured \cup {l}
            /\ runner' = [runner EXCEPT ![r].entry = entry,
                             ![r].before = event[entry.event].version,
                             ![r].content = [batch |-> runner[r].batch,
                                             evidence |-> event[entry.event].evidence,
                                             latency |-> l],
                             ![r].pc = IF Supports(event[entry.event].evidence)
                                       THEN "prepare" ELSE "apply"]
    BY DEF Evaluate
  <1>2. /\ runner'[r].content.latency = l /\ runner'[r].pc \in {"prepare", "apply"}
        /\ runner'[r].prepared = runner[r].prepared
        /\ \A q \in Runners \ {r} : runner'[q] = runner[q]
    <2> DEFINE now == event[entry.event]
               content == [batch |-> runner[r].batch, evidence |-> now.evidence, latency |-> l]
               pc == IF Supports(now.evidence) THEN "prepare" ELSE "apply"
    <2>1. runner' = [runner EXCEPT ![r].entry = entry, ![r].before = now.version,
                                   ![r].content = content, ![r].pc = pc]
      BY <1>1
    <2>2. content.latency = l /\ pc \in {"prepare", "apply"}
      OBVIOUS
    <2> HIDE DEF content, pc, now
    <2>3. /\ runner'[r].content = content /\ runner'[r].pc = pc
          /\ runner'[r].prepared = runner[r].prepared
      BY <2>1 DEF DInv, IInv, TypeOK, RunnerState
    <2>4. \A q \in Runners \ {r} : runner'[q] = runner[q]
      BY <2>1 DEF DInv, IInv, TypeOK
    <2> QED
      BY <2>2, <2>3, <2>4
  <1>3. UNCHANGED <<audit, formal, recon>> /\ l \notin measured /\ measured' = measured \cup {l}
        /\ runner[r].prepared = FALSE
    BY <1>1 DEF Evaluate, DInv, IInv, TypeOK, RunnerState, LocalsOK, RunnerOK
  <1>4. MeasuredOK'
    BY <1>2, <1>3 DEF DInv, MeasuredOK, Working, Latency
  <1>5. \A m \in Identities : formal[m] # Nothing => formal[m].content.latency \in measured
    <2> SUFFICES ASSUME NEW m \in Identities, formal[m] # Nothing
                 PROVE  formal[m].content.latency \in measured
      OBVIOUS
    <2>1. audit[m].content = formal[m].content /\ audit[m].content # Nothing
      BY DEF DInv, IInv, OneConclusion, AuditOK
    <2> QED
      BY <2>1 DEF DInv, MeasuredOK
  <1>6. UndecidedOK'
    <2>1. Undecided(r)'
      BY <1>2, <1>3, <1>5 DEF DInv, MeasuredOK, Undecided, Latency
    <2>2. ASSUME NEW q \in Runners \ {r} PROVE Undecided(q)'
      BY <1>2, <1>3 DEF DInv, UndecidedOK, Undecided, Latency, Mutation
    <2> QED
      BY <2>1, <2>2 DEF UndecidedOK
  <1> QED
    BY <1>3, <1>4, <1>6 DEF DInv, AbandonedIsUncommitted, NoConflict, RecoveryNeverConflicts

LEMMA DPrepareStep ==
    ASSUME NEW r \in Runners, DInv, IInv', Prepare(r) PROVE DInv'
  <1> DEFINE m == Mutation(r)
             content == runner[r].content
  <1>1. /\ RunnerOK(r) /\ runner[r] \in RunnerState /\ runner[r].pc = "prepare"
        /\ runner[r].before < MaxVersion /\ content \in Contents /\ m \in Identities
        /\ UNCHANGED <<formal, recon, measured>>
    BY MutationType DEF DInv, IInv, TypeOK, LocalsOK, Prepare, RunnerOK
  <1>2. CASE ~Accepts(audit[m], content)
    <2>1. audit' = audit /\ runner' = [runner EXCEPT ![r] = Continued(@)]
      BY <1>2 DEF Prepare
    <2>2. runner'[r].pc \in {"idle", "evaluate"} /\ \A q \in Runners \ {r} : runner'[q] = runner[q]
      BY <1>1, <2>1, ContinuedType DEF DInv, IInv, TypeOK, RunnerOK
    <2> QED
      BY <1>1, <2>1, <2>2, DReleased
  <1>3. CASE Accepts(audit[m], content)
    <2>1. /\ audit' = [audit EXCEPT ![m] = IF @.state = "ABSENT"
                          THEN [state |-> "PREPARED", content |-> content] ELSE @]
          /\ runner' = [runner EXCEPT ![r].pc = "apply", ![r].prepared = TRUE]
      BY <1>3 DEF Prepare
    <2>2. \A n \in Identities : audit[n].content # Nothing =>
              audit[n].content.latency # content.latency
      BY <1>1 DEF DInv, UndecidedOK, Undecided, Latency
    <2>3. audit[m].state = "ABSENT"
      BY <1>1, <1>3, <2>2, NothingAssumption DEF Accepts
    <2>4. /\ \A n \in Identities \ {m} : audit'[n] = audit[n]
          /\ audit'[m] = [state |-> "PREPARED", content |-> content]
      BY <1>1, <2>1, <2>3 DEF DInv, IInv, TypeOK
    <2>5. /\ runner'[r].pc = "apply" /\ runner'[r].content = content
          /\ runner'[r].entry = runner[r].entry /\ runner'[r].before = runner[r].before
          /\ \A q \in Runners \ {r} : runner'[q] = runner[q]
      BY <1>1, <2>1 DEF DInv, IInv, TypeOK, RunnerState
    <2>6. Mutation(r)' = m
      BY <2>5 DEF Mutation
    <2>7. \A n \in Identities : formal[n] # Nothing => formal[n].content.latency # content.latency
      BY <2>2 DEF DInv, IInv, OneConclusion, AuditOK
    <2>8. Working(r) /\ Latency(r) = content.latency
      BY <1>1 DEF Working, Latency
    <2>9. \A q \in Runners \ {r} : Working(q) => Latency(q) # content.latency
      BY <2>8 DEF DInv, MeasuredOK
    <2> HIDE DEF m, content
    <2>10. MeasuredOK'
      BY <1>1, <2>4, <2>5, <2>8, <2>9 DEF DInv, MeasuredOK, Working, Latency
    <2>11. UndecidedOK'
      <3>1. Undecided(r)'
        BY <1>1, <2>4, <2>5, <2>6, <2>7 DEF Undecided, Latency
      <3>2. ASSUME NEW q \in Runners \ {r} PROVE Undecided(q)'
        <4>1. Undecided(q) /\ RunnerOK(q) /\ runner'[q] = runner[q]
          BY <2>5 DEF DInv, UndecidedOK, IInv, LocalsOK
        <4>2. Mutation(q)' = Mutation(q) /\ Latency(q)' = Latency(q)
          BY <4>1 DEF Mutation, Latency
        <4>3. runner[q].prepared => Mutation(q) \in Identities
          BY <4>1, MutationType DEF DInv, IInv, RunnerOK
        <4> QED
          BY <1>1, <2>4, <2>9, <4>1, <4>2, <4>3 DEF Undecided, Working
      <3> QED
        BY <3>1, <3>2 DEF UndecidedOK
    <2> QED
      BY <1>1, <2>4, <2>10, <2>11
         DEF DInv, AbandonedIsUncommitted, NoConflict, RecoveryNeverConflicts
  <1> QED
    BY <1>2, <1>3

LEMMA DApplyStep ==
    ASSUME NEW r \in Runners, DInv, IInv', Apply(r) PROVE DInv'
  <1> DEFINE m == Mutation(r)
  <1>1. /\ runner[r].prepared /\ runner[r].pc = "apply" /\ m \in Identities
        /\ audit[m].state = "PREPARED"
        /\ UNCHANGED <<audit, recon, measured>>
    BY ApplyFinds DEF DInv, UndecidedOK, Undecided, Apply
  <1>2. /\ \A n \in Identities \ {m} : formal'[n] = formal[n]
        /\ formal'[m].content = runner[r].content
    BY <1>1 DEF Apply, DInv, IInv, TypeOK
  <1>3. /\ runner'[r].pc = "confirm" /\ runner'[r].content = runner[r].content
        /\ \A q \in Runners \ {r} : runner'[q] = runner[q]
    BY DEF Apply, DInv, IInv, TypeOK, RunnerState
  <1>4. \A q \in Runners \ {r} : Working(q) => Latency(q) # runner[r].content.latency
    BY <1>1 DEF DInv, MeasuredOK, Working, Latency
  <1> HIDE DEF m
  <1>5. MeasuredOK'
    BY <1>1, <1>3 DEF DInv, MeasuredOK, Working, Latency
  <1>6. UndecidedOK'
    <2>1. Undecided(r)'
      BY <1>3 DEF Undecided
    <2>2. ASSUME NEW q \in Runners \ {r} PROVE Undecided(q)'
      BY <1>1, <1>2, <1>3, <1>4 DEF DInv, UndecidedOK, Undecided, Working, Latency, Mutation
    <2> QED
      BY <2>1, <2>2 DEF UndecidedOK
  <1> QED
    BY <1>1, <1>2, <1>5, <1>6
       DEF DInv, AbandonedIsUncommitted, NoConflict, RecoveryNeverConflicts

LEMMA DRefusedStep ==
    ASSUME NEW r \in Runners, DInv, IInv', runner[r].pc = "apply",
           runner' = [runner EXCEPT ![r] = AfterRefusal(r)],
           UNCHANGED <<audit, formal, measured, recon>>
    PROVE  DInv'
  <1>1. /\ runner'[r] = AfterRefusal(r) /\ \A q \in Runners \ {r} : runner'[q] = runner[q]
        /\ runner[r] \in RunnerState /\ RunnerOK(r)
    BY DEF DInv, IInv, TypeOK, LocalsOK
  <1>2. CASE AfterRefusal(r) = Continued(runner[r])
    BY <1>1, <1>2, ContinuedType, DReleased DEF RunnerOK
  <1>3. CASE runner[r].prepared /\ AfterRefusal(r) = [runner[r] EXCEPT !.pc = "abandon"]
    <2>1. /\ runner'[r].pc = "abandon" /\ runner'[r].prepared = runner[r].prepared
          /\ runner'[r].entry = runner[r].entry /\ runner'[r].before = runner[r].before
          /\ runner'[r].content = runner[r].content
      BY <1>1, <1>3 DEF RunnerState
    <2>2. \A q \in Runners : /\ Mutation(q)' = Mutation(q) /\ Latency(q)' = Latency(q)
                             /\ Working(q)' = Working(q)
      BY <1>1, <2>1 DEF Mutation, Latency, Working
    <2>3. MeasuredOK'
      BY <2>2 DEF DInv, MeasuredOK
    <2>4. UndecidedOK'
      BY <1>1, <2>1, <2>2 DEF DInv, UndecidedOK, Undecided
    <2> QED
      BY <2>3, <2>4 DEF DInv, AbandonedIsUncommitted, NoConflict, RecoveryNeverConflicts
  <1> QED
    BY <1>2, <1>3, RefusedRunner DEF DInv

\* The steps at the end of an event, and those of the reconciliation.
LEMMA DConfirmStep ==
    ASSUME NEW r \in Runners, DInv, IInv', Confirm(r) \/ Abandon(r) PROVE DInv'
  <1> DEFINE m == Mutation(r)
  <1>1. /\ RunnerOK(r) /\ runner[r] \in RunnerState /\ runner[r].prepared /\ Working(r)
        /\ runner[r].pc \in {"confirm", "abandon"} /\ UNCHANGED <<formal, measured, recon>>
    BY DEF DInv, IInv, TypeOK, LocalsOK, Confirm, Abandon, RunnerOK, Working
  <1>2. m \in Identities /\ audit[m].content = runner[r].content
    BY <1>1, MutationType DEF RunnerOK, DInv, IInv
  <1>3. runner' = [runner EXCEPT ![r] = Continued(@)]
    BY DEF Confirm, Abandon
  <1>4. /\ runner'[r].pc \in {"idle", "evaluate"}
        /\ \A q \in Runners \ {r} : runner'[q] = runner[q]
    BY <1>1, <1>3, ContinuedType DEF DInv, IInv, TypeOK, RunnerOK
  <1>5. CASE audit' = audit
    BY <1>1, <1>4, <1>5, DReleased
  <1>6. CASE audit' # audit
    <2> DEFINE state == IF runner[r].pc = "confirm" THEN "LEDGER_COMMITTED" ELSE "ABANDONED"
    <2>1. audit' = [audit EXCEPT ![m].state = state]
      BY <1>6 DEF Confirm, Abandon
    <2>2. state = "ABANDONED" => formal[m] = Nothing
      <3> SUFFICES ASSUME runner[r].pc = "abandon", formal[m] # Nothing PROVE FALSE
        BY <1>1
      <3>1. formal[m].content.latency # Latency(r)
        BY <1>2 DEF DInv, UndecidedOK, Undecided
      <3>2. formal[m].content = audit[m].content
        BY <1>2 DEF DInv, IInv, OneConclusion
      <3> QED
        BY <1>2, <3>1, <3>2 DEF Latency
    <2>3. ASSUME NEW q \in Runners, runner'[q] = runner[q], runner[q].prepared,
                 runner[q].pc \in {"apply", "abandon"}
          PROVE  Mutation(q) # m
      <3>1. q # r
        BY <1>4, <2>3
      <3>2. audit[Mutation(q)].content = runner[q].content /\ Working(q)
        BY <2>3 DEF DInv, IInv, LocalsOK, RunnerOK, Working
      <3>3. Latency(q) # Latency(r)
        BY <1>1, <3>1, <3>2 DEF DInv, MeasuredOK
      <3> QED
        BY <1>2, <3>2, <3>3 DEF Latency
    <2>4. state \in AuditStates /\ state # "RECOVERY_CONFLICT"
      BY DEF AuditStates
    <2>5. recon'.pc # "conflict"
      BY <1>1 DEF DInv, NoConflict
    <2> HIDE DEF state, m
    <2> QED
      BY <1>1, <1>2, <1>4, <2>1, <2>2, <2>3, <2>4, <2>5, DAuditState
  <1> QED
    BY <1>5, <1>6

LEMMA DReconcileConfirmStep == DInv /\ IInv' /\ ReconcileConfirm => DInv'
  <1> SUFFICES ASSUME DInv, IInv', ReconcileConfirm PROVE DInv'
    OBVIOUS
  <1>1. PICK m \in recon.pending :
            IF Confirmable(m, formal[m].content)
            THEN /\ audit' = [audit EXCEPT ![m].state = "RECOVERED"]
                 /\ recon' = Remaining(m)
            ELSE /\ audit' = audit
                 /\ recon' = [recon EXCEPT !.pc = "conflict", !.failed = m]
    BY DEF ReconcileConfirm
  <1>2. m \in Identities /\ formal[m] # Nothing
    BY DEF DInv, IInv, TypeOK, ReconState, ReconOK
  <1>3. Confirmable(m, formal[m].content)
    BY <1>2 DEF Confirmable, DInv, IInv, OneConclusion, AbandonedIsUncommitted
  <1>4. /\ audit' = [audit EXCEPT ![m].state = "RECOVERED"] /\ recon' = Remaining(m)
        /\ UNCHANGED <<formal, runner, measured>>
    BY <1>1, <1>3 DEF ReconcileConfirm
  <1>5. recon'.pc # "conflict"
    BY <1>4, RemainingType DEF DInv
  <1>6. ASSUME NEW q \in Runners, runner[q].prepared, runner[q].pc \in {"apply", "abandon"}
        PROVE  Mutation(q) # m
    <2>1. audit[Mutation(q)].content = runner[q].content
      BY <1>6 DEF DInv, IInv, LocalsOK, RunnerOK
    <2>2. formal[m].content.latency # Latency(q)
      BY <1>2, <1>6 DEF DInv, UndecidedOK, Undecided
    <2>3. audit[m].content = formal[m].content
      BY <1>2 DEF DInv, IInv, OneConclusion
    <2> QED
      BY <2>1, <2>2, <2>3 DEF Latency
  <1>7. "RECOVERED" \in AuditStates
    BY DEF AuditStates
  <1> QED
    BY <1>2, <1>4, <1>5, <1>6, <1>7, DAuditState

LEMMA DInvStep == ASSUME ~MayCoincide PROVE DInv /\ [Next]_vars => DInv'
  <1> SUFFICES ASSUME DInv, Next \/ UNCHANGED vars PROVE DInv'
    OBVIOUS
  <1>1. IInv'
    BY IInvStep DEF DInv
  <1>2. CASE UNCHANGED <<runner, audit, formal, measured>> /\ recon'.pc # "conflict"
    BY <1>1, <1>2, DQuiet
  <1>4. ASSUME NEW r \in Runners, Start(r) \/ ConfirmFails(r) \/ Crash(r) PROVE DInv'
    <2>1. runner'[r].pc \in {"idle", "evaluate"}
      <3>1. CASE Start(r)
        BY <3>1 DEF Start, Evaluating, Between, DInv, IInv, TypeOK
      <3>2. CASE ConfirmFails(r)
        BY <3>2, Continues, ContinuedType
           DEF ConfirmFails, AfterFailedConfirmation, DInv, IInv, TypeOK, LocalsOK, RunnerOK
      <3>3. CASE Crash(r)
        BY <3>3 DEF Crash, IdleRunner, Between, DInv, IInv, TypeOK
      <3> QED
        BY <1>4, <3>1, <3>2, <3>3
    <2>2. /\ \A q \in Runners \ {r} : runner'[q] = runner[q]
          /\ UNCHANGED <<audit, formal, measured, recon>>
      BY <1>4 DEF Start, ConfirmFails, Crash, DInv, IInv, TypeOK
    <2> QED
      BY <1>1, <2>1, <2>2, DReleased
  <1>5. ASSUME NEW r \in Runners, FollowUp(r) \/ ApplyRefused(r) PROVE DInv'
    BY <1>1, <1>5, DRefusedStep DEF FollowUp, ApplyRefused
  <1>6. ASSUME NEW r \in Runners,
               Evaluate(r) \/ Prepare(r) \/ Apply(r) \/ Confirm(r) \/ Abandon(r)
        PROVE  DInv'
    BY <1>1, <1>6, DEvaluateStep, DPrepareStep, DApplyStep, DConfirmStep
  <1>7. ~ReconcileConflict
    BY DEF ReconcileConflict, DInv, NoConflict
  <1>8. CASE ReconcileConfirm
    BY <1>1, <1>8, DReconcileConfirmStep
  <1>9. CASE \/ NextDay \/ UNCHANGED vars
             \/ \E e \in Events : EvidenceArrives(e) \/ RoughReview(e) \/ Revise(e)
    BY <1>2, <1>9 DEF NextDay, EvidenceArrives, RoughReview, Revise, vars, DInv, NoConflict
  <1>10. CASE ReconcileRead \/ ReconcilePending \/ ReconcileCrash
    <2>1. IdleRecon.pc = "idle"
      BY DEF IdleRecon
    <2>2. CASE ReconcileRead
      <3>1. recon'.pc = "pending"
        BY <2>2 DEF ReconcileRead, IdleRecon
      <3> QED
        BY <1>2, <2>2, <3>1 DEF ReconcileRead
    <2>3. CASE ReconcilePending
      <3>1. recon' = IdleRecon \/ recon'.pc = "confirm"
        BY <2>3 DEF ReconcilePending, DInv, IInv, TypeOK, ReconState
      <3> QED
        BY <1>2, <2>1, <2>3, <3>1 DEF ReconcilePending
    <2>4. CASE ReconcileCrash
      BY <1>2, <2>1, <2>4 DEF ReconcileCrash
    <2> QED
      BY <1>10, <2>2, <2>3, <2>4
  <1> QED
    BY <1>4, <1>5, <1>6, <1>7, <1>8, <1>9, <1>10 DEF Next, Reconcile

\* If no two evaluations measure the same, no confirmation is refused: a batch
\* whose confirmation failed may leave its audit to the reconciliation.
THEOREM RecoveryAlwaysConfirms ==
    ASSUME ~MayCoincide PROVE Spec => []RecoveryNeverConflicts
  <1>1. DInv => RecoveryNeverConflicts
    BY DEF DInv, NoConflict
  <1>2. DInv /\ [Next]_vars => DInv'
    BY DInvStep
  <1> QED
    BY <1>1, <1>2, DInvInit, PTL DEF Spec

\* Nor is an audit abandoned whose conclusion is in the ledger; when evaluations
\* may coincide, a retry can commit under the abandoned audit of its own content.
THEOREM AbandonsOnlyUncommitted ==
    ASSUME ~MayCoincide PROVE Spec => []AbandonedIsUncommitted
  <1>1. DInv => AbandonedIsUncommitted
    BY DEF DInv
  <1>2. DInv /\ [Next]_vars => DInv'
    BY DInvStep
  <1> QED
    BY <1>1, <1>2, DInvInit, PTL DEF Spec

-----------------------------------------------------------------------------
(* The limits. The budget is read in the transaction that spends it, and   *)
(* the only conclusions of a later day are written in a transaction of     *)
(* their own.                                                              *)

DaysOK == \A m \in Identities : formal[m] # Nothing => formal[m].day <= day

BInv == IInv /\ DaysOK /\ BatchLimitKept /\ DailyLimitKept

LEMMA FormalFinite ==
    ASSUME NEW S \in SUBSET Identities
    PROVE  /\ IsFiniteSet(S) /\ Cardinality(S) \in Nat
           /\ \A m \in Identities : Cardinality(S \cup {m}) <= Cardinality(S) + 1
  <1>1. IsFiniteSet(Versions)
    BY LimitsAssumption, FS_Interval DEF Versions
  <1>2. IsFiniteSet(Identities)
    BY <1>1, EventsAssumption, FS_Product DEF Identities
  <1>3. IsFiniteSet(S)
    BY <1>2, FS_Subset
  <1>4. Cardinality(S) \in Nat
    BY <1>3, FS_CardinalityType
  <1> QED
    BY <1>3, <1>4, FS_AddElement

\* A step that adds no conclusion.
LEMMA BQuiet ==
    ASSUME BInv, IInv', formal' = formal, day' \in Nat, day <= day' PROVE BInv'
  <1>1. DaysOK'
    BY LimitsAssumption DEF BInv, DaysOK, IInv, TypeOK, Days, Conclusions
  <1> QED
    BY <1>1 DEF BInv, BatchLimitKept, DailyLimitKept, FormalOf, FormalOn

LEMMA BApplyStep ==
    ASSUME NEW r \in Runners, BInv, IInv', Apply(r) PROVE BInv'
  <1> DEFINE m == Mutation(r)
             batch == runner[r].content.batch
  <1>1. /\ m \in Identities /\ formal[m] = Nothing /\ runner[r].content \in Contents
        /\ ~BudgetBlocks(batch) /\ day \in Nat /\ day' \in Nat /\ day' \in {day, day + 1}
    <2>1. m \in Identities /\ formal[m] = Nothing /\ runner[r].content \in Contents
      BY ApplyFinds DEF BInv
    <2>2. ~BudgetBlocks(batch)
      BY DEF Apply, Applicable
    <2>3. day \in Nat /\ day' \in Nat /\ day' \in {day, day + 1}
      <3>1. day \in Days /\ day' \in {day, day + 1} \cap Days
        BY DEF BInv, IInv, TypeOK, Apply
      <3> QED
        BY <3>1, LimitsAssumption DEF Days
    <2> QED
      BY <2>1, <2>2, <2>3
  <1>2. /\ \A n \in Identities \ {m} : formal'[n] = formal[n]
        /\ formal'[m] = [content |-> runner[r].content, day |-> day']
    BY <1>1 DEF Apply, BInv, IInv, TypeOK
  <1>3. formal'[m] # Nothing
    <2>1. formal'[m] \in Conclusions
      BY <1>1, <1>2 DEF Apply, Conclusions
    <2> QED
      BY <2>1, NothingAssumption
  <1>4. formal'[m].day = day' /\ formal'[m].content.batch = batch
    BY <1>2
  <1> HIDE DEF m, batch
  <1>5. DaysOK'
    <2> SUFFICES ASSUME NEW n \in Identities, formal'[n] # Nothing PROVE formal'[n].day <= day'
      BY DEF DaysOK
    <2>1. CASE n = m
      BY <1>1, <1>4, <2>1
    <2>2. CASE n # m
      <3>1. formal[n] # Nothing /\ formal'[n] = formal[n]
        BY <1>2, <2>2
      <3>2. formal[n].day \in Nat /\ formal[n].day <= day
        BY <3>1, LimitsAssumption DEF BInv, DaysOK, IInv, TypeOK, Conclusions, Days
      <3> QED
        BY <1>1, <3>1, <3>2
    <2> QED
      BY <2>1, <2>2
  <1>6. BatchLimitKept'
    <2> SUFFICES ASSUME NEW b \in Batches PROVE Cardinality(FormalOf(b)') <= BatchLimit
      BY DEF BatchLimitKept
    <2>1. Cardinality(FormalOf(b)) <= BatchLimit /\ FormalOf(b) \subseteq Identities
      BY DEF BInv, BatchLimitKept, FormalOf
    <2>2. CASE b = batch
      <3>1. FormalOf(b)' = FormalOf(b) \cup {m}
        BY <1>1, <1>2, <1>3, <1>4, <2>2 DEF FormalOf
      <3>2. ~(Cardinality(FormalOf(b)) >= BatchLimit)
        BY <1>1, <2>2 DEF BudgetBlocks
      <3>3. /\ Cardinality(FormalOf(b)) \in Nat
            /\ Cardinality(FormalOf(b) \cup {m}) <= Cardinality(FormalOf(b)) + 1
            /\ Cardinality(FormalOf(b) \cup {m}) \in Nat
        BY <1>1, <2>1, FormalFinite
      <3> QED
        BY <3>1, <3>2, <3>3, LimitsAssumption
    <2>3. CASE b # batch
      <3>1. FormalOf(b)' = FormalOf(b)
        BY <1>1, <1>2, <1>4, <2>3 DEF FormalOf
      <3> QED
        BY <2>1, <3>1
    <2> QED
      BY <2>2, <2>3
  <1>7. DailyLimitKept'
    <2> SUFFICES ASSUME NEW d \in Days PROVE Cardinality(FormalOn(d)') <= DailyLimit
      BY DEF DailyLimitKept
    <2>1. Cardinality(FormalOn(d)) <= DailyLimit /\ FormalOn(d) \subseteq Identities
      BY DEF BInv, DailyLimitKept, FormalOn
    <2>2. ~(Cardinality(FormalOn(day)) >= DailyLimit) /\ Cardinality(FormalOn(day)) \in Nat
      <3>1. FormalOn(day) \in SUBSET Identities
        BY DEF FormalOn
      <3> QED
        BY <1>1, <3>1, FormalFinite DEF BudgetBlocks
    <2>3. CASE d = day'
      <3>1. FormalOn(d)' = FormalOn(d) \cup {m}
        BY <1>1, <1>2, <1>3, <1>4, <2>3 DEF FormalOn
      <3>2. /\ Cardinality(FormalOn(d)) \in Nat
            /\ Cardinality(FormalOn(d) \cup {m}) <= Cardinality(FormalOn(d)) + 1
            /\ Cardinality(FormalOn(d) \cup {m}) \in Nat
        BY <1>1, <2>1, FormalFinite
      <3>3. CASE d = day
        BY <2>2, <3>1, <3>2, <3>3, LimitsAssumption
      <3>4. CASE d = day + 1
        <4>1. FormalOn(d) = {}
          <5> SUFFICES ASSUME NEW n \in Identities, formal[n] # Nothing, formal[n].day = day + 1
                       PROVE  FALSE
            BY <3>4 DEF FormalOn
          <5> QED
            BY <1>1 DEF BInv, DaysOK
        <4>2. Cardinality(FormalOn(d)) = 0
          BY <4>1, FS_EmptySet
        <4> QED
          BY <2>2, <3>1, <3>2, <4>2, LimitsAssumption
      <3> QED
        BY <1>1, <2>3, <3>3, <3>4
    <2>4. CASE d # day'
      <3>1. FormalOn(d)' = FormalOn(d)
        BY <1>1, <1>2, <1>4, <2>4 DEF FormalOn
      <3> QED
        BY <2>1, <3>1
    <2> QED
      BY <2>3, <2>4
  <1> QED
    BY <1>5, <1>6, <1>7 DEF BInv

LEMMA BInvInit == Init => BInv
  <1> SUFFICES ASSUME Init PROVE BInv
    OBVIOUS
  <1>1. IInv /\ DaysOK
    BY IInvInit DEF Init, DaysOK
  <1>2. \A b \in Batches : FormalOf(b) = {}
    BY DEF Init, FormalOf
  <1>3. \A d \in Days : FormalOn(d) = {}
    BY DEF Init, FormalOn
  <1> QED
    BY <1>1, <1>2, <1>3, FS_EmptySet, LimitsAssumption DEF BInv, BatchLimitKept, DailyLimitKept

LEMMA BInvStep == BInv /\ [Next]_vars => BInv'
  <1> SUFFICES ASSUME BInv, Next \/ UNCHANGED vars PROVE BInv'
    OBVIOUS
  <1>1. IInv' /\ day \in Nat
    BY IInvStep, LimitsAssumption DEF BInv, IInv, TypeOK, Days
  <1>2. ASSUME NEW r \in Runners, Apply(r) PROVE BInv'
    BY <1>1, <1>2, BApplyStep
  <1>3. CASE formal' = formal /\ day' \in {day, day + 1}
    BY <1>1, <1>3, BQuiet
  <1>4. (\E r \in Runners : Apply(r)) \/ (formal' = formal /\ day' \in {day, day + 1})
    BY DEF Next, NextDay, EvidenceArrives, RoughReview, Revise, Start, Evaluate, Prepare,
           FollowUp, ApplyRefused, Confirm, ConfirmFails, Abandon, Crash, Reconcile,
           ReconcileRead, ReconcilePending, ReconcileConfirm, ReconcileConflict,
           ReconcileCrash, vars
  <1> QED
    BY <1>2, <1>3, <1>4

\* No batch applies more conclusions than its limit, whatever runs concurrently.
THEOREM BatchLimitHolds == Spec => []BatchLimitKept
  <1>1. BInv => BatchLimitKept
    BY DEF BInv
  <1> QED
    BY <1>1, BInvInit, BInvStep, PTL DEF Spec

\* No day has more conclusions than its limit, also around midnight.
THEOREM DailyLimitHolds == Spec => []DailyLimitKept
  <1>1. BInv => DailyLimitKept
    BY DEF BInv
  <1> QED
    BY <1>1, BInvInit, BInvStep, PTL DEF Spec

\* Both limits of apply_event together, as the runs check them.
THEOREM LimitsHold == Spec => []LimitsKept
  <1>1. BInv => LimitsKept
    BY DEF BInv, LimitsKept
  <1> QED
    BY <1>1, BInvInit, BInvStep, PTL DEF Spec

-----------------------------------------------------------------------------
(* FormalMutation implements AuditedLedger: every step of an execution or  *)
(* of the reconciliation is a step of one mutation of the audited ledger,  *)
(* or leaves what audit and ledger show of it alone.                       *)

Abstract == [Audited!Next]_Audited!vars

LEMMA InitRefines == Init => Audited!Init
  BY DEF Init, Audited!Init, VerdictOf, Confirmed

\* Steps that write neither audits nor conclusions.
LEMMA Stutters == ASSUME UNCHANGED <<audit, formal>> PROVE Abstract
  BY DEF Abstract, Audited!vars, VerdictOf

\* Steps that close one audit, or close it again in the same way.
LEMMA Closes ==
    ASSUME DInv, DInv', NEW m \in Identities, NEW state \in {"LEDGER_COMMITTED", "RECOVERED", "ABANDONED"},
           audit' = [audit EXCEPT ![m].state = state], formal' = formal,
           audit[m].content # Nothing,
           IF state = "ABANDONED" THEN audit[m].state = "PREPARED" ELSE formal[m] # Nothing
    PROVE  Abstract
  <1> DEFINE verdict == [n \in Identities |-> VerdictOf(audit[n].state)]
             closed == VerdictOf(state)
  <1>1. /\ \A n \in Identities : audit'[n].content = audit[n].content
        /\ \A n \in Identities \ {m} : audit'[n].state = audit[n].state
        /\ audit'[m].state = state
    BY DEF DInv, IInv, TypeOK
  <1>2. /\ [n \in Identities |-> audit'[n].content] = [n \in Identities |-> audit[n].content]
        /\ verdict' = [verdict EXCEPT ![m] = closed]
    <2>1. \A n \in Identities :
              VerdictOf(audit'[n].state) = IF n = m THEN closed ELSE VerdictOf(audit[n].state)
      BY <1>1
    <2>2. verdict' = [n \in Identities |-> VerdictOf(audit'[n].state)]
      OBVIOUS
    <2> HIDE DEF closed
    <2>3. verdict' = [verdict EXCEPT ![m] = closed]
      BY <2>1, <2>2
    <2>4. [n \in Identities |-> audit'[n].content] = [n \in Identities |-> audit[n].content]
      BY <1>1
    <2> QED
      BY <2>3, <2>4
  <1>3. audit[m].state \in AuditStates \ {"ABSENT", "RECOVERY_CONFLICT"}
    BY DEF DInv, IInv, TypeOK, AuditOK, NoConflict, RecoveryNeverConflicts
  <1>4. closed = IF state = "ABANDONED" THEN "abandoned" ELSE "committed"
    BY DEF VerdictOf, Confirmed
  <1>5. state = "ABANDONED" => formal[m] = Nothing
    BY <1>1 DEF DInv, AbandonedIsUncommitted
  <1>6. state # "ABANDONED" => audit[m].state # "ABANDONED"
    BY DEF DInv, AbandonedIsUncommitted
  <1>7. formal[m] # Nothing => formal[m].content # Nothing
    BY NothingAssumption DEF DInv, IInv, TypeOK, Conclusions
  <1>8. CASE audit[m].state = "PREPARED"
    <2>1. verdict[m] = "open"
      BY <1>8 DEF VerdictOf, Confirmed
    <2>2. CASE state = "ABANDONED"
      BY <1>2, <1>4, <1>5, <2>1, <2>2 DEF Abstract, Audited!Next, Audited!Abandon, Audited!Open
    <2>3. CASE state # "ABANDONED"
      BY <1>2, <1>4, <1>7, <2>1, <2>3 DEF Abstract, Audited!Next, Audited!Confirm, Audited!Open
    <2> QED
      BY <2>2, <2>3
  <1>9. CASE audit[m].state \in Confirmed
    <2>1. verdict[m] = "committed" /\ closed = "committed"
      BY <1>4, <1>9 DEF VerdictOf, Confirmed
    <2>2. verdict' = verdict
      BY <1>2, <2>1
    <2> QED
      BY <1>2, <2>2 DEF Abstract, Audited!vars
  <1> QED
    BY <1>3, <1>6, <1>8, <1>9 DEF AuditStates, Confirmed

LEMMA PrepareRefines ==
    ASSUME DInv, NEW r \in Runners, Prepare(r) PROVE Abstract
  <1> DEFINE m == Mutation(r)
             content == runner[r].content
  <1>1. /\ RunnerOK(r) /\ runner[r].pc = "prepare" /\ runner[r].before < MaxVersion
        /\ content \in Contents /\ formal' = formal
    BY DEF Prepare, DInv, IInv, LocalsOK, RunnerOK
  <1>2. m \in Identities
    BY <1>1, MutationType DEF DInv, IInv
  <1>3. audit[m].content # content
    BY <1>1, <1>2, NothingAssumption DEF DInv, UndecidedOK, Undecided, Latency
  <1>4. CASE audit[m].state = "ABSENT"
    <2>1. audit' = [audit EXCEPT ![m] = [state |-> "PREPARED", content |-> content]]
      BY <1>4 DEF Prepare, Accepts
    <2> HIDE DEF m, content
    <2>2. /\ audit'[m].state = "PREPARED" /\ audit'[m].content = content
          /\ \A n \in Identities \ {m} : audit'[n] = audit[n]
      BY <1>2, <2>1 DEF DInv, IInv, TypeOK
    <2>3. audit[m].content = Nothing
      BY <1>2, <1>4 DEF DInv, IInv, AuditOK
    <2>4. VerdictOf("PREPARED") = VerdictOf("ABSENT")
      BY DEF VerdictOf, Confirmed
    <2>5. [n \in Identities |-> VerdictOf(audit'[n].state)]
              = [n \in Identities |-> VerdictOf(audit[n].state)]
      BY <1>4, <2>2, <2>4
    <2>6. [n \in Identities |-> audit'[n].content]
              = [[n \in Identities |-> audit[n].content] EXCEPT ![m] = content]
      BY <2>2
    <2> QED
      BY <1>1, <1>2, <2>3, <2>5, <2>6 DEF Abstract, Audited!Next, Audited!Intend
  <1>5. CASE audit[m].state # "ABSENT"
    <2>1. audit' = audit
      BY <1>3, <1>5 DEF Prepare, Accepts
    <2> QED
      BY <1>1, <2>1, Stutters
  <1> QED
    BY <1>4, <1>5

LEMMA ApplyRefines ==
    ASSUME DInv, NEW r \in Runners, Apply(r) PROVE Abstract
  <1> DEFINE m == Mutation(r)
             content == runner[r].content
  <1>1. /\ m \in Identities /\ formal[m] = Nothing /\ content \in Contents
        /\ audit[m].content = content /\ audit[m].state = "PREPARED" /\ audit' = audit
    BY ApplyFinds DEF DInv, UndecidedOK, Undecided, Apply
  <1>2. formal' = [formal EXCEPT ![m] = [content |-> content, day |-> day']]
    BY DEF Apply
  <1> HIDE DEF m, content
  <1>3. /\ formal'[m] = [content |-> content, day |-> day']
        /\ \A n \in Identities \ {m} : formal'[n] = formal[n]
    BY <1>1, <1>2 DEF DInv, IInv, TypeOK
  <1>4. formal'[m] # Nothing
    <2>1. day' \in Days
      BY DEF Apply
    <2> QED
      BY <1>1, <1>3, <2>1, NothingAssumption DEF Conclusions
  <1>5. formal'[m].content = content
    BY <1>3
  <1>6. [n \in Identities |-> IF formal'[n] = Nothing THEN Nothing ELSE formal'[n].content]
            = [[n \in Identities |-> IF formal[n] = Nothing THEN Nothing ELSE formal[n].content]
                  EXCEPT ![m] = content]
    BY <1>3, <1>4, <1>5
  <1>7. VerdictOf("PREPARED") = "open" /\ content # Nothing
    BY <1>1, NothingAssumption DEF VerdictOf, Confirmed
  <1> QED
    BY <1>1, <1>6, <1>7 DEF Abstract, Audited!Next, Audited!Conclude, Audited!Open

LEMMA ConfirmRefines ==
    ASSUME DInv, DInv', NEW r \in Runners, Confirm(r) \/ Abandon(r) PROVE Abstract
  <1> DEFINE m == Mutation(r)
  <1>1. /\ RunnerOK(r) /\ runner[r].prepared /\ runner[r].pc \in {"confirm", "abandon"}
        /\ formal' = formal
    BY DEF DInv, IInv, LocalsOK, RunnerOK, Confirm, Abandon
  <1>2. m \in Identities /\ audit[m].content # Nothing
    BY <1>1, MutationType, NothingAssumption DEF RunnerOK, DInv, IInv
  <1>3. CASE audit' = audit
    BY <1>1, <1>3, Stutters
  <1>4. CASE Confirm(r) /\ audit' = [audit EXCEPT ![m].state = "LEDGER_COMMITTED"]
    BY <1>1, <1>2, <1>4, Closes DEF RunnerOK, Confirm
  <1>5. CASE audit[m].state = "PREPARED" /\ audit' = [audit EXCEPT ![m].state = "ABANDONED"]
    BY <1>1, <1>2, <1>5, Closes
  <1> QED
    BY <1>3, <1>4, <1>5 DEF Confirm, Abandon

LEMMA ReconcileConfirmRefines ==
    ASSUME DInv, DInv', ReconcileConfirm PROVE Abstract
  <1>1. PICK m \in recon.pending :
            audit' = IF Confirmable(m, formal[m].content)
                     THEN [audit EXCEPT ![m].state = "RECOVERED"] ELSE audit
    BY DEF ReconcileConfirm
  <1>2. m \in Identities /\ formal[m] # Nothing /\ formal' = formal
    BY DEF DInv, IInv, TypeOK, ReconState, ReconOK, ReconcileConfirm
  <1>3. audit[m].content # Nothing
    BY <1>2, NothingAssumption DEF DInv, IInv, OneConclusion, TypeOK, Conclusions
  <1> QED
    BY <1>1, <1>2, <1>3, Closes, Stutters

LEMMA NextRefines ==
    ASSUME ~MayCoincide, DInv, DInv', [Next]_vars PROVE Abstract
  <1>1. CASE UNCHANGED <<audit, formal>>
    BY <1>1, Stutters
  <1>2. ASSUME NEW r \in Runners, Prepare(r) \/ Apply(r) \/ Confirm(r) \/ Abandon(r)
        PROVE  Abstract
    BY <1>2, PrepareRefines, ApplyRefines, ConfirmRefines
  <1>3. CASE ReconcileConfirm
    BY <1>3, ReconcileConfirmRefines
  <1>4. ~ReconcileConflict
    BY DEF ReconcileConflict, DInv, NoConflict
  <1>5. ASSUME NEW r \in Runners, \/ Start(r) \/ Evaluate(r) \/ FollowUp(r) \/ ApplyRefused(r)
                                  \/ ConfirmFails(r) \/ Crash(r)
        PROVE  UNCHANGED <<audit, formal>>
    BY <1>5 DEF Start, Evaluate, FollowUp, ApplyRefused, ConfirmFails, Crash
  <1>6. ASSUME NEW e \in Events, EvidenceArrives(e) \/ RoughReview(e) \/ Revise(e)
        PROVE  UNCHANGED <<audit, formal>>
    BY <1>6 DEF EvidenceArrives, RoughReview, Revise
  <1>7. ASSUME NextDay \/ ReconcileRead \/ ReconcilePending \/ ReconcileCrash \/ UNCHANGED vars
        PROVE  UNCHANGED <<audit, formal>>
    BY <1>7 DEF NextDay, ReconcileRead, ReconcilePending, ReconcileCrash, vars
  <1> QED
    BY <1>1, <1>2, <1>3, <1>4, <1>5, <1>6, <1>7 DEF Next, Reconcile

\* Two databases, concurrent executions, crashes and a reconciliation behave as
\* one audited ledger, if no two evaluations measure the same latency: a
\* mutation is concluded at most once, as its audit announced it, and no audit
\* says what did not happen.
THEOREM RefinesAuditedLedger ==
    ASSUME ~MayCoincide PROVE Spec => ImplementsAuditedLedger
  <1>1. DInv /\ [Next]_vars => DInv'
    BY DInvStep
  <1>2. DInv /\ DInv' /\ [Next]_vars => Abstract
    BY NextRefines
  <1> QED
    BY <1>1, <1>2, DInvInit, InitRefines, PTL
       DEF Spec, ImplementsAuditedLedger, Audited!Spec, Abstract

=============================================================================
