----------------------------- MODULE Adjudication -----------------------------
(***************************************************************************)
(* Human adjudication and the freeze of the blind set.                     *)
(*                                                                         *)
(* Two reviewers judge a sample without seeing each other; when they differ*)
(* on an axis a third person arbitrates.  The label is derived from the    *)
(* axes.  scripts/freeze_human_blind_v3.py selects a set of labelled       *)
(* samples, writes it to a dataset file, prepares a manifest, freezes the  *)
(* samples in the operations database under an authorization that binds    *)
(* exactly this set, and marks the manifest as committed.  Files and       *)
(* database are two stores: the script may die between any two writes and  *)
(* is then run again.                                                      *)
(*                                                                         *)
(* A row of the dataset is its sample with all its reviews, from which     *)
(* the label follows.  The freeze id is a hash of the rows: here the rows  *)
(* themselves, a function from samples to their reviews.                   *)
(***************************************************************************)
EXTENDS Naturals, Sequences, FiniteSets

CONSTANTS
    Samples,        \* a sample is an event and one text of it
    Order,          \* the samples, in the order the selection sorts them
    Source,         \* [Samples -> names], the source of the primary passage
    Overlap,        \* pairs that share issuer, chain or text, or nearly the text
    Provisional,    \* samples whose issuer or chain was not resolved
    Exposed,        \* samples that occur in the exclusion corpora
    KnownSources,   \* source families of the exclusion corpora
    Principals,     \* people with a bound credential
    Role,           \* [Principals -> {"REVIEWER", "ARBITER"}]
    Axes,           \* the judgements that may be given
    Quota,          \* [Labels -> Nat], the minimum of each label
    MinSources,     \* source families a blind set needs
    Freezers,       \* processes running the freeze script
    MaxApprovals,   \* bound on authorizations
    MaxCrashes,     \* bound on freeze processes that die
    None

Labels == {"RISK_REVIEW", "NON_TARGET", "ABSTAIN"}
Judgements == [materiality: {"MATERIAL_ADVERSE", "NOT_MATERIAL_ADVERSE", "UNCLEAR"},
               polarity: {"ADVERSE", "POSITIVE", "NEUTRAL", "MIXED", "UNCLEAR"},
               evidence: {"PRIMARY_SUPPORTED", "MULTI_SOURCE_SUPPORTED",
                          "DISCOVERY_ONLY", "CONFLICTED", "INSUFFICIENT"}]

Review == [by: Principals, role: {"REVIEWER", "ARBITER"}, axes: Axes]
IsRows(r) == \E S \in SUBSET Samples : r \in [S -> SUBSET Review]

ASSUME AdjudicationConstants ==
    /\ Axes \subseteq Judgements
    /\ Role \in [Principals -> {"REVIEWER", "ARBITER"}]
    /\ Quota \in [Labels -> Nat] /\ \E label \in Labels : Quota[label] > 0
    /\ {MinSources, MaxApprovals, MaxCrashes} \subseteq Nat
    /\ \A s, t \in Samples : <<s, t>> \in Overlap => <<t, s>> \in Overlap

ASSUME SamplesAssumption == IsFiniteSet(Samples) /\ Order \in Seq(Samples)

VARIABLES
    status,     \* of each sample; "ABSENT" before it is created
    reviews,    \* the reviews of each sample
    frozenBy,   \* the freeze id of each sample
    freezes,    \* adjudication_freezes: rows and authorization of each
    files,      \* the dataset files in the output directory
    manifest,   \* the manifest of each freeze id: its commit_state
    approval,   \* the authorization file: what it binds, its number; those expired
    freezer,    \* each freeze process
    crashes

vars == <<status, reviews, frozenBy, freezes, files, manifest, approval,
          freezer, crashes>>
desk == <<status, reviews>>
disk == <<files, manifest>>

Idle == [pc |-> "idle", rows |-> None, apply |-> FALSE, no |-> 0]
NoApproval == [rows |-> None, no |-> 0, expired |-> {}]

TypeOK ==
    /\ status \in [Samples -> {"ABSENT", "OPEN", "IN_REVIEW", "CONFLICT",
                               "READY", "FROZEN"}]
    /\ reviews \in [Samples -> SUBSET Review]
    /\ frozenBy \in [Samples -> files \cup {None}]
    /\ freezes \subseteq [rows: files, no: 1 .. MaxApprovals]
    /\ \A r \in files : IsRows(r)
    /\ manifest \in [DOMAIN manifest -> {"DRY_RUN", "PREPARED", "COMMITTED"}]
    /\ DOMAIN manifest \subseteq files
    /\ approval \in [rows: files \cup {None}, no: 0 .. MaxApprovals,
                     expired: SUBSET (1 .. MaxApprovals)]
    /\ \A p \in Freezers :
          /\ freezer[p].pc \in {"idle", "built", "written", "prepared", "committed"}
          /\ freezer[p].apply \in BOOLEAN /\ freezer[p].no \in 0 .. MaxApprovals
          /\ freezer[p].pc # "idle" => IsRows(freezer[p].rows)
    /\ crashes \in 0 .. MaxCrashes

Init ==
    /\ status = [s \in Samples |-> "ABSENT"]
    /\ reviews = [s \in Samples |-> {}]
    /\ frozenBy = [s \in Samples |-> None]
    /\ freezes = {} /\ files = {} /\ manifest = [r \in {} |-> None]
    /\ approval = NoApproval
    /\ freezer = [p \in Freezers |-> Idle]
    /\ crashes = 0

-----------------------------------------------------------------------------
(* The label contract *)

Agree(r, q) == r.axes = q.axes
ByRole(given, role) == {r \in given : r.role = role}
By(s, role) == ByRole(reviews[s], role)
Settled(rs) == \A r, q \in rs : Agree(r, q)

Finalizable(j) == j.evidence \in {"PRIMARY_SUPPORTED", "MULTI_SOURCE_SUPPORTED"}
coherent_label(j) ==
    IF /\ Finalizable(j) /\ j.materiality = "MATERIAL_ADVERSE"
       /\ j.polarity \in {"ADVERSE", "MIXED"}
      THEN "RISK_REVIEW"
    ELSE IF /\ Finalizable(j) /\ j.materiality = "NOT_MATERIAL_ADVERSE"
            /\ j.polarity \in {"POSITIVE", "NEUTRAL", "MIXED"}
      THEN "NON_TARGET"
    ELSE "ABSTAIN"

\* The review that decides: either of two that agree, else the arbiter's.
Decisive(given) ==
    IF Settled(ByRole(given, "REVIEWER")) THEN ByRole(given, "REVIEWER")
    ELSE ByRole(given, "ARBITER")
LabelOf(given) == coherent_label((CHOOSE r \in Decisive(given) : TRUE).axes)
Label(s) == LabelOf(reviews[s])

-----------------------------------------------------------------------------
(* The review desk *)

\* INSERT OR IGNORE: asking again for a sample that exists changes nothing.
CreateSample(s) ==
    /\ status[s] = "ABSENT"
    /\ status' = [status EXCEPT ![s] = "OPEN"]
    /\ UNCHANGED <<reviews, frozenBy, freezes, disk, approval, freezer, crashes>>

\* What record_adjudication_review asks inside its transaction.
MayReviewTwice(s, p) == TRUE   \* a fault
MayReview(s, p) == \A r \in reviews[s] : r.by # p
MayJudge(s) == Cardinality(By(s, "REVIEWER")) < 2
MayArbitrateAgreed(s) ==   \* a fault
    Cardinality(By(s, "REVIEWER")) = 2 /\ By(s, "ARBITER") = {}
MayArbitrate(s) ==
    /\ Cardinality(By(s, "REVIEWER")) = 2
    /\ By(s, "ARBITER") = {}
    /\ ~Settled(By(s, "REVIEWER"))

\* The state after a review: two that agree make the sample ready.
After(s, review) ==
    LET judged == By(s, "REVIEWER") \cup {review}
    IN IF review.role = "ARBITER" THEN "READY"
       ELSE IF Cardinality(judged) = 1 THEN "IN_REVIEW"
       ELSE IF Settled(judged) THEN "READY" ELSE "CONFLICT"

RecordReview(s, p, axes) ==
    LET review == [by |-> p, role |-> Role[p], axes |-> axes]
    IN /\ status[s] \notin {"ABSENT", "FROZEN"}
       /\ MayReview(s, p)
       /\ IF Role[p] = "REVIEWER" THEN MayJudge(s) ELSE MayArbitrate(s)
       /\ reviews' = [reviews EXCEPT ![s] = @ \cup {review}]
       /\ status' = [status EXCEPT ![s] = After(s, review)]
       /\ UNCHANGED <<frozenBy, freezes, disk, approval, freezer, crashes>>

-----------------------------------------------------------------------------
(* The candidate: pre_freeze_report and build_freeze_candidate *)

Annotated == {s \in Samples : status[s] \in {"READY", "FROZEN"}}
Count(S, label) == Cardinality({s \in S : Label(s) = label})
SourcesOf(S) == {Source[s] : s \in S}

ReportReady ==
    /\ Annotated # {}
    /\ \A label \in Labels : Count(Annotated, label) >= Quota[label]
    /\ Cardinality(SourcesOf(Annotated)) >= MinSources
    /\ Annotated \cap Provisional = {}

\* Label after label, the sources take turns; each turn takes the source's
\* first row that overlaps nothing selected so far.  What a turn has passed
\* over never fits again, so there are at most as many rounds as samples.
LabelOrder == <<"RISK_REVIEW", "NON_TARGET", "ABSTAIN">>
SourceOrder ==
    LET first(i) == \A j \in 1 .. i - 1 : Source[Order[j]] # Source[Order[i]]
    IN [k \in 1 .. Cardinality(SourcesOf(Samples)) |->
          Source[Order[CHOOSE i \in DOMAIN Order :
             first(i) /\ Cardinality({j \in 1 .. i : first(j)}) = k]]]
Turns ==
    LET n == Len(SourceOrder)
        rounds == n * Len(Order)
    IN [i \in 1 .. 3 * rounds |->
          [label |-> LabelOrder[((i - 1) \div rounds) + 1],
           source |-> SourceOrder[((i - 1) % n) + 1]]]

FitsAnything(s, chosen) == s \notin chosen   \* a fault
Fits(s, chosen) == s \notin chosen /\ \A t \in chosen : <<s, t>> \notin Overlap

Turn[i \in DOMAIN Turns] ==
    LET turn == Turns[i]
        rows(chosen) == {k \in DOMAIN Order :
                           /\ Order[k] \in Annotated \ Exposed
                           /\ Label(Order[k]) = turn.label /\ Source[Order[k]] = turn.source
                           /\ Fits(Order[k], chosen)}
        first(chosen) == CHOOSE k \in rows(chosen) : \A l \in rows(chosen) : k <= l
    IN [chosen \in SUBSET Samples |->
          IF Count(chosen, turn.label) >= Quota[turn.label] \/ rows(chosen) = {}
          THEN chosen ELSE chosen \cup {Order[first(chosen)]}]

ChosenAfter[i \in 0 .. Len(Turns)] ==
    IF i = 0 THEN {} ELSE Turn[i][ChosenAfter[i - 1]]
Chosen == ChosenAfter[Len(Turns)]
Selected == Annotated \cap Chosen
Enough(S) ==
    /\ \A label \in Labels : Count(S, label) >= Quota[label]
    /\ Cardinality(SourcesOf(S)) >= MinSources

\* The rows, if there are any to freeze.
Candidates ==
    LET set == Selected
    IN IF ReportReady /\ Enough(set) THEN {[s \in set |-> reviews[s]]} ELSE {}

-----------------------------------------------------------------------------
(* The script *)

Step(p, pc) == freezer' = [freezer EXCEPT ![p].pc = pc]

\* An apply goes on only under an authorization in force that binds this
\* candidate, and only with a source no exclusion corpus knows.
Authorized == approval.no \in 1 .. MaxApprovals \ approval.expired
Binds(rows) ==
    /\ approval.rows = rows
    /\ \E s \in DOMAIN rows : Source[s] \notin KnownSources

Build(p, apply) ==
    /\ freezer[p].pc = "idle"
    /\ apply => Authorized
    /\ \E rows \in Candidates :
          /\ apply => Binds(rows)
          /\ freezer' = [freezer EXCEPT ![p] =
                           [pc |-> "built", rows |-> rows, apply |-> apply,
                            no |-> IF apply THEN approval.no ELSE 0]]
    /\ UNCHANGED <<desk, frozenBy, freezes, disk, approval, crashes>>

WriteDataset(p) ==
    /\ freezer[p].pc = "built"
    /\ files' = files \cup {freezer[p].rows}
    /\ Step(p, "written")
    /\ UNCHANGED <<desk, frozenBy, freezes, manifest, approval, crashes>>

WriteManifest(rows, state) ==
    manifest' = [r \in DOMAIN manifest \cup {rows} |->
                   IF r = rows THEN state ELSE manifest[r]]

\* A dry run is over here: it writes its manifest over whatever there is.
DryRun(p) ==
    /\ freezer[p].pc = "written" /\ ~freezer[p].apply
    /\ WriteManifest(freezer[p].rows, "DRY_RUN")
    /\ freezer' = [freezer EXCEPT ![p] = Idle]
    /\ UNCHANGED <<desk, frozenBy, freezes, files, approval, crashes>>

PrepareAsCommitted(p) ==   \* a fault
    /\ freezer[p].pc = "written" /\ freezer[p].apply
    /\ WriteManifest(freezer[p].rows, "COMMITTED")
    /\ Step(p, "prepared")
    /\ UNCHANGED <<desk, frozenBy, freezes, files, approval, crashes>>
Prepare(p) ==
    /\ freezer[p].pc = "written" /\ freezer[p].apply
    /\ WriteManifest(freezer[p].rows, "PREPARED")
    /\ Step(p, "prepared")
    /\ UNCHANGED <<desk, frozenBy, freezes, files, approval, crashes>>

\* commit_adjudication_freeze, one transaction.  The authorization it was
\* given may have run out since; a receipt that exists must be this one.
InForce(p) == freezer[p].no \notin approval.expired
Receipt(rows) == {f \in freezes : f.rows = rows}
UnfrozenIgnored(rows) == \A s \in DOMAIN rows : status[s] \in {"READY", "FROZEN"}   \* a fault
Unfrozen(rows) == \A s \in DOMAIN rows : status[s] = "READY" /\ frozenBy[s] = None
RetryRefused(p) == FALSE   \* a fault
ExactRetry(p) ==
    /\ Receipt(freezer[p].rows) = {[rows |-> freezer[p].rows, no |-> freezer[p].no]}
    /\ \A s \in DOMAIN freezer[p].rows : frozenBy[s] = freezer[p].rows

Commit(p) ==
    /\ freezer[p].pc = "prepared"
    /\ InForce(p)
    /\ \/ /\ ExactRetry(p)
          /\ UNCHANGED <<status, frozenBy, freezes>>
       \/ LET rows == freezer[p].rows
          IN /\ Receipt(rows) = {} /\ Unfrozen(rows)
             /\ freezes' = freezes \cup {[rows |-> rows, no |-> freezer[p].no]}
             /\ status' = [s \in Samples |-> IF s \in DOMAIN rows THEN "FROZEN" ELSE status[s]]
             /\ frozenBy' = [s \in Samples |-> IF s \in DOMAIN rows THEN rows ELSE frozenBy[s]]
    /\ Step(p, "committed")
    /\ UNCHANGED <<reviews, disk, approval, crashes>>

\* Refused: the script raises and leaves what it has written.
Refused(p) ==
    /\ freezer[p].pc = "prepared"
    /\ \/ ~InForce(p)
       \/ /\ ~ExactRetry(p)
          /\ Receipt(freezer[p].rows) # {} \/ ~Unfrozen(freezer[p].rows)
    /\ freezer' = [freezer EXCEPT ![p] = Idle]
    /\ UNCHANGED <<desk, frozenBy, freezes, disk, approval, crashes>>

Complete(p) ==
    /\ freezer[p].pc = "committed"
    /\ WriteManifest(freezer[p].rows, "COMMITTED")
    /\ freezer' = [freezer EXCEPT ![p] = Idle]
    /\ UNCHANGED <<desk, frozenBy, freezes, files, approval, crashes>>

\* The process dies, or a file cannot be written.
Crash(p) ==
    /\ freezer[p].pc # "idle" /\ crashes < MaxCrashes
    /\ crashes' = crashes + 1
    /\ freezer' = [freezer EXCEPT ![p] = Idle]
    /\ UNCHANGED <<desk, frozenBy, freezes, disk, approval>>

\* Somebody fills in the template of a dry run, or approves the set again
\* with a new expiry; and the time given runs out.
Approve(rows) ==
    /\ approval.no < MaxApprovals
    /\ rows \in DOMAIN manifest
    /\ approval' = [approval EXCEPT !.rows = rows, !.no = @ + 1]
    /\ UNCHANGED <<desk, frozenBy, freezes, disk, freezer, crashes>>

Expire(no) ==
    /\ no \notin approval.expired
    /\ approval' = [approval EXCEPT !.expired = @ \cup {no}]
    /\ UNCHANGED <<desk, frozenBy, freezes, disk, freezer, crashes>>

-----------------------------------------------------------------------------

ScriptStep(p) ==
    WriteDataset(p) \/ DryRun(p) \/ Prepare(p) \/ Commit(p) \/ Refused(p) \/ Complete(p)

Next ==
    \/ \E s \in Samples :
          \/ CreateSample(s)
          \/ \E p \in Principals, axes \in Axes : RecordReview(s, p, axes)
    \/ \E p \in Freezers :
          \/ \E apply \in BOOLEAN : Build(p, apply)
          \/ ScriptStep(p) \/ Crash(p)
    \/ \E rows \in DOMAIN manifest : Approve(rows)
    \/ \E no \in 1 .. approval.no : Expire(no)

\* A process goes on until it dies, and the operator runs the freeze again.
Fairness ==
    /\ \A p \in Freezers : WF_vars(ScriptStep(p))
    /\ SF_vars(\E p \in Freezers : Build(p, TRUE))

Spec == Init /\ [][Next]_vars /\ Fairness

-----------------------------------------------------------------------------
\* Every freeze on record has its dataset file, and the file holds just what
\* the samples' reviews say: nothing read before the commit was stale by then.
FreezeIsSound ==
    \A f \in freezes :
        /\ f.rows \in files
        /\ \A s \in DOMAIN f.rows :
              /\ status[s] = "FROZEN" /\ frozenBy[s] = f.rows
              /\ f.rows[s] = reviews[s]

\* No manifest claims a freeze that the database does not have.
ManifestNeverAhead ==
    \A rows \in DOMAIN manifest : manifest[rows] = "COMMITTED" => Receipt(rows) # {}

\* Every sample that counts as labelled was judged by two people, and by a
\* third one exactly when they differ: its annotation can be built.
Independent ==
    \A s \in Annotated :
        /\ Cardinality(By(s, "REVIEWER")) = 2
        /\ \A r, q \in reviews[s] : r.by = q.by => r = q
        /\ By(s, "ARBITER") = {} <=> Settled(By(s, "REVIEWER"))

\* No two rows of a set that was frozen overlap.
NoOverlapFrozen ==
    \A f \in freezes : \A s, t \in DOMAIN f.rows : s # t => <<s, t>> \notin Overlap

\* A label, once it can be used, does not change, and a frozen sample stays
\* in its freeze.
LabelsFixed ==
    [][\A s \in Annotated :
          /\ s \in Annotated' /\ reviews'[s] = reviews[s]
          /\ frozenBy[s] # None => frozenBy'[s] = frozenBy[s]]_vars

\* What a final judgement is: two people, and a third one if they differ.
FinalReviews ==
    {given \in SUBSET Review :
        LET judged == ByRole(given, "REVIEWER")
            arbitrated == ByRole(given, "ARBITER")
        IN  /\ Cardinality(judged) = 2
            /\ \A r, q \in given : r.by = q.by => r = q
            /\ Cardinality(arbitrated) = IF Settled(judged) THEN 0 ELSE 1}

\* What a blind set is: enough of every label and of sources, one of them
\* unknown, nothing exposed or provisional, and no overlap.
IsBlindSet(rows) ==
    LET set == DOMAIN rows
    IN  /\ \A label \in Labels :
               Cardinality({s \in set : LabelOf(rows[s]) = label}) >= Quota[label]
        /\ Cardinality(SourcesOf(set)) >= MinSources
        /\ SourcesOf(set) \ KnownSources # {}
        /\ set \cap (Exposed \cup Provisional) = {}
        /\ \A s, t \in set : s # t => <<s, t>> \notin Overlap

Blind == INSTANCE FrozenSets
             WITH Verdicts <- FinalReviews, Nothing <- {},
                  verdict <- [s \in Samples |-> IF s \in Annotated THEN reviews[s] ELSE {}],
                  frozen <- {f.rows : f \in freezes}

\* A desk where people judge at the same time, and freeze processes that read
\* the reviews, write two files and commit, each in a transaction of its own,
\* behave as one store that freezes a blind set in one step.
ImplementsFrozenSets == Blind!Spec

\* A crash after the database commit is made good: the freeze is run again
\* and completes its manifest, as long as its authorization is in force and
\* no later review makes the script select another set.
Reconciled(f) == f.rows \in DOMAIN manifest /\ manifest[f.rows] = "COMMITTED"
Outdated(f) ==
    \/ approval.no # f.no \/ ~Authorized
    \/ f.rows \notin Candidates
RetryReconciles == []<>(\A f \in freezes : Reconciled(f) \/ Outdated(f))
=============================================================================
