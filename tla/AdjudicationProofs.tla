-------------------------- MODULE AdjudicationProofs --------------------------
(***************************************************************************)
(* For any samples, people, judgements, quotas, freeze processes,          *)
(* authorizations and crashes: labels are fixed once they can be used, and *)
(* every freeze on record has a dataset file that says what was judged.    *)
(***************************************************************************)
EXTENDS Adjudication, FiniteSetTheorems, WellFoundedInduction, TLAPS

\* The type invariant, with the type of a process and of its rows as a set.
Rows == UNION {[S -> SUBSET Review] : S \in SUBSET Samples}
Process == [pc: {"idle", "built", "written", "prepared", "committed"},
            rows: Rows \cup {None}, apply: BOOLEAN, no: 0 .. MaxApprovals]
Typed ==
    /\ status \in [Samples -> {"ABSENT", "OPEN", "IN_REVIEW", "CONFLICT",
                               "READY", "FROZEN"}]
    /\ reviews \in [Samples -> SUBSET Review]
    /\ frozenBy \in [Samples -> files \cup {None}]
    /\ freezes \subseteq [rows: files, no: 1 .. MaxApprovals]
    /\ files \subseteq Rows
    /\ manifest \in [DOMAIN manifest -> {"DRY_RUN", "PREPARED", "COMMITTED"}]
    /\ DOMAIN manifest \subseteq files
    /\ approval \in [rows: files \cup {None}, no: 0 .. MaxApprovals,
                     expired: SUBSET (1 .. MaxApprovals)]
    /\ freezer \in [Freezers -> Process]
    /\ crashes \in 0 .. MaxCrashes

\* What each state of a sample says about its reviews.
DeskInOrder ==
    \A s \in Samples :
        /\ IsFiniteSet(reviews[s])
        /\ \A r, q \in reviews[s] : r.by = q.by => r = q
        /\ status[s] \in {"ABSENT", "OPEN"} =>
              By(s, "REVIEWER") = {} /\ By(s, "ARBITER") = {}
        /\ status[s] = "IN_REVIEW" =>
              Cardinality(By(s, "REVIEWER")) = 1 /\ By(s, "ARBITER") = {}
        /\ status[s] = "CONFLICT" =>
              /\ Cardinality(By(s, "REVIEWER")) = 2 /\ By(s, "ARBITER") = {}
              /\ ~Settled(By(s, "REVIEWER"))
        /\ status[s] \in {"READY", "FROZEN"} =>
              /\ Cardinality(By(s, "REVIEWER")) = 2
              /\ By(s, "ARBITER") = {} <=> Settled(By(s, "REVIEWER"))

\* The rows a process carries are what the samples' reviews say; and what a
\* process has already written, it finds again.
Carried ==
    \A p \in Freezers :
        /\ freezer[p].pc # "idle" =>
              /\ freezer[p].rows \in Rows
              /\ DOMAIN freezer[p].rows \subseteq Annotated
              /\ \A s \in DOMAIN freezer[p].rows : freezer[p].rows[s] = reviews[s]
        /\ freezer[p].pc \in {"written", "prepared", "committed"}
              => freezer[p].rows \in files
        /\ freezer[p].pc # "idle" /\ freezer[p].apply => freezer[p].no # 0
        /\ freezer[p].pc \in {"prepared", "committed"} => freezer[p].apply
        /\ freezer[p].pc = "committed" => Receipt(freezer[p].rows) # {}

Frozen == \A s \in Samples : frozenBy[s] # None => status[s] = "FROZEN"

Script == /\ Typed /\ Carried /\ Frozen /\ FreezeIsSound /\ ManifestNeverAhead
IInv == DeskInOrder /\ Script

\* A candidate consists of labelled samples, each with its reviews.
LEMMA CandidateRows ==
  ASSUME Typed, NEW rows \in Candidates
  PROVE  /\ rows \in Rows
         /\ DOMAIN rows \subseteq Annotated
         /\ \A s \in DOMAIN rows : rows[s] = reviews[s]
  <1>1. Selected \subseteq Annotated
    BY DEF Selected
  <1>2. rows = [s \in Selected |-> reviews[s]]
    BY DEF Candidates
  <1>3. rows \in [Selected -> SUBSET Review] /\ Selected \subseteq Samples
    BY <1>1, <1>2 DEF Typed, Annotated
  <1> QED
    BY <1>1, <1>2, <1>3 DEF Rows

\* The reviews of one role are finitely many.
LEMMA SetOf ==
  ASSUME NEW rs, IsFiniteSet(rs), NEW role
  PROVE  IsFiniteSet({r \in rs : r.role = role})
  BY FS_Subset

\* A sample that counts as labelled takes no further review.
LEMMA LabelledIsClosed ==
  ASSUME DeskInOrder, NEW s \in Samples, NEW p \in Principals, NEW axes \in Axes,
         RecordReview(s, p, axes)
  PROVE  status[s] \in {"OPEN", "IN_REVIEW", "CONFLICT"} \/ s \notin Annotated
  BY DEF DeskInOrder, RecordReview, MayJudge, MayArbitrate, Annotated

LEMMA InitInv == Init => IInv
  <1> SUFFICES ASSUME Init PROVE IInv
    OBVIOUS
  <1>1. \A s \in Samples : reviews[s] = {} /\ By(s, "REVIEWER") = {} /\ By(s, "ARBITER") = {}
    BY DEF Init, By, ByRole
  <1>3. DeskInOrder
    BY <1>1, FS_EmptySet DEF Init, DeskInOrder
  <1>4. Typed
    <2>1. Idle \in Process
      BY AdjudicationConstants DEF Idle, Process
    <2>2. NoApproval \in [rows: files \cup {None}, no: 0 .. MaxApprovals,
                          expired: SUBSET (1 .. MaxApprovals)]
      BY AdjudicationConstants DEF NoApproval
    <2>3. crashes \in 0 .. MaxCrashes
      BY AdjudicationConstants DEF Init
    <2> QED
      BY <2>1, <2>2, <2>3 DEF Init, Typed
  <1>5. Carried /\ Frozen /\ FreezeIsSound /\ ManifestNeverAhead
    BY DEF Init, Carried, Frozen, FreezeIsSound, ManifestNeverAhead, Idle
  <1> QED
    BY <1>3, <1>4, <1>5 DEF IInv, Script

LEMMA CreateSampleKeeps ==
  ASSUME IInv, NEW s \in Samples, CreateSample(s)
  PROVE  IInv'
  <1>1. \A t \in Samples : t # s => status'[t] = status[t]
    BY DEF IInv, Script, Typed, CreateSample
  <1>2. status[s] = "ABSENT" /\ status'[s] = "OPEN" /\ s \notin Annotated
    BY DEF IInv, Script, Typed, CreateSample, Annotated
  <1>3. \A t \in Annotated : t \in Annotated'
    BY <1>1, <1>2 DEF Annotated
  <1>4. Typed'
    BY DEF IInv, Script, Typed, CreateSample, disk
  <1>5. DeskInOrder'
    BY <1>1, <1>2 DEF IInv, DeskInOrder, CreateSample, By, ByRole
  <1>6. Carried' /\ Frozen' /\ FreezeIsSound' /\ ManifestNeverAhead'
    BY <1>1, <1>2, <1>3 DEF IInv, Script, Typed, CreateSample, Carried, Frozen,
       FreezeIsSound, ManifestNeverAhead, Receipt, disk
  <1> QED
    BY <1>4, <1>5, <1>6 DEF IInv, Script

LEMMA RecordReviewKeeps ==
  ASSUME IInv, NEW s \in Samples, NEW p \in Principals, NEW axes \in Axes,
         RecordReview(s, p, axes)
  PROVE  IInv'
  <1> DEFINE review == [by |-> p, role |-> Role[p], axes |-> axes]
             rev == By(s, "REVIEWER")
             arb == By(s, "ARBITER")
  <1>1. /\ review \in Review /\ review.by = p /\ review.role = Role[p]
        /\ Role[p] \in {"REVIEWER", "ARBITER"}
    BY AdjudicationConstants DEF Review
  <1>2. /\ reviews' = [reviews EXCEPT ![s] = @ \cup {review}]
        /\ status' = [status EXCEPT ![s] = After(s, review)]
        /\ reviews'[s] = reviews[s] \cup {review}
        /\ status'[s] = After(s, review)
        /\ \A t \in Samples : t # s => status'[t] = status[t] /\ reviews'[t] = reviews[t]
        /\ UNCHANGED <<frozenBy, freezes, files, manifest, approval, freezer, crashes>>
    BY DEF RecordReview, IInv, Script, Typed, disk
  <1>3. s \notin Annotated
    BY LabelledIsClosed DEF IInv, Annotated, RecordReview
  <1>4. /\ IsFiniteSet(reviews[s]) /\ \A r, q \in reviews[s] : r.by = q.by => r = q
        /\ \A q \in reviews[s] : q.by # review.by
        /\ review \notin reviews[s]
    BY <1>1 DEF IInv, DeskInOrder, RecordReview, MayReview
  <1>5. IsFiniteSet(rev) /\ IsFiniteSet(arb) /\ review \notin rev
    BY <1>4, SetOf DEF By, ByRole
  <1>6. /\ By(s, "REVIEWER")' = IF Role[p] = "REVIEWER" THEN rev \cup {review} ELSE rev
        /\ By(s, "ARBITER")' = IF Role[p] = "ARBITER" THEN arb \cup {review} ELSE arb
    BY <1>1, <1>2 DEF By, ByRole
  <1>7. After(s, review) \in {"IN_REVIEW", "READY", "CONFLICT"}
    BY DEF After
  <1>8. Typed'
    BY <1>1, <1>2, <1>7 DEF IInv, Script, Typed
  <1> DEFINE InOrder(t) ==
        /\ status[t] = "IN_REVIEW" =>
              Cardinality(By(t, "REVIEWER")) = 1 /\ By(t, "ARBITER") = {}
        /\ status[t] = "CONFLICT" =>
              /\ Cardinality(By(t, "REVIEWER")) = 2 /\ By(t, "ARBITER") = {}
              /\ ~Settled(By(t, "REVIEWER"))
        /\ status[t] = "READY" =>
              /\ Cardinality(By(t, "REVIEWER")) = 2
              /\ By(t, "ARBITER") = {} <=> Settled(By(t, "REVIEWER"))
  <1>9. InOrder(s)'
    <2>2. CASE Role[p] = "ARBITER"
      <3>1. Cardinality(rev) = 2 /\ ~Settled(rev) /\ status'[s] = "READY"
        BY <1>1, <1>2, <2>2 DEF RecordReview, MayArbitrate, After
      <3>2. By(s, "ARBITER")' # {} /\ By(s, "REVIEWER")' = rev
        BY <1>6, <2>2
      <3> QED
        BY <3>1, <3>2 DEF Settled, Agree
    <2>3. CASE Role[p] = "REVIEWER"
      <3>1. Cardinality(rev) \in {0, 1} /\ arb = {}
        <4>1. Cardinality(rev) < 2 /\ Cardinality(rev) \in Nat
          BY <1>5, <2>3, FS_CardinalityType DEF RecordReview, MayJudge
        <4>2. arb = {}
          BY <1>3, <4>1 DEF IInv, Script, Typed, DeskInOrder, Annotated
        <4> QED
          BY <4>1, <4>2
      <3>2. Cardinality(rev \cup {review}) = Cardinality(rev) + 1
        BY <1>5, FS_AddElement
      <3>3. /\ By(s, "REVIEWER")' = rev \cup {review}
            /\ By(s, "ARBITER")' = {}
        BY <1>6, <2>3, <3>1
      <3>4. \/ Cardinality(rev \cup {review}) = 1 /\ status'[s] = "IN_REVIEW"
            \/ /\ Cardinality(rev \cup {review}) = 2
               /\ \/ Settled(rev \cup {review}) /\ status'[s] = "READY"
                  \/ ~Settled(rev \cup {review}) /\ status'[s] = "CONFLICT"
        BY <1>1, <1>2, <2>3, <3>1, <3>2 DEF After
      <3> QED
        BY <3>3, <3>4 DEF Settled, Agree
    <2> QED
      BY <1>1, <2>2, <2>3
  <1>13. DeskInOrder'
    <2>1. /\ IsFiniteSet(reviews'[s])
          /\ \A r, q \in reviews'[s] : r.by = q.by => r = q
      BY <1>2, <1>4, FS_AddElement
    <2>2. ASSUME NEW t \in Samples, t # s
          PROVE  By(t, "REVIEWER")' = By(t, "REVIEWER") /\ By(t, "ARBITER")' = By(t, "ARBITER")
      BY <1>2, <2>2 DEF By, ByRole
    <2>3. status'[s] \in {"IN_REVIEW", "READY", "CONFLICT"}
      BY <1>2, <1>7
    <2> DEFINE Good(t) ==
          /\ IsFiniteSet(reviews[t])
          /\ \A r, q \in reviews[t] : r.by = q.by => r = q
          /\ status[t] \in {"ABSENT", "OPEN"} =>
                By(t, "REVIEWER") = {} /\ By(t, "ARBITER") = {}
          /\ status[t] \in {"READY", "FROZEN"} =>
                /\ Cardinality(By(t, "REVIEWER")) = 2
                /\ By(t, "ARBITER") = {} <=> Settled(By(t, "REVIEWER"))
    <2>4. Good(s)'
      BY <1>9, <2>1, <2>3
    <2>5. ASSUME NEW t \in Samples, t # s PROVE Good(t)' /\ InOrder(t)'
      BY <1>2, <2>2, <2>5 DEF IInv, DeskInOrder, Settled, Agree
    <2> QED
      BY <1>9, <2>4, <2>5 DEF DeskInOrder
  <1>10. \A t \in Annotated : t \in Annotated' /\ t # s /\ reviews'[t] = reviews[t]
    BY <1>2, <1>3 DEF Annotated
  <1>11. Frozen' /\ FreezeIsSound' /\ ManifestNeverAhead'
    BY <1>2, <1>3, <1>10 DEF IInv, Script, Typed, Frozen, FreezeIsSound,
       ManifestNeverAhead, Receipt, Annotated
  <1>12. Carried'
    BY <1>2, <1>10 DEF IInv, Script, Carried, Receipt
  <1> QED
    BY <1>8, <1>11, <1>12, <1>13 DEF IInv, Script

\* What a step of the script has to keep, when it leaves the desk alone.
LEMMA DeskUnchanged ==
  ASSUME DeskInOrder, UNCHANGED desk
  PROVE  DeskInOrder'
  BY DEF DeskInOrder, desk, By, ByRole, Settled, Agree

\* A process that moves on keeps what it carries.
LEMMA StepShape ==
  ASSUME Typed, NEW p \in Freezers,
         NEW pc \in {"idle", "built", "written", "prepared", "committed"}, Step(p, pc)
  PROVE  /\ freezer' \in [Freezers -> Process]
         /\ freezer'[p].pc = pc /\ freezer'[p].rows = freezer[p].rows
         /\ freezer'[p].apply = freezer[p].apply /\ freezer'[p].no = freezer[p].no
         /\ \A q \in Freezers : q # p => freezer'[q] = freezer[q]
  BY DEF Typed, Step, Process

\* One that is over carries nothing.
LEMMA IdleShape ==
  ASSUME Typed, NEW p \in Freezers, freezer' = [freezer EXCEPT ![p] = Idle]
  PROVE  /\ freezer' \in [Freezers -> Process]
         /\ freezer'[p].pc = "idle"
         /\ \A q \in Freezers : q # p => freezer'[q] = freezer[q]
  <1>1. Idle \in Process
    BY AdjudicationConstants DEF Process, Idle
  <1> QED
    BY <1>1 DEF Typed, Idle

LEMMA CarriedAfterStop ==
  ASSUME Typed, Carried, NEW p \in Freezers, freezer' = [freezer EXCEPT ![p] = Idle],
         UNCHANGED <<status, reviews, freezes, files>>
  PROVE  Carried'
  <1>1. \A r : Receipt(r)' = Receipt(r)
    BY DEF Receipt
  <1>2. Annotated' = Annotated
    BY DEF Annotated
  <1>3. freezer'[p].pc = "idle" /\ \A q \in Freezers : q # p => freezer'[q] = freezer[q]
    BY IdleShape
  <1> QED
    BY <1>1, <1>2, <1>3 DEF Carried

\* One that moves on, when receipts only come to exist.
LEMMA CarriedAfterStep ==
  ASSUME Carried, NEW p \in Freezers, NEW rows, rows = freezer[p].rows,
         freezer[p].pc # "idle", rows \in files, freezer[p].apply,
         freezer'[p].rows = rows, freezer'[p].apply = freezer[p].apply,
         freezer'[p].no = freezer[p].no,
         freezer'[p].pc = "committed" => Receipt(rows)' # {},
         \A q \in Freezers : q # p => freezer'[q] = freezer[q],
         \A r : Receipt(r) # {} => Receipt(r)' # {},
         Annotated' = Annotated, UNCHANGED <<reviews, files>>
  PROVE  Carried'
  <1> DEFINE CarriedBy(q) ==
        /\ freezer[q].pc # "idle" =>
              /\ freezer[q].rows \in Rows
              /\ DOMAIN freezer[q].rows \subseteq Annotated
              /\ \A s \in DOMAIN freezer[q].rows : freezer[q].rows[s] = reviews[s]
        /\ freezer[q].pc \in {"written", "prepared", "committed"}
              => freezer[q].rows \in files
        /\ freezer[q].pc # "idle" /\ freezer[q].apply => freezer[q].no # 0
        /\ freezer[q].pc \in {"prepared", "committed"} => freezer[q].apply
        /\ freezer[q].pc = "committed" => Receipt(freezer[q].rows) # {}
  <1>1. \A q \in Freezers : CarriedBy(q)
    BY DEF Carried
  <1>2. Rows' = Rows
    BY DEF Rows
  <1>3. CarriedBy(p)'
    BY <1>1, <1>2
  <1>4. ASSUME NEW q \in Freezers, q # p PROVE CarriedBy(q)'
    <2>1. CarriedBy(q) /\ freezer'[q] = freezer[q]
      BY <1>1, <1>4
    <2>2. PICK r : r = freezer[q].rows
      OBVIOUS
    <2>3. Receipt(r) # {} => Receipt(freezer[q].rows)' # {}
      BY <2>1, <2>2 DEF Receipt
    <2>4. freezer[q].pc = "committed" => Receipt(freezer[q].rows)' # {}
      BY <2>1, <2>2, <2>3
    <2> QED
      BY <1>2, <2>1, <2>4
  <1> QED
    BY <1>3, <1>4 DEF Carried

\* Writing a manifest changes the one it writes.
LEMMA ManifestWritten ==
  ASSUME Typed, NEW rows \in files, NEW state \in {"DRY_RUN", "PREPARED", "COMMITTED"},
         WriteManifest(rows, state), files' = files
  PROVE  /\ manifest' \in [DOMAIN manifest' -> {"DRY_RUN", "PREPARED", "COMMITTED"}]
         /\ DOMAIN manifest' = DOMAIN manifest \cup {rows}
         /\ DOMAIN manifest' \subseteq files
         /\ manifest'[rows] = state
         /\ \A r \in DOMAIN manifest : r # rows => manifest'[r] = manifest[r]
  BY DEF Typed, WriteManifest

LEMMA BuildKeeps ==
  ASSUME IInv, NEW p \in Freezers, NEW apply \in BOOLEAN, Build(p, apply)
  PROVE  IInv'
  <1>1. PICK rows \in Candidates :
          /\ apply => Binds(rows)
          /\ freezer' = [freezer EXCEPT ![p] =
                           [pc |-> "built", rows |-> rows, apply |-> apply,
                            no |-> IF apply THEN approval.no ELSE 0]]
    BY DEF Build
  <1> DEFINE no == IF apply THEN approval.no ELSE 0
  <1>2. no \in 0 .. MaxApprovals /\ (apply => no # 0)
    BY AdjudicationConstants DEF Build, Authorized
  <1>3. /\ rows \in Rows /\ DOMAIN rows \subseteq Annotated
        /\ \A s \in DOMAIN rows : rows[s] = reviews[s]
    BY CandidateRows DEF IInv, Script
  <1>4. UNCHANGED <<status, reviews, frozenBy, freezes, files, manifest, approval, crashes>>
    BY DEF Build, desk, disk
  <1>5. /\ freezer'[p].pc = "built" /\ freezer'[p].rows = rows
        /\ freezer'[p].apply = apply /\ freezer'[p].no = no
        /\ \A q \in Freezers : q # p => freezer'[q] = freezer[q]
    BY <1>1 DEF IInv, Script, Typed
  <1>6. Typed'
    <2>1. [pc |-> "built", rows |-> rows, apply |-> apply, no |-> no] \in Process
      BY <1>2, <1>3 DEF Process
    <2>2. freezer' \in [Freezers -> Process]
      BY <1>1, <2>1 DEF IInv, Script, Typed
    <2> QED
      BY <1>4, <2>2 DEF IInv, Script, Typed
  <1>7. Carried'
    BY <1>2, <1>3, <1>4, <1>5 DEF IInv, Script, Carried, Annotated, Receipt
  <1>8. DeskInOrder' /\ Frozen' /\ FreezeIsSound' /\ ManifestNeverAhead'
    BY <1>4, DeskUnchanged DEF IInv, Script, Frozen, FreezeIsSound, ManifestNeverAhead,
       Receipt, desk
  <1> QED
    BY <1>6, <1>7, <1>8 DEF IInv, Script

LEMMA WriteDatasetKeeps ==
  ASSUME IInv, NEW p \in Freezers, WriteDataset(p)
  PROVE  IInv'
  <1>1. /\ UNCHANGED <<status, reviews, frozenBy, freezes, manifest, approval, crashes>>
        /\ files' = files \cup {freezer[p].rows} /\ Step(p, "written")
        /\ freezer[p].pc = "built"
    BY DEF WriteDataset, desk
  <1>2. /\ freezer'[p].pc = "written" /\ freezer'[p].rows = freezer[p].rows
        /\ freezer'[p].apply = freezer[p].apply /\ freezer'[p].no = freezer[p].no
        /\ \A q \in Freezers : q # p => freezer'[q] = freezer[q]
    BY <1>1, StepShape DEF IInv, Script
  <1>3. freezer[p].rows \in Rows
    BY <1>1 DEF IInv, Script, Carried
  <1>4. Typed'
    <2>1. freezer' \in [Freezers -> Process]
      BY <1>1, StepShape DEF IInv, Script
    <2>2. /\ frozenBy' \in [Samples -> files' \cup {None}]
          /\ freezes' \subseteq [rows: files', no: 1 .. MaxApprovals]
          /\ approval' \in [rows: files' \cup {None}, no: 0 .. MaxApprovals,
                            expired: SUBSET (1 .. MaxApprovals)]
      BY <1>1 DEF IInv, Script, Typed
    <2>3. files' \subseteq Rows
      BY <1>1, <1>3 DEF IInv, Script, Typed
    <2> QED
      BY <1>1, <2>1, <2>2, <2>3 DEF IInv, Script, Typed
  <1>5. Carried'
    BY <1>1, <1>2 DEF IInv, Script, Carried, Annotated, Receipt
  <1>6. DeskInOrder' /\ Frozen' /\ FreezeIsSound' /\ ManifestNeverAhead'
    BY <1>1, DeskUnchanged DEF IInv, Script, Frozen, FreezeIsSound, ManifestNeverAhead,
       Receipt, desk
  <1> QED
    BY <1>4, <1>5, <1>6 DEF IInv, Script

LEMMA DryRunKeeps ==
  ASSUME IInv, NEW p \in Freezers, DryRun(p)
  PROVE  IInv'
  <1>1. /\ UNCHANGED <<status, reviews, frozenBy, freezes, files, approval, crashes>>
        /\ WriteManifest(freezer[p].rows, "DRY_RUN")
        /\ freezer' = [freezer EXCEPT ![p] = Idle]
        /\ freezer[p].rows \in files
    BY DEF DryRun, desk, IInv, Script, Carried
  <1>2. Typed'
    BY <1>1, IdleShape, ManifestWritten DEF IInv, Script, Typed
  <1>3. Carried'
    BY <1>1, CarriedAfterStop DEF IInv, Script
  <1>4. ManifestNeverAhead'
    <2>1. /\ DOMAIN manifest' = DOMAIN manifest \cup {freezer[p].rows}
          /\ manifest'[freezer[p].rows] = "DRY_RUN"
          /\ \A r \in DOMAIN manifest : r # freezer[p].rows => manifest'[r] = manifest[r]
      BY <1>1, ManifestWritten DEF IInv, Script
    <2>2. \A r : Receipt(r)' = Receipt(r)
      BY <1>1 DEF Receipt
    <2> QED
      BY <1>1, <2>1, <2>2 DEF IInv, Script, ManifestNeverAhead
  <1>5. DeskInOrder' /\ Frozen' /\ FreezeIsSound'
    BY <1>1, DeskUnchanged DEF IInv, Script, Frozen, FreezeIsSound, desk
  <1> QED
    BY <1>2, <1>3, <1>4, <1>5 DEF IInv, Script

LEMMA PrepareKeeps ==
  ASSUME IInv, NEW p \in Freezers, Prepare(p)
  PROVE  IInv'
  <1>1. /\ UNCHANGED <<status, reviews, frozenBy, freezes, files, approval, crashes>>
        /\ WriteManifest(freezer[p].rows, "PREPARED") /\ Step(p, "prepared")
        /\ freezer[p].pc = "written" /\ freezer[p].apply
        /\ freezer[p].rows \in files
    BY DEF Prepare, desk, IInv, Script, Carried
  <1>2. Typed'
    BY <1>1, StepShape, ManifestWritten DEF IInv, Script, Typed
  <1>3. Carried'
    <2>1. /\ freezer'[p].pc = "prepared" /\ freezer'[p].rows = freezer[p].rows
          /\ freezer'[p].apply = freezer[p].apply /\ freezer'[p].no = freezer[p].no
          /\ \A q \in Freezers : q # p => freezer'[q] = freezer[q]
      BY <1>1, StepShape DEF IInv, Script
    <2>2. \A r : Receipt(r)' = Receipt(r)
      BY <1>1 DEF Receipt
    <2>3. Annotated' = Annotated
      BY <1>1 DEF Annotated
    <2> QED
      BY <1>1, <2>1, <2>2, <2>3, CarriedAfterStep DEF IInv, Script
  <1>4. ManifestNeverAhead'
    <2>1. /\ DOMAIN manifest' = DOMAIN manifest \cup {freezer[p].rows}
          /\ manifest'[freezer[p].rows] = "PREPARED"
          /\ \A r \in DOMAIN manifest : r # freezer[p].rows => manifest'[r] = manifest[r]
      BY <1>1, ManifestWritten DEF IInv, Script
    <2>2. \A r : Receipt(r)' = Receipt(r)
      BY <1>1 DEF Receipt
    <2> QED
      BY <1>1, <2>1, <2>2 DEF IInv, Script, ManifestNeverAhead
  <1>5. DeskInOrder' /\ Frozen' /\ FreezeIsSound'
    BY <1>1, DeskUnchanged DEF IInv, Script, Frozen, FreezeIsSound, desk
  <1> QED
    BY <1>2, <1>3, <1>4, <1>5 DEF IInv, Script

LEMMA CompleteKeeps ==
  ASSUME IInv, NEW p \in Freezers, Complete(p)
  PROVE  IInv'
  <1>1. /\ UNCHANGED <<status, reviews, frozenBy, freezes, files, approval, crashes>>
        /\ WriteManifest(freezer[p].rows, "COMMITTED")
        /\ freezer' = [freezer EXCEPT ![p] = Idle]
        /\ freezer[p].rows \in files /\ Receipt(freezer[p].rows) # {}
    BY DEF Complete, desk, IInv, Script, Carried
  <1>2. Typed'
    BY <1>1, IdleShape, ManifestWritten DEF IInv, Script, Typed
  <1>3. Carried'
    BY <1>1, CarriedAfterStop DEF IInv, Script
  <1>4. ManifestNeverAhead'
    <2>1. /\ DOMAIN manifest' = DOMAIN manifest \cup {freezer[p].rows}
          /\ manifest'[freezer[p].rows] = "COMMITTED"
          /\ \A r \in DOMAIN manifest : r # freezer[p].rows => manifest'[r] = manifest[r]
      BY <1>1, ManifestWritten DEF IInv, Script
    <2>2. \A r : Receipt(r)' = Receipt(r)
      BY <1>1 DEF Receipt
    <2> QED
      BY <1>1, <2>1, <2>2 DEF IInv, Script, ManifestNeverAhead
  <1>5. DeskInOrder' /\ Frozen' /\ FreezeIsSound'
    BY <1>1, DeskUnchanged DEF IInv, Script, Frozen, FreezeIsSound, desk
  <1> QED
    BY <1>2, <1>3, <1>4, <1>5 DEF IInv, Script

\* A process that stops leaves the stores as they are.
LEMMA StopKeeps ==
  ASSUME IInv, NEW p \in Freezers, Refused(p) \/ Crash(p)
  PROVE  IInv'
  <1>1. /\ UNCHANGED <<status, reviews, frozenBy, freezes, files, manifest, approval>>
        /\ freezer' = [freezer EXCEPT ![p] = Idle]
        /\ crashes' \in 0 .. MaxCrashes
    BY AdjudicationConstants DEF Refused, Crash, desk, disk, IInv, Script, Typed
  <1>2. Typed'
    BY <1>1, IdleShape DEF IInv, Script, Typed
  <1>3. Carried'
    BY <1>1, CarriedAfterStop DEF IInv, Script
  <1>4. DeskInOrder' /\ Frozen' /\ FreezeIsSound' /\ ManifestNeverAhead'
    BY <1>1, DeskUnchanged DEF IInv, Script, Frozen, FreezeIsSound, ManifestNeverAhead,
       Receipt, desk
  <1> QED
    BY <1>2, <1>3, <1>4 DEF IInv, Script

LEMMA CommitKeeps ==
  ASSUME IInv, NEW p \in Freezers, Commit(p)
  PROVE  IInv'
  <1> PICK rows, fresh : rows = freezer[p].rows /\ fresh = [rows |-> rows, no |-> freezer[p].no]
    OBVIOUS
  <1>1. /\ UNCHANGED <<reviews, files, manifest, approval, crashes>>
        /\ Step(p, "committed") /\ freezer[p].pc = "prepared"
    BY DEF Commit, disk
  <1>2. /\ freezer'[p].pc = "committed" /\ freezer'[p].rows = rows
        /\ freezer'[p].apply = freezer[p].apply /\ freezer'[p].no = freezer[p].no
        /\ \A q \in Freezers : q # p => freezer'[q] = freezer[q]
    BY <1>1, StepShape DEF IInv, Script
  <1>3. /\ rows \in files /\ freezer[p].apply /\ freezer[p].no \in 1 .. MaxApprovals
        /\ DOMAIN rows \subseteq Annotated /\ DOMAIN rows \subseteq Samples
        /\ \A s \in DOMAIN rows : rows[s] = reviews[s]
    BY <1>1 DEF IInv, Script, Typed, Process, Carried, Annotated
  <1>4. freezer' \in [Freezers -> Process]
    BY <1>1, StepShape DEF IInv, Script
  <1>5. CASE ExactRetry(p) /\ UNCHANGED <<status, frozenBy, freezes>>
    <2>1. Typed'
      BY <1>1, <1>4, <1>5 DEF IInv, Script, Typed
    <2>2. Carried'
      <3>1. \A r : Receipt(r)' = Receipt(r)
        BY <1>5 DEF Receipt
      <3>2. Annotated' = Annotated
        BY <1>5 DEF Annotated
      <3>3. Receipt(rows) # {}
        BY <1>5 DEF ExactRetry
      <3> QED
        BY <1>1, <1>2, <1>3, <3>1, <3>2, <3>3, CarriedAfterStep DEF IInv, Script
    <2>3. DeskInOrder' /\ Frozen' /\ FreezeIsSound' /\ ManifestNeverAhead'
      BY <1>1, <1>5, DeskUnchanged DEF IInv, Script, Frozen, FreezeIsSound,
         ManifestNeverAhead, Receipt, desk
    <2> QED
      BY <2>1, <2>2, <2>3 DEF IInv, Script
  <1>6. CASE /\ Receipt(rows) = {} /\ Unfrozen(rows)
             /\ freezes' = freezes \cup {fresh}
             /\ status' = [s \in Samples |-> IF s \in DOMAIN rows THEN "FROZEN" ELSE status[s]]
             /\ frozenBy' = [s \in Samples |-> IF s \in DOMAIN rows THEN rows ELSE frozenBy[s]]
    <2>1. \A s \in Samples :
             IF s \in DOMAIN rows
               THEN /\ status[s] = "READY" /\ frozenBy[s] = None
                    /\ status'[s] = "FROZEN" /\ frozenBy'[s] = rows
               ELSE status'[s] = status[s] /\ frozenBy'[s] = frozenBy[s]
      BY <1>6 DEF Unfrozen
    <2>2. Annotated' = Annotated
      BY <2>1 DEF Annotated
    <2>3. fresh \in freezes' /\ fresh.rows = rows /\ freezes \subseteq freezes'
      BY <1>6
    <2>4. Typed'
      <3>1. /\ status' \in [Samples -> {"ABSENT", "OPEN", "IN_REVIEW", "CONFLICT",
                                        "READY", "FROZEN"}]
            /\ frozenBy' \in [Samples -> files \cup {None}]
            /\ freezes' \subseteq [rows: files, no: 1 .. MaxApprovals]
        BY <1>3, <1>6 DEF IInv, Script, Typed
      <3> QED
        BY <1>1, <1>4, <3>1 DEF IInv, Script, Typed
    <2>5. Carried'
      <3>1. \A r : Receipt(r) # {} => Receipt(r)' # {}
        BY <2>3 DEF Receipt
      <3>2. Receipt(rows)' # {}
        BY <2>3 DEF Receipt
      <3> QED
        BY <1>1, <1>2, <1>3, <2>2, <3>1, <3>2, CarriedAfterStep DEF IInv, Script
    <2>6. DeskInOrder'
      <3>1. \A s \in Samples : By(s, "REVIEWER")' = By(s, "REVIEWER")
                               /\ By(s, "ARBITER")' = By(s, "ARBITER")
        BY <1>1 DEF By, ByRole
      <3> QED
        BY <1>1, <2>1, <3>1 DEF IInv, DeskInOrder, Settled, Agree
    <2>7. Frozen'
      BY <2>1 DEF IInv, Script, Frozen
    <2>8. FreezeIsSound'
      <3>1. ASSUME NEW f \in freezes'
            PROVE  /\ f.rows \in files'
                   /\ \A s \in DOMAIN f.rows :
                        /\ status'[s] = "FROZEN" /\ frozenBy'[s] = f.rows
                        /\ f.rows[s] = reviews'[s]
        <4>1. CASE f = fresh
          BY <1>1, <1>3, <2>1, <2>3, <4>1
        <4>2. CASE f \in freezes
          <5>1. f.rows \in files /\ DOMAIN f.rows \subseteq Samples
            BY <4>2 DEF IInv, Script, Typed, Rows
          <5>2. \A s \in DOMAIN f.rows : status[s] = "FROZEN" /\ frozenBy[s] = f.rows
                                         /\ f.rows[s] = reviews[s]
            BY <4>2 DEF IInv, Script, FreezeIsSound
          <5>3. \A s \in DOMAIN f.rows : s \in Samples /\ s \notin DOMAIN rows
            BY <2>1, <5>1, <5>2
          <5> QED
            BY <1>1, <2>1, <5>1, <5>2, <5>3
        <4> QED
          BY <1>6, <4>1, <4>2
      <3> QED
        BY <3>1 DEF FreezeIsSound
    <2>9. ManifestNeverAhead'
      BY <1>1, <2>3 DEF IInv, Script, ManifestNeverAhead, Receipt
    <2> QED
      BY <2>4, <2>5, <2>6, <2>7, <2>8, <2>9 DEF IInv, Script
  <1> QED
    BY <1>5, <1>6 DEF Commit

LEMMA ApproveKeeps ==
  ASSUME IInv, NEW rows \in DOMAIN manifest, Approve(rows)
  PROVE  IInv'
  <1>1. UNCHANGED <<status, reviews, frozenBy, freezes, files, manifest, freezer, crashes>>
    BY DEF Approve, desk, disk
  <1>2. approval' \in [rows: files \cup {None}, no: 0 .. MaxApprovals,
                       expired: SUBSET (1 .. MaxApprovals)]
    <2>1. approval.no + 1 \in 0 .. MaxApprovals /\ rows \in files
      BY AdjudicationConstants DEF Approve, IInv, Script, Typed
    <2>2. approval' = [approval EXCEPT !.rows = rows, !.no = approval.no + 1]
      BY DEF Approve
    <2> QED
      BY <2>1, <2>2 DEF IInv, Script, Typed
  <1>3. Typed'
    BY <1>1, <1>2 DEF IInv, Script, Typed
  <1>4. DeskInOrder' /\ Carried' /\ Frozen' /\ FreezeIsSound' /\ ManifestNeverAhead'
    BY <1>1, DeskUnchanged DEF IInv, Script, Carried, Annotated, Frozen, FreezeIsSound,
       ManifestNeverAhead, Receipt, desk
  <1> QED
    BY <1>3, <1>4 DEF IInv, Script

LEMMA ExpireKeeps ==
  ASSUME IInv, NEW no \in 1 .. approval.no, Expire(no)
  PROVE  IInv'
  <1>1. UNCHANGED <<status, reviews, frozenBy, freezes, files, manifest, freezer, crashes>>
    BY DEF Expire, desk, disk
  <1>2. approval' \in [rows: files \cup {None}, no: 0 .. MaxApprovals,
                       expired: SUBSET (1 .. MaxApprovals)]
    BY AdjudicationConstants DEF Expire, IInv, Script, Typed
  <1>3. Typed'
    BY <1>1, <1>2 DEF IInv, Script, Typed
  <1>4. DeskInOrder' /\ Carried' /\ Frozen' /\ FreezeIsSound' /\ ManifestNeverAhead'
    BY <1>1, DeskUnchanged DEF IInv, Script, Carried, Annotated, Frozen, FreezeIsSound,
       ManifestNeverAhead, Receipt, desk
  <1> QED
    BY <1>3, <1>4 DEF IInv, Script

LEMMA NextInv == IInv /\ [Next]_vars => IInv'
  <1> SUFFICES ASSUME IInv, [Next]_vars PROVE IInv'
    OBVIOUS
  <1>1. CASE UNCHANGED vars
    <2>1. UNCHANGED <<status, reviews, frozenBy, freezes, files, manifest, approval,
                      freezer, crashes>>
      BY <1>1 DEF vars
    <2>2. Typed'
      BY <2>1 DEF IInv, Script, Typed
    <2>3. DeskInOrder' /\ Carried' /\ Frozen' /\ FreezeIsSound' /\ ManifestNeverAhead'
      BY <2>1, DeskUnchanged DEF IInv, Script, Carried, Annotated, Frozen, FreezeIsSound,
         ManifestNeverAhead, Receipt, desk
    <2> QED
      BY <2>2, <2>3 DEF IInv, Script
  <1>2. CASE \E s \in Samples : CreateSample(s)
    BY <1>2, CreateSampleKeeps
  <1>3. CASE \E s \in Samples, p \in Principals, axes \in Axes : RecordReview(s, p, axes)
    BY <1>3, RecordReviewKeeps
  <1>4. CASE \E p \in Freezers, apply \in BOOLEAN : Build(p, apply)
    BY <1>4, BuildKeeps
  <1>5. CASE \E p \in Freezers : ScriptStep(p) \/ Crash(p)
    BY <1>5, WriteDatasetKeeps, DryRunKeeps, PrepareKeeps, CommitKeeps, StopKeeps,
       CompleteKeeps DEF ScriptStep
  <1>6. CASE \E rows \in DOMAIN manifest : Approve(rows)
    BY <1>6, ApproveKeeps
  <1>7. CASE \E no \in 1 .. approval.no : Expire(no)
    BY <1>7, ExpireKeeps
  <1> QED
    BY <1>1, <1>2, <1>3, <1>4, <1>5, <1>6, <1>7 DEF Next

-----------------------------------------------------------------------------
(* The greedy selection.                                                   *)

\* No two of some samples overlap.
Apart(chosen) == \A s, t \in chosen : s # t => <<s, t>> \notin Overlap

\* Induction over the natural numbers, with the induction hypothesis as a set.
LEMMA SetInduction ==
  ASSUME NEW S, 0 \in S, \A n \in Nat : n \in S => n + 1 \in S
  PROVE  Nat \subseteq S
  <1> SUFFICES ASSUME Nat \ S # {} PROVE FALSE
    OBVIOUS
  <1> DEFINE Before == OpToRel(<, Nat)
  <1>1. IsWellFoundedOn(Before, Nat)
    BY NatLessThanWellFounded
  <1>2. \A m, n \in Nat : m < n => <<m, n>> \in Before
    BY DEF OpToRel
  <1> HIDE DEF Before
  <1>3. PICK n \in Nat \ S : \A m \in Nat \ S : <<m, n>> \notin Before
    BY <1>1, WFMin
  <1>4. n - 1 \in Nat /\ n - 1 < n /\ (n - 1) + 1 = n
    BY <1>3
  <1>5. n - 1 \in S
    BY <1>2, <1>3, <1>4
  <1> QED
    BY <1>3, <1>4, <1>5

LEMMA Least ==
  ASSUME NEW P \in SUBSET Nat, P # {}
  PROVE  (CHOOSE k \in P : \A l \in P : k <= l) \in P
  <1> DEFINE Before == OpToRel(<, Nat)
  <1>1. IsWellFoundedOn(Before, Nat)
    BY NatLessThanWellFounded
  <1>2. \A m, n \in Nat : m < n => <<m, n>> \in Before
    BY DEF OpToRel
  <1> HIDE DEF Before
  <1>3. PICK n \in P : \A m \in P : <<m, n>> \notin Before
    BY <1>1, WFMin
  <1>4. \A l \in P : ~(l < n)
    BY <1>2, <1>3
  <1>5. \A l \in P : n <= l
    BY <1>4
  <1> QED
    BY <1>5

\* A function that is defined by recursion on the natural numbers exists.
Iterates(f, start, next, N) ==
    f = [i \in 0 .. N |-> IF i = 0 THEN start ELSE next[i][f[i - 1]]]

LEMMA IteratesExist ==
  ASSUME NEW start, NEW next, NEW M \in Nat
  PROVE  \E f : Iterates(f, start, next, M)
  <1> DEFINE S == {N \in Nat : \E f : Iterates(f, start, next, N)}
  <1>1. 0 \in S
    <2>1. Iterates([i \in 0 .. 0 |-> start], start, next, 0)
      BY DEF Iterates
    <2> QED
      BY <2>1
  <1>2. ASSUME NEW N \in Nat, N \in S PROVE N + 1 \in S
    <2>1. PICK f : Iterates(f, start, next, N)
      BY <1>2
    <2> DEFINE g == [i \in 0 .. N + 1 |-> IF i \in 0 .. N THEN f[i] ELSE next[N + 1][f[N]]]
    <2>2. f = [i \in 0 .. N |-> IF i = 0 THEN start ELSE next[i][f[i - 1]]]
      BY <2>1 DEF Iterates
    <2>3. g = [i \in 0 .. N + 1 |-> IF i = 0 THEN start ELSE next[i][g[i - 1]]]
      BY <2>2
    <2>4. Iterates(g, start, next, N + 1)
      BY <2>3 DEF Iterates
    <2> HIDE DEF g
    <2> QED
      BY <2>4
  <1>3. Nat \subseteq S
    BY <1>1, <1>2, SetInduction
  <1> QED
    BY <1>3

LEMMA IteratesKeep ==
  ASSUME NEW start, NEW next, NEW N \in Nat, NEW f, Iterates(f, start, next, N),
         NEW Good, start \in Good, \A i \in 1 .. N : \A c \in Good : next[i][c] \in Good
  PROVE  f[N] \in Good
  <1>1. f[0] = start /\ \A i \in 1 .. N : f[i] = next[i][f[i - 1]]
    BY Zenon, SimpleArithmetic DEF Iterates
  <1> DEFINE S == {i \in Nat : i <= N => f[i] \in Good}
  <1>2. 0 \in S
    BY <1>1
  <1>3. ASSUME NEW i \in Nat, i \in S PROVE i + 1 \in S
    <2> SUFFICES ASSUME i + 1 <= N PROVE f[i + 1] \in Good
      OBVIOUS
    <2>1. i + 1 \in 1 .. N /\ (i + 1) - 1 = i /\ f[i] \in Good
      BY <1>3
    <2> QED
      BY <1>1, <2>1
  <1>4. Nat \subseteq S
    BY <1>2, <1>3, SetInduction
  <1> QED
    BY <1>4

LEMMA TurnsAreFinite == Len(Turns) \in Nat /\ DOMAIN Turns = 1 .. Len(Turns)
  <1>1. IsFiniteSet(SourcesOf(Samples))
    <2> DEFINE of == [s \in Samples |-> Source[s]]
    <2>1. of \in Surjection(Samples, SourcesOf(Samples))
      BY DEF Surjection, SourcesOf
    <2> QED
      BY <2>1, FS_Surjection, SamplesAssumption
  <1>2. Cardinality(SourcesOf(Samples)) \in Nat
    BY <1>1, FS_CardinalityType
  <1>3. Len(SourceOrder) \in Nat
    BY <1>2 DEF SourceOrder
  <1>4. PICK n \in Nat, m \in Nat : n = Len(SourceOrder) /\ m = Len(Order)
    BY <1>3, SamplesAssumption
  <1>5. 3 * (n * m) \in Nat
    OBVIOUS
  <1> QED
    BY <1>4, <1>5 DEF Turns

Unexposed(set) == set \cap Exposed = {}

\* A turn selects a row that was not exposed and overlaps nothing selected
\* before.
LEMMA TurnKeepsApart ==
  ASSUME NEW i \in DOMAIN Turns, NEW chosen \in SUBSET Samples,
         Apart(chosen), Unexposed(chosen)
  PROVE  /\ Turn[i][chosen] \in SUBSET Samples
         /\ Apart(Turn[i][chosen]) /\ Unexposed(Turn[i][chosen])
  <1> DEFINE rows == {k \in DOMAIN Order :
                       /\ Order[k] \in Annotated \ Exposed
                       /\ Label(Order[k]) = Turns[i].label /\ Source[Order[k]] = Turns[i].source
                       /\ Fits(Order[k], chosen)}
             first == CHOOSE k \in rows : \A l \in rows : k <= l
  <1>1. \/ Turn[i][chosen] = chosen
        \/ rows # {} /\ Turn[i][chosen] = chosen \cup {Order[first]}
    BY DEF Turn
  <1>2. ASSUME rows # {} PROVE first \in rows
    <2>1. PICK P : P = rows
      OBVIOUS
    <2>2. P \in SUBSET Nat
      BY <2>1, SamplesAssumption
    <2>3. (CHOOSE k \in P : \A l \in P : k <= l) \in P
      BY <1>2, <2>1, <2>2, Least
    <2> QED
      BY <2>1, <2>3
  <1>3. ASSUME first \in rows
        PROVE  Order[first] \in Samples \ Exposed /\ Fits(Order[first], chosen)
    BY <1>3 DEF Annotated
  <1> HIDE DEF rows, first
  <1>4. ASSUME Fits(Order[first], chosen), Order[first] \in Samples \ Exposed
        PROVE  Apart(chosen \cup {Order[first]}) /\ Unexposed(chosen \cup {Order[first]})
    <2>1. Apart(chosen \cup {Order[first]})
      BY <1>4, AdjudicationConstants DEF Apart, Fits
    <2>2. Unexposed(chosen \cup {Order[first]})
      BY <1>4 DEF Unexposed
    <2> QED
      BY <2>1, <2>2
  <1> QED
    BY <1>1, <1>2, <1>3, <1>4

LEMMA ChosenApart == Apart(Chosen) /\ Unexposed(Chosen)
  <1>1. PICK N \in Nat : N = Len(Turns) /\ DOMAIN Turns = 1 .. N
    BY TurnsAreFinite
  <1>2. PICK next : next = Turn
    OBVIOUS
  <1>3. \E f : Iterates(f, {}, next, N)
    BY IteratesExist
  <1>4. ChosenAfter = CHOOSE f : Iterates(f, {}, next, N)
    BY <1>1, <1>2 DEF ChosenAfter, Iterates
  <1>5. PICK f : f = ChosenAfter /\ Iterates(f, {}, next, N)
    BY <1>3, <1>4
  <1>6. PICK Good : Good = {c \in SUBSET Samples : Apart(c) /\ Unexposed(c)}
    OBVIOUS
  <1>7. \A i \in 1 .. N : \A c \in Good : next[i][c] \in Good
    BY <1>1, <1>2, <1>6, TurnKeepsApart
  <1>8. {} \in Good
    BY <1>6 DEF Apart, Unexposed
  <1>9. f[N] \in Good
    BY <1>5, <1>7, <1>8, IteratesKeep
  <1> QED
    BY <1>1, <1>5, <1>6, <1>9 DEF Chosen

-----------------------------------------------------------------------------
\* The inductive invariant: the state of a sample tells how many reviews it
\* has and whether they agree; a process carries what the desk says; what is
\* on record is on disk.
THEOREM Inductive == Spec => []IInv
  <1>1. Init => IInv
    BY InitInv
  <1>2. IInv /\ [Next]_vars => IInv'
    BY NextInv
  <1> QED
    BY <1>1, <1>2, PTL DEF Spec

\* The variables have their types: no sample is in a state the code does not
\* know, and no manifest, receipt or authorization names a set without file.
THEOREM TypeCorrect == Spec => []TypeOK
  <1>1. IInv => TypeOK
    <2>1. \A r \in Rows : IsRows(r)
      BY DEF Rows, IsRows
    <2>2. ASSUME IInv, NEW p \in Freezers, freezer[p].pc # "idle"
          PROVE  freezer[p].rows \in Rows
      BY <2>2 DEF IInv, Script, Carried
    <2> QED
      BY <2>1, <2>2 DEF IInv, Script, Typed, Process, TypeOK
  <1> QED
    BY <1>1, Inductive, PTL

\* commit_adjudication_freeze records only sets whose samples it froze and
\* whose dataset file says what was judged.
THEOREM FreezeSound == Spec => []FreezeIsSound
  <1>1. IInv => FreezeIsSound
    BY DEF IInv, Script
  <1> QED
    BY <1>1, Inductive, PTL

\* The script marks a manifest committed only after the database has the
\* freeze, however many processes run and die.
THEOREM ManifestBehind == Spec => []ManifestNeverAhead
  <1>1. IInv => ManifestNeverAhead
    BY DEF IInv, Script
  <1> QED
    BY <1>1, Inductive, PTL

\* record_adjudication_review: a labelled sample was judged by two people,
\* and by a third one exactly when they differ.
THEOREM IndependentLabels == Spec => []Independent
  <1>1. IInv => Independent
    BY DEF IInv, DeskInOrder, Independent, Annotated
  <1> QED
    BY <1>1, Inductive, PTL

\* A label that can be used is final, and so is the freeze of a sample.
THEOREM LabelsStay == Spec => LabelsFixed
  <1> DEFINE Fixed ==
        \A s \in Annotated :
          /\ s \in Annotated' /\ reviews'[s] = reviews[s]
          /\ frozenBy[s] # None => frozenBy'[s] = frozenBy[s]
  <1>1. IInv /\ [Next]_vars => [Fixed]_vars
    <2> SUFFICES ASSUME IInv, Next PROVE Fixed
      OBVIOUS
    <2>1. CASE \E s \in Samples : CreateSample(s)
      BY <2>1 DEF CreateSample, Annotated, IInv, Script, Typed
    <2>2. CASE \E s \in Samples, p \in Principals, axes \in Axes : RecordReview(s, p, axes)
      <3>1. PICK s \in Samples, p \in Principals, axes \in Axes : RecordReview(s, p, axes)
        BY <2>2
      <3>2. s \notin Annotated
        BY <3>1, LabelledIsClosed DEF IInv, Annotated
      <3>3. /\ \A t \in Samples : t # s => status'[t] = status[t] /\ reviews'[t] = reviews[t]
            /\ frozenBy' = frozenBy
        BY <3>1 DEF RecordReview, IInv, Script, Typed
      <3> QED
        BY <3>2, <3>3 DEF Annotated
    <2>3. CASE \E p \in Freezers : Commit(p)
      <3>1. PICK p \in Freezers : Commit(p)
        BY <2>3
      <3>2. \A s \in Samples :
               \/ status'[s] = status[s] /\ frozenBy'[s] = frozenBy[s]
               \/ frozenBy[s] = None /\ status'[s] = "FROZEN"
        BY <3>1 DEF Commit, Unfrozen
      <3> QED
        BY <3>1, <3>2 DEF Commit, Annotated
    <2>4. CASE UNCHANGED <<status, reviews, frozenBy>>
      BY <2>4 DEF Annotated
    <2> QED
      <3>1. CASE \E p \in Freezers :
                   \/ \E apply \in BOOLEAN : Build(p, apply)
                   \/ WriteDataset(p) \/ DryRun(p) \/ Prepare(p) \/ Refused(p)
                   \/ Complete(p) \/ Crash(p)
        BY <2>4, <3>1 DEF Build, WriteDataset, DryRun, Prepare, Refused, Complete, Crash, desk
      <3>2. CASE \/ \E rows \in DOMAIN manifest : Approve(rows)
                 \/ \E no \in 1 .. approval.no : Expire(no)
        BY <2>4, <3>2 DEF Approve, Expire, desk
      <3> QED
        BY <2>1, <2>2, <2>3, <3>1, <3>2 DEF Next, ScriptStep
  <1> QED
    BY <1>1, Inductive, PTL DEF Spec, LabelsFixed

-----------------------------------------------------------------------------
(* What is frozen was selected.                                            *)

\* What an apply carries, and what is on record, is a blind set.
RowsBlind ==
    /\ \A p \in Freezers :
          freezer[p].pc # "idle" /\ freezer[p].apply => IsBlindSet(freezer[p].rows)
    /\ \A f \in freezes : IsBlindSet(f.rows)

\* A candidate that an authorization binds is a blind set.
LEMMA CandidatesBlind ==
    ASSUME NEW rows \in Candidates, Binds(rows)
    PROVE  IsBlindSet(rows)
  <1>1. /\ rows = [s \in Selected |-> reviews[s]] /\ DOMAIN rows = Selected
        /\ ReportReady /\ Enough(Selected)
    BY DEF Candidates
  <1>2. Selected \subseteq Chosen /\ Selected \subseteq Annotated
    BY DEF Selected
  <1>3. Apart(Selected) /\ Unexposed(Selected)
    BY <1>2, ChosenApart DEF Apart, Unexposed
  <1>4. ASSUME NEW label \in Labels
        PROVE  Cardinality({s \in DOMAIN rows : LabelOf(rows[s]) = label}) >= Quota[label]
    <2>1. {s \in DOMAIN rows : LabelOf(rows[s]) = label} = {s \in Selected : Label(s) = label}
      BY <1>1 DEF Label
    <2> QED
      BY <1>1, <2>1 DEF Enough, Count
  <1>5. Cardinality(SourcesOf(DOMAIN rows)) >= MinSources
    BY <1>1 DEF Enough
  <1>6. SourcesOf(DOMAIN rows) \ KnownSources # {}
    BY DEF Binds, SourcesOf
  <1>7. DOMAIN rows \cap (Exposed \cup Provisional) = {}
    BY <1>1, <1>2, <1>3 DEF ReportReady, Unexposed
  <1>8. \A s, t \in DOMAIN rows : s # t => <<s, t>> \notin Overlap
    BY <1>1, <1>3 DEF Apart
  <1> QED
    BY <1>4, <1>5, <1>6, <1>7, <1>8 DEF IsBlindSet

\* The steps that build no candidate and record no freeze.
LEMMA RowsStayBlind ==
  ASSUME RowsBlind, UNCHANGED freezes,
         \A p \in Freezers : freezer'[p].pc # "idle" =>
             /\ freezer[p].pc # "idle"
             /\ freezer'[p].rows = freezer[p].rows /\ freezer'[p].apply = freezer[p].apply
  PROVE  RowsBlind'
  BY DEF RowsBlind, IsBlindSet

LEMMA RowsBlindStep == IInv /\ RowsBlind /\ [Next]_vars => RowsBlind'
  <1> SUFFICES ASSUME IInv, RowsBlind, [Next]_vars PROVE RowsBlind'
    OBVIOUS
  <1> DEFINE Same(q) == /\ freezer[q].pc # "idle"
                        /\ freezer'[q].rows = freezer[q].rows
                        /\ freezer'[q].apply = freezer[q].apply
  <1>0. freezer \in [Freezers -> Process]
    BY DEF IInv, Script, Typed
  <1>1. CASE UNCHANGED <<freezes, freezer>>
    BY <1>1, RowsStayBlind
  <1>2. ASSUME NEW p \in Freezers, NEW apply \in BOOLEAN, Build(p, apply) PROVE RowsBlind'
    <2>1. PICK rows \in Candidates :
              /\ apply => Binds(rows)
              /\ freezer' = [freezer EXCEPT ![p] = [pc |-> "built", rows |-> rows, apply |-> apply,
                                                    no |-> IF apply THEN approval.no ELSE 0]]
      BY <1>2 DEF Build
    <2>2. /\ freezer'[p].rows = rows /\ freezer'[p].apply = apply
          /\ \A q \in Freezers : q # p => freezer'[q] = freezer[q]
      BY <1>0, <2>1
    <2>3. apply => IsBlindSet(rows)
      BY <2>1, CandidatesBlind
    <2>4. \A q \in Freezers : freezer'[q].pc # "idle" /\ freezer'[q].apply
                                  => IsBlindSet(freezer'[q].rows)
      BY <2>2, <2>3 DEF RowsBlind
    <2>5. freezes' = freezes
      BY <1>2 DEF Build
    <2> QED
      BY <2>4, <2>5 DEF RowsBlind, IsBlindSet
  <1>3. ASSUME NEW p \in Freezers, \E pc : Step(p, pc), freezer[p].pc # "idle"
        PROVE  \A q \in Freezers : freezer'[q].pc # "idle" => Same(q)
    BY <1>0, <1>3 DEF Step, Process
  <1>4. ASSUME NEW p \in Freezers, freezer' = [freezer EXCEPT ![p] = Idle]
        PROVE  \A q \in Freezers : freezer'[q].pc # "idle" => Same(q)
    BY <1>0, <1>4 DEF Idle
  <1>5. ASSUME NEW p \in Freezers, WriteDataset(p) \/ Prepare(p) PROVE RowsBlind'
    <2>1. (\E pc : Step(p, pc)) /\ freezer[p].pc # "idle" /\ UNCHANGED freezes
      BY <1>5 DEF WriteDataset, Prepare
    <2> QED
      BY <1>3, <2>1, RowsStayBlind
  <1>6. ASSUME NEW p \in Freezers, DryRun(p) \/ Refused(p) \/ Complete(p) \/ Crash(p) PROVE RowsBlind'
    <2>1. freezer' = [freezer EXCEPT ![p] = Idle] /\ UNCHANGED freezes
      BY <1>6 DEF DryRun, Refused, Complete, Crash
    <2> QED
      BY <1>4, <2>1, RowsStayBlind
  <1>7. ASSUME NEW p \in Freezers, Commit(p) PROVE RowsBlind'
    <2>1. (\E pc : Step(p, pc)) /\ freezer[p].pc = "prepared" /\ freezer[p].apply
      BY <1>7 DEF Commit, IInv, Script, Carried
    <2>2. \A q \in Freezers : freezer'[q].pc # "idle" => Same(q)
      BY <1>3, <2>1
    <2>3. \A f \in freezes' : f \in freezes \/ f.rows = freezer[p].rows
      BY <1>7 DEF Commit
    <2>4. /\ \A q \in Freezers : freezer'[q].pc # "idle" /\ freezer'[q].apply
                                     => IsBlindSet(freezer'[q].rows)
          /\ \A f \in freezes' : IsBlindSet(f.rows)
      BY <2>1, <2>2, <2>3 DEF RowsBlind
    <2> QED
      BY <2>4 DEF RowsBlind, IsBlindSet
  <1>8. CASE \E s \in Samples :
               \/ CreateSample(s)
               \/ \E p \in Principals, axes \in Axes : RecordReview(s, p, axes)
    BY <1>1, <1>8 DEF CreateSample, RecordReview
  <1>9. CASE \/ \E rows \in DOMAIN manifest : Approve(rows)
             \/ \E no \in 1 .. approval.no : Expire(no)
    BY <1>1, <1>9 DEF Approve, Expire
  <1>10. CASE UNCHANGED vars
    BY <1>1, <1>10 DEF vars
  <1> QED
    BY <1>2, <1>5, <1>6, <1>7, <1>8, <1>9, <1>10 DEF Next, ScriptStep

LEMMA AllBlind == Spec => []RowsBlind
  <1>1. Init => RowsBlind
    BY DEF Init, RowsBlind, Idle
  <1> QED
    BY <1>1, RowsBlindStep, Inductive, PTL DEF Spec

\* build_freeze_candidate selects label after label and source after source,
\* and whatever is frozen, by any process and at any time, is such a selection:
\* no two rows of it overlap.
THEOREM NoOverlap == Spec => []NoOverlapFrozen
  <1>1. RowsBlind => NoOverlapFrozen
    BY DEF RowsBlind, IsBlindSet, NoOverlapFrozen
  <1> QED
    BY <1>1, AllBlind, PTL

-----------------------------------------------------------------------------
(* The desk and the freeze script implement FrozenSets.                    *)

Verdict == [s \in Samples |-> IF s \in Annotated THEN reviews[s] ELSE {}]
Sets == {f.rows : f \in freezes}

\* A final judgement is there at once, with the review that completes it.
LEMMA JudgeMaps ==
    ASSUME IInv, IInv', NEW s \in Samples, NEW p \in Principals, NEW axes \in Axes,
           RecordReview(s, p, axes), s \in Annotated'
    PROVE  Blind!Judge(s)
  <1> DEFINE review == [by |-> p, role |-> Role[p], axes |-> axes]
             rev == By(s, "REVIEWER")
             arb == By(s, "ARBITER")
  <1>1. /\ review.role = Role[p] /\ Role[p] \in {"REVIEWER", "ARBITER"}
    BY AdjudicationConstants
  <1>2. /\ status'[s] = After(s, review) /\ reviews'[s] = reviews[s] \cup {review}
        /\ \A t \in Samples : t # s => status'[t] = status[t] /\ reviews'[t] = reviews[t]
        /\ UNCHANGED freezes
    BY DEF RecordReview, IInv, Script, Typed
  <1>3. s \notin Annotated
    BY LabelledIsClosed DEF IInv, Annotated, RecordReview
  <1>4. Verdict[s] = {} /\ Verdict' = [Verdict EXCEPT ![s] = reviews'[s]]
    <2>1. \A t \in Samples : Verdict'[t] = IF t = s THEN reviews'[s] ELSE Verdict[t]
      BY <1>2 DEF Verdict, Annotated
    <2> QED
      BY <1>3, <2>1 DEF Verdict
  <1>5. /\ status'[s] = "READY"
        /\ reviews'[s] \in SUBSET Review
        /\ Cardinality(ByRole(reviews'[s], "REVIEWER")) = 2
        /\ \A r, q \in reviews'[s] : r.by = q.by => r = q
    <2>1. status'[s] \in {"READY", "FROZEN"}
      BY DEF Annotated
    <2> QED
      BY <1>2, <2>1 DEF After, IInv, Script, Typed, DeskInOrder, By
  <1>6. Cardinality(ByRole(reviews'[s], "ARBITER")) =
            IF Settled(ByRole(reviews'[s], "REVIEWER")) THEN 0 ELSE 1
    <2>1. By(s, "ARBITER")' = {} <=> Settled(By(s, "REVIEWER")')
      BY <1>5 DEF IInv, DeskInOrder
    <2>2. /\ By(s, "ARBITER")' = ByRole(reviews'[s], "ARBITER")
          /\ By(s, "REVIEWER")' = ByRole(reviews'[s], "REVIEWER")
      BY DEF By
    <2>3. CASE Role[p] = "ARBITER"
      <3>1. arb = {}
        BY <1>1, <2>3 DEF RecordReview, MayArbitrate
      <3>2. ByRole(reviews'[s], "ARBITER") = {review}
        BY <1>1, <1>2, <2>3, <3>1 DEF By, ByRole
      <3>3. ~Settled(ByRole(reviews'[s], "REVIEWER"))
        BY <2>1, <2>2, <3>2
      <3>4. Cardinality({review}) = 1
        BY FS_Singleton
      <3> HIDE DEF review
      <3> QED
        BY <3>2, <3>3, <3>4
    <2>4. CASE Role[p] = "REVIEWER"
      <3>1. ByRole(reviews'[s], "REVIEWER") = rev \cup {review}
        BY <1>1, <1>2, <2>4 DEF By, ByRole
      <3>2. Settled(rev \cup {review})
        BY <1>1, <1>2, <1>5, <2>4 DEF After
      <3>3. Settled(ByRole(reviews'[s], "REVIEWER"))
        BY <3>1, <3>2
      <3>4. ByRole(reviews'[s], "ARBITER") = {}
        BY <2>1, <2>2, <3>3
      <3>5. Cardinality(ByRole(reviews'[s], "ARBITER")) = 0
        BY <3>4, FS_EmptySet
      <3> QED
        BY <3>3, <3>5
    <2> QED
      BY <1>1, <2>3, <2>4
  <1>7. reviews'[s] \in FinalReviews
    BY <1>5, <1>6 DEF FinalReviews
  <1> QED
    BY <1>2, <1>4, <1>7 DEF Blind!Judge, Verdict

\* A labelled sample has been judged.
LEMMA LabelledIsJudged == ASSUME IInv, NEW s \in Annotated PROVE reviews[s] # {}
  <1>1. Cardinality(By(s, "REVIEWER")) = 2
    BY DEF IInv, DeskInOrder, Annotated
  <1>2. By(s, "REVIEWER") # {}
    BY <1>1, FS_EmptySet
  <1> QED
    BY <1>2 DEF By, ByRole

\* A commit that is no retry freezes what the script carries, as it stands.
LEMMA CommitMaps ==
    ASSUME IInv, RowsBlind, NEW p \in Freezers, Commit(p)
    PROVE  \/ \E S \in SUBSET Samples : Blind!Freeze(S)
           \/ UNCHANGED <<Verdict, Sets>>
  <1>1. CASE UNCHANGED <<status, frozenBy, freezes>>
    BY <1>1 DEF Commit, Verdict, Sets, Annotated
  <1> DEFINE rows == freezer[p].rows
  <1>2. CASE /\ Unfrozen(rows)
             /\ freezes' = freezes \cup {[rows |-> rows, no |-> freezer[p].no]}
             /\ status' = [s \in Samples |-> IF s \in DOMAIN rows THEN "FROZEN" ELSE status[s]]
    <2>0. PICK S : S = DOMAIN rows
      OBVIOUS
    <2>1. /\ rows \in Rows /\ S \subseteq Annotated
          /\ \A s \in S : rows[s] = reviews[s]
          /\ freezer[p].apply
      BY <2>0 DEF Commit, IInv, Script, Carried
    <2>2. S \in SUBSET Samples
      BY <2>1 DEF Annotated
    <2>3. rows = [s \in S |-> Verdict[s]]
      <3>1. rows = [s \in S |-> rows[s]]
        BY <2>0, <2>1 DEF Rows
      <3> QED
        BY <2>1, <2>2, <3>1 DEF Verdict
    <2>4. \A s \in S : Verdict[s] # {}
      BY <2>1, <2>2, LabelledIsJudged DEF Verdict
    <2>5. \A other \in Sets : S \cap DOMAIN other = {}
      BY <1>2, <2>0 DEF Unfrozen, Sets, IInv, Script, FreezeIsSound
    <2>6. IsBlindSet(rows)
      BY <2>1 DEF RowsBlind, Commit
    <2>7. Sets' = Sets \cup {rows}
      <3>1. PICK f : f = [rows |-> rows, no |-> freezer[p].no]
        OBVIOUS
      <3>2. f.rows = rows /\ freezes' = freezes \cup {f}
        BY <1>2, <3>1
      <3> QED
        BY <3>2 DEF Sets
    <2>8. Annotated' = Annotated /\ reviews' = reviews
      BY <1>2, <2>0, <2>1 DEF Commit, Annotated
    <2>9. Verdict' = Verdict
      BY <2>8 DEF Verdict
    <2>10. Blind!Freeze(S)
      BY <2>3, <2>4, <2>5, <2>6, <2>7, <2>9 DEF Blind!Freeze, Verdict, Sets
    <2> QED
      BY <2>2, <2>10
  <1> QED
    BY <1>1, <1>2 DEF Commit

LEMMA StepMaps ==
    ASSUME IInv, IInv', RowsBlind, [Next]_vars
    PROVE  Blind!Next \/ UNCHANGED <<Verdict, Sets>>
  <1>1. CASE UNCHANGED <<status, reviews, freezes>>
    BY <1>1 DEF Verdict, Sets, Annotated
  <1>2. ASSUME NEW s \in Samples, CreateSample(s) PROVE UNCHANGED <<Verdict, Sets>>
    <2>1. Annotated' = Annotated /\ reviews' = reviews /\ freezes' = freezes
      BY <1>2 DEF CreateSample, Annotated, IInv, Script, Typed
    <2> QED
      BY <2>1 DEF Verdict, Sets
  <1>3. ASSUME NEW s \in Samples, NEW p \in Principals, NEW axes \in Axes,
               RecordReview(s, p, axes)
        PROVE  Blind!Next \/ UNCHANGED <<Verdict, Sets>>
    <2>1. CASE s \in Annotated'
      BY <1>3, <2>1, JudgeMaps DEF Blind!Next
    <2>2. CASE s \notin Annotated'
      <3>1. s \notin Annotated
        BY <1>3, LabelledIsClosed DEF IInv, Annotated, RecordReview
      <3>2. /\ \A t \in Samples : t # s => status'[t] = status[t] /\ reviews'[t] = reviews[t]
            /\ freezes' = freezes
        BY <1>3 DEF RecordReview, IInv, Script, Typed
      <3>3. \A t \in Samples : Verdict'[t] = Verdict[t]
        BY <2>2, <3>1, <3>2 DEF Verdict, Annotated
      <3> QED
        BY <3>2, <3>3 DEF Verdict, Sets
    <2> QED
      BY <2>1, <2>2
  <1>4. ASSUME NEW p \in Freezers, Commit(p) PROVE Blind!Next \/ UNCHANGED <<Verdict, Sets>>
    BY <1>4, CommitMaps DEF Blind!Next
  <1>5. CASE \E p \in Freezers :
               \/ \E apply \in BOOLEAN : Build(p, apply)
               \/ WriteDataset(p) \/ DryRun(p) \/ Prepare(p) \/ Refused(p)
               \/ Complete(p) \/ Crash(p)
    BY <1>1, <1>5 DEF Build, WriteDataset, DryRun, Prepare, Refused, Complete, Crash, desk
  <1>6. CASE \/ \E rows \in DOMAIN manifest : Approve(rows)
             \/ \E no \in 1 .. approval.no : Expire(no)
    BY <1>1, <1>6 DEF Approve, Expire, desk
  <1>7. CASE UNCHANGED vars
    BY <1>1, <1>7 DEF vars
  <1> QED
    BY <1>2, <1>3, <1>4, <1>5, <1>6, <1>7 DEF Next, ScriptStep

\* However many people judge and processes run, die and are run again, and
\* however old their candidates: what the databases show is one store in which
\* a verdict is given once and a blind set is frozen in one step.
THEOREM RefinesFrozenSets == Spec => ImplementsFrozenSets
  <1>1. Init => Blind!Init
    BY DEF Init, Blind!Init, Annotated
  <1>2. IInv /\ IInv' /\ RowsBlind /\ [Next]_vars => [Blind!Next]_(Blind!vars)
    BY StepMaps DEF Blind!vars, Verdict, Sets
  <1> QED
    BY <1>1, <1>2, Inductive, AllBlind, PTL DEF Spec, ImplementsFrozenSets, Blind!Spec

=============================================================================
