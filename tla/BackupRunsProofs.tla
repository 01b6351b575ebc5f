--------------------------- MODULE BackupRunsProofs ---------------------------
(***************************************************************************)
(* For any number of backup processes, captures, crashes and failing       *)
(* steps, and any retention: one process is between the locks, a failed    *)
(* run stays failed, and a whole bundle as new as every verified run stays *)
(* on disk.                                                                *)
(***************************************************************************)
EXTENDS BackupRuns, TLAPS

Rows == [status: {"RUNNING", "VERIFIED", "FAILED"}, bundle: Bundles \cup {None}]
Runs == [pc: Inside \cup {"idle", "guarded", "reclaiming"},
         bridge: BOOLEAN, bundle: Bundles \cup {None},
         row: (1 .. MaxRows) \cup {None}]

\* The kernel lock is held by whoever has begun.
GuardHeld == \A b \in Backups : run[b].pc # "idle" => guard = b

\* Which bundle and which row a process works on.
Captured == {"drilling", "published", "recorded", "pruning", "weekly"}
BundleInHand ==
    /\ disk \subseteq 1 .. captures
    /\ \A b \in Backups : run[b].pc = "drilling" => captures \notin disk
    /\ \A b \in Backups :
          /\ run[b].pc \in {"failed", "failing"} /\ run[b].bundle # None
                => run[b].bundle <= captures
          /\ run[b].pc \in {"guarded", "reclaiming", "locked", "capturing"}
                => run[b].bundle = None
          /\ run[b].pc \in Captured => run[b].bundle = captures /\ captures # 0
          /\ run[b].pc \in {"published", "recorded", "pruning"} => captures \in Good

RowInHand ==
    \A b \in Backups :
        /\ run[b].pc \in {"recorded", "failed", "failing"} /\ run[b].row # None
              => run[b].row \in DOMAIN rows
        /\ run[b].pc = "recorded" =>
              /\ run[b].row # None
              /\ rows[run[b].row].status = "RUNNING"
              /\ rows[run[b].row].bundle = captures
        /\ run[b].pc \in {"guarded", "reclaiming", "locked", "capturing",
                          "drilling", "published"} => run[b].row = None
        /\ run[b].pc \in {"pruning", "weekly"} /\ ~run[b].bridge
              => run[b].row \in DOMAIN rows
        /\ run[b].bridge => run[b].row = None
        /\ run[b].pc \in {"published", "recorded"} => ~run[b].bridge

\* A row costs a capture or a fault: this bounds the table.
MayAddRow(b) ==
    \/ run[b].pc \in {"drilling", "published"}
    \/ run[b].pc = "failed" /\ NeedsRow(b)
RowsCounted ==
    /\ Len(rows) <= captures + faults
    /\ \A b \in Backups : MayAddRow(b) => Len(rows) < captures + faults

\* A verified row is about a capture that was made.
RowsNumbered ==
    \A i \in DOMAIN rows :
        /\ rows[i].bundle # None => rows[i].bundle <= captures
        /\ rows[i].status = "VERIFIED" => rows[i].bundle \in Bundles

IInv == /\ TypeOK /\ GuardHeld /\ BundleInHand /\ RowInHand
        /\ RowsCounted /\ RowsNumbered /\ KnownGoodKept

LEMMA InitInv == Init => IInv
  <1> SUFFICES ASSUME Init PROVE IInv
    OBVIOUS
  <1> QED
    BY BackupConstants
    DEF Init, IInv, TypeOK, GuardHeld, BundleInHand, RowInHand, RowsCounted,
        RowsNumbered, KnownGoodKept, MayAddRow, NeedsRow, Idle, NoFile, Inside,
        Bundles, Captured, Good

\* What the helpers of the actions do, once and for all.
LEMMA GotoTyped ==
  ASSUME run \in [Backups -> Runs], NEW b \in Backups,
         NEW pc \in Inside \cup {"idle", "guarded", "reclaiming"}, Goto(b, pc)
  PROVE  /\ run' \in [Backups -> Runs]
         /\ \A c \in Backups : c # b => run'[c] = run[c]
         /\ run'[b].pc = pc /\ run'[b].bridge = run[b].bridge
         /\ run'[b].bundle = run[b].bundle /\ run'[b].row = run[b].row
  BY DEF Goto, Runs

LEMMA StatusTyped ==
  ASSUME NEW seq \in Seq(Rows), NEW r \in DOMAIN seq,
         NEW st \in {"RUNNING", "VERIFIED", "FAILED"},
         NEW new, new = [seq EXCEPT ![r].status = st]
  PROVE  /\ new \in Seq(Rows) /\ Len(new) = Len(seq) /\ DOMAIN new = DOMAIN seq
         /\ new[r].status = st /\ new[r].bundle = seq[r].bundle
         /\ \A i \in DOMAIN seq : i # r => new[i] = seq[i]
         /\ \A i \in DOMAIN seq : new[i].bundle = seq[i].bundle
  <1>1. DOMAIN new = DOMAIN seq
    OBVIOUS
  <1>2. \A i \in DOMAIN seq : seq[i] \in Rows
    OBVIOUS
  <1>3. /\ new[r] = [seq[r] EXCEPT !.status = st]
        /\ \A i \in DOMAIN seq : i # r => new[i] = seq[i]
    OBVIOUS
  <1>4. /\ new[r].status = st /\ new[r].bundle = seq[r].bundle
        /\ new[r] \in Rows
    BY <1>2, <1>3 DEF Rows
  <1>5. \A i \in DOMAIN seq : new[i] \in Rows
    BY <1>2, <1>3, <1>4
  <1>6. new \in Seq(Rows) /\ Len(new) = Len(seq)
    BY <1>1, <1>5
  <1> QED
    BY <1>1, <1>3, <1>4, <1>6

LEMMA RowAdded ==
  ASSUME rows \in Seq(Rows), NEW b \in Backups, run[b] \in Runs, CreateRow(b)
  PROVE  /\ rows' \in Seq(Rows) /\ Len(rows') = Len(rows) + 1
         /\ DOMAIN rows' = DOMAIN rows \cup {Len(rows) + 1}
         /\ Len(rows) + 1 \notin DOMAIN rows
         /\ \A i \in DOMAIN rows : rows'[i] = rows[i]
         /\ rows'[Len(rows) + 1] = [status |-> "RUNNING", bundle |-> run[b].bundle]
  BY DEF CreateRow, Rows, Runs

LEMMA ReconciledTyped ==
  ASSUME rows \in Seq(Rows)
  PROVE  /\ Reconciled \in Seq(Rows) /\ Len(Reconciled) = Len(rows)
         /\ DOMAIN Reconciled = DOMAIN rows
         /\ \A i \in DOMAIN rows :
               /\ Reconciled[i].bundle = rows[i].bundle
               /\ rows[i].status = "RUNNING" => Reconciled[i].status = "FAILED"
               /\ rows[i].status # "RUNNING" => Reconciled[i].status = rows[i].status
  <1>1. \A i \in DOMAIN rows : rows[i] \in Rows
    OBVIOUS
  <1>2. \A i \in DOMAIN rows :
          /\ Reconciled[i] \in Rows
          /\ Reconciled[i].bundle = rows[i].bundle
          /\ rows[i].status = "RUNNING" => Reconciled[i].status = "FAILED"
          /\ rows[i].status # "RUNNING" => Reconciled[i].status = rows[i].status
    BY <1>1 DEF Reconciled, Rows
  <1>3. DOMAIN Reconciled = DOMAIN rows
    BY DEF Reconciled
  <1>4. Reconciled \in Seq(Rows) /\ Len(Reconciled) = Len(rows)
    <2>1. DOMAIN rows = 1 .. Len(rows) /\ Len(rows) \in Nat
      OBVIOUS
    <2>2. Reconciled \in [1 .. Len(rows) -> Rows]
      BY <1>2, <1>3, <2>1 DEF Reconciled
    <2> QED
      BY <2>1, <2>2
  <1> QED
    BY <1>2, <1>3, <1>4

LEMMA Typed ==
  TypeOK <=> /\ guard \in Backups \cup {None}
             /\ owner \in [by: Backups \cup {None}, age: 0 .. StaleAfter, taken: BOOLEAN]
             /\ run \in [Backups -> Runs]
             /\ rows \in Seq(Rows)
             /\ torn \subseteq disk /\ disk \subseteq Bundles
             /\ staging \subseteq Bundles
             /\ captures \in 0 .. MaxBundles
             /\ faults \in 0 .. MaxFaults
  BY DEF TypeOK, Runs, Rows

LEMMA TakeGuardKeeps ==
  ASSUME IInv, NEW b \in Backups, NEW bridge \in BOOLEAN, TakeGuard(b, bridge)
  PROVE  IInv'
  <1> USE BackupConstants
        DEF IInv, TypeOK, Inside, Bundles, Idle, NoFile, Fault, Goto, DropGuard,
            GuardFree, Reconciled, CreateRow, Kept, TakeGuard
  <1>1. TypeOK'
    BY DEF Rows, Runs, MaxRows, RowsCounted, MayAddRow, NeedsRow, RowInHand
  <1>2. GuardHeld'
    BY DEF GuardHeld
  <1>3. BundleInHand'
    BY DEF BundleInHand, GuardHeld, Captured, Good
  <1>4. RowInHand'
    BY DEF RowInHand, GuardHeld, NeedsRow
  <1>5. RowsCounted'
    BY DEF RowsCounted, GuardHeld, MayAddRow, NeedsRow, RowInHand
  <1>6. RowsNumbered'
    BY DEF RowsNumbered, RowInHand, BundleInHand, Captured
  <1>7. KnownGoodKept'
    BY DEF KnownGoodKept, BundleInHand, RowInHand, RowsNumbered, Good, Captured
  <1> QED
    BY <1>1, <1>2, <1>3, <1>4, <1>5, <1>6, <1>7

LEMMA CreateOwnerFileKeeps ==
  ASSUME IInv, NEW b \in Backups, CreateOwnerFile(b)
  PROVE  IInv'
  <1> USE BackupConstants
        DEF IInv, TypeOK, Inside, Bundles, Idle, NoFile, Fault, Goto, DropGuard,
            GuardFree, Reconciled, CreateRow, Kept, CreateOwnerFile
  <1>1. TypeOK'
    BY DEF Rows, Runs, MaxRows, RowsCounted, MayAddRow, NeedsRow, RowInHand
  <1>2. GuardHeld'
    BY DEF GuardHeld
  <1>3. BundleInHand'
    BY DEF BundleInHand, GuardHeld, Captured, Good
  <1>4. RowInHand'
    BY DEF RowInHand, GuardHeld, NeedsRow
  <1>5. RowsCounted'
    BY DEF RowsCounted, GuardHeld, MayAddRow, NeedsRow, RowInHand
  <1>6. RowsNumbered'
    BY DEF RowsNumbered, RowInHand, BundleInHand, Captured
  <1>7. KnownGoodKept'
    BY DEF KnownGoodKept, BundleInHand, RowInHand, RowsNumbered, Good, Captured
  <1> QED
    BY <1>1, <1>2, <1>3, <1>4, <1>5, <1>6, <1>7

LEMMA JudgeOwnerFileKeeps ==
  ASSUME IInv, NEW b \in Backups, JudgeOwnerFile(b)
  PROVE  IInv'
  <1> USE BackupConstants DEF IInv, Inside
  <1>1. /\ run \in [Backups -> Runs] /\ rows \in Seq(Rows)
        /\ \A c \in Backups : c # b => run[c].pc = "idle"
    BY Typed DEF GuardHeld, JudgeOwnerFile
  <1>2. /\ run' \in [Backups -> Runs]
        /\ \A c \in Backups : c # b => run'[c] = run[c]
        /\ run[b].pc = "guarded" /\ run[b].row = None
        /\ run'[b].row = None /\ run'[b].bundle = None
        /\ \/ run'[b].pc = "reclaiming" /\ guard' = guard
           \/ run'[b].pc = "idle" /\ guard' = IF guard = b THEN None ELSE guard
    <2>1. CASE Stale
      BY <1>1, <2>1, GotoTyped DEF JudgeOwnerFile, RowInHand, BundleInHand
    <2>2. CASE ~Stale
      <3>1. Idle \in Runs /\ Idle.pc = "idle" /\ Idle.row = None /\ Idle.bundle = None
        BY DEF Idle, Runs
      <3> QED
        BY <1>1, <2>2, <3>1 DEF JudgeOwnerFile, DropGuard, RowInHand
    <2> QED
      BY <2>1, <2>2
  <1>3. UNCHANGED <<owner, rows, disk, torn, staging, captures, faults>>
    BY DEF JudgeOwnerFile
  <1>4. TypeOK'
    BY <1>1, <1>2, <1>3, Typed DEF TypeOK, Runs, Rows, RowsCounted, RowInHand, BundleInHand, MaxRows, MayAddRow, NeedsRow
  <1>5. GuardHeld'
    BY <1>1, <1>2, <1>3, Typed DEF GuardHeld
  <1>6. BundleInHand'
    BY <1>1, <1>2, <1>3, Typed DEF BundleInHand, GuardHeld, Captured, Good
  <1>7. RowInHand'
    BY <1>1, <1>2, <1>3, Typed DEF RowInHand, GuardHeld, NeedsRow
  <1>8. RowsCounted'
    BY <1>1, <1>2, <1>3, Typed DEF RowsCounted, GuardHeld, MayAddRow, NeedsRow, RowInHand
  <1>9. RowsNumbered'
    BY <1>1, <1>2, <1>3, Typed DEF RowsNumbered, RowInHand, BundleInHand, Captured, Bundles
  <1>10. KnownGoodKept'
    BY <1>1, <1>2, <1>3, Typed DEF KnownGoodKept, BundleInHand, RowInHand, RowsNumbered, Good, Captured, Bundles
  <1> QED
    BY <1>4, <1>5, <1>6, <1>7, <1>8, <1>9, <1>10

LEMMA ReclaimOwnerFileKeeps ==
  ASSUME IInv, NEW b \in Backups, ReclaimOwnerFile(b)
  PROVE  IInv'
  <1> USE BackupConstants DEF IInv, Inside
  <1>1. /\ run \in [Backups -> Runs] /\ rows \in Seq(Rows)
        /\ \A c \in Backups : c # b => run[c].pc = "idle"
    BY Typed DEF GuardHeld, ReclaimOwnerFile
  <1>2. /\ run' \in [Backups -> Runs]
        /\ \A c \in Backups : c # b => run'[c] = run[c]
        /\ run'[b].pc = "guarded" /\ run'[b].bridge = run[b].bridge
        /\ run'[b].bundle = run[b].bundle /\ run'[b].row = run[b].row
    BY <1>1, GotoTyped DEF ReclaimOwnerFile, Inside
  <1>3. /\ run[b].pc = "reclaiming" /\ owner' = NoFile
        /\ UNCHANGED <<guard, rows, disk, torn, staging, captures, faults>>
    BY DEF ReclaimOwnerFile
  <1>4. NoFile \in [by: Backups \cup {None}, age: 0 .. StaleAfter, taken: BOOLEAN]
    BY DEF NoFile
  <1>5. TypeOK'
    BY <1>1, <1>2, <1>3, <1>4, Typed DEF TypeOK, Runs, Rows, RowsCounted, RowInHand, BundleInHand, MaxRows, MayAddRow, NeedsRow
  <1>6. GuardHeld'
    BY <1>1, <1>2, <1>3, <1>4, Typed DEF GuardHeld
  <1>7. BundleInHand'
    BY <1>1, <1>2, <1>3, <1>4, Typed DEF BundleInHand, GuardHeld, Captured, Good
  <1>8. RowInHand'
    BY <1>1, <1>2, <1>3, <1>4, Typed DEF RowInHand, GuardHeld, NeedsRow
  <1>9. RowsCounted'
    BY <1>1, <1>2, <1>3, <1>4, Typed DEF RowsCounted, GuardHeld, MayAddRow, NeedsRow, RowInHand
  <1>10. RowsNumbered'
    BY <1>1, <1>2, <1>3, <1>4, Typed DEF RowsNumbered, RowInHand, BundleInHand, Captured, Bundles
  <1>11. KnownGoodKept'
    BY <1>1, <1>2, <1>3, <1>4, Typed DEF KnownGoodKept, BundleInHand, RowInHand, RowsNumbered, Good, Captured, Bundles
  <1> QED
    BY <1>5, <1>6, <1>7, <1>8, <1>9, <1>10, <1>11

LEMMA LeaveLocksKeeps ==
  ASSUME IInv, NEW b \in Backups, LeaveLocks(b)
  PROVE  IInv'
  <1> USE BackupConstants
        DEF IInv, TypeOK, Inside, Bundles, Idle, NoFile, Fault, Goto, DropGuard,
            GuardFree, Reconciled, CreateRow, Kept, Orphan, LeaveLocks
  <1>1. TypeOK'
    <2>1. owner' \in [by: Backups \cup {None}, age: 0 .. StaleAfter, taken: BOOLEAN]
      <3>1. CASE owner' = IF owner.by = b THEN NoFile ELSE owner
        BY <3>1
      <3>2. ASSUME NEW taken \in BOOLEAN, Orphan(b, taken)
            PROVE  owner' \in [by: Backups \cup {None}, age: 0 .. StaleAfter, taken: BOOLEAN]
        BY <3>2
      <3> QED
        BY <3>1, <3>2
    <2>2. faults' \in 0 .. MaxFaults /\ run' \in [Backups -> Runs]
      BY DEF Rows, Runs
    <2>3. guard' \in Backups \cup {None}
      OBVIOUS
    <2> QED
      BY <2>1, <2>2, <2>3 DEF Runs
  <1>2. GuardHeld'
    BY DEF GuardHeld
  <1>3. BundleInHand'
    BY DEF BundleInHand, GuardHeld, Captured, Good
  <1>4. RowInHand'
    BY DEF RowInHand, GuardHeld, NeedsRow
  <1>5. RowsCounted'
    BY DEF RowsCounted, GuardHeld, MayAddRow, NeedsRow, RowInHand
  <1>6. RowsNumbered'
    BY DEF RowsNumbered, RowInHand, BundleInHand, Captured
  <1>7. KnownGoodKept'
    BY DEF KnownGoodKept, BundleInHand, RowInHand, RowsNumbered, Good, Captured
  <1> QED
    BY <1>1, <1>2, <1>3, <1>4, <1>5, <1>6, <1>7

LEMMA ReconcileKeeps ==
  ASSUME IInv, NEW b \in Backups, Reconcile(b)
  PROVE  IInv'
  <1> USE BackupConstants DEF IInv, Inside
  <1>1. /\ run \in [Backups -> Runs] /\ rows \in Seq(Rows)
        /\ \A c \in Backups : c # b => run[c].pc = "idle"
    BY Typed DEF GuardHeld, Reconcile
  <1>2. /\ run' \in [Backups -> Runs]
        /\ \A c \in Backups : c # b => run'[c] = run[c]
        /\ run'[b].pc = "capturing" /\ run'[b].bridge = run[b].bridge
        /\ run'[b].bundle = run[b].bundle /\ run'[b].row = run[b].row
    BY <1>1, GotoTyped DEF Reconcile, Inside
  <1>3. /\ rows' \in Seq(Rows) /\ Len(rows') = Len(rows) /\ DOMAIN rows' = DOMAIN rows
        /\ \A i \in DOMAIN rows :
              /\ rows'[i].bundle = rows[i].bundle
              /\ rows'[i].status = "VERIFIED" => rows[i].status = "VERIFIED"
    BY <1>1, ReconciledTyped DEF Reconcile
  <1>4. /\ run[b].pc = "locked" /\ run[b].row = None
        /\ UNCHANGED <<guard, owner, disk, torn, staging, captures, faults>>
    BY DEF Reconcile, RowInHand
  <1>5. TypeOK'
    BY <1>1, <1>2, <1>3, <1>4, Typed DEF TypeOK, Runs, Rows, RowsCounted, RowInHand, BundleInHand, MaxRows, MayAddRow, NeedsRow
  <1>6. GuardHeld'
    BY <1>1, <1>2, <1>3, <1>4, Typed DEF GuardHeld
  <1>7. BundleInHand'
    BY <1>1, <1>2, <1>3, <1>4, Typed DEF BundleInHand, GuardHeld, Captured, Good
  <1>8. RowInHand'
    BY <1>1, <1>2, <1>3, <1>4, Typed DEF RowInHand, GuardHeld, NeedsRow
  <1>9. RowsCounted'
    BY <1>1, <1>2, <1>3, <1>4, Typed DEF RowsCounted, GuardHeld, MayAddRow, NeedsRow, RowInHand
  <1>10. RowsNumbered'
    BY <1>1, <1>2, <1>3, <1>4, Typed DEF RowsNumbered, RowInHand, BundleInHand, Captured, Bundles
  <1>11. KnownGoodKept'
    BY <1>1, <1>2, <1>3, <1>4, Typed DEF KnownGoodKept, BundleInHand, RowInHand, RowsNumbered, Good, Captured, Bundles
  <1> QED
    BY <1>5, <1>6, <1>7, <1>8, <1>9, <1>10, <1>11

LEMMA CaptureKeeps ==
  ASSUME IInv, NEW b \in Backups, Capture(b)
  PROVE  IInv'
  <1> USE BackupConstants DEF IInv, Inside
  <1>1. /\ run \in [Backups -> Runs] /\ rows \in Seq(Rows)
        /\ \A c \in Backups : c # b => run[c].pc = "idle"
    BY Typed DEF GuardHeld, Capture
  <1>2. /\ run[b].pc = "capturing" /\ captures' = captures + 1
        /\ captures \in Nat /\ captures' \in Bundles /\ faults \in Nat
        /\ UNCHANGED <<guard, owner, rows, disk, torn, faults>>
        /\ captures' \in 0 .. MaxBundles /\ staging' \subseteq Bundles
    BY Typed DEF Capture, Bundles
  <1>3. /\ run' \in [Backups -> Runs]
        /\ \A c \in Backups : c # b => run'[c] = run[c]
        /\ run'[b].pc = "drilling" /\ run'[b].bundle = captures'
        /\ run'[b].row = None
    BY <1>1, <1>2 DEF Capture, Runs, RowInHand
  <1>4. Len(rows) \in Nat
    BY <1>1
  <1>5. \A i \in DOMAIN rows : rows[i] \in Rows
    BY <1>1
  <1>6. TypeOK'
    BY <1>1, <1>2, <1>3, <1>4, <1>5, Typed DEF TypeOK, Runs, Rows, RowsCounted, RowInHand, BundleInHand, MaxRows, MayAddRow, NeedsRow
  <1>7. GuardHeld'
    BY <1>1, <1>2, <1>3, <1>4, <1>5, Typed DEF GuardHeld
  <1>8. BundleInHand'
    BY <1>1, <1>2, <1>3, <1>4, <1>5, Typed DEF BundleInHand, GuardHeld, Captured, Good
  <1>9. RowInHand'
    BY <1>1, <1>2, <1>3, <1>4, <1>5, Typed DEF RowInHand, GuardHeld, NeedsRow
  <1>10. RowsCounted'
    BY <1>1, <1>2, <1>3, <1>4, <1>5, Typed DEF RowsCounted, GuardHeld, MayAddRow, NeedsRow, RowInHand
  <1>11. RowsNumbered'
    BY <1>1, <1>2, <1>3, <1>4, <1>5, Typed DEF RowsNumbered, Rows, Bundles
  <1>12. KnownGoodKept'
    BY <1>1, <1>2, <1>3, <1>4, <1>5, Typed DEF KnownGoodKept, BundleInHand, RowInHand, RowsNumbered, Good, Captured, Bundles
  <1> QED
    BY <1>6, <1>7, <1>8, <1>9, <1>10, <1>11, <1>12

LEMMA NoCaptureLeftKeeps ==
  ASSUME IInv, NEW b \in Backups, NoCaptureLeft(b)
  PROVE  IInv'
  <1> USE BackupConstants
        DEF IInv, TypeOK, Inside, Bundles, Idle, NoFile, Fault, Goto, DropGuard,
            GuardFree, Reconciled, CreateRow, Kept, NoCaptureLeft
  <1>1. TypeOK'
    BY DEF Rows, Runs, MaxRows, RowsCounted, MayAddRow, NeedsRow, RowInHand
  <1>2. GuardHeld'
    BY DEF GuardHeld
  <1>3. BundleInHand'
    BY DEF BundleInHand, GuardHeld, Captured, Good
  <1>4. RowInHand'
    BY DEF RowInHand, GuardHeld, NeedsRow
  <1>5. RowsCounted'
    BY DEF RowsCounted, GuardHeld, MayAddRow, NeedsRow, RowInHand
  <1>6. RowsNumbered'
    BY DEF RowsNumbered, RowInHand, BundleInHand, Captured
  <1>7. KnownGoodKept'
    BY DEF KnownGoodKept, BundleInHand, RowInHand, RowsNumbered, Good, Captured
  <1> QED
    BY <1>1, <1>2, <1>3, <1>4, <1>5, <1>6, <1>7

LEMMA PublishKeeps ==
  ASSUME IInv, NEW b \in Backups, Publish(b)
  PROVE  IInv'
  <1> USE BackupConstants DEF IInv, Inside
  <1>1. /\ run \in [Backups -> Runs] /\ rows \in Seq(Rows)
        /\ \A c \in Backups : c # b => run[c].pc = "idle"
    BY Typed DEF GuardHeld, Publish
  <1>2. /\ run' \in [Backups -> Runs]
        /\ \A c \in Backups : c # b => run'[c] = run[c]
        /\ run'[b].pc = IF run[b].bridge THEN "pruning" ELSE "published"
        /\ run'[b].bridge = run[b].bridge
        /\ run'[b].bundle = run[b].bundle /\ run'[b].row = run[b].row
    BY <1>1, GotoTyped DEF Publish, Inside
  <1>3. /\ run[b].pc = "drilling" /\ run[b].row = None
        /\ run[b].bundle = captures /\ captures \in Bundles /\ captures \notin disk
        /\ captures \in 1 .. captures
        /\ captures \notin torn /\ torn' = torn /\ disk' = disk \cup {captures}
        /\ staging' \subseteq staging
        /\ UNCHANGED <<guard, owner, rows, captures, faults>>
    BY Typed DEF Publish, RowInHand, BundleInHand, Captured, Bundles
  <1>4. TypeOK'
    BY <1>1, <1>2, <1>3, Typed DEF TypeOK, Runs, Rows, RowsCounted, RowInHand, BundleInHand, MaxRows, MayAddRow, NeedsRow
  <1>5. GuardHeld'
    BY <1>1, <1>2, <1>3, Typed DEF GuardHeld
  <1>6. BundleInHand'
    BY <1>1, <1>2, <1>3, Typed DEF BundleInHand, GuardHeld, Captured, Good
  <1>7. RowInHand'
    BY <1>1, <1>2, <1>3, Typed DEF RowInHand, GuardHeld, NeedsRow
  <1>8. RowsCounted'
    BY <1>1, <1>2, <1>3, Typed DEF RowsCounted, GuardHeld, MayAddRow, NeedsRow, RowInHand
  <1>9. RowsNumbered'
    BY <1>1, <1>2, <1>3, Typed DEF RowsNumbered, RowInHand, BundleInHand, Captured, Bundles
  <1>10. KnownGoodKept'
    BY <1>1, <1>2, <1>3, Typed DEF KnownGoodKept, BundleInHand, RowInHand, RowsNumbered, Good, Captured, Bundles
  <1> QED
    BY <1>4, <1>5, <1>6, <1>7, <1>8, <1>9, <1>10

LEMMA CreateBackupRunKeeps ==
  ASSUME IInv, NEW b \in Backups, CreateBackupRun(b)
  PROVE  IInv'
  <1> USE BackupConstants
        DEF IInv, TypeOK, Inside, Bundles, Idle, NoFile, Fault, Goto, DropGuard,
            GuardFree, Reconciled, CreateRow, Kept, CreateBackupRun
  <1>1. TypeOK'
    BY DEF Rows, Runs, MaxRows, RowsCounted, MayAddRow, NeedsRow, RowInHand
  <1>2. GuardHeld'
    BY DEF GuardHeld
  <1>3. BundleInHand'
    BY DEF BundleInHand, GuardHeld, Captured, Good
  <1>4. RowInHand'
    BY DEF RowInHand, GuardHeld, NeedsRow
  <1>5. RowsCounted'
    BY DEF RowsCounted, GuardHeld, MayAddRow, NeedsRow, RowInHand
  <1>6. RowsNumbered'
    BY DEF RowsNumbered, RowInHand, BundleInHand, Captured
  <1>7. KnownGoodKept'
    BY DEF KnownGoodKept, BundleInHand, RowInHand, RowsNumbered, Good, Captured
  <1> QED
    BY <1>1, <1>2, <1>3, <1>4, <1>5, <1>6, <1>7

LEMMA FinishBackupRunKeeps ==
  ASSUME IInv, NEW b \in Backups, FinishBackupRun(b)
  PROVE  IInv'
  <1> USE BackupConstants DEF IInv, Inside
  <1>1. /\ run \in [Backups -> Runs] /\ rows \in Seq(Rows)
        /\ \A c \in Backups : c # b => run[c].pc = "idle"
    BY Typed DEF GuardHeld, FinishBackupRun
  <1>2. /\ run' \in [Backups -> Runs]
        /\ \A c \in Backups : c # b => run'[c] = run[c]
        /\ run'[b].pc = "pruning" /\ run'[b].bridge = run[b].bridge
        /\ run'[b].bundle = run[b].bundle /\ run'[b].row = run[b].row
    BY <1>1, GotoTyped DEF FinishBackupRun, Inside
  <1>3. /\ run[b].pc = "recorded" /\ run[b].row \in DOMAIN rows
        /\ rows[run[b].row].bundle = captures
        /\ UNCHANGED <<guard, owner, disk, torn, staging, captures, faults>>
    BY DEF FinishBackupRun, RowInHand
  <1>4. /\ rows' \in Seq(Rows) /\ Len(rows') = Len(rows) /\ DOMAIN rows' = DOMAIN rows
        /\ \A i \in DOMAIN rows : i # run[b].row => rows'[i] = rows[i]
        /\ \A i \in DOMAIN rows : rows'[i].bundle = rows[i].bundle
    BY <1>1, <1>3, StatusTyped DEF FinishBackupRun
  <1>5. TypeOK'
    BY <1>1, <1>2, <1>3, <1>4, Typed DEF TypeOK, Runs, Rows, RowsCounted, RowInHand, BundleInHand, MaxRows, MayAddRow, NeedsRow
  <1>6. GuardHeld'
    BY <1>1, <1>2, <1>3, <1>4, Typed DEF GuardHeld
  <1>7. BundleInHand'
    BY <1>1, <1>2, <1>3, <1>4, Typed DEF BundleInHand, GuardHeld, Captured, Good
  <1>8. RowInHand'
    BY <1>1, <1>2, <1>3, <1>4, Typed DEF RowInHand, GuardHeld, NeedsRow
  <1>9. RowsCounted'
    BY <1>1, <1>2, <1>3, <1>4, Typed DEF RowsCounted, GuardHeld, MayAddRow, NeedsRow, RowInHand
  <1>10. RowsNumbered'
    BY <1>1, <1>2, <1>3, <1>4, Typed DEF RowsNumbered, RowInHand, BundleInHand, Captured, Bundles
  <1>11. KnownGoodKept'
    BY <1>1, <1>2, <1>3, <1>4, Typed DEF KnownGoodKept, BundleInHand, RowInHand, RowsNumbered, Good, Captured, Bundles
  <1> QED
    BY <1>5, <1>6, <1>7, <1>8, <1>9, <1>10, <1>11

LEMMA PruneKeeps ==
  ASSUME IInv, NEW b \in Backups, Prune(b)
  PROVE  IInv'
  <1> USE BackupConstants
        DEF IInv, TypeOK, Inside, Bundles, Idle, NoFile, Fault, Goto, DropGuard,
            GuardFree, Reconciled, CreateRow, Kept, Prune
  <1>1. TypeOK'
    BY DEF Rows, Runs, MaxRows, RowsCounted, MayAddRow, NeedsRow, RowInHand
  <1>2. GuardHeld'
    BY DEF GuardHeld
  <1>3. BundleInHand'
    BY DEF BundleInHand, GuardHeld, Captured, Good
  <1>4. RowInHand'
    BY DEF RowInHand, GuardHeld, NeedsRow
  <1>5. RowsCounted'
    BY DEF RowsCounted, GuardHeld, MayAddRow, NeedsRow, RowInHand
  <1>6. RowsNumbered'
    BY DEF RowsNumbered, RowInHand, BundleInHand, Captured
  <1>7. KnownGoodKept'
    BY DEF KnownGoodKept, BundleInHand, RowInHand, RowsNumbered, Good, Captured
  <1> QED
    BY <1>1, <1>2, <1>3, <1>4, <1>5, <1>6, <1>7

LEMMA PruneBreaksOffKeeps ==
  ASSUME IInv, NEW b \in Backups, PruneBreaksOff(b)
  PROVE  IInv'
  <1> USE BackupConstants DEF IInv, Inside
  <1>1. /\ run \in [Backups -> Runs] /\ rows \in Seq(Rows)
        /\ \A c \in Backups : c # b => run[c].pc = "idle"
    BY Typed DEF GuardHeld, PruneBreaksOff
  <1>2. /\ run' \in [Backups -> Runs]
        /\ \A c \in Backups : c # b => run'[c] = run[c]
        /\ run'[b].pc = "failed" /\ run'[b].bridge = run[b].bridge
        /\ run'[b].bundle = run[b].bundle /\ run'[b].row = run[b].row
    BY <1>1, GotoTyped DEF PruneBreaksOff, Inside
  <1>3. /\ run[b].pc = "pruning" /\ faults \in Nat /\ faults' \in 0 .. MaxFaults
        /\ faults' = faults + 1
        /\ UNCHANGED <<guard, owner, rows, staging, captures>>
        /\ ~run[b].bridge => run[b].row \in DOMAIN rows
    BY Typed DEF PruneBreaksOff, Fault, RowInHand
  <1>4. /\ torn' \subseteq disk' /\ disk' \subseteq disk
        /\ captures \in disk' \ torn'
    BY Typed DEF PruneBreaksOff, Kept, BundleInHand, Good, Captured
  <1>5. Len(rows) \in Nat /\ captures \in Nat /\ None \notin DOMAIN rows
    BY <1>1, Typed
  <1>6. TypeOK'
    BY <1>1, <1>2, <1>3, <1>4, <1>5, Typed DEF TypeOK, Runs, Rows, RowsCounted, RowInHand, BundleInHand, MaxRows, MayAddRow, NeedsRow
  <1>7. GuardHeld'
    BY <1>1, <1>2, <1>3, <1>4, <1>5, Typed DEF GuardHeld
  <1>8. BundleInHand'
    BY <1>1, <1>2, <1>3, <1>4, <1>5, Typed DEF BundleInHand, GuardHeld, Captured, Good
  <1>9. RowInHand'
    BY <1>1, <1>2, <1>3, <1>4, <1>5, Typed DEF RowInHand, GuardHeld, NeedsRow
  <1>10. RowsCounted'
    BY <1>1, <1>2, <1>3, <1>4, <1>5, Typed DEF RowsCounted, GuardHeld, MayAddRow, NeedsRow, RowInHand
  <1>11. RowsNumbered'
    BY <1>1, <1>2, <1>3, <1>4, <1>5, Typed DEF RowsNumbered, RowInHand, BundleInHand, Captured, Bundles
  <1>12. KnownGoodKept'
    BY <1>1, <1>2, <1>3, <1>4, <1>5, Typed DEF KnownGoodKept, BundleInHand, RowInHand, RowsNumbered, Good, Captured, Bundles
  <1> QED
    BY <1>6, <1>7, <1>8, <1>9, <1>10, <1>11, <1>12

LEMMA WeeklySnapshotKeeps ==
  ASSUME IInv, NEW b \in Backups, WeeklySnapshot(b)
  PROVE  IInv'
  <1> USE BackupConstants
        DEF IInv, TypeOK, Inside, Bundles, Idle, NoFile, Fault, Goto, DropGuard,
            GuardFree, Reconciled, CreateRow, Kept, WeeklySnapshot
  <1>1. TypeOK'
    BY DEF Rows, Runs, MaxRows, RowsCounted, MayAddRow, NeedsRow, RowInHand
  <1>2. GuardHeld'
    BY DEF GuardHeld
  <1>3. BundleInHand'
    BY DEF BundleInHand, GuardHeld, Captured, Good
  <1>4. RowInHand'
    BY DEF RowInHand, GuardHeld, NeedsRow
  <1>5. RowsCounted'
    BY DEF RowsCounted, GuardHeld, MayAddRow, NeedsRow, RowInHand
  <1>6. RowsNumbered'
    BY DEF RowsNumbered, RowInHand, BundleInHand, Captured
  <1>7. KnownGoodKept'
    BY DEF KnownGoodKept, BundleInHand, RowInHand, RowsNumbered, Good, Captured
  <1> QED
    BY <1>1, <1>2, <1>3, <1>4, <1>5, <1>6, <1>7

LEMMA StepFailsKeeps ==
  ASSUME IInv, NEW b \in Backups, StepFails(b)
  PROVE  IInv'
  <1> USE BackupConstants DEF IInv, Inside
  <1>1. /\ run \in [Backups -> Runs] /\ rows \in Seq(Rows)
        /\ \A c \in Backups : c # b => run[c].pc = "idle"
    BY Typed DEF GuardHeld, StepFails
  <1>2. /\ run' \in [Backups -> Runs]
        /\ \A c \in Backups : c # b => run'[c] = run[c]
        /\ run'[b].pc = "failed" /\ run'[b].bridge = run[b].bridge
        /\ run'[b].bundle = run[b].bundle /\ run'[b].row = run[b].row
    BY <1>1, GotoTyped DEF StepFails, Inside
  <1>3. /\ faults \in Nat /\ faults' \in 0 .. MaxFaults /\ faults' = faults + 1
        /\ UNCHANGED <<guard, owner, rows, disk, torn, staging, captures>>
    BY Typed DEF StepFails, Fault
  <1>4. /\ run[b].row # None => run[b].row \in DOMAIN rows
        /\ run[b].pc # "idle"
    BY DEF StepFails, RowInHand
  <1>5. Len(rows) \in Nat /\ captures \in Nat
    BY <1>1, Typed
  <1>6. run[b].bundle # None => run[b].bundle <= captures
    BY <1>5 DEF StepFails, BundleInHand, Captured
  <1>7. TypeOK'
    BY <1>1, <1>2, <1>3, <1>4, <1>5, <1>6, Typed DEF TypeOK, Runs, Rows, RowsCounted, RowInHand, BundleInHand, MaxRows, MayAddRow, NeedsRow
  <1>8. GuardHeld'
    BY <1>1, <1>2, <1>3, <1>4, <1>5, <1>6, Typed DEF GuardHeld
  <1>9. BundleInHand'
    BY <1>1, <1>2, <1>3, <1>4, <1>5, <1>6, Typed DEF BundleInHand, GuardHeld, Captured, Good
  <1>10. RowInHand'
    BY <1>1, <1>2, <1>3, <1>4, <1>5, <1>6, Typed DEF RowInHand, GuardHeld, NeedsRow
  <1>11. RowsCounted'
    BY <1>1, <1>2, <1>3, <1>4, <1>5, <1>6, Typed DEF RowsCounted, GuardHeld, MayAddRow, NeedsRow, RowInHand
  <1>12. RowsNumbered'
    BY <1>1, <1>2, <1>3, <1>4, <1>5, <1>6, Typed DEF RowsNumbered, RowInHand, BundleInHand, Captured, Bundles
  <1>13. KnownGoodKept'
    BY <1>1, <1>2, <1>3, <1>4, <1>5, <1>6, Typed DEF KnownGoodKept, BundleInHand, RowInHand, RowsNumbered, Good, Captured, Bundles
  <1> QED
    BY <1>7, <1>8, <1>9, <1>10, <1>11, <1>12, <1>13

LEMMA RecordFailureKeeps ==
  ASSUME IInv, NEW b \in Backups, RecordFailure(b)
  PROVE  IInv'
  <1> USE BackupConstants DEF IInv, Inside
  <1>1. /\ run \in [Backups -> Runs] /\ rows \in Seq(Rows)
        /\ \A c \in Backups : c # b => run[c].pc = "idle"
    BY Typed DEF GuardHeld, RecordFailure
  <1>2. /\ run' \in [Backups -> Runs]
        /\ \A c \in Backups : c # b => run'[c] = run[c]
        /\ run'[b].pc = "failing" /\ run'[b].bridge = run[b].bridge
        /\ run'[b].bundle = run[b].bundle
        /\ run'[b].row # None => run'[b].row \in DOMAIN rows'
        /\ run'[b].bridge => run'[b].row = None
    <2>1. CASE NeedsRow(b) /\ CreateRow(b)
                 /\ run' = [run EXCEPT ![b].pc = "failing", ![b].row = Len(rows) + 1]
      <3>1. Len(rows) + 1 \in 1 .. MaxRows
        BY <1>1, <2>1, Typed DEF RecordFailure, RowsCounted, MayAddRow, MaxRows
      <3> QED
        BY <1>1, <2>1, <3>1, RowAdded DEF Runs, NeedsRow
    <2>2. CASE Goto(b, "failing") /\ rows' = rows
      BY <1>1, <2>2, GotoTyped DEF RecordFailure, RowInHand
    <2> QED
      BY <2>1, <2>2 DEF RecordFailure
  <1>3. /\ run[b].pc = "failed"
        /\ UNCHANGED <<guard, owner, disk, torn, staging, captures>>
        /\ faults \in Nat /\ faults' \in 0 .. MaxFaults /\ faults <= faults'
        /\ Len(rows) \in Nat /\ captures \in Nat
    BY <1>1, Typed DEF RecordFailure, Fault
  <1>4. \/ rows' = rows
        \/ /\ rows' \in Seq(Rows) /\ Len(rows') = Len(rows) + 1
           /\ DOMAIN rows' = DOMAIN rows \cup {Len(rows) + 1}
           /\ \A i \in DOMAIN rows : rows'[i] = rows[i]
           /\ rows'[Len(rows) + 1] = [status |-> "RUNNING", bundle |-> run[b].bundle]
           /\ Len(rows) < captures + faults
    BY <1>1, <1>3, RowAdded DEF RecordFailure, RowsCounted, MayAddRow
  <1>5. run[b].bundle # None => run[b].bundle <= captures
    BY <1>3 DEF BundleInHand
  <1>6. \A i \in DOMAIN rows' : rows'[i].status = "VERIFIED" =>
                                i \in DOMAIN rows /\ rows'[i] = rows[i]
    BY <1>4
  <1>7. TypeOK'
    BY <1>1, <1>2, <1>3, <1>4, <1>5, <1>6, Typed DEF TypeOK, Runs, Rows, RowsCounted, RowInHand, BundleInHand, MaxRows, MayAddRow, NeedsRow
  <1>8. GuardHeld'
    BY <1>1, <1>2, <1>3, <1>4, <1>5, <1>6, Typed DEF GuardHeld
  <1>9. BundleInHand'
    BY <1>1, <1>2, <1>3, <1>4, <1>5, <1>6, Typed DEF BundleInHand, GuardHeld, Captured, Good
  <1>10. RowInHand'
    BY <1>1, <1>2, <1>3, <1>4, <1>5, <1>6, Typed DEF RowInHand, GuardHeld, NeedsRow
  <1>11. RowsCounted'
    <2>1. \A c \in Backups : ~MayAddRow(c)'
      BY <1>1, <1>2 DEF MayAddRow
    <2>2. Len(rows') <= captures + faults'
      BY <1>3, <1>4 DEF RowsCounted
    <2> QED
      BY <1>3, <2>1, <2>2 DEF RowsCounted
  <1>12. RowsNumbered'
    BY <1>1, <1>2, <1>3, <1>4, <1>5, <1>6, Typed DEF RowsNumbered, RowInHand, BundleInHand, Captured, Bundles
  <1>13. KnownGoodKept'
    BY <1>1, <1>2, <1>3, <1>4, <1>5, <1>6, Typed DEF KnownGoodKept, BundleInHand, RowInHand, RowsNumbered, Good, Captured, Bundles
  <1> QED
    BY <1>7, <1>8, <1>9, <1>10, <1>11, <1>12, <1>13

LEMMA FailBackupRunKeeps ==
  ASSUME IInv, NEW b \in Backups, FailBackupRun(b)
  PROVE  IInv'
  <1> USE BackupConstants DEF IInv, Inside
  <1>1. /\ run \in [Backups -> Runs] /\ rows \in Seq(Rows)
        /\ \A c \in Backups : c # b => run[c].pc = "idle"
    BY Typed DEF GuardHeld, FailBackupRun
  <1>2. /\ run' \in [Backups -> Runs]
        /\ \A c \in Backups : c # b => run'[c] = run[c]
        /\ run'[b].pc = "leaving" /\ run'[b].bridge = run[b].bridge
        /\ run'[b].bundle = run[b].bundle /\ run'[b].row = run[b].row
    BY <1>1, GotoTyped DEF FailBackupRun, Inside
  <1>3. /\ run[b].pc = "failing" /\ (run[b].row # None => run[b].row \in DOMAIN rows)
        /\ UNCHANGED <<guard, owner, disk, torn, captures>>
        /\ staging' \subseteq staging
        /\ faults \in Nat /\ faults' \in 0 .. MaxFaults /\ faults <= faults'
    BY Typed DEF FailBackupRun, RowInHand, Fault
  <1>4. /\ rows' \in Seq(Rows) /\ Len(rows') = Len(rows) /\ DOMAIN rows' = DOMAIN rows
        /\ \A i \in DOMAIN rows :
              /\ rows'[i].bundle = rows[i].bundle
              /\ rows'[i].status = "VERIFIED" => rows[i].status = "VERIFIED"
    <2>1. CASE rows' = rows
      BY <1>1, <2>1
    <2>2. CASE run[b].row # None /\ rows' = [rows EXCEPT ![run[b].row].status = "FAILED"]
      <3>1. run[b].row \in DOMAIN rows
        BY <1>3, <2>2
      <3> QED
        BY <1>1, <2>2, <3>1, StatusTyped
    <2> QED
      BY <2>1, <2>2 DEF FailBackupRun
  <1>5. Len(rows) \in Nat /\ captures \in Nat
    BY <1>1, Typed
  <1>6. TypeOK'
    BY <1>1, <1>2, <1>3, <1>4, <1>5, Typed DEF TypeOK, Runs, Rows, RowsCounted, RowInHand, BundleInHand, MaxRows, MayAddRow, NeedsRow
  <1>7. GuardHeld'
    BY <1>1, <1>2, <1>3, <1>4, <1>5, Typed DEF GuardHeld
  <1>8. BundleInHand'
    BY <1>1, <1>2, <1>3, <1>4, <1>5, Typed DEF BundleInHand, GuardHeld, Captured, Good
  <1>9. RowInHand'
    BY <1>1, <1>2, <1>3, <1>4, <1>5, Typed DEF RowInHand, GuardHeld, NeedsRow
  <1>10. RowsCounted'
    BY <1>1, <1>2, <1>3, <1>4, <1>5, Typed DEF RowsCounted, GuardHeld, MayAddRow, NeedsRow, RowInHand
  <1>11. RowsNumbered'
    BY <1>1, <1>2, <1>3, <1>4, <1>5, Typed DEF RowsNumbered, RowInHand, BundleInHand, Captured, Bundles
  <1>12. KnownGoodKept'
    BY <1>1, <1>2, <1>3, <1>4, <1>5, Typed DEF KnownGoodKept, BundleInHand, RowInHand, RowsNumbered, Good, Captured, Bundles
  <1> QED
    BY <1>6, <1>7, <1>8, <1>9, <1>10, <1>11, <1>12

LEMMA CrashKeeps ==
  ASSUME IInv, NEW b \in Backups, Crash(b)
  PROVE  IInv'
  <1> USE BackupConstants
        DEF IInv, TypeOK, Inside, Bundles, Idle, NoFile, Fault, Goto, DropGuard,
            GuardFree, Reconciled, CreateRow, Kept, Orphan, Crash
  <1>1. TypeOK'
    <2>1. PICK taken \in BOOLEAN : Orphan(b, taken)
      OBVIOUS
    <2>2. owner' \in [by: Backups \cup {None}, age: 0 .. StaleAfter, taken: BOOLEAN]
      BY <2>1
    <2>3. guard' \in Backups \cup {None} /\ faults' \in 0 .. MaxFaults
      OBVIOUS
    <2>4. run' \in [Backups -> Runs]
      BY DEF Runs
    <2> QED
      BY <2>2, <2>3, <2>4 DEF Runs
  <1>2. GuardHeld'
    BY DEF GuardHeld
  <1>3. BundleInHand'
    BY DEF BundleInHand, GuardHeld, Captured, Good
  <1>4. RowInHand'
    BY DEF RowInHand, GuardHeld, NeedsRow
  <1>5. RowsCounted'
    BY DEF RowsCounted, GuardHeld, MayAddRow, NeedsRow, RowInHand
  <1>6. RowsNumbered'
    BY DEF RowsNumbered, RowInHand, BundleInHand, Captured
  <1>7. KnownGoodKept'
    BY DEF KnownGoodKept, BundleInHand, RowInHand, RowsNumbered, Good, Captured
  <1> QED
    BY <1>1, <1>2, <1>3, <1>4, <1>5, <1>6, <1>7

LEMMA NumberChangesHandsKeeps ==
  ASSUME IInv, NumberChangesHands
  PROVE  IInv'
  <1> USE BackupConstants
        DEF IInv, TypeOK, Inside, Bundles, Idle, NoFile, Fault, Goto, DropGuard,
            GuardFree, Reconciled, CreateRow, Kept, Misjudged, NumberChangesHands
  <1>1. TypeOK'
    <2>1. owner' = [owner EXCEPT !.taken = ~owner.taken]
      OBVIOUS
    <2>2. owner' \in [by: Backups \cup {None}, age: 0 .. StaleAfter, taken: BOOLEAN]
      BY <2>1
    <2>3. faults' \in 0 .. MaxFaults
      OBVIOUS
    <2> QED
      BY <2>2, <2>3
  <1>2. GuardHeld'
    BY DEF GuardHeld
  <1>3. BundleInHand'
    BY DEF BundleInHand, GuardHeld, Captured, Good
  <1>4. RowInHand'
    BY DEF RowInHand, GuardHeld, NeedsRow
  <1>5. RowsCounted'
    BY DEF RowsCounted, GuardHeld, MayAddRow, NeedsRow, RowInHand
  <1>6. RowsNumbered'
    BY DEF RowsNumbered, RowInHand, BundleInHand, Captured
  <1>7. KnownGoodKept'
    BY DEF KnownGoodKept, BundleInHand, RowInHand, RowsNumbered, Good, Captured
  <1> QED
    BY <1>1, <1>2, <1>3, <1>4, <1>5, <1>6, <1>7

LEMMA TickKeeps ==
  ASSUME IInv, Tick
  PROVE  IInv'
  <1> USE BackupConstants
        DEF IInv, TypeOK, Inside, Bundles, Idle, NoFile, Fault, Goto, DropGuard,
            GuardFree, Reconciled, CreateRow, Kept, Tick
  <1>1. TypeOK'
    BY DEF Rows, Runs, MaxRows, RowsCounted, MayAddRow, NeedsRow, RowInHand
  <1>2. GuardHeld'
    BY DEF GuardHeld
  <1>3. BundleInHand'
    BY DEF BundleInHand, GuardHeld, Captured, Good
  <1>4. RowInHand'
    BY DEF RowInHand, GuardHeld, NeedsRow
  <1>5. RowsCounted'
    BY DEF RowsCounted, GuardHeld, MayAddRow, NeedsRow, RowInHand
  <1>6. RowsNumbered'
    BY DEF RowsNumbered, RowInHand, BundleInHand, Captured
  <1>7. KnownGoodKept'
    BY DEF KnownGoodKept, BundleInHand, RowInHand, RowsNumbered, Good, Captured
  <1> QED
    BY <1>1, <1>2, <1>3, <1>4, <1>5, <1>6, <1>7

LEMMA StutterKeeps == IInv /\ UNCHANGED vars => IInv'
  BY DEF vars, IInv, TypeOK, GuardHeld, BundleInHand, RowInHand, RowsCounted,
         RowsNumbered, KnownGoodKept, MayAddRow, NeedsRow, Good

\* Every step of every process keeps the invariant.
LEMMA NextInv == IInv /\ [Next]_vars => IInv'
  <1> SUFFICES ASSUME IInv, [Next]_vars PROVE IInv'
    OBVIOUS
  <1>1. ASSUME NEW b \in Backups, Step(b) PROVE IInv'
    BY <1>1, CreateOwnerFileKeeps, JudgeOwnerFileKeeps, ReclaimOwnerFileKeeps, ReconcileKeeps, CaptureKeeps,
       NoCaptureLeftKeeps, PublishKeeps, CreateBackupRunKeeps,
       FinishBackupRunKeeps, PruneKeeps, WeeklySnapshotKeeps, RecordFailureKeeps,
       FailBackupRunKeeps, LeaveLocksKeeps
    DEF Step
  <1>2. ASSUME NEW b \in Backups,
               \/ \E bridge \in BOOLEAN : TakeGuard(b, bridge)
               \/ StepFails(b) \/ PruneBreaksOff(b) \/ Crash(b)
        PROVE  IInv'
    BY <1>2, TakeGuardKeeps, StepFailsKeeps, PruneBreaksOffKeeps, CrashKeeps
  <1> QED
    BY <1>1, <1>2, NumberChangesHandsKeeps, TickKeeps, StutterKeeps DEF Next

\* The inductive invariant holds in every reachable state.
THEOREM Inductive == Spec => []IInv
  <1> QED
    BY InitInv, NextInv, PTL DEF Spec

\* Every variable keeps its type, the table of runs its bound.
THEOREM TypeCorrect == Spec => []TypeOK
  <1>1. IInv => TypeOK
    BY DEF IInv
  <1> QED
    BY <1>1, Inductive, PTL

\* Two processes are never between the locks: each of them would hold the
\* kernel lock on the guard file.
THEOREM OneAtATime == Spec => []OneBackupAtATime
  <1>1. IInv => OneBackupAtATime
    BY DEF IInv, GuardHeld, OneBackupAtATime, Inside
  <1> QED
    BY <1>1, Inductive, PTL

\* A whole bundle at least as new as every VERIFIED run's stays on disk.
THEOREM KnownGood == Spec => []KnownGoodKept
  <1>1. IInv => KnownGoodKept
    BY DEF IInv
  <1> QED
    BY <1>1, Inductive, PTL

\* No step takes a run record out of FAILED.
THEOREM FailedFinal == Spec => FailedIsFinal
  <1>1. ASSUME IInv, [Next]_vars, NEW i \in DOMAIN rows, rows[i].status = "FAILED"
        PROVE  rows'[i].status = "FAILED"
    <2>1. rows \in Seq(Rows)
      BY <1>1, Typed DEF IInv
    <2>2. ASSUME NEW b \in Backups, CreateRow(b) PROVE rows'[i] = rows[i]
      BY <2>1, <2>2 DEF CreateRow
    <2>3. ASSUME NEW b \in Backups, FinishBackupRun(b) PROVE rows'[i] = rows[i]
      <3>1. run[b].row # i /\ run[b].row \in DOMAIN rows
        BY <1>1, <2>3 DEF IInv, RowInHand, FinishBackupRun
      <3> QED
        BY <2>1, <2>3, <3>1 DEF FinishBackupRun
    <2>4. ASSUME NEW b \in Backups, Reconcile(b) PROVE rows'[i].status = "FAILED"
      BY <1>1, <2>1, <2>4, ReconciledTyped DEF Reconcile
    <2>5. ASSUME NEW b \in Backups, FailBackupRun(b) PROVE rows'[i].status = "FAILED"
      <3>1. run[b].row # None => run[b].row \in DOMAIN rows
        BY <1>1, <2>5 DEF IInv, RowInHand, FailBackupRun
      <3>2. CASE rows' = rows
        BY <1>1, <3>2
      <3>3. CASE run[b].row # None /\ rows' = [rows EXCEPT ![run[b].row].status = "FAILED"]
        BY <1>1, <2>1, <3>1, <3>3, StatusTyped
      <3> QED
        BY <2>5, <3>2, <3>3 DEF FailBackupRun
    <2>6. ASSUME NEW b \in Backups,
                 \/ CreateBackupRun(b) \/ RecordFailure(b)
          PROVE  rows'[i].status = "FAILED"
      BY <1>1, <2>2, <2>6 DEF CreateBackupRun, RecordFailure
    <2>7. ASSUME NEW b \in Backups,
                 \/ \E bridge \in BOOLEAN : TakeGuard(b, bridge)
                 \/ CreateOwnerFile(b) \/ JudgeOwnerFile(b) \/ ReclaimOwnerFile(b)
                 \/ Capture(b) \/ NoCaptureLeft(b) \/ Publish(b) \/ Prune(b)
                 \/ WeeklySnapshot(b) \/ LeaveLocks(b)
                 \/ StepFails(b) \/ PruneBreaksOff(b) \/ Crash(b)
          PROVE  rows' = rows
      BY <2>7 DEF TakeGuard, CreateOwnerFile, JudgeOwnerFile, ReclaimOwnerFile,
           Capture, NoCaptureLeft, Publish, Prune, WeeklySnapshot, LeaveLocks,
           StepFails, PruneBreaksOff, Crash
    <2>8. CASE NumberChangesHands \/ Tick \/ UNCHANGED vars
      BY <1>1, <2>8 DEF NumberChangesHands, Tick, vars
    <2> QED
      BY <1>1, <2>3, <2>4, <2>5, <2>6, <2>7, <2>8 DEF Next, Step
  <1>2. IInv /\ [Next]_vars =>
          [\A i \in DOMAIN rows :
             rows[i].status = "FAILED" => rows'[i].status = "FAILED"]_vars
    BY <1>1
  <1> QED
    BY <1>2, Inductive, PTL DEF Spec, FailedIsFinal
=============================================================================
