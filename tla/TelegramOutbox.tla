--------------------------- MODULE TelegramOutbox ---------------------------
(***************************************************************************)
(* The outbox of verified alerts (scripts/telegram_alert_outbox.py).  A    *)
(* verified version of an event puts one row into alert_outbox; executions *)
(* of deliver_pending (the live cycle, the notifier and an operator's      *)
(* shell run it on their own) send each open row to a Telegram chat under  *)
(* a lease of that row, or edit the message of the event's earlier         *)
(* version; a later cleanup deletes the duplicates on record.  Telegram    *)
(* and the ledger share no transaction: a message can be in the chat and   *)
(* its answer lost.                                                        *)
(***************************************************************************)
EXTENDS Naturals, FiniteSets, SequencesExt

CONSTANTS
    Events,
    MaxRows,        \* bound on the rows of the outbox
    Deliverers,     \* concurrent executions of deliver_pending
    LeaseTicks,     \* ttl_seconds of a delivery lease
    CallTicks,      \* the longest from a lease to the record of its call
    MaxAge,         \* max_age_hours of an unsent row
    MaxTime,        \* bound on the clock
    MaxMessages,    \* bound on the messages in the chat
    MaxFaults,      \* bound on crashes and lost answers
    Nobody          \* no deliverer

\* The client's timeout of 15 s, and up to 60 s for the ledger's lock, against
\* a lease of 120 s.
ASSUME DurationsAssumption ==
    /\ CallTicks \in Nat \ {0} /\ LeaseTicks \in Nat /\ CallTicks < LeaseTicks
    /\ MaxAge \in Nat /\ MaxTime \in Nat

ASSUME BoundsAssumption ==
    /\ IsFiniteSet(Events)
    /\ MaxRows \in Nat /\ MaxMessages \in Nat /\ MaxFaults \in Nat

ASSUME NobodyAssumption == Nobody \notin Deliverers

VARIABLES
    outbox,     \* alert_outbox, in the order of created_at
    lease,      \* alert_delivery_leases: who has a row until when
    sent,       \* alert_delivery_attempts with a message: row and message
    chat,       \* the row that posted each message of the chat
    deleted,    \* messages deleted from the chat
    deliverer,  \* what each execution of deliver_pending remembers
    cleanup,    \* what a cleanup has yet to delete, and has tried before
    now,
    faults      \* crashes and lost answers

vars == <<outbox, lease, sent, chat, deleted, deliverer, cleanup, now, faults>>

Rows == 1 .. MaxRows
Messages == 1 .. MaxMessages
None == 0   \* no version, row or message

Row == [event : Events, version : Nat \ {0}, created : 0 .. MaxTime,
        status : {"PENDING", "RETRY", "SENT", "EXPIRED_STALE"},
        message : Messages \cup {None}]

DelivererState == [pc : {"idle", "next", "call", "posted", "release"},
                   todo : SUBSET Rows, row : Rows \cup {None},
                   message : Messages \cup {None}, since : 0 .. MaxTime]

TypeOK ==
    /\ outbox \in Seq(Row) /\ Len(outbox) <= MaxRows
    /\ \A r \in DOMAIN outbox : outbox[r].status = "SENT" => outbox[r].message \in DOMAIN chat
    /\ lease \in [Rows -> [by : Deliverers \cup {Nobody}, until : 0 .. MaxTime + LeaseTicks]]
    /\ sent \subseteq Rows \X Messages
    /\ chat \in Seq(Rows) /\ Len(chat) <= MaxMessages
    /\ deleted \subseteq DOMAIN chat
    /\ deliverer \in [Deliverers -> DelivererState]
    /\ cleanup \in [todo : SUBSET (Rows \X Messages), tried : SUBSET (Rows \X Messages)]
    /\ now \in 0 .. MaxTime
    /\ faults \in 0 .. MaxFaults

Free == [by |-> Nobody, until |-> 0]

IdleDeliverer == [pc |-> "idle", todo |-> {}, row |-> None, message |-> None, since |-> 0]

Init ==
    /\ outbox = <<>>
    /\ lease = [r \in Rows |-> Free]
    /\ sent = {}
    /\ chat = <<>>
    /\ deleted = {}
    /\ deliverer = [d \in Deliverers |-> IdleDeliverer]
    /\ cleanup = [todo |-> {}, tried |-> {}]
    /\ now = 0
    /\ faults = 0

-----------------------------------------------------------------------------
(* The rows.                                                               *)

Open(r) == outbox[r].status \in {"PENDING", "RETRY"}

RowsOf(e) == {r \in DOMAIN outbox : outbox[r].event = e}

NewRow(e) == [event |-> e, version |-> Cardinality(RowsOf(e)) + 1, created |-> now,
              status |-> "PENDING", message |-> None]

\* enqueue_verified_alerts, of events with a verified version that has no row
\* yet; which are fresh and graded well enough is left open, and versions are
\* numbered among the announced ones. The guard on the time lets every row
\* grow old.
Enqueue ==
    /\ now + MaxAge <= MaxTime
    /\ \E qualified \in SUBSET Events :
        LET events == SetToSeq(qualified)
        IN  /\ qualified # {} /\ Len(outbox) + Len(events) <= MaxRows
            /\ outbox' = outbox \o [k \in DOMAIN events |-> NewRow(events[k])]
    /\ UNCHANGED <<lease, sent, chat, deleted, deliverer, cleanup, now, faults>>

TooOldUntried(r) ==   \* a fault
    outbox[r].status = "PENDING" /\ outbox[r].created + MaxAge <= now
TooOld(r) == Open(r) /\ outbox[r].created + MaxAge <= now

\* expire_stale_pending, which every live cycle runs first.
Expire ==
    /\ \E r \in DOMAIN outbox : TooOld(r)
    /\ outbox' = [r \in DOMAIN outbox |->
          IF TooOld(r) THEN [outbox[r] EXCEPT !.status = "EXPIRED_STALE"] ELSE outbox[r]]
    /\ UNCHANGED <<lease, sent, chat, deleted, deliverer, cleanup, now, faults>>

-----------------------------------------------------------------------------
(* deliver_pending: the open rows are read once, and each is then sent     *)
(* under a lease, whatever has become of it since.                         *)

Start(d) ==
    /\ deliverer[d].pc = "idle"
    /\ \E r \in DOMAIN outbox : Open(r)
    /\ deliverer' = [deliverer EXCEPT ![d].pc = "next",
                                      ![d].todo = {r \in DOMAIN outbox : Open(r)}]
    /\ UNCHANGED <<outbox, lease, sent, chat, deleted, cleanup, now, faults>>

\* Goes on to the rows that were read after r.
Following(d, r) ==
    LET rest == deliverer[d].todo \ {r}
    IN  IF rest = {} THEN IdleDeliverer ELSE [IdleDeliverer EXCEPT !.pc = "next", !.todo = rest]

Leasable(r) == lease[r].by = Nobody \/ lease[r].until <= now

\* The message of the newest earlier version of the event that is sent, if any.
Earlier(r) == {s \in DOMAIN outbox : /\ outbox[s].event = outbox[r].event
                                     /\ outbox[s].version < outbox[r].version
                                     /\ outbox[s].status = "SENT"}
Previous(r) ==
    LET newest == {s \in Earlier(r) : \A t \in Earlier(r) : outbox[t].version <= outbox[s].version}
    IN  IF Earlier(r) = {} THEN {None} ELSE {outbox[s].message : s \in newest}

\* acquire_delivery_lease, and the earlier message is read; no other process
\* tells the two steps apart.
Acquire(d) ==
    /\ deliverer[d].pc = "next"
    /\ \E r \in deliverer[d].todo :
        /\ \A s \in deliverer[d].todo : r <= s
        /\ IF Leasable(r)
           THEN /\ lease' = [lease EXCEPT ![r] = [by |-> d, until |-> now + LeaseTicks]]
                /\ \E message \in Previous(r) :
                    deliverer' = [deliverer EXCEPT ![d].pc = "call", ![d].row = r,
                                                   ![d].message = message, ![d].since = now]
           ELSE /\ lease' = lease
                /\ deliverer' = [deliverer EXCEPT ![d] = Following(d, r)]
    /\ UNCHANGED <<outbox, sent, chat, deleted, cleanup, now, faults>>

\* A call is with Telegram, or about to be.
Calling(d) == deliverer[d].pc \in {"call", "posted"}

\* Telegram posts the message, or edits the earlier one.
Post(d) ==
    /\ deliverer[d].pc = "call"
    /\ IF deliverer[d].message = None
       THEN /\ Len(chat) < MaxMessages
            /\ chat' = Append(chat, deliverer[d].row)
            /\ deliverer' = [deliverer EXCEPT ![d].pc = "posted", ![d].message = Len(chat) + 1]
       ELSE /\ deliverer[d].message \notin deleted
            /\ chat' = chat
            /\ deliverer' = [deliverer EXCEPT ![d].pc = "posted"]
    /\ UNCHANGED <<outbox, lease, sent, deleted, cleanup, now, faults>>

Recorded(d, status, message) ==
    /\ outbox' = [outbox EXCEPT ![deliverer[d].row].status = status,
                                ![deliverer[d].row].message = message]
    /\ deliverer' = [deliverer EXCEPT ![d].pc = "release", ![d].message = None, ![d].since = 0]

AttemptForgotten(d) == sent   \* a fault
AttemptAdded(d) == sent \cup {<<deliverer[d].row, deliverer[d].message>>}

RecordSent(d) ==
    /\ deliverer[d].pc = "posted"
    /\ Recorded(d, "SENT", deliverer[d].message)
    /\ sent' = AttemptAdded(d)
    /\ UNCHANGED <<lease, chat, deleted, cleanup, now, faults>>

\* The call fails (RuntimeError), also when Telegram acted and the answer is
\* lost; the row keeps the message it may have.
RecordError(d) ==
    /\ Calling(d)
    /\ deliverer[d].pc = "posted" => faults < MaxFaults
    /\ Recorded(d, "RETRY", outbox[deliverer[d].row].message)
    /\ faults' = IF deliverer[d].pc = "posted" THEN faults + 1 ELSE faults
    /\ UNCHANGED <<lease, sent, chat, deleted, cleanup, now>>

\* release_delivery_lease deletes the lease with the execution's own token.
ReleasedAny(r, d) == [lease EXCEPT ![r] = Free]   \* a fault
ReleasedOwn(r, d) == IF lease[r].by = d THEN [lease EXCEPT ![r] = Free] ELSE lease

Release(d) ==
    /\ deliverer[d].pc = "release"
    /\ lease' = ReleasedOwn(deliverer[d].row, d)
    /\ deliverer' = [deliverer EXCEPT ![d] = Following(d, deliverer[d].row)]
    /\ UNCHANGED <<outbox, sent, chat, deleted, cleanup, now, faults>>

\* The process stops, or another exception ends it; its lease stays.
Crash(d) ==
    /\ deliverer[d].pc # "idle"
    /\ faults < MaxFaults
    /\ faults' = faults + 1
    /\ deliverer' = [deliverer EXCEPT ![d] = IdleDeliverer]
    /\ UNCHANGED <<outbox, lease, sent, chat, deleted, cleanup, now>>

\* No execution stays longer than CallTicks between its lease and its record.
Tick ==
    /\ now < MaxTime
    /\ \A d \in Deliverers : Calling(d) => now - deliverer[d].since < CallTicks
    /\ now' = now + 1
    /\ UNCHANGED <<outbox, lease, sent, chat, deleted, deliverer, cleanup, faults>>

-----------------------------------------------------------------------------
(* cleanup_duplicate_deliveries: the attempts whose message is not their   *)
(* row's are read once; each message is then deleted, and never tried      *)
(* again whether that succeeds or fails.                                   *)

DuplicatesAll == sent   \* a fault
Duplicates == {a \in sent : a[2] # outbox[a[1]].message}

CleanupStart ==
    /\ cleanup.todo = {}
    /\ Duplicates \ cleanup.tried # {}
    /\ cleanup' = [cleanup EXCEPT !.todo = Duplicates \ cleanup.tried]
    /\ UNCHANGED <<outbox, lease, sent, chat, deleted, deliverer, now, faults>>

CleanupDelete ==
    /\ \E a \in cleanup.todo :
        /\ cleanup' = [todo |-> cleanup.todo \ {a}, tried |-> cleanup.tried \cup {a}]
        /\ deleted' \in {deleted, deleted \cup {a[2]}}
    /\ UNCHANGED <<outbox, lease, sent, chat, deliverer, now, faults>>

-----------------------------------------------------------------------------
\* A started execution goes on.
Step(d) == Acquire(d) \/ Post(d) \/ RecordSent(d) \/ RecordError(d) \/ Release(d)

Next ==
    \/ Enqueue \/ Expire \/ Tick \/ CleanupStart \/ CleanupDelete
    \/ \E d \in Deliverers : Start(d) \/ Step(d) \/ Crash(d)

Spec == Init /\ [][Next]_vars

\* The live cycle repeats itself and expires rows each time, every call returns
\* within its timeout, and time passes.
FairSpec == Spec /\ WF_vars(Tick) /\ WF_vars(Expire) /\ \A d \in Deliverers : WF_vars(Step(d))

-----------------------------------------------------------------------------
(* Properties.                                                             *)

\* "The alert_delivery_leases table separately prevents concurrent Telegram
\* deliveries" (LIVE_PIPELINE_RUNBOOK.md): no row is with Telegram twice at a
\* time, although leases expire under crashed executions and rows are read
\* long before they are sent.
OneDeliveryAtATime ==
    \A c, d \in Deliverers :
        Calling(c) /\ Calling(d) /\ deliverer[c].row = deliverer[d].row => c = d

\* Every message of the chat is on record for the cleanup, or with its
\* deliverer still, save one for each crash or lost answer.
MessagesOnRecord ==
    LET known == {a[2] : a \in sent} \cup {deliverer[d].message : d \in Deliverers}
    IN  Cardinality(DOMAIN chat \ known) <= faults

\* The cleanup of duplicates, however it races with deliveries and resent rows,
\* deletes no message of a sent row that belongs to one version alone; the
\* messages that edits share between versions are CleanupKeepsSent's.
CleanupKeepsUnshared ==
    \A r \in DOMAIN outbox :
        outbox[r].status = "SENT" /\ outbox[r].message \in deleted =>
            \E a \in sent : a[1] # r /\ a[2] = outbox[r].message

\* No row stays open: it is sent or expired in the end, although calls fail for
\* ever, executions crash with its lease, and a failing call reopens a row that
\* others sent or expired meanwhile.
OpenRow(r) == r \in DOMAIN outbox /\ Open(r)

EveryAlertSettles == \A r \in Rows : OpenRow(r) ~> ~OpenRow(r)

-----------------------------------------------------------------------------
(* What the repository's texts say and the code does not do.               *)

\* "delete superseded duplicate Telegram messages recorded in the audit log"
\* (--cleanup-duplicates): a message that a sent row holds is not superseded.
CleanupKeepsSent ==
    \A r \in DOMAIN outbox : outbox[r].status = "SENT" => outbox[r].message \notin deleted

=============================================================================
