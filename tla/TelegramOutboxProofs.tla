------------------------ MODULE TelegramOutboxProofs ------------------------
(***************************************************************************)
(* Proofs about TelegramOutbox, for every set of events and executions and *)
(* every value of the durations and bounds.                                *)
(***************************************************************************)
EXTENDS TelegramOutbox, FiniteSetTheorems, SequenceTheorems, TLAPS

\* What an execution remembers is about rows and messages that there are.
DelivererOK(d) ==
    /\ deliverer[d].todo \subseteq DOMAIN outbox
    /\ deliverer[d].pc \in {"call", "posted", "release"} => deliverer[d].row \in DOMAIN outbox
    /\ deliverer[d].message \in DOMAIN chat \cup {None}
    /\ deliverer[d].pc = "posted" => deliverer[d].message # None

LocalsOK == \A d \in Deliverers : DelivererOK(d)

\* As long as its call may be with Telegram, an execution holds the lease it
\* acquired, and the time a call may take has not passed since.
Held(d) ==
    /\ lease[deliverer[d].row] = [by |-> d, until |-> deliverer[d].since + LeaseTicks]
    /\ now <= deliverer[d].since + CallTicks

HeldOK == \A d \in Deliverers : Calling(d) => Held(d)

\* The cleanup knows of messages only that were sent.
SentOK == cleanup.todo \subseteq sent /\ \A a \in sent : a[2] \in DOMAIN chat

IInv == TypeOK /\ LocalsOK /\ HeldOK /\ SentOK

-----------------------------------------------------------------------------
LEMMA RowsExist == TypeOK => DOMAIN outbox \subseteq Rows /\ DOMAIN chat \subseteq Messages
  BY BoundsAssumption DEF TypeOK, Rows, Messages

LEMMA IInvInit == Init => IInv
  <1> SUFFICES ASSUME Init PROVE IInv
    OBVIOUS
  <1>1. TypeOK
    <2>1. IdleDeliverer \in DelivererState
      BY DurationsAssumption DEF IdleDeliverer, DelivererState
    <2>2. Free \in [by : Deliverers \cup {Nobody}, until : 0 .. MaxTime + LeaseTicks]
      BY DurationsAssumption DEF Free
    <2> QED
      BY <2>1, <2>2, DurationsAssumption, BoundsAssumption DEF Init, TypeOK
  <1> QED
    BY <1>1 DEF Init, IInv, LocalsOK, DelivererOK, HeldOK, Calling, SentOK, IdleDeliverer

-----------------------------------------------------------------------------
(* Steps that leave executions and leases alone.                           *)

\* Rows and messages that come do not disturb what executions remember.
LEMMA LeasesUntouched ==
    ASSUME IInv, TypeOK', UNCHANGED <<lease, deliverer, chat, sent, now>>,
           DOMAIN outbox \subseteq DOMAIN outbox', cleanup'.todo \subseteq sent
    PROVE  IInv'
  BY DEF IInv, LocalsOK, DelivererOK, HeldOK, Held, Calling, SentOK

LEMMA NewRowType ==
    ASSUME TypeOK, now + MaxAge <= MaxTime, NEW e \in Events PROVE NewRow(e) \in Row
  <1>1. IsFiniteSet(DOMAIN outbox)
    <2>1. DOMAIN outbox = 1 .. Len(outbox) /\ Len(outbox) \in Nat
      BY DEF TypeOK
    <2> QED
      BY <2>1, FS_Interval
  <1>2. IsFiniteSet(RowsOf(e))
    BY <1>1, FS_Subset DEF RowsOf
  <1>3. Cardinality(RowsOf(e)) \in Nat
    BY <1>2, FS_CardinalityType
  <1> QED
    BY <1>3, DurationsAssumption DEF NewRow, Row, TypeOK

LEMMA EnqueueRows ==
    ASSUME IInv, Enqueue
    PROVE  /\ outbox' \in Seq(Row) /\ Len(outbox') <= MaxRows /\ DOMAIN outbox \subseteq DOMAIN outbox'
           /\ \A r \in DOMAIN outbox : outbox'[r] = outbox[r]
           /\ \A r \in DOMAIN outbox' \ DOMAIN outbox :
                 outbox'[r].status = "PENDING" /\ outbox'[r].message = None
  <1>1. PICK qualified \in SUBSET Events :
            /\ Len(outbox) + Len(SetToSeq(qualified)) <= MaxRows
            /\ outbox' = outbox \o [k \in DOMAIN SetToSeq(qualified)
                                        |-> NewRow(SetToSeq(qualified)[k])]
    BY DEF Enqueue
  <1> DEFINE events == SetToSeq(qualified)
             added == [k \in DOMAIN events |-> NewRow(events[k])]
  <1>2. events \in [1 .. Cardinality(qualified) -> qualified] /\ Cardinality(qualified) \in Nat
    <2>1. IsFiniteSet(qualified)
      BY BoundsAssumption, FS_Subset
    <2>2. /\ Cardinality(qualified) \in Nat
          /\ ExistsBijection(1 .. Cardinality(qualified), qualified)
      BY <2>1, FS_CardinalityType
    <2>3. \E f \in [1 .. Cardinality(qualified) -> qualified] : IsInjective(f)
      BY <2>2 DEF ExistsBijection, Bijection, Injection, IsInjective
    <2> QED
      BY <2>2, <2>3 DEF SetToSeq
  <1> HIDE DEF events
  <1>3. /\ added \in Seq(Row) /\ Len(added) = Len(events) /\ Len(events) \in Nat
        /\ \A k \in 1 .. Len(events) : added[k].status = "PENDING" /\ added[k].message = None
    <2>1. \A k \in 1 .. Cardinality(qualified) : NewRow(events[k]) \in Row
      BY <1>2, NewRowType DEF Enqueue, IInv
    <2>2. \A k \in DOMAIN events :
              NewRow(events[k]).status = "PENDING" /\ NewRow(events[k]).message = None
      BY DEF NewRow
    <2> QED
      BY <1>2, <2>1, <2>2
  <1>4. outbox' = outbox \o added /\ Len(outbox) + Len(events) <= MaxRows
    BY <1>1 DEF events
  <1> HIDE DEF added
  <1>5. outbox \in Seq(Row) /\ Len(outbox) \in Nat
    BY DEF IInv, TypeOK
  <1>6. /\ outbox' \in Seq(Row) /\ Len(outbox') = Len(outbox) + Len(events)
        /\ \A r \in 1 .. Len(outbox) + Len(events) :
              outbox'[r] = IF r <= Len(outbox) THEN outbox[r] ELSE added[r - Len(outbox)]
    <2>1. outbox \in Seq(Row) /\ added \in Seq(Row)
      BY <1>3, <1>5
    <2>2. /\ outbox \o added \in Seq(Row) /\ Len(outbox \o added) = Len(outbox) + Len(added)
          /\ \A r \in 1 .. Len(outbox) + Len(added) :
                (outbox \o added)[r] = IF r <= Len(outbox) THEN outbox[r]
                                       ELSE added[r - Len(outbox)]
      BY <2>1, ConcatProperties
    <2> QED
      BY <1>3, <1>4, <2>2
  <1>7. DOMAIN outbox = 1 .. Len(outbox) /\ DOMAIN outbox' = 1 .. Len(outbox) + Len(events)
    BY <1>3, <1>5, <1>6
  <1>8. \A r \in DOMAIN outbox' \ DOMAIN outbox :
            r - Len(outbox) \in 1 .. Len(events) /\ outbox'[r] = added[r - Len(outbox)]
    BY <1>3, <1>5, <1>6, <1>7
  <1>9. \A r \in DOMAIN outbox : r \in DOMAIN outbox' /\ outbox'[r] = outbox[r]
    BY <1>3, <1>5, <1>6, <1>7
  <1> QED
    BY <1>3, <1>4, <1>6, <1>8, <1>9

LEMMA EnqueueStep == ASSUME IInv, Enqueue PROVE IInv'
  <1>1. \A r \in DOMAIN outbox' :
            outbox'[r].status = "SENT" => outbox'[r].message \in DOMAIN chat
    BY EnqueueRows DEF IInv, TypeOK
  <1>2. TypeOK'
    BY <1>1, EnqueueRows DEF IInv, TypeOK, Enqueue
  <1> QED
    BY <1>2, EnqueueRows, LeasesUntouched DEF Enqueue, IInv, SentOK

LEMMA ExpireRows ==
    ASSUME IInv, Expire
    PROVE  /\ outbox' \in Seq(Row) /\ Len(outbox') = Len(outbox) /\ DOMAIN outbox' = DOMAIN outbox
           /\ \A r \in DOMAIN outbox :
                 /\ outbox'[r] = outbox[r] \/ outbox'[r].status = "EXPIRED_STALE"
                 /\ outbox'[r].message = outbox[r].message
  <1>1. \A row \in Row : /\ [row EXCEPT !.status = "EXPIRED_STALE"] \in Row
                         /\ [row EXCEPT !.status = "EXPIRED_STALE"].status = "EXPIRED_STALE"
                         /\ [row EXCEPT !.status = "EXPIRED_STALE"].message = row.message
    BY DEF Row
  <1>2. outbox \in Seq(Row) /\ \A r \in DOMAIN outbox : outbox[r] \in Row
    BY DEF IInv, TypeOK
  <1>3. \A r \in DOMAIN outbox :
            /\ outbox'[r] \in Row
            /\ outbox'[r] = outbox[r] \/ outbox'[r].status = "EXPIRED_STALE"
            /\ outbox'[r].message = outbox[r].message
    BY <1>1, <1>2 DEF Expire
  <1> QED
    BY <1>2, <1>3 DEF Expire

LEMMA ExpireStep == ASSUME IInv, Expire PROVE IInv'
  <1>1. TypeOK'
    BY ExpireRows DEF IInv, TypeOK, Expire
  <1> QED
    BY <1>1, ExpireRows, LeasesUntouched DEF Expire, IInv, SentOK

LEMMA TickStep == ASSUME IInv, Tick PROVE IInv'
  <1>1. TypeOK'
    BY DurationsAssumption DEF IInv, TypeOK, Tick
  <1>2. LocalsOK'
    BY DEF IInv, LocalsOK, DelivererOK, Tick
  <1>4. SentOK'
    BY DEF IInv, SentOK, Tick
  <1>3. HeldOK'
    <2> SUFFICES ASSUME NEW d \in Deliverers, Calling(d)' PROVE Held(d)'
      BY DEF HeldOK
    <2>1. Calling(d) /\ Held(d) /\ now - deliverer[d].since < CallTicks
      BY DEF IInv, HeldOK, Tick, Calling
    <2>2. deliverer[d].since \in Nat /\ now \in Nat /\ CallTicks \in Nat
      BY DurationsAssumption DEF IInv, TypeOK, DelivererState
    <2> QED
      BY <2>1, <2>2 DEF Held, Tick
  <1> QED
    BY <1>1, <1>2, <1>3, <1>4 DEF IInv

LEMMA CleanupStep == ASSUME IInv, CleanupStart \/ CleanupDelete PROVE IInv'
  <1>1. CASE CleanupStart
    <2>1. Duplicates \subseteq sent
      BY DEF Duplicates
    <2>2. TypeOK'
      BY <1>1, <2>1 DEF IInv, TypeOK, CleanupStart
    <2>3. cleanup'.todo \subseteq sent
      BY <1>1, <2>1 DEF IInv, TypeOK, CleanupStart
    <2> QED
      BY <1>1, <2>2, <2>3, LeasesUntouched DEF CleanupStart
  <1>2. CASE CleanupDelete
    <2>1. PICK a \in cleanup.todo :
              /\ cleanup' = [todo |-> cleanup.todo \ {a}, tried |-> cleanup.tried \cup {a}]
              /\ deleted' \in {deleted, deleted \cup {a[2]}}
      BY <1>2 DEF CleanupDelete
    <2>2. a \in Rows \X Messages /\ a[2] \in DOMAIN chat
      BY DEF IInv, TypeOK, SentOK
    <2>3. cleanup.todo \subseteq Rows \X Messages /\ cleanup.tried \subseteq Rows \X Messages
      BY DEF IInv, TypeOK
    <2>4. TypeOK'
      BY <1>2, <2>1, <2>2, <2>3 DEF IInv, TypeOK, CleanupDelete
    <2> QED
      BY <1>2, <2>1, <2>4, LeasesUntouched DEF CleanupDelete, IInv, SentOK
  <1> QED
    BY <1>1, <1>2

-----------------------------------------------------------------------------
(* The steps of one execution.                                             *)

\* What one execution d does leaves the others their leases.
LEMMA OneDeliverer ==
    ASSUME IInv, TypeOK', NEW d \in Deliverers, NEW run \in DelivererState,
           deliverer' = [deliverer EXCEPT ![d] = run],
           DOMAIN outbox' = DOMAIN outbox, DOMAIN chat \subseteq DOMAIN chat',
           run.todo \subseteq DOMAIN outbox,
           run.pc \in {"call", "posted", "release"} => run.row \in DOMAIN outbox,
           run.message \in DOMAIN chat' \cup {None},
           run.pc = "posted" => run.message # None,
           run.pc \in {"call", "posted"} =>
               /\ lease'[run.row] = [by |-> d, until |-> run.since + LeaseTicks]
               /\ now <= run.since + CallTicks,
           \A c \in Deliverers \ {d} : Calling(c) =>
               lease'[deliverer[c].row] = lease[deliverer[c].row],
           sent \subseteq sent', \A a \in sent' : a[2] \in DOMAIN chat',
           UNCHANGED <<cleanup, now>>
    PROVE  IInv'
  <1>1. deliverer'[d] = run /\ \A c \in Deliverers \ {d} : deliverer'[c] = deliverer[c]
    BY DEF IInv, TypeOK
  <1>2. LocalsOK'
    <2>1. DelivererOK(d)'
      BY <1>1 DEF DelivererOK
    <2>2. ASSUME NEW c \in Deliverers \ {d} PROVE DelivererOK(c)'
      BY <1>1 DEF IInv, LocalsOK, DelivererOK
    <2> QED
      BY <2>1, <2>2 DEF LocalsOK
  <1>3. HeldOK'
    <2>1. Calling(d)' => Held(d)'
      BY <1>1 DEF Calling, Held
    <2>2. ASSUME NEW c \in Deliverers \ {d} PROVE Calling(c)' => Held(c)'
      BY <1>1 DEF IInv, HeldOK, Calling, Held
    <2> QED
      BY <2>1, <2>2 DEF HeldOK
  <1>4. SentOK'
    BY DEF IInv, SentOK
  <1> QED
    BY <1>2, <1>3, <1>4 DEF IInv

\* Steps of an execution by which only its own record changes.
LEMMA OnlyDeliverer ==
    ASSUME IInv, NEW d \in Deliverers, NEW run \in DelivererState,
           deliverer' = [deliverer EXCEPT ![d] = run],
           run.pc \in {"idle", "next"}, run.todo \subseteq DOMAIN outbox, run.message = None,
           UNCHANGED <<outbox, sent, chat, deleted, cleanup, now>>, faults' \in 0 .. MaxFaults,
           lease' \in [Rows -> [by : Deliverers \cup {Nobody}, until : 0 .. MaxTime + LeaseTicks]],
           \A c \in Deliverers \ {d} : Calling(c) =>
               lease'[deliverer[c].row] = lease[deliverer[c].row]
    PROVE  IInv'
  <1>1. TypeOK'
    BY DEF IInv, TypeOK
  <1>2. \A a \in sent : a[2] \in DOMAIN chat
    BY DEF IInv, SentOK
  <1> QED
    BY <1>1, <1>2, OneDeliverer

LEMMA IdleType ==
    /\ IdleDeliverer \in DelivererState /\ IdleDeliverer.pc = "idle"
    /\ IdleDeliverer.todo = {} /\ IdleDeliverer.message = None
  BY DurationsAssumption DEF IdleDeliverer, DelivererState

LEMMA FollowingType ==
    ASSUME IInv, NEW d \in Deliverers, NEW r
    PROVE  /\ Following(d, r) \in DelivererState /\ Following(d, r).pc \in {"idle", "next"}
           /\ Following(d, r).todo \subseteq DOMAIN outbox /\ Following(d, r).message = None
  <1>1. deliverer[d].todo \subseteq DOMAIN outbox /\ deliverer[d].todo \subseteq Rows
    BY DEF IInv, LocalsOK, DelivererOK, TypeOK, DelivererState
  <1> DEFINE rest == deliverer[d].todo \ {r}
             run == [IdleDeliverer EXCEPT !.pc = "next", !.todo = rest]
  <1>2. rest \subseteq DOMAIN outbox /\ rest \in SUBSET Rows
    BY <1>1
  <1> HIDE DEF rest
  <1>3. /\ run \in DelivererState /\ run.pc = "next" /\ run.todo = rest /\ run.message = None
    BY <1>2, IdleType DEF DelivererState
  <1>4. Following(d, r) = IF rest = {} THEN IdleDeliverer ELSE run
    BY DEF Following, rest
  <1> QED
    BY <1>2, <1>3, <1>4, IdleType

LEMMA StartStep == ASSUME IInv, NEW d \in Deliverers, Start(d) PROVE IInv'
  <1> DEFINE run == [deliverer[d] EXCEPT !.pc = "next", !.todo = {r \in DOMAIN outbox : Open(r)}]
  <1>1. deliverer' = [deliverer EXCEPT ![d] = run] /\ deliverer[d] \in DelivererState
    BY DEF Start, IInv, TypeOK
  <1>2. {r \in DOMAIN outbox : Open(r)} \subseteq Rows
    BY RowsExist DEF IInv
  <1>3. /\ run \in DelivererState /\ run.pc = "next" /\ run.todo \subseteq DOMAIN outbox
        /\ run.message = deliverer[d].message
    BY <1>1, <1>2 DEF DelivererState
  <1>4. deliverer[d].message \in DOMAIN chat \cup {None}
    BY DEF IInv, LocalsOK, DelivererOK
  <1> HIDE DEF run
  <1>5. TypeOK'
    BY <1>1, <1>3 DEF Start, IInv, TypeOK
  <1>6. \A a \in sent : a[2] \in DOMAIN chat
    BY DEF IInv, SentOK
  <1> QED
    BY <1>1, <1>3, <1>4, <1>5, <1>6, OneDeliverer DEF Start

LEMMA CrashStep == ASSUME IInv, NEW d \in Deliverers, Crash(d) PROVE IInv'
  <1>1. faults' \in 0 .. MaxFaults
    BY BoundsAssumption DEF Crash, IInv, TypeOK
  <1> QED
    BY <1>1, IdleType, OnlyDeliverer DEF Crash, IInv, TypeOK

\* An expired lease is nobody's whose call may still be with Telegram.
LEMMA NoCallIsLeasable ==
    ASSUME IInv, NEW c \in Deliverers, Calling(c) PROVE ~Leasable(deliverer[c].row)
  <1>1. Held(c) /\ now \in Nat /\ deliverer[c].since \in Nat
    BY DEF IInv, HeldOK, TypeOK, DelivererState
  <1> QED
    BY <1>1, DurationsAssumption, NobodyAssumption DEF Held, Leasable

LEMMA Holder ==
    ASSUME IInv, NEW c \in Deliverers, Calling(c) PROVE lease[deliverer[c].row].by = c
  <1>1. Held(c)
    BY DEF IInv, HeldOK
  <1> QED
    BY <1>1 DEF Held

LEMMA PreviousType ==
    ASSUME TypeOK, NEW r \in DOMAIN outbox PROVE Previous(r) \subseteq DOMAIN chat \cup {None}
  BY DEF TypeOK, Previous, Earlier

LEMMA AcquireStep == ASSUME IInv, NEW d \in Deliverers, Acquire(d) PROVE IInv'
  <1>1. PICK r \in deliverer[d].todo :
            IF Leasable(r)
            THEN /\ lease' = [lease EXCEPT ![r] = [by |-> d, until |-> now + LeaseTicks]]
                 /\ \E message \in Previous(r) :
                    deliverer' = [deliverer EXCEPT ![d].pc = "call", ![d].row = r,
                                                   ![d].message = message, ![d].since = now]
            ELSE /\ lease' = lease
                 /\ deliverer' = [deliverer EXCEPT ![d] = Following(d, r)]
    BY DEF Acquire
  <1>2. r \in DOMAIN outbox /\ r \in Rows
    BY RowsExist DEF IInv, LocalsOK, DelivererOK
  <1>3. CASE ~Leasable(r)
    <2>1. lease' = lease /\ deliverer' = [deliverer EXCEPT ![d] = Following(d, r)]
      BY <1>1, <1>3
    <2>2. /\ UNCHANGED <<outbox, sent, chat, deleted, cleanup, now>> /\ faults' \in 0 .. MaxFaults
          /\ lease' \in [Rows -> [by : Deliverers \cup {Nobody},
                                  until : 0 .. MaxTime + LeaseTicks]]
      BY <2>1 DEF Acquire, IInv, TypeOK
    <2> HIDE DEF IInv
    <2> QED
      BY <2>1, <2>2, FollowingType, OnlyDeliverer
  <1>4. CASE Leasable(r)
    <2>1. PICK message \in Previous(r) :
              deliverer' = [deliverer EXCEPT ![d].pc = "call", ![d].row = r,
                                             ![d].message = message, ![d].since = now]
      BY <1>1, <1>4
    <2> DEFINE run == [deliverer[d] EXCEPT !.pc = "call", !.row = r, !.message = message,
                                           !.since = now]
    <2>2. deliverer' = [deliverer EXCEPT ![d] = run] /\ deliverer[d] \in DelivererState
      BY <2>1 DEF IInv, TypeOK
    <2>3. message \in DOMAIN chat \cup {None} /\ message \in Messages \cup {None}
      BY <1>2, PreviousType, RowsExist DEF IInv
    <2>4. /\ run \in DelivererState /\ run.pc = "call" /\ run.row = r /\ run.since = now
          /\ run.message = message /\ run.todo = deliverer[d].todo
      BY <1>2, <2>2, <2>3 DEF DelivererState, IInv, TypeOK
    <2> HIDE DEF run
    <2>5. now \in Nat /\ now + LeaseTicks \in 0 .. MaxTime + LeaseTicks
      BY DurationsAssumption DEF IInv, TypeOK
    <2>6. /\ lease'[r] = [by |-> d, until |-> now + LeaseTicks]
          /\ \A s \in Rows \ {r} : lease'[s] = lease[s]
          /\ lease' \in [Rows -> [by : Deliverers \cup {Nobody},
                                  until : 0 .. MaxTime + LeaseTicks]]
      <3>1. [by |-> d, until |-> now + LeaseTicks]
                \in [by : Deliverers \cup {Nobody}, until : 0 .. MaxTime + LeaseTicks]
        BY <2>5
      <3>2. lease \in [Rows -> [by : Deliverers \cup {Nobody}, until : 0 .. MaxTime + LeaseTicks]]
        BY DEF IInv, TypeOK
      <3>3. lease' = [lease EXCEPT ![r] = [by |-> d, until |-> now + LeaseTicks]]
        BY <1>1, <1>4
      <3> QED
        BY <1>2, <3>1, <3>2, <3>3
    <2>7. ASSUME NEW c \in Deliverers \ {d}, Calling(c)
          PROVE  lease'[deliverer[c].row] = lease[deliverer[c].row]
      <3>1. deliverer[c].row # r
        BY <1>4, <2>7, NoCallIsLeasable
      <3>2. deliverer[c].row \in Rows
        BY <2>7, RowsExist DEF IInv, LocalsOK, DelivererOK, Calling
      <3> QED
        BY <2>6, <3>1, <3>2
    <2>8. TypeOK'
      BY <2>2, <2>4, <2>6 DEF Acquire, IInv, TypeOK
    <2>9. /\ run.todo \subseteq DOMAIN outbox
          /\ \A a \in sent : a[2] \in DOMAIN chat
      BY <2>4 DEF IInv, LocalsOK, DelivererOK, SentOK
    <2>10. now <= now + CallTicks
      BY <2>5, DurationsAssumption
    <2> QED
      BY <1>2, <2>2, <2>3, <2>4, <2>6, <2>7, <2>8, <2>9, <2>10, OneDeliverer DEF Acquire
  <1> QED
    BY <1>3, <1>4

LEMMA PostStep == ASSUME IInv, NEW d \in Deliverers, Post(d) PROVE IInv'
  <1> DEFINE message == IF deliverer[d].message = None THEN Len(chat) + 1 ELSE deliverer[d].message
             run == [deliverer[d] EXCEPT !.pc = "posted", !.message = message]
  <1>1. /\ deliverer[d] \in DelivererState /\ deliverer[d].pc = "call" /\ DelivererOK(d) /\ Held(d)
        /\ deliverer[d].row \in Rows
    BY RowsExist DEF Post, IInv, TypeOK, LocalsOK, DelivererOK, HeldOK, Calling
  <1>2. deliverer' = [deliverer EXCEPT ![d] = run]
    BY <1>1 DEF Post, DelivererState, IInv, TypeOK
  <1>3. /\ chat' \in Seq(Rows) /\ Len(chat') <= MaxMessages /\ DOMAIN chat \subseteq DOMAIN chat'
        /\ message \in DOMAIN chat' /\ message # None
    <2>1. chat \in Seq(Rows) /\ Len(chat) \in Nat /\ DOMAIN chat = 1 .. Len(chat)
      BY DEF IInv, TypeOK
    <2>2. CASE deliverer[d].message = None
      <3>1. chat' = Append(chat, deliverer[d].row) /\ Len(chat) < MaxMessages
        BY <2>2 DEF Post
      <3>2. chat' \in Seq(Rows) /\ Len(chat') = Len(chat) + 1
        BY <1>1, <2>1, <3>1, AppendProperties
      <3> QED
        BY <2>1, <2>2, <3>1, <3>2, BoundsAssumption DEF None
    <2>3. CASE deliverer[d].message # None
      BY <1>1, <2>1, <2>3 DEF Post, DelivererOK, IInv, TypeOK
    <2> QED
      BY <2>2, <2>3
  <1>4. message \in Messages
    BY <1>3, BoundsAssumption DEF Messages
  <1> HIDE DEF message
  <1>5. /\ run \in DelivererState /\ run.pc = "posted" /\ run.message = message
        /\ run.row = deliverer[d].row /\ run.since = deliverer[d].since
        /\ run.todo = deliverer[d].todo
    BY <1>1, <1>4 DEF DelivererState
  <1> HIDE DEF run
  <1>6. TypeOK'
    BY <1>2, <1>3, <1>5 DEF Post, IInv, TypeOK
  <1>7. \A a \in sent : a[2] \in DOMAIN chat'
    BY <1>3 DEF IInv, SentOK
  <1> QED
    BY <1>1, <1>2, <1>3, <1>5, <1>6, <1>7, OneDeliverer DEF Post, DelivererOK, Held

\* What a call came to is written into its row.
LEMMA RecordedStep ==
    ASSUME IInv, NEW d \in Deliverers, Calling(d),
           NEW status \in {"SENT", "RETRY"}, NEW message \in Messages \cup {None},
           status = "SENT" => message \in DOMAIN chat,
           Recorded(d, status, message),
           sent \subseteq sent', sent' \subseteq Rows \X DOMAIN chat, faults' \in 0 .. MaxFaults,
           UNCHANGED <<lease, chat, deleted, cleanup, now>>
    PROVE  IInv'
  <1> DEFINE r == deliverer[d].row
             row == [outbox[r] EXCEPT !.status = status, !.message = message]
             run == [deliverer[d] EXCEPT !.pc = "release", !.message = None, !.since = 0]
  <1>1. /\ deliverer[d] \in DelivererState /\ DelivererOK(d) /\ r \in DOMAIN outbox
        /\ deliverer \in [Deliverers -> DelivererState]
        /\ outbox \in Seq(Row) /\ outbox[r] \in Row
    BY DEF IInv, TypeOK, LocalsOK, DelivererOK, Calling
  <1>2. row \in Row /\ row.status = status /\ row.message = message
    BY <1>1 DEF Row
  <1>3. outbox' = [outbox EXCEPT ![r] = row] /\ deliverer' = [deliverer EXCEPT ![d] = run]
    BY <1>1 DEF Recorded, DelivererState, Row
  <1>4. /\ run \in DelivererState /\ run.pc = "release" /\ run.message = None
        /\ run.row = r /\ run.todo = deliverer[d].todo
    <2>1. 0 \in 0 .. MaxTime
      BY DurationsAssumption
    <2> QED
      BY <1>1, <2>1 DEF DelivererState
  <1> HIDE DEF r, row, run
  <1>5. /\ outbox' \in Seq(Row) /\ Len(outbox') = Len(outbox) /\ DOMAIN outbox' = DOMAIN outbox
        /\ outbox'[r] = row /\ \A q \in DOMAIN outbox \ {r} : outbox'[q] = outbox[q]
    BY <1>1, <1>2, <1>3
  <1>6. sent' \subseteq Rows \X Messages
    BY RowsExist DEF IInv
  <1>7. TypeOK'
    BY <1>2, <1>3, <1>4, <1>5, <1>6 DEF IInv, TypeOK
  <1>8. \A a \in sent' : a[2] \in DOMAIN chat
    OBVIOUS
  <1> QED
    BY <1>1, <1>3, <1>4, <1>5, <1>7, <1>8, OneDeliverer DEF DelivererOK

LEMMA RecordSentStep == ASSUME IInv, NEW d \in Deliverers, RecordSent(d) PROVE IInv'
  <1>1. /\ deliverer[d].message \in DOMAIN chat /\ deliverer[d].row \in Rows /\ Calling(d)
        /\ deliverer[d].message \in Messages
    BY RowsExist DEF RecordSent, IInv, LocalsOK, DelivererOK, Calling
  <1>2. sent \subseteq Rows \X DOMAIN chat
    BY DEF IInv, TypeOK, SentOK
  <1>3. sent \subseteq sent' /\ sent' \subseteq Rows \X DOMAIN chat
    BY <1>1, <1>2 DEF RecordSent, AttemptAdded
  <1>4. faults' \in 0 .. MaxFaults
    BY DEF RecordSent, IInv, TypeOK
  <1> QED
    BY <1>1, <1>3, <1>4, RecordedStep DEF RecordSent

LEMMA RecordErrorStep == ASSUME IInv, NEW d \in Deliverers, RecordError(d) PROVE IInv'
  <1>1. deliverer[d].row \in DOMAIN outbox
    BY DEF RecordError, Calling, IInv, LocalsOK, DelivererOK
  <1>2. outbox[deliverer[d].row].message \in Messages \cup {None}
    <2>1. outbox[deliverer[d].row] \in Row
      BY <1>1 DEF IInv, TypeOK
    <2> QED
      BY <2>1 DEF Row
  <1>3. sent \subseteq Rows \X DOMAIN chat
    BY DEF IInv, TypeOK, SentOK
  <1>4. faults' \in 0 .. MaxFaults
    BY BoundsAssumption DEF RecordError, Calling, IInv, TypeOK
  <1> QED
    BY <1>2, <1>3, <1>4, RecordedStep DEF RecordError

LEMMA ReleaseStep == ASSUME IInv, NEW d \in Deliverers, Release(d) PROVE IInv'
  <1> DEFINE r == deliverer[d].row
             Leases == [by : Deliverers \cup {Nobody}, until : 0 .. MaxTime + LeaseTicks]
  <1>1. /\ lease' = ReleasedOwn(r, d) /\ deliverer' = [deliverer EXCEPT ![d] = Following(d, r)]
        /\ UNCHANGED <<outbox, sent, chat, deleted, cleanup, now>> /\ faults' \in 0 .. MaxFaults
    BY DEF Release, IInv, TypeOK
  <1>2. lease \in [Rows -> Leases] /\ Free \in Leases
    BY DurationsAssumption DEF IInv, TypeOK, Free
  <1>3. lease' \in [Rows -> Leases]
    BY <1>1, <1>2 DEF ReleasedOwn
  <1>4. ASSUME NEW c \in Deliverers \ {d}, Calling(c)
        PROVE  lease'[deliverer[c].row] = lease[deliverer[c].row]
    <2>1. lease[deliverer[c].row].by = c
      BY <1>4, Holder
    <2>2. deliverer[c].row \in Rows
      BY <1>4, RowsExist DEF IInv, LocalsOK, DelivererOK, Calling
    <2> QED
      BY <1>1, <1>2, <2>1, <2>2 DEF ReleasedOwn
  <1> QED
    BY <1>1, <1>3, <1>4, FollowingType, OnlyDeliverer

-----------------------------------------------------------------------------
LEMMA StutterStep == ASSUME IInv, UNCHANGED vars PROVE IInv'
  BY DEF vars, IInv, TypeOK, LocalsOK, DelivererOK, HeldOK, Held, Calling, SentOK

LEMMA IInvStep == IInv /\ [Next]_vars => IInv'
  <1> SUFFICES ASSUME IInv, Next \/ UNCHANGED vars PROVE IInv'
    OBVIOUS
  <1>1. ASSUME NEW d \in Deliverers, Start(d) \/ Step(d) \/ Crash(d) PROVE IInv'
    BY <1>1, StartStep, CrashStep, AcquireStep, PostStep, RecordSentStep, RecordErrorStep,
       ReleaseStep DEF Step
  <1> QED
    BY <1>1, EnqueueStep, ExpireStep, TickStep, CleanupStep, StutterStep DEF Next

\* The type invariant, what executions remember, and the leases of their calls.
THEOREM Inductive == Spec => []IInv
  BY IInvInit, IInvStep, PTL DEF Spec

\* Rows, leases, messages and executions are well formed in every reachable
\* state (the tables of the outbox and what deliver_pending remembers).
THEOREM TypeCorrect == Spec => []TypeOK
  <1>1. IInv => TypeOK
    BY DEF IInv
  <1> QED
    BY <1>1, Inductive, PTL

\* No row is with Telegram twice at a time, for any number of executions of
\* deliver_pending: a lease outlasts the call it was acquired for, and nobody
\* releases another's.
THEOREM NoConcurrentDelivery == Spec => []OneDeliveryAtATime
  <1>1. IInv => OneDeliveryAtATime
    BY Holder DEF OneDeliveryAtATime
  <1> QED
    BY <1>1, Inductive, PTL

-----------------------------------------------------------------------------
(* The cleanup of duplicates.                                              *)

\* A version other than r's is on record with message m.
Shared(m, r) == \E a \in sent : a[1] # r /\ a[2] = m

\* The message in the hands of d is nobody else's yet.
Fresh(d) ==
    /\ \A a \in sent : a[2] # deliverer[d].message
    /\ \A c \in Deliverers \ {d} : Calling(c) => deliverer[c].message # deliverer[d].message

\* The message of a row is on record.
RecordedOK ==
    \A r \in DOMAIN outbox : outbox[r].message # None => <<r, outbox[r].message>> \in sent

\* A call edits a message of another version, or has posted one of its own.
CallsOK ==
    \A d \in Deliverers : Calling(d) /\ deliverer[d].message # None =>
        Shared(deliverer[d].message, deliverer[d].row) \/ Fresh(d)

\* What the cleanup is about to delete, or has deleted, belongs to a row only if
\* another version shares it.
TodoOK ==
    \A a \in cleanup.todo : \A r \in DOMAIN outbox :
        r = a[1] /\ outbox[r].message = a[2] => Shared(a[2], r)

DeletedOK ==
    \A m \in deleted :
        /\ \E a \in sent : a[2] = m
        /\ \A r \in DOMAIN outbox : outbox[r].message = m => Shared(m, r)

MessagesOK == RecordedOK /\ CallsOK /\ TodoOK /\ DeletedOK

UInv == IInv /\ MessagesOK

\* Messages in the chat have positive numbers.
LEMMA SomeMessage == ASSUME TypeOK, NEW m \in DOMAIN chat PROVE m # None
  BY DEF TypeOK, None

\* Steps that give no row and no call a message.
LEMMA NoMessageMoves ==
    ASSUME UInv, sent' = sent, deleted' = deleted, cleanup'.todo \subseteq cleanup.todo,
           \A r \in DOMAIN outbox' :
               IF r \in DOMAIN outbox THEN outbox'[r].message = outbox[r].message
                                      ELSE outbox'[r].message = None,
           \A d \in Deliverers : Calling(d)' => Calling(d) /\ deliverer'[d] = deliverer[d]
    PROVE  MessagesOK'
  <1>1. \A a \in sent : a[2] # None
    BY SomeMessage DEF UInv, IInv, SentOK
  <1>2. RecordedOK'
    BY DEF UInv, MessagesOK, RecordedOK
  <1>3. CallsOK'
    BY DEF UInv, MessagesOK, CallsOK, Shared, Fresh
  <1>4. TodoOK'
    <2>1. cleanup.todo \subseteq sent
      BY DEF UInv, IInv, SentOK
    <2> QED
      BY <1>1, <2>1 DEF UInv, MessagesOK, TodoOK, Shared
  <1>5. DeletedOK'
    <2>1. \A m \in deleted : m # None
      BY SomeMessage DEF UInv, IInv, TypeOK
    <2> QED
      BY <2>1 DEF UInv, MessagesOK, DeletedOK, Shared
  <1> QED
    BY <1>2, <1>3, <1>4, <1>5 DEF MessagesOK

\* The same for the steps of one execution that end or do not touch its call.
LEMMA NoMessageMovesBy ==
    ASSUME UInv, NEW d \in Deliverers, NEW run,
           deliverer' = [deliverer EXCEPT ![d] = run], run.pc \notin {"call", "posted"},
           UNCHANGED <<sent, deleted, cleanup>>, DOMAIN outbox' = DOMAIN outbox,
           \A r \in DOMAIN outbox : outbox'[r].message = outbox[r].message
    PROVE  MessagesOK'
  <1>1. deliverer'[d] = run /\ \A c \in Deliverers \ {d} : deliverer'[c] = deliverer[c]
    BY DEF UInv, IInv, TypeOK
  <1>2. \A c \in Deliverers : Calling(c)' => Calling(c) /\ deliverer'[c] = deliverer[c]
    BY <1>1 DEF Calling
  <1> QED
    BY <1>2, NoMessageMoves

LEMMA EnqueueMessages == ASSUME UInv, Enqueue PROVE MessagesOK'
  <1>1. \A r \in DOMAIN outbox' :
            IF r \in DOMAIN outbox THEN outbox'[r].message = outbox[r].message
                                   ELSE outbox'[r].message = None
    BY EnqueueRows DEF UInv
  <1> QED
    BY <1>1, NoMessageMoves DEF Enqueue, Calling

LEMMA ExpireMessages == ASSUME UInv, Expire PROVE MessagesOK'
  <1>1. DOMAIN outbox' = DOMAIN outbox /\ \A r \in DOMAIN outbox : outbox'[r].message = outbox[r].message
    BY ExpireRows DEF UInv
  <1> QED
    BY <1>1, NoMessageMoves DEF Expire, Calling

LEMMA CleanupStartMessages == ASSUME UInv, CleanupStart PROVE MessagesOK'
  <1>1. cleanup'.todo \subseteq Duplicates
    BY DEF CleanupStart, UInv, IInv, TypeOK
  <1>2. TodoOK'
    BY <1>1 DEF TodoOK, Duplicates, CleanupStart
  <1> QED
    BY <1>2 DEF CleanupStart, UInv, MessagesOK, RecordedOK, CallsOK, DeletedOK, Shared, Fresh, Calling

LEMMA CleanupDeleteMessages == ASSUME UInv, CleanupDelete PROVE MessagesOK'
  <1>1. PICK a \in cleanup.todo :
            /\ cleanup' = [todo |-> cleanup.todo \ {a}, tried |-> cleanup.tried \cup {a}]
            /\ deleted' \in {deleted, deleted \cup {a[2]}}
    BY DEF CleanupDelete
  <1>2. a \in sent
    BY DEF UInv, IInv, SentOK
  <1>3. RecordedOK' /\ CallsOK'
    BY DEF CleanupDelete, UInv, MessagesOK, RecordedOK, CallsOK, Shared, Fresh, Calling
  <1>4. TodoOK'
    BY <1>1 DEF CleanupDelete, UInv, MessagesOK, TodoOK, Shared
  <1>5. \A r \in DOMAIN outbox : outbox[r].message = a[2] => Shared(a[2], r)
    BY <1>2 DEF UInv, MessagesOK, TodoOK, Shared
  <1>6. DeletedOK'
    <2> SUFFICES ASSUME NEW m \in deleted'
                 PROVE  /\ \E b \in sent : b[2] = m
                        /\ \A r \in DOMAIN outbox : outbox[r].message = m => Shared(m, r)
      BY DEF DeletedOK, CleanupDelete, Shared
    <2> QED
      BY <1>1, <1>2, <1>5 DEF UInv, MessagesOK, DeletedOK
  <1> QED
    BY <1>3, <1>4, <1>6 DEF MessagesOK

\* An edit is of a message that another version of the event has on record.
LEMMA PreviousShared ==
    ASSUME UInv, NEW r \in DOMAIN outbox, NEW m \in Previous(r), m # None
    PROVE  Shared(m, r)
  <1>1. PICK s \in Earlier(r) : m = outbox[s].message
    BY DEF Previous
  <1>2. s \in DOMAIN outbox /\ s # r
    <2>1. outbox[r] \in Row
      BY DEF UInv, IInv, TypeOK
    <2>2. outbox[r].version \in Nat
      BY <2>1 DEF Row
    <2> QED
      BY <1>1, <2>2 DEF Earlier
  <1>3. <<s, m>> \in sent
    BY <1>1, <1>2 DEF UInv, MessagesOK, RecordedOK
  <1> QED
    BY <1>2, <1>3 DEF Shared

LEMMA AcquireMessages == ASSUME UInv, NEW d \in Deliverers, Acquire(d) PROVE MessagesOK'
  <1>1. PICK r \in deliverer[d].todo :
            IF Leasable(r)
            THEN \E message \in Previous(r) :
                    deliverer' = [deliverer EXCEPT ![d].pc = "call", ![d].row = r,
                                                   ![d].message = message, ![d].since = now]
            ELSE deliverer' = [deliverer EXCEPT ![d] = Following(d, r)]
    BY DEF Acquire
  <1>2. CASE ~Leasable(r)
    <2>1. Following(d, r).pc \notin {"call", "posted"}
      BY FollowingType DEF UInv
    <2> QED
      BY <1>1, <1>2, <2>1, NoMessageMovesBy DEF Acquire
  <1>3. CASE Leasable(r)
    <2>1. PICK message \in Previous(r) :
              deliverer' = [deliverer EXCEPT ![d].pc = "call", ![d].row = r,
                                             ![d].message = message, ![d].since = now]
      BY <1>1, <1>3
    <2>2. /\ deliverer'[d].pc = "call" /\ deliverer'[d].row = r /\ deliverer'[d].message = message
          /\ \A c \in Deliverers \ {d} : deliverer'[c] = deliverer[c]
      BY <2>1 DEF UInv, IInv, TypeOK, DelivererState
    <2>3. r \in DOMAIN outbox
      BY DEF UInv, IInv, LocalsOK, DelivererOK
    <2>4. message # None => Shared(message, r)
      BY <2>3, PreviousShared
    <2>5. CallsOK'
      <3>1. ASSUME NEW c \in Deliverers \ {d}, Calling(c), deliverer[c].message # None, Fresh(c)
            PROVE  Fresh(c)'
        BY <2>2, <2>4, <3>1 DEF Fresh, Shared, Calling, Acquire
      <3>2. ASSUME NEW c \in Deliverers \ {d}, Calling(c)', deliverer'[c].message # None
            PROVE  Shared(deliverer[c].message, deliverer[c].row) \/ Fresh(c)'
        BY <2>2, <3>1, <3>2 DEF UInv, MessagesOK, CallsOK, Calling
      <3> QED
        BY <2>2, <2>4, <3>2 DEF CallsOK, Shared, Acquire
    <2> QED
      BY <2>5 DEF Acquire, UInv, MessagesOK, RecordedOK, TodoOK, DeletedOK, Shared
  <1> QED
    BY <1>2, <1>3

LEMMA PostMessages == ASSUME UInv, NEW d \in Deliverers, Post(d) PROVE MessagesOK'
  <1>1. /\ deliverer[d].pc = "call" /\ deliverer'[d].pc = "posted"
        /\ deliverer'[d].row = deliverer[d].row
        /\ \A c \in Deliverers \ {d} : deliverer'[c] = deliverer[c]
        /\ deliverer'[d].message = IF deliverer[d].message = None THEN Len(chat) + 1
                                   ELSE deliverer[d].message
    BY DEF Post, UInv, IInv, TypeOK, DelivererState
  <1>2. \A c \in Deliverers : Calling(c)' <=> Calling(c)
    BY <1>1 DEF Calling
  <1>3. CASE deliverer[d].message # None
    BY <1>1, <1>2, <1>3 DEF Post, UInv, MessagesOK, RecordedOK, CallsOK, TodoOK, DeletedOK, Shared, Fresh
  <1>4. CASE deliverer[d].message = None
    <2>1. /\ \A a \in sent : a[2] # Len(chat) + 1
          /\ \A c \in Deliverers : deliverer[c].message # Len(chat) + 1
      <3>1. Len(chat) + 1 \notin DOMAIN chat \cup {None}
        BY DEF UInv, IInv, TypeOK, None
      <3> QED
        BY <3>1 DEF UInv, IInv, SentOK, LocalsOK, DelivererOK
    <2>2. Fresh(d)'
      BY <1>1, <1>4, <2>1 DEF Fresh, Post
    <2>3. ASSUME NEW c \in Deliverers \ {d}, Fresh(c) PROVE Fresh(c)'
      BY <1>1, <1>2, <1>4, <2>1, <2>3 DEF Fresh, Post
    <2>4. CallsOK'
      BY <1>1, <1>2, <2>2, <2>3 DEF UInv, MessagesOK, CallsOK, Shared, Post
    <2> QED
      BY <2>4 DEF Post, UInv, MessagesOK, RecordedOK, TodoOK, DeletedOK, Shared
  <1> QED
    BY <1>3, <1>4

LEMMA RecordSentMessages == ASSUME UInv, NEW d \in Deliverers, RecordSent(d) PROVE MessagesOK'
  <1> DEFINE r == deliverer[d].row
             m == deliverer[d].message
  <1>1. /\ Calling(d) /\ r \in DOMAIN outbox /\ m # None /\ m \in Messages /\ r \in Rows
    BY RowsExist DEF RecordSent, Calling, UInv, IInv, LocalsOK, DelivererOK, TypeOK, DelivererState
  <1>2. Shared(m, r) \/ Fresh(d)
    BY <1>1 DEF UInv, MessagesOK, CallsOK
  <1>3. /\ DOMAIN outbox' = DOMAIN outbox /\ outbox'[r].message = m
        /\ \A q \in DOMAIN outbox \ {r} : outbox'[q] = outbox[q]
    <2>1. outbox \in Seq(Row) /\ outbox[r] \in Row
      BY <1>1 DEF UInv, IInv, TypeOK
    <2>2. outbox' = [outbox EXCEPT ![r].status = "SENT", ![r].message = m]
      BY DEF RecordSent, Recorded
    <2> QED
      BY <1>1, <2>1, <2>2 DEF Row
  <1>4. /\ deliverer'[d].pc = "release"
        /\ \A c \in Deliverers \ {d} : deliverer'[c] = deliverer[c]
    BY DEF RecordSent, Recorded, UInv, IInv, TypeOK, DelivererState
  <1>5. sent' = sent \cup {<<r, m>>} /\ UNCHANGED <<deleted, cleanup>>
    BY DEF RecordSent, AttemptAdded
  <1> HIDE DEF r, m
  <1>6. RecordedOK'
    BY <1>3, <1>5 DEF UInv, MessagesOK, RecordedOK
  <1>7. CallsOK'
    <2> SUFFICES ASSUME NEW c \in Deliverers, Calling(c)', deliverer'[c].message # None
                 PROVE  Shared(deliverer[c].message, deliverer[c].row)' \/ Fresh(c)'
      BY <1>4 DEF CallsOK, Calling, Shared
    <2>1. c # d /\ deliverer'[c] = deliverer[c] /\ Calling(c)
      BY <1>4 DEF Calling
    <2>2. CASE Shared(deliverer[c].message, deliverer[c].row)
      BY <1>5, <2>1, <2>2 DEF Shared
    <2>3. CASE Fresh(c)
      <3>1. deliverer[c].message # m
        BY <1>1, <2>1, <2>3 DEF Fresh, m
      <3>2. \A b \in Deliverers : Calling(b)' => Calling(b) /\ deliverer'[b] = deliverer[b]
        BY <1>4 DEF Calling
      <3> QED
        BY <1>5, <2>1, <2>3, <3>1, <3>2 DEF Fresh
    <2> QED
      BY <2>1, <2>2, <2>3 DEF UInv, MessagesOK, CallsOK
  <1>8. TodoOK'
    <2>1. Shared(m, r) \/ \A a \in cleanup.todo : a[2] # m
      BY <1>2 DEF UInv, IInv, SentOK, Fresh, m
    <2> QED
      BY <1>3, <1>5, <2>1 DEF UInv, MessagesOK, TodoOK, Shared
  <1>9. DeletedOK'
    <2>1. Shared(m, r) \/ m \notin deleted
      BY <1>2 DEF UInv, MessagesOK, DeletedOK, Fresh, m
    <2> QED
      BY <1>3, <1>5, <2>1 DEF UInv, MessagesOK, DeletedOK, Shared
  <1> QED
    BY <1>6, <1>7, <1>8, <1>9 DEF MessagesOK

LEMMA RecordErrorMessages == ASSUME UInv, NEW d \in Deliverers, RecordError(d) PROVE MessagesOK'
  <1> DEFINE run == [deliverer[d] EXCEPT !.pc = "release", !.message = None, !.since = 0]
  <1>1. deliverer' = [deliverer EXCEPT ![d] = run] /\ run.pc = "release"
    BY DEF RecordError, Recorded, UInv, IInv, TypeOK, DelivererState
  <1>2. /\ DOMAIN outbox' = DOMAIN outbox
        /\ \A r \in DOMAIN outbox : outbox'[r].message = outbox[r].message
    BY DEF RecordError, Recorded, UInv, IInv, TypeOK, Row
  <1> HIDE DEF run
  <1> QED
    BY <1>1, <1>2, NoMessageMovesBy DEF RecordError

LEMMA OtherMessages ==
    ASSUME UInv, NEW d \in Deliverers, Start(d) \/ Release(d) \/ Crash(d) PROVE MessagesOK'
  <1>1. CASE Start(d)
    <2> DEFINE run == [deliverer[d] EXCEPT !.pc = "next", !.todo = {r \in DOMAIN outbox : Open(r)}]
    <2>1. deliverer' = [deliverer EXCEPT ![d] = run] /\ run.pc = "next"
      BY <1>1 DEF Start, UInv, IInv, TypeOK, DelivererState
    <2> HIDE DEF run
    <2> QED
      BY <1>1, <2>1, NoMessageMovesBy DEF Start
  <1>2. CASE Release(d)
    <2>1. Following(d, deliverer[d].row).pc \notin {"call", "posted"}
      BY FollowingType DEF UInv
    <2> QED
      BY <1>2, <2>1, NoMessageMovesBy DEF Release
  <1>3. CASE Crash(d)
    BY <1>3, IdleType, NoMessageMovesBy DEF Crash
  <1> QED
    BY <1>1, <1>2, <1>3

LEMMA UInvStep == UInv /\ [Next]_vars => UInv'
  <1> SUFFICES ASSUME UInv, Next \/ UNCHANGED vars PROVE MessagesOK'
    BY IInvStep DEF UInv
  <1>1. CASE Tick \/ UNCHANGED vars
    BY <1>1, NoMessageMoves DEF Tick, vars, Calling
  <1>2. ASSUME NEW d \in Deliverers, Start(d) \/ Step(d) \/ Crash(d) PROVE MessagesOK'
    BY <1>2, AcquireMessages, PostMessages, RecordSentMessages, RecordErrorMessages,
       OtherMessages DEF Step
  <1> QED
    BY <1>1, <1>2, EnqueueMessages, ExpireMessages, CleanupStartMessages,
       CleanupDeleteMessages DEF Next

\* The cleanup deletes no message of a sent row that belongs to one version
\* alone (cleanup_duplicate_deliveries against deliver_pending): a message that
\* it deletes is another version's too, or no row's and in nobody's hands.
THEOREM CleanupHarmless == Spec => []CleanupKeepsUnshared
  <1>1. Init => UInv
    BY IInvInit DEF Init, UInv, MessagesOK, RecordedOK, CallsOK, TodoOK, DeletedOK, Calling, IdleDeliverer
  <1>2. UInv => CleanupKeepsUnshared
    BY DEF UInv, MessagesOK, DeletedOK, CleanupKeepsUnshared, Shared
  <1> QED
    BY <1>1, <1>2, UInvStep, PTL DEF Spec

-----------------------------------------------------------------------------
(* The messages of the chat that nobody knows of any more.                 *)

OnRecord == {a[2] : a \in sent}
InHand == {deliverer[d].message : d \in Deliverers}
Lost == DOMAIN chat \ (OnRecord \cup InHand)

\* An execution has a message in hand from its call to its record, and knows a
\* message before the call that is on record.
HandOK(d) ==
    /\ ~Calling(d) => deliverer[d].message = None
    /\ deliverer[d].pc = "call" => deliverer[d].message \in OnRecord \cup {None}

LostInv == UInv /\ (\A d \in Deliverers : HandOK(d)) /\ Cardinality(Lost) <= faults

LEMMA LostFinite == ASSUME TypeOK PROVE IsFiniteSet(Lost) /\ Cardinality(Lost) \in Nat
  <1>1. PICK n : n = Len(chat)
    OBVIOUS
  <1>2. n \in Nat /\ DOMAIN chat = 1 .. n
    BY <1>1 DEF TypeOK
  <1>3. IsFiniteSet(1 .. n) /\ Lost \subseteq 1 .. n
    BY <1>2, FS_Interval DEF Lost
  <1> QED
    BY <1>3, FS_Subset, FS_CardinalityType

\* At most one more message is lost, and a fault is counted for it.
LEMMA LostCounted ==
    ASSUME LostInv, NEW m, \/ Lost' \subseteq Lost /\ faults' \in {faults, faults + 1}
                           \/ Lost' \subseteq Lost \cup {m} /\ faults' = faults + 1
    PROVE  Cardinality(Lost') <= faults'
  <1>1. PICK before, after : before = Lost /\ after = Lost'
    OBVIOUS
  <1>2. IsFiniteSet(before) /\ Cardinality(before) \in Nat /\ Cardinality(before) <= faults /\ faults \in Nat
    BY <1>1, LostFinite, BoundsAssumption DEF LostInv, UInv, IInv, TypeOK
  <1>3. CASE Lost' \subseteq Lost /\ faults' \in {faults, faults + 1}
    <2>1. Cardinality(after) <= Cardinality(before) /\ Cardinality(after) \in Nat
      BY <1>1, <1>2, <1>3, FS_Subset, FS_CardinalityType
    <2> QED
      BY <1>1, <1>2, <1>3, <2>1
  <1>4. CASE Lost' \subseteq Lost \cup {m} /\ faults' = faults + 1
    <2>1. /\ IsFiniteSet(before \cup {m})
          /\ Cardinality(before \cup {m}) \in {Cardinality(before), Cardinality(before) + 1}
      BY <1>2, FS_AddElement
    <2>2. Cardinality(after) <= Cardinality(before \cup {m}) /\ Cardinality(after) \in Nat
      BY <1>1, <1>4, <2>1, FS_Subset, FS_CardinalityType
    <2> QED
      BY <1>1, <1>2, <1>4, <2>1, <2>2
  <1> QED
    BY <1>3, <1>4

\* A step of one execution that posts nothing.
LEMMA HandChanges ==
    ASSUME LostInv, UInv', NEW d \in Deliverers, NEW run \in DelivererState,
           deliverer' = [deliverer EXCEPT ![d] = run], HandOK(d)', chat' = chat, sent \subseteq sent',
           \/ deliverer[d].message \in OnRecord' \cup {None, run.message} /\ faults' = faults
           \/ faults' = faults + 1
    PROVE  LostInv'
  <1>1. deliverer'[d] = run /\ \A c \in Deliverers \ {d} : deliverer'[c] = deliverer[c]
    BY DEF LostInv, UInv, IInv, TypeOK
  <1>2. OnRecord \subseteq OnRecord'
    BY DEF OnRecord
  <1>3. \A c \in Deliverers : HandOK(c)'
    BY <1>1, <1>2 DEF LostInv, HandOK, Calling
  <1>4. None \notin DOMAIN chat
    BY SomeMessage DEF LostInv, UInv, IInv
  <1>5. PICK m : m = deliverer[d].message
    OBVIOUS
  <1>6. InHand \subseteq InHand' \cup {m}
    BY <1>1, <1>5 DEF InHand
  <1>7. run.message \in InHand'
    BY <1>1 DEF InHand
  <1>8. Lost' \subseteq Lost \cup {m}
    BY <1>2, <1>6 DEF Lost
  <1>9. m \in OnRecord' \cup {None, run.message} => Lost' \subseteq Lost
    BY <1>2, <1>4, <1>6, <1>7 DEF Lost
  <1>10. Cardinality(Lost') <= faults'
    BY <1>5, <1>8, <1>9, LostCounted
  <1> QED
    BY <1>3, <1>10 DEF LostInv

\* The steps that do not concern messages in hand.
LEMMA HandsUnchanged ==
    ASSUME LostInv, UInv', UNCHANGED <<deliverer, chat, sent, faults>> PROVE LostInv'
  <1>1. Lost' = Lost
    BY DEF Lost, OnRecord, InHand
  <1> QED
    BY <1>1 DEF LostInv, HandOK, Calling, OnRecord

LEMMA AcquireLost == ASSUME LostInv, UInv', NEW d \in Deliverers, Acquire(d) PROVE LostInv'
  <1>1. PICK r \in deliverer[d].todo :
            IF Leasable(r)
            THEN \E message \in Previous(r) :
                    deliverer' = [deliverer EXCEPT ![d].pc = "call", ![d].row = r,
                                                   ![d].message = message, ![d].since = now]
            ELSE deliverer' = [deliverer EXCEPT ![d] = Following(d, r)]
    BY DEF Acquire
  <1>2. deliverer[d].message = None /\ deliverer[d] \in DelivererState /\ d \in DOMAIN deliverer
    BY DEF LostInv, HandOK, Calling, Acquire, UInv, IInv, TypeOK
  <1>3. deliverer'[d] \in DelivererState
    BY DEF UInv, IInv, TypeOK
  <1>4. PICK run : run = deliverer'[d]
    OBVIOUS
  <1>5. deliverer' = [deliverer EXCEPT ![d] = run]
    BY <1>1, <1>2, <1>4
  <1>6. HandOK(d)'
    <2>1. CASE ~Leasable(r)
      <3>1. Following(d, r).pc \in {"idle", "next"} /\ Following(d, r).message = None
        BY FollowingType DEF LostInv, UInv
      <3>2. deliverer'[d] = Following(d, r)
        BY <1>1, <1>2, <2>1
      <3> QED
        BY <3>1, <3>2 DEF HandOK, Calling
    <2>2. CASE Leasable(r)
      <3>1. PICK message \in Previous(r) :
                deliverer' = [deliverer EXCEPT ![d].pc = "call", ![d].row = r,
                                               ![d].message = message, ![d].since = now]
        BY <1>1, <2>2
      <3>2. deliverer'[d].pc = "call" /\ deliverer'[d].message = message
        BY <1>2, <3>1 DEF DelivererState
      <3>3. message # None => Shared(message, r)
        BY PreviousShared DEF LostInv, UInv, IInv, LocalsOK, DelivererOK
      <3>4. message \in OnRecord' \cup {None}
        BY <3>3 DEF Shared, OnRecord, Acquire
      <3> QED
        BY <3>2, <3>4 DEF HandOK, Calling
    <2> QED
      BY <2>1, <2>2
  <1> QED
    BY <1>2, <1>3, <1>4, <1>5, <1>6, HandChanges DEF Acquire

LEMMA PostLost == ASSUME LostInv, UInv', NEW d \in Deliverers, Post(d) PROVE LostInv'
  <1>1. deliverer[d] \in DelivererState /\ d \in DOMAIN deliverer
    BY DEF LostInv, UInv, IInv, TypeOK
  <1>2. CASE deliverer[d].message # None
    <2> DEFINE run == [deliverer[d] EXCEPT !.pc = "posted"]
    <2>1. deliverer' = [deliverer EXCEPT ![d] = run] /\ deliverer'[d] = run
      BY <1>1, <1>2 DEF Post
    <2>2. run \in DelivererState /\ run.pc = "posted" /\ run.message = deliverer[d].message
      BY <1>1 DEF DelivererState
    <2> HIDE DEF run
    <2>3. HandOK(d)'
      BY <2>1, <2>2 DEF HandOK, Calling
    <2> QED
      BY <1>2, <2>1, <2>2, <2>3, HandChanges DEF Post
  <1>3. CASE deliverer[d].message = None
    <2> DEFINE run == [deliverer[d] EXCEPT !.pc = "posted", !.message = Len(chat) + 1]
    <2>1. deliverer' = [deliverer EXCEPT ![d] = run] /\ chat' = Append(chat, deliverer[d].row)
      BY <1>1, <1>3 DEF Post
    <2>2. /\ deliverer'[d] = run /\ run.pc = "posted" /\ run.message = Len(chat) + 1
          /\ \A c \in Deliverers \ {d} : deliverer'[c] = deliverer[c]
      BY <1>1, <2>1 DEF DelivererState
    <2> HIDE DEF run
    <2>3. DOMAIN chat' = DOMAIN chat \cup {Len(chat) + 1}
      BY <2>1 DEF LostInv, UInv, IInv, TypeOK
    <2>4. None \notin DOMAIN chat
      BY SomeMessage DEF LostInv, UInv, IInv
    <2>5. OnRecord' = OnRecord /\ faults' = faults
      BY DEF OnRecord, Post
    <2>6. InHand \subseteq InHand' \cup {None} /\ Len(chat) + 1 \in InHand'
      BY <1>3, <2>2 DEF InHand
    <2>7. Lost' \subseteq Lost
      BY <2>3, <2>4, <2>5, <2>6 DEF Lost
    <2>8. Cardinality(Lost') <= faults'
      BY <2>5, <2>7, LostCounted
    <2>9. \A c \in Deliverers : HandOK(c)'
      BY <2>2, <2>5 DEF LostInv, HandOK, Calling
    <2> QED
      BY <2>8, <2>9 DEF LostInv
  <1> QED
    BY <1>2, <1>3

LEMMA RecordLost ==
    ASSUME LostInv, UInv', NEW d \in Deliverers, RecordSent(d) \/ RecordError(d) PROVE LostInv'
  <1> DEFINE run == [deliverer[d] EXCEPT !.pc = "release", !.message = None, !.since = 0]
  <1>1. deliverer' = [deliverer EXCEPT ![d] = run] /\ chat' = chat
    BY DEF RecordSent, RecordError, Recorded, LostInv, UInv, IInv, TypeOK
  <1>2. deliverer[d] \in DelivererState
    BY DEF LostInv, UInv, IInv, TypeOK
  <1>3. run \in DelivererState /\ run.pc = "release" /\ run.message = None
    <2>1. None \in Messages \cup {None} /\ 0 \in 0 .. MaxTime
      BY DurationsAssumption
    <2> QED
      BY <1>2, <2>1 DEF DelivererState
  <1> HIDE DEF run
  <1>4. deliverer'[d] = run
    BY <1>1 DEF LostInv, UInv, IInv, TypeOK
  <1>5. HandOK(d)'
    BY <1>3, <1>4 DEF HandOK, Calling
  <1>6. CASE RecordSent(d)
    <2>1. sent' = sent \cup {<<deliverer[d].row, deliverer[d].message>>}
      BY <1>6 DEF RecordSent, AttemptAdded
    <2>2. deliverer[d].message \in OnRecord' /\ sent \subseteq sent'
      <3>1. PICK a \in sent' : a = <<deliverer[d].row, deliverer[d].message>>
        BY <2>1
      <3>2. a[2] = deliverer[d].message
        BY <3>1
      <3> QED
        BY <2>1, <3>2 DEF OnRecord
    <2> QED
      BY <1>1, <1>3, <1>5, <1>6, <2>2, HandChanges DEF RecordSent
  <1>7. CASE RecordError(d)
    <2>1. CASE deliverer[d].pc = "posted"
      BY <1>1, <1>3, <1>5, <1>7, <2>1, HandChanges DEF RecordError
    <2>2. CASE deliverer[d].pc = "call"
      <3>1. deliverer[d].message \in OnRecord' \cup {None}
        BY <1>7, <2>2 DEF LostInv, HandOK, RecordError, OnRecord
      <3> QED
        BY <1>1, <1>3, <1>5, <1>7, <2>2, <3>1, HandChanges DEF RecordError
    <2> QED
      BY <1>7, <2>1, <2>2 DEF RecordError, Calling
  <1> QED
    BY <1>6, <1>7

LEMMA OtherLost ==
    ASSUME LostInv, UInv', NEW d \in Deliverers, Start(d) \/ Release(d) \/ Crash(d) PROVE LostInv'
  <1>1. deliverer'[d] \in DelivererState /\ d \in DOMAIN deliverer
    BY DEF LostInv, UInv, IInv, TypeOK
  <1>2. CASE Start(d)
    <2> DEFINE run == [deliverer[d] EXCEPT !.pc = "next", !.todo = {r \in DOMAIN outbox : Open(r)}]
    <2>1. deliverer' = [deliverer EXCEPT ![d] = run] /\ deliverer'[d] = run
      BY <1>1, <1>2 DEF Start
    <2>2. run.pc = "next" /\ run.message = deliverer[d].message /\ deliverer[d].message = None
      BY <1>2 DEF Start, LostInv, HandOK, Calling, UInv, IInv, TypeOK, DelivererState
    <2> HIDE DEF run
    <2>3. HandOK(d)'
      BY <2>1, <2>2 DEF HandOK, Calling
    <2> QED
      BY <1>1, <1>2, <2>1, <2>2, <2>3, HandChanges DEF Start
  <1>3. CASE Release(d)
    <2>1. PICK run : run = Following(d, deliverer[d].row)
      OBVIOUS
    <2>2. run \in DelivererState /\ run.pc \in {"idle", "next"} /\ run.message = None
      BY <2>1, FollowingType DEF LostInv, UInv
    <2>3. deliverer' = [deliverer EXCEPT ![d] = run] /\ deliverer'[d] = run
      BY <1>1, <1>3, <2>1 DEF Release
    <2>4. HandOK(d)' /\ deliverer[d].message = None
      BY <1>3, <2>2, <2>3 DEF HandOK, Calling, LostInv, Release
    <2> QED
      BY <1>3, <2>2, <2>3, <2>4, HandChanges DEF Release
  <1>4. CASE Crash(d)
    <2>1. deliverer' = [deliverer EXCEPT ![d] = IdleDeliverer] /\ deliverer'[d] = IdleDeliverer
      BY <1>1, <1>4 DEF Crash
    <2>2. HandOK(d)'
      BY <2>1, IdleType DEF HandOK, Calling
    <2> QED
      BY <1>4, <2>1, <2>2, IdleType, HandChanges DEF Crash
  <1> QED
    BY <1>2, <1>3, <1>4

LEMMA LostInvStep == LostInv /\ [Next]_vars => LostInv'
  <1> SUFFICES ASSUME LostInv, Next \/ UNCHANGED vars PROVE LostInv'
    OBVIOUS
  <1>1. UInv'
    BY UInvStep DEF LostInv
  <1>2. ASSUME NEW d \in Deliverers, Start(d) \/ Step(d) \/ Crash(d) PROVE LostInv'
    BY <1>1, <1>2, AcquireLost, PostLost, RecordLost, OtherLost DEF Step
  <1>3. CASE Enqueue \/ Expire \/ Tick \/ CleanupStart \/ CleanupDelete \/ UNCHANGED vars
    BY <1>1, <1>3, HandsUnchanged DEF Enqueue, Expire, Tick, CleanupStart, CleanupDelete, vars
  <1> QED
    BY <1>2, <1>3 DEF Next

\* Every message of the chat is on record for the cleanup of duplicates, or with
\* its execution of deliver_pending still, save one for each crash or lost
\* answer: no interleaving of executions loses a message by itself.
THEOREM MessagesKnown == Spec => []MessagesOnRecord
  <1>1. Init => LostInv
    <2> SUFFICES ASSUME Init PROVE LostInv
      OBVIOUS
    <2>1. UInv
      BY IInvInit DEF Init, UInv, MessagesOK, RecordedOK, CallsOK, TodoOK, DeletedOK, Calling,
                      IdleDeliverer
    <2>2. Lost = {} /\ faults = 0
      BY DEF Init, Lost
    <2>3. \A d \in Deliverers : HandOK(d)
      BY DEF Init, HandOK, Calling, IdleDeliverer
    <2> QED
      BY <2>1, <2>2, <2>3, FS_EmptySet DEF LostInv
  <1>2. LostInv => MessagesOnRecord
    BY DEF LostInv, Lost, OnRecord, InHand, MessagesOnRecord
  <1> QED
    BY <1>1, <1>2, LostInvStep, PTL DEF Spec

=============================================================================
