-------------------------- MODULE QwenRiskQueueProofs --------------------------
(***************************************************************************)
(* Proofs about QwenRiskQueue, for every set of inputs, any number of      *)
(* concurrent batches and every value of the bounds.                       *)
(***************************************************************************)
EXTENDS QwenRiskQueue, FiniteSetTheorems, SequenceTheorems, WellFoundedInduction, TLAPS

-----------------------------------------------------------------------------
(* Filtered lists.  An item of the priority list and one of the activities  *)
(* both carry their input, which tells it from the others.                 *)

\* Induction over the natural numbers, with the induction hypothesis as a set.
LEMMA SetInduction ==
    ASSUME NEW S, 0 \in S, \A n \in Nat : n \in S => n + 1 \in S
    PROVE  Nat \subseteq S
  <1> SUFFICES ASSUME Nat \ S # {} PROVE FALSE
    OBVIOUS
  <1> DEFINE Before == OpToRel(<, Nat)
  <1>1. IsWellFoundedOn(Before, Nat)
    BY NatLessThanWellFounded
  <1>2. \A m, n \in Nat : m < n => <<m, n>> \in Before
    BY DEF OpToRel
  <1> HIDE DEF Before
  <1>3. PICK n \in Nat \ S : \A m \in Nat \ S : <<m, n>> \notin Before
    BY <1>1, WFMin
  <1>4. n - 1 \in Nat /\ n - 1 < n /\ (n - 1) + 1 = n
    BY <1>3
  <1>5. n - 1 \in S
    BY <1>2, <1>3, <1>4
  <1> QED
    BY <1>3, <1>4, <1>5

\* Every rank up to the size of a set of positions is the rank of one of them.
LEMMA NthExists ==
    ASSUME NEW P \in SUBSET Nat, IsFiniteSet(P), NEW n \in 1 .. Cardinality(P)
    PROVE  Nth(P, n) \in P /\ Cardinality({l \in P : l <= Nth(P, n)}) = n
  <1> DEFINE upTo(k) == {l \in P : l <= k}
             size == Cardinality(P)
             rank == [k \in P |-> Cardinality(upTo(k))]
  <1>1. size \in Nat
    BY FS_CardinalityType
  <1>2. ASSUME NEW k \in P
        PROVE  IsFiniteSet(upTo(k)) /\ rank[k] \in 1 .. size
    <2>1. upTo(k) \in SUBSET P /\ k \in upTo(k)
      OBVIOUS
    <2>2. IsFiniteSet(upTo(k)) /\ Cardinality(upTo(k)) <= size
      BY <2>1, FS_Subset
    <2>3. Cardinality(upTo(k)) \in Nat /\ Cardinality(upTo(k)) # 0
      BY <2>1, <2>2, FS_CardinalityType, FS_EmptySet
    <2> QED
      BY <1>1, <2>2, <2>3
  <1>3. ASSUME NEW k \in P, NEW l \in P, k < l
        PROVE  rank[k] # rank[l]
    <2>1. upTo(k) \in SUBSET upTo(l) /\ l \in upTo(l) /\ l \notin upTo(k)
      <3>1. k \in Nat /\ l \in Nat /\ \A m \in P : m \in Nat
        OBVIOUS
      <3>2. l \in upTo(l) /\ l \notin upTo(k)
        BY <1>3, <3>1
      <3>3. \A m \in upTo(k) : m \in upTo(l)
        BY <1>3, <3>1
      <3> HIDE DEF upTo
      <3> QED
        BY <3>2, <3>3
    <2> HIDE DEF upTo
    <2>2. Cardinality(upTo(k)) # Cardinality(upTo(l))
      BY <1>2, <2>1, FS_Subset
    <2> QED
      BY <2>2
  <1>4. \E k \in P : rank[k] = n
    <2> SUFFICES ASSUME \A k \in P : rank[k] # n PROVE FALSE
      OBVIOUS
    <2> DEFINE Rest == (1 .. size) \ {n}
    <2>1. IsFiniteSet(1 .. size) /\ Cardinality(1 .. size) = size
      BY <1>1, FS_Interval
    <2>2. IsFiniteSet(Rest) /\ Cardinality(Rest) = size - 1
      BY <2>1, FS_RemoveElement
    <2> HIDE DEF rank, Rest
    <2>3. rank \in [P -> Rest]
      BY <1>2 DEF rank, Rest
    <2>4. Cardinality(Rest) < Cardinality(P)
      BY <1>1, <2>2
    <2>5. \E k, l \in P : k # l /\ rank[k] = rank[l]
      BY <2>2, <2>3, <2>4, FS_PigeonHole, Zenon
    <2>6. PICK k \in P, l \in P : k # l /\ rank[k] = rank[l]
      BY <2>5
    <2>7. k \in Nat /\ l \in Nat
      OBVIOUS
    <2> QED
      BY <1>3, <2>6, <2>7
  <1> QED
    BY <1>4 DEF Nth

\* What a filtered list is made of.
LEMMA AtPositionsProperties ==
    ASSUME NEW S, NEW items \in Seq(S), NEW P \in SUBSET DOMAIN items
    PROVE  /\ AtPositions(items, P) \in Seq(S)
           /\ Len(AtPositions(items, P)) = Cardinality(P)
           /\ Cardinality(P) <= Len(items)
           /\ IsFiniteSet(P)
           /\ \A n \in DOMAIN AtPositions(items, P) :
                 Nth(P, n) \in P /\ AtPositions(items, P)[n] = items[Nth(P, n)]
           /\ \A m, n \in DOMAIN AtPositions(items, P) : Nth(P, m) = Nth(P, n) => m = n
  <1> DEFINE size == Cardinality(P)
             pick == [n \in 1 .. size |-> items[Nth(P, n)]]
  <1>1. DOMAIN items = 1 .. Len(items) /\ Len(items) \in Nat
    OBVIOUS
  <1>2. IsFiniteSet(P) /\ size \in Nat /\ size <= Len(items) /\ P \in SUBSET Nat
    <2>1. IsFiniteSet(DOMAIN items) /\ Cardinality(DOMAIN items) = Len(items)
      <3> DEFINE len == Len(items)
      <3>1. len \in Nat
        BY <1>1
      <3> HIDE DEF len
      <3>2. IsFiniteSet(1 .. len) /\ Cardinality(1 .. len) = len
        BY <3>1, FS_Interval
      <3> QED
        BY <1>1, <3>2 DEF len
    <2>2. IsFiniteSet(P) /\ Cardinality(P) <= Len(items)
      BY <2>1, FS_Subset
    <2>3. Cardinality(P) \in Nat
      BY <2>2, FS_CardinalityType
    <2> QED
      BY <1>1, <2>2, <2>3
  <1>3. \A n \in 1 .. size : Nth(P, n) \in P /\ Cardinality({l \in P : l <= Nth(P, n)}) = n
    BY <1>2, NthExists
  <1>4. AtPositions(items, P) = pick
    BY DEF AtPositions
  <1> HIDE DEF size
  <1>5. pick \in Seq(S) /\ Len(pick) = size /\ DOMAIN pick = 1 .. size
    <2>1. \A k \in P : items[k] \in S
      BY <1>1
    <2>2. \A n \in 1 .. size : items[Nth(P, n)] \in S
      BY <1>3, <2>1
    <2> QED
      BY <1>2, <2>2
  <1> QED
    BY <1>2, <1>3, <1>4, <1>5 DEF size

\* No two items are of one input.
Distinct(items) == \A k, l \in DOMAIN items : items[k].input = items[l].input => k = l

\* A filtered list holds the items at the positions, and no input twice.
LEMMA FilteredList ==
    ASSUME NEW S, NEW items \in Seq(S), NEW P \in SUBSET DOMAIN items
    PROVE  LET kept == AtPositions(items, P)
           IN  /\ kept \in Seq(S) /\ Len(kept) <= Len(items)
               /\ \A n \in DOMAIN kept : \E k \in P : kept[n] = items[k]
               /\ \A k \in P : \E n \in DOMAIN kept : kept[n] = items[k]
               /\ Distinct(items) => Distinct(kept)
  <1> DEFINE kept == AtPositions(items, P)
             size == Cardinality(P)
             at == [n \in 1 .. size |-> Nth(P, n)]
  <1>1. /\ kept \in Seq(S) /\ Len(kept) = size /\ size <= Len(items) /\ IsFiniteSet(P)
        /\ \A n \in DOMAIN kept : Nth(P, n) \in P /\ kept[n] = items[Nth(P, n)]
        /\ \A m, n \in DOMAIN kept : Nth(P, m) = Nth(P, n) => m = n
    BY AtPositionsProperties
  <1>2. DOMAIN kept = 1 .. size
    BY <1>1
  <1> HIDE DEF kept, size
  <1>3. \A n \in DOMAIN kept : \E k \in P : kept[n] = items[k]
    BY <1>1
  <1>4. Distinct(items) => Distinct(kept)
    BY <1>1 DEF Distinct
  <1>5. \A k \in P : \E n \in DOMAIN kept : kept[n] = items[k]
    <2> SUFFICES ASSUME NEW k \in P, \A n \in DOMAIN kept : Nth(P, n) # k PROVE FALSE
      BY <1>1
    <2>1. size \in Nat /\ IsFiniteSet(1 .. size) /\ Cardinality(1 .. size) = size
      BY <1>1, FS_CardinalityType, FS_Interval DEF size
    <2> DEFINE Rest == P \ {k}
               Ranks == 1 .. size
    <2>2. IsFiniteSet(Rest) /\ Cardinality(Rest) = size - 1
      BY <1>1, FS_RemoveElement DEF size
    <2>3. at \in [Ranks -> Rest]
      BY <1>1, <1>2
    <2>4. IsFiniteSet(Ranks) /\ Cardinality(Rest) < Cardinality(Ranks)
      BY <2>1, <2>2
    <2> HIDE DEF at, Rest, Ranks
    <2>5. \E m, n \in Ranks : m # n /\ at[m] = at[n]
      BY <2>2, <2>3, <2>4, FS_PigeonHole, Zenon
    <2> QED
      BY <1>1, <1>2, <2>5 DEF at, Ranks
  <1> QED
    BY <1>1, <1>3, <1>4, <1>5 DEF kept

\* A list that loses one item is one shorter.
LEMMA WithoutOne ==
    ASSUME NEW S, NEW items \in Seq(S), NEW k \in DOMAIN items
    PROVE  /\ Len(Without(items, k)) = Len(items) - 1
           /\ Without(items, k) \in Seq(S)
  <1>1. DOMAIN items = 1 .. Len(items) /\ Len(items) \in Nat
    OBVIOUS
  <1> DEFINE len == Len(items)
  <1>2. IsFiniteSet(1 .. len) /\ Cardinality(1 .. len) = len
    <2>1. len \in Nat
      BY <1>1
    <2> HIDE DEF len
    <2> QED
      BY <2>1, FS_Interval
  <1>3. Cardinality(DOMAIN items \ {k}) = len - 1
    <2>1. IsFiniteSet(DOMAIN items) /\ Cardinality(DOMAIN items) = len
      BY <1>1, <1>2
    <2> HIDE DEF len
    <2> QED
      BY <2>1, FS_RemoveElement
  <1>4. DOMAIN items \ {k} \in SUBSET DOMAIN items
    OBVIOUS
  <1> HIDE DEF len
  <1>5. /\ AtPositions(items, DOMAIN items \ {k}) \in Seq(S)
        /\ Len(AtPositions(items, DOMAIN items \ {k})) = Cardinality(DOMAIN items \ {k})
    BY <1>4, AtPositionsProperties
  <1> QED
    BY <1>3, <1>5 DEF Without, len

-----------------------------------------------------------------------------
(* The back-off, and the list of activities.                               *)

Doubling(N, f) == f = [n \in 1 .. N |-> IF n = 1 THEN BackoffTicks ELSE 2 * f[n - 1]]

\* The recursive definition of the back-off is met by a function.
LEMMA DoubledDefined == Doubling(TopAttempts, Doubled)
  <1> DEFINE S == {N \in Nat : \E f : Doubling(N, f)}
  <1>1. 0 \in S
    <2>1. Doubling(0, [n \in 1 .. 0 |-> 0])
      BY DEF Doubling
    <2> QED
      BY <2>1
  <1>2. ASSUME NEW N \in Nat, N \in S PROVE N + 1 \in S
    <2>1. PICK f : Doubling(N, f)
      BY <1>2
    <2> DEFINE g == [n \in 1 .. N + 1 |-> IF n \in 1 .. N THEN f[n]
                                          ELSE IF n = 1 THEN BackoffTicks ELSE 2 * f[N]]
    <2>2. Doubling(N + 1, g)
      BY <2>1 DEF Doubling
    <2> HIDE DEF g
    <2> QED
      BY <2>2
  <1>3. Nat \subseteq S
    BY <1>1, <1>2, SetInduction
  <1>4. \E f : Doubling(TopAttempts, f)
    BY <1>3, BoundsAssumption
  <1> QED
    BY <1>4 DEF Doubled, Doubling

\* A back-off lies between nothing and its cap.
LEMMA BackoffType ==
    ASSUME NEW n \in 1 .. TopAttempts
    PROVE  Backoff(n) \in Nat /\ Backoff(n) <= BackoffCap
  <1> DEFINE S == {m \in Nat : m + 1 <= TopAttempts => Doubled[m + 1] \in Nat}
  <1>1. /\ \A m \in 1 .. TopAttempts :
              Doubled[m] = IF m = 1 THEN BackoffTicks ELSE 2 * Doubled[m - 1]
        /\ TopAttempts \in Nat /\ BackoffTicks \in Nat /\ BackoffCap \in Nat
    BY DoubledDefined, BoundsAssumption, Zenon DEF Doubling
  <1>2. 0 \in S
    BY <1>1
  <1>3. ASSUME NEW m \in Nat, m \in S PROVE m + 1 \in S
    <2> SUFFICES ASSUME m + 2 <= TopAttempts PROVE Doubled[m + 2] \in Nat
      OBVIOUS
    <2>1. m + 2 \in 1 .. TopAttempts /\ (m + 2) - 1 = m + 1 /\ m + 2 # 1
      BY <1>1
    <2>2. Doubled[m + 2] = 2 * Doubled[m + 1]
      BY <1>1, <2>1
    <2>3. Doubled[m + 1] \in Nat
      BY <1>1, <1>3
    <2> QED
      BY <2>2, <2>3
  <1>4. Nat \subseteq S
    BY <1>2, <1>3, SetInduction
  <1>5. n - 1 \in S /\ (n - 1) + 1 = n /\ n <= TopAttempts
    BY <1>1, <1>4
  <1> QED
    BY <1>1, <1>5 DEF Backoff

States == {"QUEUED", "RUNNING", "FAILED", "READY"}

\* The list of activities, as every method leaves it.
ActivitiesOK(acts) == acts \in Seq(Activity) /\ Len(acts) <= ActivityMax /\ Distinct(acts)

\* Every input has an activity: the one in the list, if there is one.
LEMMA ActivityOfProperties ==
    ASSUME NEW acts \in Seq(Activity), NEW i \in Inputs
    PROVE  /\ ActivityOf(acts, i) \in Activity /\ ActivityOf(acts, i).input = i
           /\ \/ ActivityOf(acts, i) = Unknown(i)
              \/ \E k \in DOMAIN acts : acts[k] = ActivityOf(acts, i)
           /\ Distinct(acts) =>
                 \A k \in DOMAIN acts : acts[k].input = i => ActivityOf(acts, i) = acts[k]
  <1>1. Unknown(i) \in Activity /\ Unknown(i).input = i
    BY BoundsAssumption DEF Unknown, Activity, Attempts, Times
  <1>2. CASE \E k \in DOMAIN acts : acts[k].input = i
    <2> DEFINE found == CHOOSE k \in DOMAIN acts : acts[k].input = i
    <2>1. found \in DOMAIN acts /\ acts[found].input = i
      BY <1>2
    <2>2. ActivityOf(acts, i) = acts[found]
      BY <1>2 DEF ActivityOf
    <2> HIDE DEF found
    <2>3. acts[found] \in Activity
      BY <2>1
    <2> QED
      BY <2>1, <2>2, <2>3 DEF Distinct
  <1>3. CASE ~\E k \in DOMAIN acts : acts[k].input = i
    <2>1. ActivityOf(acts, i) = Unknown(i)
      BY <1>3 DEF ActivityOf
    <2> QED
      BY <1>1, <1>3, <2>1
  <1> QED
    BY <1>2, <1>3

\* What an input's activity enters is an activity of that input.
LEMMA EnteredType ==
    ASSUME now \in 1 .. MaxTime, NEW was \in Activity, NEW state \in States,
           NEW retryable \in BOOLEAN
    PROVE  /\ Entered(was, state, retryable) \in Activity
           /\ Entered(was, state, retryable).input = was.input
           /\ Entered(was, state, retryable).state = state
  <1> DEFINE failures == IF state # "FAILED" \/ was.attempts = TopAttempts THEN was.attempts
                         ELSE was.attempts + 1
             since == CASE state = "RUNNING" -> now
                        [] state = "QUEUED" -> IF was.state = "QUEUED" THEN was.since ELSE now
                        [] OTHER -> 0
             retry == IF state = "FAILED" /\ retryable THEN now + Backoff(failures) ELSE 0
  <1>1. was.input \in Inputs /\ was.attempts \in 0 .. TopAttempts /\ was.since \in Times
    BY DEF Activity, Attempts
  <1>2. /\ TopAttempts \in Nat /\ TopAttempts > 0 /\ MaxTime \in Nat /\ BackoffCap \in Nat
        /\ now \in Nat /\ now <= MaxTime
    BY BoundsAssumption
  <1>3. failures \in Attempts /\ (state = "FAILED" => failures \in 1 .. TopAttempts)
    BY <1>1, <1>2 DEF Attempts
  <1>4. since \in Times
    <2>1. now \in Times /\ 0 \in Times
      BY <1>2 DEF Times
    <2> QED
      BY <1>1, <2>1
  <1> HIDE DEF failures
  <1>5. retry \in Times
    <2>1. CASE state = "FAILED" /\ retryable
      <3>1. Backoff(failures) \in Nat /\ Backoff(failures) <= BackoffCap
        BY <1>3, <2>1, BackoffType
      <3> QED
        BY <1>2, <2>1, <3>1 DEF Times
    <2>2. CASE ~(state = "FAILED" /\ retryable)
      BY <1>2, <2>2 DEF Times
    <2> QED
      BY <2>1, <2>2
  <1>6. Entered(was, state, retryable) =
          [input |-> was.input, state |-> state, attempts |-> failures, since |-> since,
           retry |-> retry]
    BY DEF Entered, failures
  <1> HIDE DEF since, retry
  <1> QED
    BY <1>1, <1>3, <1>4, <1>5, <1>6 DEF Activity, States

\* One input's activity enters a state; the others stay as they were, or the
\* oldest is forgotten.
Moves(acts, new, i, state) ==
    /\ ActivitiesOK(new)
    /\ ActivityOf(new, i).state = state
    /\ \A j \in Inputs \ {i} : ActivityOf(new, j) \in {ActivityOf(acts, j), Unknown(j)}
    /\ \A k \in DOMAIN new : \/ new[k].input = i /\ new[k].state = state
                            \/ \E l \in DOMAIN acts : new[k] = acts[l]

LEMMA SetMoves ==
    ASSUME now \in 1 .. MaxTime, NEW acts, ActivitiesOK(acts), NEW i \in Inputs,
           NEW state \in States, NEW retryable \in BOOLEAN
    PROVE  Moves(acts, Set(acts, i, state, retryable), i, state)
  <1> DEFINE others == {k \in DOMAIN acts : acts[k].input # i}
             kept == AtPositions(acts, others)
             entered == Entered(ActivityOf(acts, i), state, retryable)
             all == <<entered>> \o kept
             len == IF Len(all) > ActivityMax THEN ActivityMax ELSE Len(all)
             new == Set(acts, i, state, retryable)
  <1>1. entered \in Activity /\ entered.input = i /\ entered.state = state
    BY ActivityOfProperties, EnteredType DEF ActivitiesOK
  <1>2. /\ kept \in Seq(Activity) /\ Distinct(kept)
        /\ \A n \in DOMAIN kept : \E k \in others : kept[n] = acts[k]
    <2>1. others \in SUBSET DOMAIN acts /\ acts \in Seq(Activity) /\ Distinct(acts)
      BY DEF ActivitiesOK
    <2> HIDE DEF others
    <2> QED
      BY <2>1, FilteredList
  <1>3. new = SubSeq(all, 1, len)
    BY DEF Set
  <1> HIDE DEF kept, entered, new
  <1>4. /\ all \in Seq(Activity) /\ Len(all) = 1 + Len(kept) /\ Len(kept) \in Nat
        /\ all[1] = entered
        /\ \A n \in 2 .. Len(all) : n - 1 \in DOMAIN kept /\ all[n] = kept[n - 1]
    BY <1>1, <1>2
  <1> HIDE DEF all
  <1>5. len \in 1 .. Len(all) /\ len <= ActivityMax
    BY <1>4, BoundsAssumption
  <1>6. /\ new \in Seq(Activity) /\ Len(new) = len /\ len <= ActivityMax
        /\ \A n \in 1 .. len : new[n] = all[n]
        /\ DOMAIN new = 1 .. len
    BY <1>3, <1>4, <1>5
  <1> HIDE DEF len
  <1>7. new[1] = entered /\ 1 \in DOMAIN new
    BY <1>4, <1>5, <1>6
  <1>8. \A n \in DOMAIN new \ {1} :
           /\ n - 1 \in DOMAIN kept /\ new[n] = kept[n - 1]
           /\ \E k \in others : new[n] = acts[k]
    BY <1>2, <1>4, <1>5, <1>6
  <1>9. Distinct(new)
    <2> SUFFICES ASSUME NEW m \in DOMAIN new, NEW n \in DOMAIN new, new[m].input = new[n].input
                 PROVE  m = n
      BY DEF Distinct
    <2>1. \A k \in others : acts[k].input # i
      OBVIOUS
    <2>2. m = 1 <=> n = 1
      BY <1>1, <1>7, <1>8, <2>1
    <2>3. CASE m # 1 /\ n # 1
      <3>1. m - 1 = n - 1
        BY <1>2, <1>8, <2>3 DEF Distinct
      <3> QED
        BY <1>6, <3>1, <1>5
    <2> QED
      BY <2>2, <2>3
  <1>10. ActivitiesOK(new)
    BY <1>6, <1>9 DEF ActivitiesOK
  <1>11. ActivityOf(new, i).state = state
    BY <1>1, <1>6, <1>7, <1>9, ActivityOfProperties
  <1>12. ASSUME NEW j \in Inputs \ {i}
         PROVE  ActivityOf(new, j) \in {ActivityOf(acts, j), Unknown(j)}
    <2>1. CASE ActivityOf(new, j) = Unknown(j)
      BY <2>1
    <2>2. CASE \E n \in DOMAIN new : new[n] = ActivityOf(new, j)
      <3>1. PICK n \in DOMAIN new : new[n] = ActivityOf(new, j) /\ new[n].input = j
        BY <1>6, <2>2, ActivityOfProperties
      <3>2. PICK k \in others : new[n] = acts[k]
        BY <1>1, <1>7, <1>8, <1>12, <3>1
      <3>3. ActivityOf(acts, j) = acts[k]
        BY <3>1, <3>2, ActivityOfProperties DEF ActivitiesOK
      <3> QED
        BY <3>1, <3>2, <3>3
    <2> QED
      BY <1>6, <2>1, <2>2, ActivityOfProperties
  <1>13. \A k \in DOMAIN new : \/ new[k].input = i /\ new[k].state = state
                               \/ \E l \in DOMAIN acts : new[k] = acts[l]
    BY <1>1, <1>7, <1>8
  <1> QED
    BY <1>10, <1>11, <1>12, <1>13 DEF new, Moves

\* Who is queued after a move has entered that state or was queued before.
LEMMA MovesQueued ==
    ASSUME NEW acts, NEW new, NEW i \in Inputs, NEW state, Moves(acts, new, i, state),
           NEW j \in Inputs, ActivityOf(new, j).state = "QUEUED"
    PROVE  IF j = i THEN state = "QUEUED" ELSE ActivityOf(acts, j).state = "QUEUED"
  BY DEF Moves, Unknown

\* What is shown as ready has its result in a set of runs.
RecordedIn(acts, R) ==
    \A k \in DOMAIN acts : acts[k].state = "READY" => acts[k].input \in R

LEMMA MovesRecorded ==
    ASSUME NEW acts, NEW new, NEW i, NEW state, Moves(acts, new, i, state),
           NEW R, RecordedIn(acts, R), state = "READY" => i \in R
    PROVE  RecordedIn(new, R)
  BY DEF Moves, RecordedIn

-----------------------------------------------------------------------------
(* The priority list, what has expired in it, and who fails by that.       *)

QueueOK(entries) == entries \in Seq(Entry) /\ Len(entries) <= Capacity /\ Distinct(entries)

\* The live entries are the unexpired ones of the list, in a list of their own.
LEMMA LiveProperties ==
    ASSUME QueueOK(queue)
    PROVE  /\ QueueOK(Live)
           /\ \A n \in DOMAIN Live : \E k \in DOMAIN queue : Live[n] = queue[k] /\ Unexpired(queue[k])
           /\ \A k \in DOMAIN queue : Unexpired(queue[k]) => \E n \in DOMAIN Live : Live[n] = queue[k]
  <1> DEFINE P == {k \in DOMAIN queue : Unexpired(queue[k])}
  <1>1. P \in SUBSET DOMAIN queue /\ \A k \in DOMAIN queue : k \in P <=> Unexpired(queue[k])
    OBVIOUS
  <1>2. Live = AtPositions(queue, P)
    BY DEF Live
  <1>3. queue \in Seq(Entry) /\ Len(queue) \in Nat /\ Len(queue) <= Capacity /\ Capacity \in Nat
    BY BoundsAssumption DEF QueueOK
  <1> HIDE DEF P
  <1>4. /\ Live \in Seq(Entry) /\ Len(Live) <= Len(queue) /\ Distinct(Live)
        /\ \A n \in DOMAIN Live : \E k \in P : Live[n] = queue[k]
        /\ \A k \in P : \E n \in DOMAIN Live : Live[n] = queue[k]
    BY <1>1, <1>2, <1>3, FilteredList DEF QueueOK
  <1>5. Len(Live) <= Capacity
    <2>1. Len(Live) \in Nat
      BY <1>4
    <2> QED
      BY <1>3, <1>4, <2>1
  <1> QED
    BY <1>1, <1>4, <1>5 DEF QueueOK

LEMMA ExpiredProperties ==
    ASSUME QueueOK(queue)
    PROVE  /\ Expired \in Seq(Entry)
           /\ \A k \in DOMAIN queue : Unexpired(queue[k]) \/ \E n \in DOMAIN Expired : Expired[n] = queue[k]
  <1> DEFINE P == {k \in DOMAIN queue : ~Unexpired(queue[k])}
  <1>1. P \in SUBSET DOMAIN queue /\ \A k \in DOMAIN queue : k \in P <=> ~Unexpired(queue[k])
    OBVIOUS
  <1>2. Expired = AtPositions(queue, P)
    BY DEF Expired
  <1> HIDE DEF P
  <1>3. /\ Expired \in Seq(Entry)
        /\ \A k \in P : \E n \in DOMAIN Expired : Expired[n] = queue[k]
    BY <1>1, <1>2, FilteredList DEF QueueOK
  <1> QED
    BY <1>1, <1>3

\* One input whose retry is due after a back-off.
FailedNow(acts, i) == Set(acts, i, "FAILED", TRUE)

LEMMA FailedNowMoves ==
    ASSUME now \in 1 .. MaxTime, NEW acts, ActivitiesOK(acts), NEW i \in Inputs
    PROVE  Moves(acts, FailedNow(acts, i), i, "FAILED")
  <1>1. "FAILED" \in States /\ TRUE \in BOOLEAN
    BY DEF States
  <1> QED
    BY <1>1, SetMoves, Zenon DEF FailedNow

Failing(N, f) ==
    f = [n \in 0 .. N |-> IF n = 0 THEN activity
                          ELSE FailedNow(f[n - 1], Expired[n].input)]

\* The activities after an expiry are those after failing one entry after the
\* other.
LEMMA AfterExpiryDefined ==
    ASSUME QueueOK(queue)
    PROVE  \E f : /\ f[0] = activity
                  /\ \A n \in 1 .. Len(Expired) :
                        f[n] = FailedNow(f[n - 1], Expired[n].input)
                  /\ AfterExpiry = f[Len(Expired)]
  <1> DEFINE S == {N \in Nat : \E f : Failing(N, f)}
  <1>1. 0 \in S
    <2>1. Failing(0, [n \in 0 .. 0 |-> activity])
      BY DEF Failing
    <2> QED
      BY <2>1
  <1>2. ASSUME NEW N \in Nat, N \in S PROVE N + 1 \in S
    <2>1. PICK f : Failing(N, f)
      BY <1>2
    <2> DEFINE g == [n \in 0 .. N + 1 |-> IF n \in 0 .. N THEN f[n]
                                          ELSE FailedNow(f[N], Expired[N + 1].input)]
    <2>2. Failing(N + 1, g)
      BY <2>1 DEF Failing
    <2> HIDE DEF g
    <2> QED
      BY <2>2
  <1>3. Nat \subseteq S
    BY <1>1, <1>2, SetInduction
  <1>4. Expired \in Seq(Entry) /\ Len(Expired) \in Nat
    BY ExpiredProperties
  <1> DEFINE f0 == CHOOSE f : Failing(Len(Expired), f)
  <1>5. Failing(Len(Expired), f0)
    BY <1>3, <1>4
  <1>6. AfterExpiry = f0[Len(Expired)]
    BY DEF AfterExpiry, Failing, FailedNow
  <1> HIDE DEF f0
  <1> DEFINE N == Len(Expired)
  <1>7. \A n \in 0 .. N :
           f0[n] = IF n = 0 THEN activity ELSE FailedNow(f0[n - 1], Expired[n].input)
    BY <1>5, Zenon DEF Failing
  <1>8. 0 \in 0 .. N /\ \A n \in 1 .. N : n \in 0 .. N /\ n # 0
    BY <1>4
  <1>9. f0[0] = activity /\ \A n \in 1 .. N : f0[n] = FailedNow(f0[n - 1], Expired[n].input)
    BY <1>7, <1>8
  <1> QED
    BY <1>6, <1>9

\* Who has an expired entry is failed or forgotten afterwards; nobody else's
\* activity changes otherwise.
LEMMA AfterExpiryProperties ==
    ASSUME QueueOK(queue), ActivitiesOK(activity), now \in 1 .. MaxTime
    PROVE  /\ ActivitiesOK(AfterExpiry)
           /\ \A i \in Inputs :
                 \/ ActivityOf(AfterExpiry, i).state \in {"FAILED", "NONE"}
                 \/ /\ ActivityOf(AfterExpiry, i) = ActivityOf(activity, i)
                    /\ \A k \in DOMAIN queue : queue[k].input = i => Unexpired(queue[k])
           /\ \A k \in DOMAIN AfterExpiry :
                 \/ AfterExpiry[k].state = "FAILED"
                 \/ \E l \in DOMAIN activity : AfterExpiry[k] = activity[l]
  <1>1. PICK f : /\ f[0] = activity
                 /\ \A n \in 1 .. Len(Expired) :
                       f[n] = FailedNow(f[n - 1], Expired[n].input)
                 /\ AfterExpiry = f[Len(Expired)]
    BY AfterExpiryDefined
  <1>2. Expired \in Seq(Entry) /\ Len(Expired) \in Nat
    BY ExpiredProperties
  <1> DEFINE Touched(n, i) == \E m \in 1 .. n : Expired[m].input = i
             Lost(acts, i) == ActivityOf(acts, i).state \in {"FAILED", "NONE"}
             Same(acts, i) == ActivityOf(acts, i) = ActivityOf(activity, i)
             Old(a) == a.state = "FAILED" \/ \E l \in DOMAIN activity : a = activity[l]
             Good(n) == /\ ActivitiesOK(f[n])
                        /\ \A i \in Inputs : Lost(f[n], i) \/ (Same(f[n], i) /\ ~Touched(n, i))
                        /\ \A k \in DOMAIN f[n] : Old(f[n][k])
             S == {n \in Nat : n <= Len(Expired) => Good(n)}
  <1>3. 0 \in S
    BY <1>1
  <1>4. ASSUME NEW n \in Nat, n \in S PROVE n + 1 \in S
    <2> SUFFICES ASSUME n + 1 <= Len(Expired) PROVE Good(n + 1)
      OBVIOUS
    <2> DEFINE old == f[n]
               new == f[n + 1]
               i == Expired[n + 1].input
    <2>1. n + 1 \in 1 .. Len(Expired) /\ (n + 1) - 1 = n /\ n <= Len(Expired)
      BY <1>2
    <2>2. new = FailedNow(old, i) /\ i \in Inputs
      <3>1. Expired[n + 1] \in Entry
        BY <1>2, <2>1
      <3> QED
        BY <1>1, <2>1, <3>1 DEF Entry
    <2>3. Good(n)
      BY <1>4, <2>1
    <2>4. \A j \in Inputs \ {i} : Touched(n + 1, j) => Touched(n, j)
      BY <2>1
    <2> HIDE DEF old, new, i, Touched
    <2>5. ActivitiesOK(old)
      BY <2>3 DEF old
    <2>6. /\ ActivitiesOK(new)
          /\ ActivityOf(new, i).state = "FAILED"
          /\ \A j \in Inputs \ {i} : ActivityOf(new, j) \in {ActivityOf(old, j), Unknown(j)}
          /\ \A k \in DOMAIN new :
                \/ new[k].input = i /\ new[k].state = "FAILED"
                \/ \E l \in DOMAIN old : new[k] = old[l]
      BY <2>2, <2>5, FailedNowMoves DEF Moves
    <2>7. \A j \in Inputs : Unknown(j).state = "NONE"
      BY DEF Unknown
    <2>8. \A j \in Inputs : Lost(new, j) \/ (Same(new, j) /\ ~Touched(n + 1, j))
      BY <2>3, <2>4, <2>6, <2>7 DEF old
    <2>9. \A k \in DOMAIN new : Old(new[k])
      BY <2>3, <2>6 DEF old
    <2> QED
      BY <2>6, <2>8, <2>9 DEF new
  <1>5. Nat \subseteq S
    BY <1>3, <1>4, SetInduction
  <1>6. Good(Len(Expired))
    BY <1>2, <1>5
  <1>7. ASSUME NEW i \in Inputs, ~Touched(Len(Expired), i), NEW k \in DOMAIN queue, queue[k].input = i
        PROVE  Unexpired(queue[k])
    <2>1. DOMAIN Expired = 1 .. Len(Expired)
      BY <1>2
    <2> QED
      BY <1>7, <2>1, ExpiredProperties
  <1> QED
    BY <1>1, <1>6, <1>7

-----------------------------------------------------------------------------
(* What the methods make of the priority list.                             *)

LEMMA OldestOfIn ==
    ASSUME NEW P \in SUBSET Nat, P # {}
    PROVE  OldestOf(P) \in P
  <1> DEFINE Before == OpToRel(<, Nat)
  <1>1. IsWellFoundedOn(Before, Nat)
    BY NatLessThanWellFounded
  <1>2. \A m, n \in Nat : m < n => <<m, n>> \in Before
    BY DEF OpToRel
  <1> HIDE DEF Before
  <1>3. PICK n \in P : \A m \in P : <<m, n>> \notin Before
    BY <1>1, WFMin
  <1>4. \A l \in P : ~(l < n)
    BY <1>2, <1>3
  <1>5. \A l \in P : n <= l
    BY <1>4
  <1> QED
    BY <1>5 DEF OldestOf

LEMMA NewEntryType ==
    ASSUME now \in 1 .. MaxTime, NEW i \in Inputs, NEW class \in {"PUBLIC", "AUTO_RETRY"},
           NEW t \in Times
    PROVE  /\ NewEntry(i, class, t) \in Entry
           /\ NewEntry(i, class, t).input = i /\ NewEntry(i, class, t).class = class
  <1>1. now \in Times
    BY BoundsAssumption DEF Times
  <1> QED
    BY <1>1 DEF NewEntry, Entry

\* An entry of a new input joins the list.
LEMMA AppendEntry ==
    ASSUME NEW entries \in Seq(Entry), Distinct(entries), NEW e \in Entry, ~Holds(entries, e.input)
    PROVE  LET new == Append(entries, e)
           IN  /\ new \in Seq(Entry) /\ Distinct(new) /\ Len(new) = Len(entries) + 1
               /\ \A n \in DOMAIN new : new[n] = e \/ \E k \in DOMAIN entries : new[n] = entries[k]
               /\ \A k \in DOMAIN entries : k \in DOMAIN new /\ new[k] = entries[k]
               /\ Len(new) \in DOMAIN new /\ new[Len(new)] = e
  <1> DEFINE new == Append(entries, e)
             len == Len(entries)
  <1>1. len \in Nat /\ DOMAIN entries = 1 .. len
    OBVIOUS
  <1>2. /\ new \in Seq(Entry) /\ Len(new) = len + 1 /\ DOMAIN new = 1 .. len + 1
        /\ \A k \in 1 .. len : new[k] = entries[k]
        /\ new[len + 1] = e
    BY <1>1
  <1> HIDE DEF new, len
  <1>3. \A n \in DOMAIN new : n = len + 1 \/ n \in DOMAIN entries
    BY <1>1, <1>2
  <1>4. \A k \in DOMAIN entries : entries[k].input # e.input
    BY DEF Holds
  <1>5. Distinct(new)
    BY <1>1, <1>2, <1>3, <1>4 DEF Distinct
  <1> QED
    BY <1>1, <1>2, <1>3, <1>5 DEF new, len

\* One entry leaves the list.
LEMMA WithoutEntry ==
    ASSUME NEW entries \in Seq(Entry), Distinct(entries), NEW k \in DOMAIN entries
    PROVE  LET new == Without(entries, k)
           IN  /\ new \in Seq(Entry) /\ Distinct(new) /\ Len(new) = Len(entries) - 1
               /\ \A n \in DOMAIN new : \E l \in DOMAIN entries \ {k} : new[n] = entries[l]
               /\ \A l \in DOMAIN entries \ {k} : \E n \in DOMAIN new : new[n] = entries[l]
               /\ ~Holds(new, entries[k].input)
  <1> DEFINE P == DOMAIN entries \ {k}
             new == Without(entries, k)
  <1>1. P \in SUBSET DOMAIN entries
    OBVIOUS
  <1>2. new = AtPositions(entries, P)
    BY DEF Without
  <1> HIDE DEF P, new
  <1>3. /\ new \in Seq(Entry) /\ Distinct(new)
        /\ \A n \in DOMAIN new : \E l \in P : new[n] = entries[l]
        /\ \A l \in P : \E n \in DOMAIN new : new[n] = entries[l]
    BY <1>1, <1>2, FilteredList
  <1>4. Len(new) = Len(entries) - 1
    BY WithoutOne DEF new
  <1>5. ~Holds(new, entries[k].input)
    BY <1>3 DEF Holds, Distinct, P
  <1> QED
    BY <1>3, <1>4, <1>5 DEF new, P

\* A reader's request that is not refused leaves the reader with a public
\* entry, every other reader with theirs, and at most drops an automatic retry.
LEMMA RequestList ==
    ASSUME QueueOK(queue), now \in 1 .. MaxTime, NEW i \in Inputs,
           Holds(Live, i) \/ ~(Len(Live) >= Capacity /\ Retries(Live) = {})
    PROVE  LET new == IF Holds(Live, i) THEN Promoted(Live, i)
                      ELSE Append(WithRoom(Live), NewEntry(i, "PUBLIC", now))
           IN  /\ QueueOK(new) /\ Holds(new, i)
               /\ \A n \in DOMAIN new : new[n].class = "AUTO_RETRY" =>
                     new[n].input # i /\ \E k \in DOMAIN queue : new[n] = queue[k]
               /\ \A k \in DOMAIN queue : Unexpired(queue[k]) /\ queue[k].class = "PUBLIC" =>
                     Holds(new, queue[k].input)
  <1> DEFINE new == IF Holds(Live, i) THEN Promoted(Live, i)
                    ELSE Append(WithRoom(Live), NewEntry(i, "PUBLIC", now))
             Fine(es) == /\ QueueOK(es) /\ Holds(es, i)
                         /\ \A n \in DOMAIN es : es[n].class = "AUTO_RETRY" =>
                               es[n].input # i /\ \E k \in DOMAIN queue : es[n] = queue[k]
                         /\ \A k \in DOMAIN queue : Unexpired(queue[k]) /\ queue[k].class = "PUBLIC" =>
                               Holds(es, queue[k].input)
  <1>1. /\ Live \in Seq(Entry) /\ Len(Live) <= Capacity /\ Distinct(Live) /\ Len(Live) \in Nat
        /\ DOMAIN Live = 1 .. Len(Live)
        /\ \A n \in DOMAIN Live : \E k \in DOMAIN queue : Live[n] = queue[k]
        /\ \A k \in DOMAIN queue : Unexpired(queue[k]) => \E n \in DOMAIN Live : Live[n] = queue[k]
    BY LiveProperties DEF QueueOK
  <1>2. Capacity \in Nat /\ Capacity > 0 /\ now \in Times
    BY BoundsAssumption DEF Times
  <1>3. CASE Holds(Live, i)
    <2> DEFINE k == CHOOSE k \in DOMAIN Live : Live[k].input = i
    <2>1. k \in DOMAIN Live /\ Live[k].input = i
      BY <1>3 DEF Holds
    <2>2. new = IF Live[k].class = "PUBLIC" THEN queue
                ELSE Append(Without(Live, k), NewEntry(i, "PUBLIC", Live[k].available))
      BY <1>3 DEF Promoted
    <2> HIDE DEF k, new
    <2>3. PICK q \in DOMAIN queue : Live[k] = queue[q]
      BY <1>1, <2>1
    <2>4. CASE Live[k].class = "PUBLIC"
      <3>1. \A n \in DOMAIN queue : queue[n].class = "AUTO_RETRY" => queue[n].input # i
        BY <2>1, <2>3, <2>4 DEF QueueOK, Distinct
      <3>2. Holds(queue, i) /\ \A n \in DOMAIN queue : Holds(queue, queue[n].input)
        BY <2>1, <2>3 DEF Holds
      <3>3. new = queue
        BY <2>2, <2>4
      <3> QED
        BY <3>1, <3>2, <3>3 DEF new
    <2>5. CASE Live[k].class # "PUBLIC"
      <3> DEFINE rest == Without(Live, k)
                 e == NewEntry(i, "PUBLIC", Live[k].available)
      <3>1. new = Append(rest, e)
        BY <2>2, <2>5
      <3>2. /\ rest \in Seq(Entry) /\ Distinct(rest) /\ Len(rest) = Len(Live) - 1
            /\ \A n \in DOMAIN rest : \E l \in DOMAIN Live \ {k} : rest[n] = Live[l]
            /\ \A l \in DOMAIN Live \ {k} : \E n \in DOMAIN rest : rest[n] = Live[l]
            /\ ~Holds(rest, i)
        BY <1>1, <2>1, WithoutEntry
      <3>3. e \in Entry /\ e.input = i /\ e.class = "PUBLIC"
        <4>1. Live[k].available \in Times
          <5>1. Live[k] \in Entry
            BY <1>1, <2>1
          <5> QED
            BY <5>1 DEF Entry
        <4> QED
          BY <4>1, NewEntryType
      <3> HIDE DEF rest, e
      <3>4. /\ new \in Seq(Entry) /\ Distinct(new) /\ Len(new) = Len(rest) + 1
            /\ \A n \in DOMAIN new : new[n] = e \/ \E l \in DOMAIN rest : new[n] = rest[l]
            /\ \A l \in DOMAIN rest : l \in DOMAIN new /\ new[l] = rest[l]
            /\ Len(new) \in DOMAIN new /\ new[Len(new)] = e
        BY <3>1, <3>2, <3>3, AppendEntry
      <3>5. QueueOK(new)
        BY <1>1, <3>2, <3>4 DEF QueueOK
      <3>6. Holds(new, i)
        BY <3>3, <3>4 DEF Holds
      <3>7. ASSUME NEW n \in DOMAIN new, new[n].class = "AUTO_RETRY"
            PROVE  new[n].input # i /\ \E l \in DOMAIN queue : new[n] = queue[l]
        <4>1. PICK l \in DOMAIN rest : new[n] = rest[l]
          BY <3>3, <3>4, <3>7
        <4> QED
          BY <1>1, <3>2, <4>1 DEF Holds
      <3>8. ASSUME NEW l \in DOMAIN queue, Unexpired(queue[l])
            PROVE  Holds(new, queue[l].input)
        <4>1. PICK n \in DOMAIN Live : Live[n] = queue[l]
          BY <1>1, <3>8
        <4>2. CASE n = k
          BY <2>1, <3>6, <4>1, <4>2
        <4>3. CASE n # k
          <5>1. PICK m \in DOMAIN rest : rest[m] = Live[n]
            BY <3>2, <4>3
          <5> QED
            BY <3>4, <4>1, <5>1 DEF Holds
        <4> QED
          BY <4>2, <4>3
      <3> QED
        BY <3>5, <3>6, <3>7, <3>8 DEF new
    <2> QED
      BY <2>4, <2>5
  <1>4. CASE ~Holds(Live, i)
    <2> DEFINE room == WithRoom(Live)
               e == NewEntry(i, "PUBLIC", now)
    <2>1. new = Append(room, e)
      BY <1>4
    <2>2. /\ room \in Seq(Entry) /\ Distinct(room) /\ Len(room) < Capacity /\ Len(room) \in Nat
          /\ \A n \in DOMAIN room : \E l \in DOMAIN Live : room[n] = Live[l]
          /\ \A l \in DOMAIN Live : Live[l].class = "PUBLIC" => \E n \in DOMAIN room : room[n] = Live[l]
      <3>1. CASE Len(Live) < Capacity
        BY <1>1, <3>1 DEF WithRoom
      <3>2. CASE ~(Len(Live) < Capacity)
        <4> DEFINE o == OldestOf(Retries(Live))
        <4>1. Retries(Live) # {} /\ Retries(Live) \in SUBSET Nat
          BY <1>1, <1>2, <1>4, <3>2 DEF Retries
        <4>2. o \in DOMAIN Live /\ Live[o].class = "AUTO_RETRY"
          <5>1. o \in Retries(Live)
            BY <4>1, OldestOfIn
          <5> QED
            BY <5>1 DEF Retries
        <4>3. room = Without(Live, o)
          BY <3>2 DEF WithRoom
        <4> HIDE DEF o, room
        <4>4. /\ room \in Seq(Entry) /\ Distinct(room) /\ Len(room) = Len(Live) - 1
              /\ \A n \in DOMAIN room : \E l \in DOMAIN Live \ {o} : room[n] = Live[l]
              /\ \A l \in DOMAIN Live \ {o} : \E n \in DOMAIN room : room[n] = Live[l]
          <5>1. Live \in Seq(Entry) /\ Distinct(Live) /\ o \in DOMAIN Live
            BY <1>1, <4>2
          <5> QED
            BY <4>3, <5>1, WithoutEntry
        <4>5. Len(room) \in Nat /\ Len(room) < Capacity
          BY <1>1, <1>2, <4>4
        <4>6. \A l \in DOMAIN Live : Live[l].class = "PUBLIC" => l # o
          BY <4>2
        <4> QED
          BY <4>4, <4>5, <4>6
      <3> QED
        BY <3>1, <3>2
    <2>3. e \in Entry /\ e.input = i /\ e.class = "PUBLIC"
      BY <1>2, NewEntryType
    <2> HIDE DEF room, e, new
    <2>4. ~Holds(room, i)
      BY <1>4, <2>2 DEF Holds
    <2>5. /\ new \in Seq(Entry) /\ Distinct(new) /\ Len(new) = Len(room) + 1
          /\ \A n \in DOMAIN new : new[n] = e \/ \E l \in DOMAIN room : new[n] = room[l]
          /\ \A l \in DOMAIN room : l \in DOMAIN new /\ new[l] = room[l]
          /\ Len(new) \in DOMAIN new /\ new[Len(new)] = e
      BY <2>1, <2>2, <2>3, <2>4, AppendEntry
    <2>6. QueueOK(new)
      BY <1>2, <2>2, <2>5 DEF QueueOK
    <2>7. Holds(new, i)
      BY <2>3, <2>5 DEF Holds
    <2>8. ASSUME NEW n \in DOMAIN new, new[n].class = "AUTO_RETRY"
          PROVE  new[n].input # i /\ \E l \in DOMAIN queue : new[n] = queue[l]
      <3>1. PICK l \in DOMAIN room : new[n] = room[l]
        BY <2>3, <2>5, <2>8
      <3> QED
        BY <1>1, <2>2, <2>4, <3>1 DEF Holds
    <2>9. ASSUME NEW l \in DOMAIN queue, Unexpired(queue[l]), queue[l].class = "PUBLIC"
          PROVE  Holds(new, queue[l].input)
      <3>1. PICK n \in DOMAIN Live : Live[n] = queue[l]
        BY <1>1, <2>9
      <3>2. PICK m \in DOMAIN room : room[m] = Live[n]
        BY <2>2, <2>9, <3>1
      <3> QED
        BY <2>5, <3>1, <3>2 DEF Holds
    <2> QED
      BY <2>6, <2>7, <2>8, <2>9 DEF new
  <1> QED
    BY <1>3, <1>4

\* Scheduling a retry touches no other input's live entry.
LEMMA RetryList ==
    ASSUME QueueOK(queue), NEW i \in Inputs, NEW e \in Entry, e.input = i, NEW retryable \in BOOLEAN,
           retryable => HasRoom(Live, i)
    PROVE  LET new == IF retryable THEN Replaced(Live, i, e) ELSE WithoutInput(Live, i)
           IN  /\ QueueOK(new)
               /\ \A n \in DOMAIN new : new[n].input = i \/ \E k \in DOMAIN queue : new[n] = queue[k]
               /\ \A k \in DOMAIN queue : Unexpired(queue[k]) =>
                     queue[k].input = i \/ Holds(new, queue[k].input)
  <1> DEFINE new == IF retryable THEN Replaced(Live, i, e) ELSE WithoutInput(Live, i)
             Fine(es) == /\ QueueOK(es)
                         /\ \A n \in DOMAIN es : es[n].input = i \/ \E l \in DOMAIN Live : es[n] = Live[l]
                         /\ \A l \in DOMAIN Live : Live[l].input = i \/ Holds(es, Live[l].input)
  <1>1. /\ Live \in Seq(Entry) /\ Len(Live) <= Capacity /\ Distinct(Live) /\ Len(Live) \in Nat
        /\ DOMAIN Live = 1 .. Len(Live)
        /\ \A n \in DOMAIN Live : \E k \in DOMAIN queue : Live[n] = queue[k]
        /\ \A k \in DOMAIN queue : Unexpired(queue[k]) => \E n \in DOMAIN Live : Live[n] = queue[k]
    BY LiveProperties DEF QueueOK
  <1>2. Capacity \in Nat
    BY BoundsAssumption
  <1>3. ASSUME retryable /\ Holds(Live, i) PROVE Fine(new)
    <2>1. new = [k \in DOMAIN Live |-> IF Live[k].input = i THEN e ELSE Live[k]]
      BY <1>3 DEF Replaced
    <2> HIDE DEF new
    <2>2. /\ DOMAIN new = DOMAIN Live
          /\ \A n \in DOMAIN Live : new[n].input = Live[n].input /\ (new[n].input = i \/ new[n] = Live[n])
      BY <2>1
    <2>3. new \in Seq(Entry) /\ Len(new) = Len(Live)
      BY <1>1, <2>1
    <2>4. Distinct(new)
      BY <1>1, <2>2 DEF Distinct
    <2>5. QueueOK(new)
      BY <1>1, <2>3, <2>4 DEF QueueOK
    <2> QED
      BY <2>2, <2>5 DEF Holds
  <1>4. ASSUME retryable /\ ~Holds(Live, i) PROVE Fine(new)
    <2>1. new = Append(Live, e) /\ Len(Live) < Capacity
      BY <1>4 DEF Replaced, HasRoom
    <2> HIDE DEF new
    <2>2. /\ new \in Seq(Entry) /\ Distinct(new) /\ Len(new) = Len(Live) + 1
          /\ \A n \in DOMAIN new : new[n] = e \/ \E k \in DOMAIN Live : new[n] = Live[k]
          /\ \A k \in DOMAIN Live : k \in DOMAIN new /\ new[k] = Live[k]
      BY <1>1, <1>4, <2>1, AppendEntry
    <2>3. QueueOK(new)
      BY <1>1, <1>2, <2>1, <2>2 DEF QueueOK
    <2> QED
      BY <2>2, <2>3 DEF Holds
  <1>5. ASSUME ~retryable PROVE Fine(new)
    <2> DEFINE P == {k \in DOMAIN Live : Live[k].input # i}
    <2>1. P \in SUBSET DOMAIN Live /\ new = AtPositions(Live, P)
      BY <1>5 DEF WithoutInput
    <2>2. \A k \in DOMAIN Live : k \in P \/ Live[k].input = i
      OBVIOUS
    <2> HIDE DEF P, new
    <2>3. /\ new \in Seq(Entry) /\ Len(new) <= Len(Live) /\ Distinct(new)
          /\ \A n \in DOMAIN new : \E k \in P : new[n] = Live[k]
          /\ \A k \in P : \E n \in DOMAIN new : new[n] = Live[k]
      BY <1>1, <2>1, FilteredList
    <2>4. QueueOK(new)
      <3>1. Len(new) \in Nat
        BY <2>3
      <3> QED
        BY <1>1, <1>2, <2>3, <3>1 DEF QueueOK
    <2> QED
      BY <2>1, <2>2, <2>3, <2>4 DEF Holds
  <1> HIDE DEF new
  <1>6. Fine(new)
    BY <1>3, <1>4, <1>5
  <1>7. \A k \in DOMAIN queue : Unexpired(queue[k]) => queue[k].input = i \/ Holds(new, queue[k].input)
    BY <1>1, <1>6
  <1> QED
    BY <1>1, <1>6, <1>7 DEF new

-----------------------------------------------------------------------------
(* List and activities together: nobody who is queued has an automatic      *)
(* retry only, so an eviction takes no reader's entry, and no step leaves a *)
(* queued reader without an entry.                                         *)

RetriesUnasked ==
    \A k \in DOMAIN queue : queue[k].class = "AUTO_RETRY" => ~Queued(queue[k].input)

ListsOK ==
    /\ QueueOK(queue) /\ ActivitiesOK(activity)
    /\ RetriesUnasked /\ RecordedIn(activity, runs)

KeepsTasks ==
    \A i \in Inputs : Queued(i)' => Holds(queue', i) \/ (Queued(i) /\ ~HoldsLive(i))

LEMMA EntryOf ==
    ASSUME QueueOK(queue), NEW k \in DOMAIN queue
    PROVE  queue[k] \in Entry /\ queue[k].input \in Inputs /\ queue[k].class \in {"PUBLIC", "AUTO_RETRY"}
  <1>1. queue[k] \in Entry
    BY DEF QueueOK
  <1> QED
    BY <1>1 DEF Entry

\* A step that changes neither.
LEMMA ListsAlone ==
    ASSUME ListsOK, UNCHANGED <<queue, activity>>, runs \subseteq runs'
    PROVE  ListsOK' /\ KeepsTasks
  <1>1. ListsOK'
    BY DEF ListsOK, RetriesUnasked, Queued, RecordedIn
  <1>2. KeepsTasks
    BY DEF KeepsTasks, Queued, Holds, HoldsLive
  <1> QED
    BY <1>1, <1>2

\* A step that sets one activity to anything but queued.
LEMMA OneMove ==
    ASSUME ListsOK, UNCHANGED queue, runs \subseteq runs', NEW i \in Inputs,
           NEW state \in {"RUNNING", "FAILED", "READY"}, state = "READY" => i \in runs',
           Moves(activity, activity', i, state)
    PROVE  ListsOK' /\ KeepsTasks
  <1>1. RecordedIn(activity', runs')
    <2>1. RecordedIn(activity, runs')
      BY DEF ListsOK, RecordedIn
    <2> QED
      BY <2>1, MovesRecorded
  <1>2. \A j \in Inputs : Queued(j)' => Queued(j)
    BY MovesQueued DEF Queued
  <1>3. RetriesUnasked'
    <2>1. \A k \in DOMAIN queue : queue[k].input \in Inputs
      BY EntryOf DEF ListsOK
    <2> QED
      BY <1>2, <2>1 DEF ListsOK, RetriesUnasked, Queued
  <1>4. KeepsTasks
    BY <1>2 DEF KeepsTasks, Holds, HoldsLive
  <1> QED
    BY <1>1, <1>3, <1>4 DEF ListsOK, Moves

LEMMA ScheduleRetryKeeps ==
    ASSUME ListsOK, now \in 1 .. MaxTime, NEW i \in Inputs, ScheduleRetry(i), UNCHANGED runs
    PROVE  ListsOK' /\ KeepsTasks
  <1> DEFINE attempts == ActivityOf(activity, i).attempts
             retryable == attempts < AutoRetries /\ HasRoom(Live, i)
             acts == Set(activity, i, "FAILED", retryable)
             e == NewEntry(i, "AUTO_RETRY", ActivityOf(acts, i).retry)
  <1>1. /\ activity' = acts
        /\ queue' = IF retryable THEN Replaced(Live, i, e) ELSE WithoutInput(Live, i)
    BY DEF ScheduleRetry
  <1>2. retryable \in BOOLEAN /\ (retryable => HasRoom(Live, i))
    BY DEF HasRoom
  <1> HIDE DEF retryable
  <1>3. Moves(activity, acts, i, "FAILED")
    <2>1. "FAILED" \in States
      BY DEF States
    <2> QED
      BY <1>2, <2>1, SetMoves DEF ListsOK
  <1> HIDE DEF acts
  <1>4. e \in Entry /\ e.input = i
    <2>1. ActivityOf(acts, i) \in Activity
      BY <1>3, ActivityOfProperties DEF Moves, ActivitiesOK
    <2>2. ActivityOf(acts, i).retry \in Times
      BY <2>1 DEF Activity
    <2> QED
      BY <2>2, NewEntryType
  <1> HIDE DEF e
  <1>5. /\ QueueOK(queue')
        /\ \A n \in DOMAIN queue' : queue'[n].input = i \/ \E k \in DOMAIN queue : queue'[n] = queue[k]
        /\ \A k \in DOMAIN queue : Unexpired(queue[k]) =>
              queue[k].input = i \/ Holds(queue', queue[k].input)
    <2> DEFINE new == IF retryable THEN Replaced(Live, i, e) ELSE WithoutInput(Live, i)
    <2>1. /\ QueueOK(new)
          /\ \A n \in DOMAIN new : new[n].input = i \/ \E k \in DOMAIN queue : new[n] = queue[k]
          /\ \A k \in DOMAIN queue : Unexpired(queue[k]) =>
                queue[k].input = i \/ Holds(new, queue[k].input)
      BY <1>2, <1>4, RetryList DEF ListsOK
    <2>2. queue' = new
      BY <1>1
    <2> HIDE DEF new
    <2> QED
      BY <2>1, <2>2
  <1>6. ~Queued(i)' /\ \A j \in Inputs : Queued(j)' => Queued(j)
    BY <1>1, <1>3, MovesQueued DEF Queued, Moves
  <1>7. RetriesUnasked'
    <2> SUFFICES ASSUME NEW n \in DOMAIN queue', queue'[n].class = "AUTO_RETRY"
                 PROVE  ~(ActivityOf(activity', queue'[n].input).state = "QUEUED")
      BY DEF RetriesUnasked, Queued
    <2>1. CASE queue'[n].input = i
      BY <1>6, <2>1 DEF Queued
    <2>2. CASE \E k \in DOMAIN queue : queue'[n] = queue[k]
      <3>1. PICK k \in DOMAIN queue : queue'[n] = queue[k]
        BY <2>2
      <3>2. queue[k].input \in Inputs /\ ~Queued(queue[k].input)
        BY <3>1, EntryOf DEF ListsOK, RetriesUnasked
      <3> QED
        BY <1>6, <3>1, <3>2 DEF Queued
    <2> QED
      BY <1>5, <2>1, <2>2
  <1>8. KeepsTasks
    BY <1>5, <1>6 DEF KeepsTasks, HoldsLive
  <1>9. RecordedIn(activity', runs')
    BY <1>1, <1>3, MovesRecorded DEF ListsOK
  <1> QED
    BY <1>1, <1>3, <1>5, <1>7, <1>8, <1>9 DEF ListsOK, Moves

\* After an expiry only those are queued who were and whose entries all live.
LEMMA QueuedAfterExpiry ==
    ASSUME ListsOK, now \in 1 .. MaxTime, NEW i \in Inputs,
           ActivityOf(AfterExpiry, i).state = "QUEUED"
    PROVE  Queued(i) /\ \A k \in DOMAIN queue : queue[k].input = i => Unexpired(queue[k])
  BY AfterExpiryProperties DEF ListsOK, Queued

LEMMA RecordedAfterExpiry ==
    ASSUME ListsOK, now \in 1 .. MaxTime
    PROVE  ActivitiesOK(AfterExpiry) /\ RecordedIn(AfterExpiry, runs)
  BY AfterExpiryProperties DEF ListsOK, RecordedIn

LEMMA ClaimableIn ==
    ASSUME NEW entries, Claimable(entries) # {}, DOMAIN entries \subseteq Nat
    PROVE  Chosen(entries) \in DOMAIN entries
  <1>1. Readers(entries) \in SUBSET DOMAIN entries /\ Claimable(entries) \in SUBSET DOMAIN entries
    BY DEF Readers, Claimable
  <1> QED
    BY <1>1, OldestOfIn DEF Chosen

LEMMA ClaimKeeps ==
    ASSUME ListsOK, now \in 1 .. MaxTime, NEW w \in Workers, Claim(w)
    PROVE  ListsOK' /\ KeepsTasks
  <1> DEFINE k == Chosen(Live)
  <1>1. /\ Live \in Seq(Entry) /\ Len(Live) <= Capacity /\ Distinct(Live) /\ QueueOK(Live)
        /\ DOMAIN Live = 1 .. Len(Live) /\ Len(Live) \in Nat
        /\ \A n \in DOMAIN Live : \E l \in DOMAIN queue : Live[n] = queue[l]
        /\ \A l \in DOMAIN queue : Unexpired(queue[l]) => \E n \in DOMAIN Live : Live[n] = queue[l]
    BY LiveProperties DEF ListsOK, QueueOK
  <1>2. runs' = runs
    BY DEF Claim
  <1>3. CASE Claimable(Live) = {}
    <2>1. queue' = Live /\ activity' = AfterExpiry
      BY <1>3 DEF Claim
    <2>2. \A i \in Inputs : Queued(i)' => Queued(i)
      BY <2>1, QueuedAfterExpiry DEF Queued
    <2>3. RetriesUnasked'
      <3> SUFFICES ASSUME NEW n \in DOMAIN Live, Live[n].class = "AUTO_RETRY"
                   PROVE  ActivityOf(AfterExpiry, Live[n].input).state # "QUEUED"
        BY <2>1 DEF RetriesUnasked, Queued
      <3>1. PICK l \in DOMAIN queue : Live[n] = queue[l]
        BY <1>1
      <3>2. queue[l].input \in Inputs /\ ~Queued(queue[l].input)
        BY <3>1, EntryOf DEF ListsOK, RetriesUnasked
      <3> QED
        BY <3>1, <3>2, QueuedAfterExpiry
    <2>4. KeepsTasks
      <3> SUFFICES ASSUME NEW i \in Inputs, Queued(i)' PROVE Holds(Live, i) \/ ~HoldsLive(i)
        BY <2>1, <2>2 DEF KeepsTasks
      <3> QED
        BY <1>1 DEF Holds, HoldsLive
    <2> QED
      BY <1>1, <1>2, <2>1, <2>3, <2>4, RecordedAfterExpiry DEF ListsOK
  <1>4. CASE Claimable(Live) # {}
    <2>1. /\ queue' = Without(Live, k)
          /\ activity' = Set(AfterExpiry, Live[k].input, "RUNNING", FALSE)
      BY <1>4 DEF Claim, Taken
    <2>2. k \in DOMAIN Live
      BY <1>1, <1>4, ClaimableIn
    <2> DEFINE i == Live[k].input
    <2>3. i \in Inputs
      <3>1. Live[k] \in Entry
        BY <1>1, <2>2
      <3> QED
        BY <3>1 DEF Entry
    <2> HIDE DEF k
    <2>4. /\ queue' \in Seq(Entry) /\ Distinct(queue') /\ Len(queue') = Len(Live) - 1
          /\ \A n \in DOMAIN queue' : \E l \in DOMAIN Live \ {k} : queue'[n] = Live[l]
          /\ \A l \in DOMAIN Live \ {k} : \E n \in DOMAIN queue' : queue'[n] = Live[l]
      <3>1. Live \in Seq(Entry) /\ Distinct(Live)
        BY <1>1
      <3> QED
        BY <2>1, <2>2, <3>1, WithoutEntry
    <2>5. Moves(AfterExpiry, activity', i, "RUNNING")
      <3>1. "RUNNING" \in States /\ FALSE \in BOOLEAN /\ ActivitiesOK(AfterExpiry)
        BY RecordedAfterExpiry DEF States
      <3> QED
        BY <2>1, <2>3, <3>1, SetMoves, Zenon
    <2> HIDE DEF i
    <2>6. \A j \in Inputs : Queued(j)' => Queued(j) /\ j # i
      <3> SUFFICES ASSUME NEW j \in Inputs, ActivityOf(activity', j).state = "QUEUED"
                   PROVE  Queued(j) /\ j # i
        BY DEF Queued
      <3>1. j # i /\ ActivityOf(AfterExpiry, j).state = "QUEUED"
        BY <2>3, <2>5, MovesQueued
      <3> QED
        BY <3>1, QueuedAfterExpiry
    <2>7. QueueOK(queue')
      BY <1>1, <2>4, BoundsAssumption DEF QueueOK
    <2>8. RetriesUnasked'
      <3> SUFFICES ASSUME NEW n \in DOMAIN queue', queue'[n].class = "AUTO_RETRY"
                   PROVE  ~(ActivityOf(activity', queue'[n].input).state = "QUEUED")
        BY DEF RetriesUnasked, Queued
      <3>1. PICK l \in DOMAIN queue : queue'[n] = queue[l]
        BY <1>1, <2>4
      <3>2. queue[l].input \in Inputs /\ ~Queued(queue[l].input)
        BY <3>1, EntryOf DEF ListsOK, RetriesUnasked
      <3> QED
        BY <2>6, <3>1, <3>2 DEF Queued
    <2>9. KeepsTasks
      <3> SUFFICES ASSUME NEW j \in Inputs, Queued(j)', HoldsLive(j) PROVE Holds(queue', j)
        BY <2>6 DEF KeepsTasks
      <3>1. PICK n \in DOMAIN Live : Live[n].input = j
        BY <1>1 DEF HoldsLive
      <3>2. n # k
        BY <2>6, <3>1 DEF i
      <3>3. PICK m \in DOMAIN queue' : queue'[m] = Live[n]
        BY <2>4, <3>2
      <3> QED
        BY <3>1, <3>3 DEF Holds
    <2>10. RecordedIn(activity', runs')
      BY <1>2, <2>5, MovesRecorded, RecordedAfterExpiry
    <2> QED
      BY <2>5, <2>7, <2>8, <2>9, <2>10 DEF ListsOK, Moves
  <1> QED
    BY <1>3, <1>4

LEMMA RequestKeeps ==
    ASSUME ListsOK, now \in 1 .. MaxTime, NEW i \in Inputs, Request(i)
    PROVE  ListsOK' /\ KeepsTasks
  <1> DEFINE was == ActivityOf(activity, i)
             acts == IF Overdue(was) THEN FailedNow(activity, i) ELSE activity
             full == Len(Live) >= Capacity /\ Retries(Live) = {}
  <1>1. runs' = runs
    BY DEF Request
  <1>2. /\ ActivitiesOK(acts) /\ RecordedIn(acts, runs)
        /\ \A j \in Inputs : ActivityOf(acts, j).state = "QUEUED" => Queued(j)
    <2>1. CASE Overdue(was)
      <3>1. Moves(activity, acts, i, "FAILED")
        BY <2>1, FailedNowMoves DEF ListsOK
      <3> QED
        BY <3>1, MovesQueued, MovesRecorded DEF Moves, ListsOK, Queued
    <2>2. CASE ~Overdue(was)
      BY <2>2 DEF ListsOK, Queued
    <2> QED
      BY <2>1, <2>2
  <1>3. CASE full /\ ~Holds(Live, i)
    <2>1. activity' = acts /\ queue' = queue
      BY <1>3 DEF Request, FailedNow
    <2> HIDE DEF acts
    <2>2. \A j \in Inputs : Queued(j)' => Queued(j)
      BY <1>2, <2>1 DEF Queued
    <2>3. RetriesUnasked'
      <3>1. \A k \in DOMAIN queue : queue[k].input \in Inputs
        BY EntryOf DEF ListsOK
      <3> QED
        BY <2>1, <2>2, <3>1 DEF ListsOK, RetriesUnasked, Queued
    <2>4. KeepsTasks
      BY <2>1, <2>2 DEF KeepsTasks, Holds, HoldsLive
    <2> QED
      BY <1>1, <1>2, <2>1, <2>3, <2>4 DEF ListsOK
  <1>4. CASE ~(full /\ ~Holds(Live, i))
    <2> DEFINE new == IF Holds(Live, i) THEN Promoted(Live, i)
                      ELSE Append(WithRoom(Live), NewEntry(i, "PUBLIC", now))
    <2>1. activity' = Set(acts, i, "QUEUED", FALSE) /\ queue' = new
      BY <1>4 DEF Request, FailedNow
    <2>2. /\ QueueOK(new) /\ Holds(new, i)
          /\ \A n \in DOMAIN new : new[n].class = "AUTO_RETRY" =>
                new[n].input # i /\ \E k \in DOMAIN queue : new[n] = queue[k]
          /\ \A k \in DOMAIN queue : Unexpired(queue[k]) /\ queue[k].class = "PUBLIC" =>
                Holds(new, queue[k].input)
      BY <1>4, RequestList DEF ListsOK
    <2> HIDE DEF new, acts
    <2>3. Moves(acts, activity', i, "QUEUED")
      <3>1. "QUEUED" \in States /\ FALSE \in BOOLEAN
        BY DEF States
      <3> QED
        BY <1>2, <2>1, <3>1, SetMoves, Zenon
    <2>4. \A j \in Inputs \ {i} : Queued(j)' => Queued(j)
      <3> SUFFICES ASSUME NEW j \in Inputs \ {i}, ActivityOf(activity', j).state = "QUEUED"
                   PROVE  Queued(j)
        BY DEF Queued
      <3>1. ActivityOf(acts, j).state = "QUEUED"
        BY <2>3, MovesQueued
      <3> QED
        BY <1>2, <3>1
    <2>5. RetriesUnasked'
      <3> SUFFICES ASSUME NEW n \in DOMAIN queue', queue'[n].class = "AUTO_RETRY"
                   PROVE  ~(ActivityOf(activity', queue'[n].input).state = "QUEUED")
        BY DEF RetriesUnasked, Queued
      <3>1. PICK k \in DOMAIN queue : queue'[n] = queue[k] /\ queue[k].input # i
        BY <2>1, <2>2
      <3>2. queue[k].input \in Inputs /\ ~Queued(queue[k].input)
        BY <3>1, EntryOf DEF ListsOK, RetriesUnasked
      <3> QED
        BY <2>4, <3>1, <3>2 DEF Queued
    <2>6. KeepsTasks
      <3> SUFFICES ASSUME NEW j \in Inputs, Queued(j)', j # i PROVE Holds(new, j) \/ ~HoldsLive(j)
        BY <2>1, <2>2, <2>4 DEF KeepsTasks
      <3> SUFFICES ASSUME NEW k \in DOMAIN queue, queue[k].input = j, Unexpired(queue[k])
                   PROVE  Holds(new, j)
        BY DEF HoldsLive
      <3>1. queue[k].class = "PUBLIC"
        BY <2>4, EntryOf DEF ListsOK, RetriesUnasked
      <3> QED
        BY <2>2, <3>1
    <2>7. RecordedIn(activity', runs')
      BY <1>1, <1>2, <2>3, MovesRecorded
    <2> QED
      BY <2>1, <2>2, <2>3, <2>5, <2>6, <2>7 DEF ListsOK, Moves
  <1> QED
    BY <1>3, <1>4

-----------------------------------------------------------------------------
(* The batches.                                                            *)

Typed ==
    /\ runs \subseteq Inputs
    /\ current \subseteq Inputs
    /\ worker \in [Workers -> WorkerState]
    /\ now \in 1 .. MaxTime
    /\ crashes \in 0 .. MaxCrashes

\* What a batch remembers is what its next step needs.
BatchOK(b, recorded) ==
    /\ b \in WorkerState
    /\ b.pc \in {"idle", "claim", "prepare", "scan", "background"} => b.attempted < RunLimit
    /\ b.pc \in {"prepare", "start", "call", "ready"} => b.input \in Inputs
    /\ b.pc = "ready" => b.input \in recorded

WorkersOK == \A w \in Workers : BatchOK(worker[w], runs)

IInv == Typed /\ ListsOK /\ WorkersOK

LEMMA IdleOK == ASSUME NEW recorded PROVE BatchOK(IdleWorker, recorded)
  BY BoundsAssumption DEF BatchOK, IdleWorker, WorkerState

LEMMA InitInv == Init => IInv
  <1> SUFFICES ASSUME Init PROVE IInv
    OBVIOUS
  <1>1. \A w \in Workers : BatchOK(worker[w], runs)
    BY IdleOK DEF Init
  <1>2. Typed
    BY <1>1, IdleOK, BoundsAssumption DEF Init, Typed, BatchOK
  <1>3. ListsOK
    BY BoundsAssumption DEF Init, ListsOK, QueueOK, ActivitiesOK, RetriesUnasked, RecordedIn, Distinct
  <1> QED
    BY <1>1, <1>2, <1>3 DEF IInv, WorkersOK

\* A step of one batch that leaves its next state in order.
LEMMA BatchMoves ==
    ASSUME IInv, NEW w \in Workers, NEW b, worker' = [worker EXCEPT ![w] = b], BatchOK(b, runs'),
           runs \subseteq runs', runs' \subseteq Inputs, current' \subseteq Inputs, now' \in 1 .. MaxTime,
           crashes' \in 0 .. MaxCrashes
    PROVE  Typed' /\ WorkersOK'
  <1>1. Typed'
    BY DEF IInv, Typed, BatchOK
  <1>2. ASSUME NEW v \in Workers PROVE BatchOK(worker'[v], runs')
    <2>1. CASE v = w
      BY <2>1 DEF IInv, Typed
    <2>2. CASE v # w
      BY <2>2 DEF IInv, Typed, WorkersOK, BatchOK
    <2> QED
      BY <2>1, <2>2
  <1> QED
    BY <1>1, <1>2 DEF WorkersOK

\* Every step keeps the invariant and takes no waiting reader's entry.
Kept == IInv' /\ KeepsTasks

LEMMA StartKeeps == ASSUME IInv, NEW w \in Workers, Start(w) PROVE Kept
  <1> DEFINE b == [worker[w] EXCEPT !.pc = "claim"]
  <1>1. BatchOK(worker[w], runs) /\ worker[w] \in WorkerState /\ runs' = runs
    BY DEF IInv, WorkersOK, BatchOK, Start
  <1>2. BatchOK(b, runs')
    BY <1>1 DEF BatchOK, WorkerState, Start
  <1>3. worker' = [worker EXCEPT ![w] = b]
    BY DEF Start, IInv, Typed
  <1> HIDE DEF b
  <1>4. Typed' /\ WorkersOK'
    BY <1>2, <1>3, BatchMoves DEF Start, IInv, Typed
  <1> QED
    BY <1>4, ListsAlone DEF Kept, IInv, Start

\* A batch that goes on to claim, scan or take from the background.
LEMMA GoesOK ==
    ASSUME IInv, NEW w \in Workers, NEW pc \in {"claim", "scan", "background"}, Goes(w, pc),
           worker[w].attempted < RunLimit, UNCHANGED <<runs, current, now, crashes>>
    PROVE  Typed' /\ WorkersOK'
  <1> DEFINE b == [worker[w] EXCEPT !.pc = pc, !.input = NoInput]
  <1>1. worker[w] \in WorkerState
    BY DEF IInv, WorkersOK, BatchOK
  <1>2. BatchOK(b, runs')
    BY <1>1 DEF BatchOK, WorkerState
  <1>3. worker' = [worker EXCEPT ![w] = b]
    BY <1>1 DEF Goes, IInv, Typed, WorkerState
  <1> HIDE DEF b
  <1> QED
    BY <1>2, <1>3, BatchMoves DEF IInv, Typed

LEMMA ClaimStep == ASSUME IInv, NEW w \in Workers, Claim(w) PROVE Kept
  <1>1. ListsOK' /\ KeepsTasks
    BY ClaimKeeps DEF IInv, Typed
  <1>2. /\ worker[w] \in WorkerState /\ worker[w].attempted < RunLimit
        /\ UNCHANGED <<runs, current, now, crashes>>
    BY DEF IInv, WorkersOK, BatchOK, Claim
  <1>3. CASE Claimable(Live) = {}
    <2>1. \E pc \in {"claim", "scan", "background"} : Goes(w, pc)
      BY <1>3 DEF Claim
    <2> QED
      BY <1>1, <1>2, <2>1, GoesOK DEF Kept, IInv
  <1>4. CASE Claimable(Live) # {}
    <2> DEFINE k == Chosen(Live)
               b == [worker[w] EXCEPT !.pc = "prepare", !.input = Live[k].input]
    <2>1. worker' = [worker EXCEPT ![w] = b]
      BY <1>2, <1>4 DEF Claim, IInv, Typed, WorkerState
    <2>2. Live[k].input \in Inputs
      <3>1. Live \in Seq(Entry) /\ DOMAIN Live \subseteq Nat
        BY LiveProperties DEF IInv, ListsOK, QueueOK
      <3>2. k \in DOMAIN Live
        BY <1>4, <3>1, ClaimableIn
      <3>3. Live[k] \in Entry
        BY <3>1, <3>2
      <3> QED
        BY <3>3 DEF Entry
    <2> HIDE DEF k
    <2>3. BatchOK(b, runs')
      BY <1>2, <2>2 DEF BatchOK, WorkerState
    <2> HIDE DEF b
    <2>4. Typed' /\ WorkersOK'
      BY <1>2, <2>1, <2>3, BatchMoves DEF IInv, Typed
    <2> QED
      BY <1>1, <2>4 DEF Kept, IInv
  <1> QED
    BY <1>3, <1>4

\* The input a batch works on.
LEMMA InputOf ==
    ASSUME IInv, NEW w \in Workers, worker[w].pc \in {"prepare", "start", "call", "ready"}
    PROVE  worker[w].input \in Inputs
  BY DEF IInv, WorkersOK, BatchOK

LEMMA PrepareFailsStep == ASSUME IInv, NEW w \in Workers, PrepareFails(w) PROVE Kept
  <1>1. PICK i \in Inputs : i = worker[w].input
    BY InputOf DEF PrepareFails
  <1>2. ListsOK' /\ KeepsTasks
    BY <1>1, ScheduleRetryKeeps DEF IInv, Typed, PrepareFails
  <1>3. Typed' /\ WorkersOK'
    <2>1. worker[w].attempted < RunLimit
      BY DEF IInv, WorkersOK, BatchOK, PrepareFails
    <2> QED
      BY <2>1, GoesOK DEF PrepareFails
  <1> QED
    BY <1>2, <1>3 DEF Kept, IInv

LEMMA PrepareSettlesStep == ASSUME IInv, NEW w \in Workers, PrepareSettles(w) PROVE Kept
  <1>1. PICK i \in Inputs : i = worker[w].input
    BY InputOf DEF PrepareSettles
  <1>2. \E state \in {"FAILED", "READY"} :
           /\ activity' = Set(activity, i, state, FALSE)
           /\ state = "READY" => i \in runs
    BY <1>1 DEF PrepareSettles
  <1>3. PICK state \in {"FAILED", "READY"} :
           /\ activity' = Set(activity, i, state, FALSE)
           /\ state = "READY" => i \in runs
    BY <1>2
  <1>4. Moves(activity, activity', i, state)
    <2>1. state \in States /\ FALSE \in BOOLEAN /\ ActivitiesOK(activity) /\ now \in 1 .. MaxTime
      BY DEF States, IInv, ListsOK, Typed
    <2> QED
      BY <1>3, <2>1, SetMoves, Zenon
  <1>5. ListsOK' /\ KeepsTasks
    BY <1>3, <1>4, OneMove DEF IInv, PrepareSettles
  <1>6. Typed' /\ WorkersOK'
    <2>1. worker[w].attempted < RunLimit
      BY DEF IInv, WorkersOK, BatchOK, PrepareSettles
    <2> QED
      BY <2>1, GoesOK DEF PrepareSettles
  <1> QED
    BY <1>5, <1>6 DEF Kept, IInv

\* An assessment is scheduled while the batch has a slot for it.
LEMMA ScheduledOK ==
    ASSUME IInv, NEW w \in Workers, NEW i \in Inputs, Scheduled(w, i),
           worker[w].attempted < RunLimit, UNCHANGED <<runs, current, now, crashes>>
    PROVE  Typed' /\ WorkersOK'
  <1> DEFINE old == worker[w]
             b == [old EXCEPT !.pc = "start", !.input = i, !.scheduled = @ \cup {i},
                              !.attempted = @ + 1, !.candidates = @ \ {i}]
  <1>1. old \in WorkerState
    BY DEF IInv, WorkersOK, BatchOK
  <1>2. worker' = [worker EXCEPT ![w] = b]
    BY <1>1 DEF Scheduled, IInv, Typed, WorkerState
  <1>3. old.attempted + 1 \in 0 .. RunLimit
    BY <1>1, BoundsAssumption DEF WorkerState
  <1> HIDE DEF old
  <1>4. BatchOK(b, runs')
    BY <1>1, <1>3 DEF BatchOK, WorkerState
  <1> HIDE DEF b
  <1> QED
    BY <1>2, <1>4, BatchMoves DEF IInv, Typed

LEMMA PrepareStep == ASSUME IInv, NEW w \in Workers, Prepare(w) PROVE Kept
  <1>1. PICK i \in Inputs : i = worker[w].input
    BY InputOf DEF Prepare
  <1>2. worker[w].attempted < RunLimit
    BY DEF IInv, WorkersOK, BatchOK, Prepare
  <1>3. Typed' /\ WorkersOK'
    <2>1. CASE i \in worker[w].scheduled
      BY <1>1, <1>2, <2>1, GoesOK DEF Prepare
    <2>2. CASE i \notin worker[w].scheduled
      BY <1>1, <1>2, <2>2, ScheduledOK DEF Prepare
    <2> QED
      BY <2>1, <2>2
  <1> QED
    BY <1>3, ListsAlone DEF Kept, IInv, Prepare

LEMMA ScanReadyStep ==
    ASSUME IInv, NEW w \in Workers, NEW i \in Inputs, ScanReady(w, i) PROVE Kept
  <1>1. Moves(activity, activity', i, "READY")
    <2>1. "READY" \in States /\ FALSE \in BOOLEAN /\ ActivitiesOK(activity) /\ now \in 1 .. MaxTime
      BY DEF States, IInv, ListsOK, Typed
    <2> QED
      BY <2>1, SetMoves, Zenon DEF ScanReady
  <1>2. ListsOK' /\ KeepsTasks
    BY <1>1, OneMove DEF IInv, ScanReady
  <1>3. Typed' /\ WorkersOK'
    BY DEF ScanReady, IInv, Typed, WorkersOK, BatchOK
  <1> QED
    BY <1>2, <1>3 DEF Kept, IInv

LEMMA ScanStep == ASSUME IInv, NEW w \in Workers, Scan(w) PROVE Kept
  <1>1. PICK found \in SUBSET Inputs :
           worker' = [worker EXCEPT ![w].pc = "claim", ![w].scanned = TRUE, ![w].candidates = found]
    BY DEF Scan, IInv, Typed
  <1> DEFINE b == [worker[w] EXCEPT !.pc = "claim", !.scanned = TRUE, !.candidates = found]
  <1>2. worker[w] \in WorkerState /\ worker[w].attempted < RunLimit /\ runs' = runs
    BY DEF IInv, WorkersOK, BatchOK, Scan
  <1>3. worker' = [worker EXCEPT ![w] = b]
    BY <1>1, <1>2 DEF IInv, Typed, WorkerState
  <1>4. BatchOK(b, runs')
    BY <1>2 DEF BatchOK, WorkerState
  <1> HIDE DEF b
  <1>5. Typed' /\ WorkersOK'
    BY <1>3, <1>4, BatchMoves DEF IInv, Typed, Scan
  <1> QED
    BY <1>5, ListsAlone DEF Kept, IInv, Scan

LEMMA BackgroundStep == ASSUME IInv, NEW w \in Workers, Background(w) PROVE Kept
  <1>1. worker[w].attempted < RunLimit /\ worker[w].candidates \subseteq Inputs
    BY DEF IInv, WorkersOK, BatchOK, Background, WorkerState
  <1>2. PICK i \in Inputs : Scheduled(w, i)
    BY <1>1 DEF Background, Untaken
  <1>3. Typed' /\ WorkersOK'
    BY <1>1, <1>2, ScheduledOK DEF Background
  <1> QED
    BY <1>3, ListsAlone DEF Kept, IInv, Background

\* A batch that is over, or whose process has died.
LEMMA IdleAgain ==
    ASSUME IInv, NEW w \in Workers, worker' = [worker EXCEPT ![w] = IdleWorker],
           UNCHANGED <<queue, activity, runs, current, now>>, crashes' \in 0 .. MaxCrashes
    PROVE  Kept
  <1>1. Typed' /\ WorkersOK'
    BY IdleOK, BatchMoves DEF IInv, Typed
  <1> QED
    BY <1>1, ListsAlone DEF Kept, IInv

LEMMA CallStartsStep == ASSUME IInv, NEW w \in Workers, CallStarts(w) PROVE Kept
  <1>1. PICK i \in Inputs : i = worker[w].input
    BY InputOf DEF CallStarts
  <1>2. Moves(activity, activity', i, "RUNNING")
    <2>1. "RUNNING" \in States /\ FALSE \in BOOLEAN /\ ActivitiesOK(activity) /\ now \in 1 .. MaxTime
      BY DEF States, IInv, ListsOK, Typed
    <2> QED
      BY <1>1, <2>1, SetMoves, Zenon DEF CallStarts
  <1>3. ListsOK' /\ KeepsTasks
    BY <1>2, OneMove DEF IInv, CallStarts
  <1> DEFINE b == [worker[w] EXCEPT !.pc = "call"]
  <1>4. worker[w] \in WorkerState /\ runs' = runs
    BY DEF IInv, WorkersOK, BatchOK, CallStarts
  <1>5. BatchOK(b, runs')
    BY <1>1, <1>4 DEF BatchOK, WorkerState
  <1>6. worker' = [worker EXCEPT ![w] = b]
    BY DEF CallStarts, IInv, Typed
  <1> HIDE DEF b
  <1>7. Typed' /\ WorkersOK'
    BY <1>5, <1>6, BatchMoves DEF IInv, Typed, CallStarts
  <1> QED
    BY <1>3, <1>7 DEF Kept, IInv

\* The batch has another slot, or is over.
LEMMA SlotEndsOK ==
    ASSUME IInv, NEW w \in Workers, SlotEnds(w), UNCHANGED <<runs, current, now, crashes>>
    PROVE  Typed' /\ WorkersOK'
  <1> DEFINE b == IF AfterSlot(w) = "idle" THEN IdleWorker
                  ELSE [worker[w] EXCEPT !.pc = AfterSlot(w), !.input = NoInput]
  <1>1. worker[w] \in WorkerState
    BY DEF IInv, WorkersOK, BatchOK
  <1>2. worker' = [worker EXCEPT ![w] = b]
    BY DEF SlotEnds, IInv, Typed
  <1>3. BatchOK(b, runs')
    <2>1. CASE AfterSlot(w) = "idle"
      BY <2>1, IdleOK
    <2>2. CASE AfterSlot(w) # "idle"
      <3>1. AfterSlot(w) \in {"claim", "scan"} /\ worker[w].attempted < RunLimit
        <4>1. worker[w].attempted \in 0 .. RunLimit /\ worker[w].attempted # RunLimit
          BY <1>1, <2>2 DEF AfterSlot, WorkerState
        <4>2. worker[w].attempted < RunLimit
          BY <4>1, BoundsAssumption
        <4> QED
          BY <2>2, <4>2 DEF AfterSlot
      <3> QED
        BY <1>1, <2>2, <3>1 DEF BatchOK, WorkerState
    <2> QED
      BY <2>1, <2>2
  <1> HIDE DEF b
  <1> QED
    BY <1>2, <1>3, BatchMoves DEF IInv, Typed

LEMMA FailsStep == ASSUME IInv, NEW w \in Workers, Fails(w) PROVE Kept
  <1>1. PICK i \in Inputs : i = worker[w].input
    BY InputOf DEF Fails
  <1>2. ListsOK' /\ KeepsTasks
    BY <1>1, ScheduleRetryKeeps DEF IInv, Typed, Fails
  <1>3. Typed' /\ WorkersOK'
    BY SlotEndsOK DEF Fails
  <1> QED
    BY <1>2, <1>3 DEF Kept, IInv

LEMMA RecordStep == ASSUME IInv, NEW w \in Workers, Record(w) PROVE Kept
  <1>1. PICK i \in Inputs : i = worker[w].input
    BY InputOf DEF Record
  <1>2. runs' = runs \cup {i} /\ runs' \subseteq Inputs
    BY <1>1 DEF Record, RecordedOnce, IInv, Typed
  <1> DEFINE b == [worker[w] EXCEPT !.pc = "ready"]
  <1>3. worker[w] \in WorkerState
    BY DEF IInv, WorkersOK, BatchOK
  <1>4. BatchOK(b, runs')
    BY <1>1, <1>2, <1>3 DEF BatchOK, WorkerState
  <1>5. worker' = [worker EXCEPT ![w] = b]
    BY DEF Record, IInv, Typed
  <1> HIDE DEF b
  <1>6. Typed' /\ WorkersOK'
    BY <1>2, <1>4, <1>5, BatchMoves DEF IInv, Typed, Record
  <1> QED
    BY <1>2, <1>6, ListsAlone DEF Kept, IInv, Record

LEMMA SetReadyStep == ASSUME IInv, NEW w \in Workers, SetReady(w) PROVE Kept
  <1>1. PICK i \in Inputs : i = worker[w].input
    BY InputOf DEF SetReady
  <1>2. Moves(activity, activity', i, "READY")
    <2>1. "READY" \in States /\ FALSE \in BOOLEAN /\ ActivitiesOK(activity) /\ now \in 1 .. MaxTime
      BY DEF States, IInv, ListsOK, Typed
    <2> QED
      BY <1>1, <2>1, SetMoves, Zenon DEF SetReady
  <1>3. i \in runs
    BY <1>1 DEF SetReady, IInv, WorkersOK, BatchOK
  <1>4. ListsOK' /\ KeepsTasks
    BY <1>2, <1>3, OneMove DEF IInv, SetReady
  <1>5. Typed' /\ WorkersOK'
    BY SlotEndsOK DEF SetReady
  <1> QED
    BY <1>4, <1>5 DEF Kept, IInv

LEMMA NextStep == IInv /\ [Next]_vars => Kept
  <1> SUFFICES ASSUME IInv, [Next]_vars PROVE Kept
    OBVIOUS
  <1>1. CASE UNCHANGED vars
    BY <1>1, ListsAlone DEF vars, Kept, IInv, Typed, WorkersOK
  <1>2. CASE Tick
    <2>1. now' \in 1 .. MaxTime
      BY <1>2, BoundsAssumption DEF Tick, IInv, Typed
    <2>2. Typed' /\ WorkersOK'
      BY <1>2, <2>1 DEF Tick, IInv, Typed, WorkersOK
    <2> QED
      BY <1>2, <2>2, ListsAlone DEF Tick, Kept, IInv
  <1>3. ASSUME NEW i \in Inputs, Request(i) PROVE Kept
    <2>1. ListsOK' /\ KeepsTasks
      BY <1>3, RequestKeeps DEF IInv, Typed
    <2>2. Typed' /\ WorkersOK'
      BY <1>3 DEF Request, IInv, Typed, WorkersOK
    <2> QED
      BY <2>1, <2>2 DEF Kept, IInv
  <1>4. ASSUME NEW i \in Inputs, Revise(i) PROVE Kept
    <2>1. Typed' /\ WorkersOK'
      BY <1>4 DEF Revise, IInv, Typed, WorkersOK
    <2> QED
      BY <1>4, <2>1, ListsAlone DEF Revise, Kept, IInv
  <1>5. ASSUME NEW w \in Workers, Step(w) PROVE Kept
    <2>1. CASE \E i \in Inputs : ScanReady(w, i)
      BY <2>1, ScanReadyStep
    <2>2. CASE BatchEnds(w)
      BY <2>2, IdleAgain DEF BatchEnds, IInv, Typed
    <2> QED
      BY <1>5, <2>1, <2>2, StartKeeps, ClaimStep, PrepareFailsStep, PrepareSettlesStep, PrepareStep,
         ScanStep, BackgroundStep, CallStartsStep, FailsStep, RecordStep, SetReadyStep DEF Step
  <1>6. ASSUME NEW w \in Workers, Crash(w) PROVE Kept
    <2>1. crashes' \in 0 .. MaxCrashes
      BY <1>6, BoundsAssumption DEF Crash, IInv, Typed
    <2> QED
      BY <1>6, <2>1, IdleAgain DEF Crash
  <1> QED
    BY <1>1, <1>2, <1>3, <1>4, <1>5, <1>6, InputsAssumption DEF Next

-----------------------------------------------------------------------------

\* Types, list and activities together, and what each batch remembers: the
\* invariant holds initially and every step keeps it.
THEOREM Inductive == Spec => []IInv
  <1>1. IInv /\ [Next]_vars => IInv'
    BY NextStep DEF Kept
  <1> QED
    BY <1>1, InitInv, PTL DEF Spec

\* The list and the activities stay within their bounds and well formed, for
\* any number of readers, batches and failures.
THEOREM TypeCorrect == Spec => []TypeOK
  <1>1. IInv => TypeOK
    BY DEF IInv, Typed, ListsOK, QueueOK, ActivitiesOK, TypeOK
  <1> QED
    BY <1>1, Inductive, PTL

\* No input waits in the list twice.
THEOREM ListedOnce == Spec => []OneEntryEach
  <1>1. IInv => OneEntryEach
    BY DEF IInv, ListsOK, QueueOK, Distinct, OneEntryEach
  <1> QED
    BY <1>1, Inductive, PTL

\* What is shown as ready has its result in model_runs, whichever step of a
\* batch failed or was done twice.
THEOREM ReadyRecorded == Spec => []ReadyIsRecorded
  <1>1. IInv => ReadyIsRecorded
    BY DEF IInv, ListsOK, RecordedIn, ReadyIsRecorded
  <1> QED
    BY <1>1, Inductive, PTL

\* Whoever evicts, claims, fails or lets expire an entry, no step leaves a
\* reader queued without the live entry the reader had, and nobody becomes
\* queued without one.
THEOREM TasksKept == Spec => QueuedKeepsTask
  <1>1. IInv /\ [Next]_vars => KeepsTasks
    BY NextStep DEF Kept
  <1> QED
    BY <1>1, Inductive, PTL DEF Spec, QueuedKeepsTask, KeepsTasks

=============================================================================
