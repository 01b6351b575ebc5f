-------------------------- MODULE CaptureQueueProofs --------------------------
(***************************************************************************)
(* Proofs about CaptureQueue, for every set of captures, runners and       *)
(* requests and every value of the bounds.                                 *)
(***************************************************************************)
EXTENDS CaptureQueue, FiniteSetTheorems, SequenceTheorems, WellFoundedInduction, TLAPS

\* What each process remembers is meaningful where its next step uses it.
LocalsOK ==
    /\ \A q \in Requests : request[q].pc # "idle" => request[q].job \in Jobs
    /\ \A r \in Runners :
        /\ runner[r].pc # "idle" => runner[r].job \in Jobs
        /\ runner[r].pc \in {"calling", "failing"} =>
              /\ runner[r].token \in DOMAIN attempts
              /\ attempts[runner[r].token].job = runner[r].job

IInv == TypeOK /\ LocalsOK /\ LeaseConsistent /\ AttemptsBounded

-----------------------------------------------------------------------------
(* Filtered lists and totals.                                              *)

\* Induction over the natural numbers, with the induction hypothesis as a set.
LEMMA SetInduction ==
    ASSUME NEW S, 0 \in S, \A n \in Nat : n \in S => n + 1 \in S
    PROVE  Nat \subseteq S
  <1> SUFFICES ASSUME Nat \ S # {} PROVE FALSE
    OBVIOUS
  <1> DEFINE Before == OpToRel(<, Nat)
  <1>1. IsWellFoundedOn(Before, Nat)
    BY NatLessThanWellFounded
  <1>2. \A m, n \in Nat : m < n => <<m, n>> \in Before
    BY DEF OpToRel
  <1> HIDE DEF Before
  <1>3. PICK n \in Nat \ S : \A m \in Nat \ S : <<m, n>> \notin Before
    BY <1>1, WFMin
  <1>4. n - 1 \in Nat /\ n - 1 < n /\ (n - 1) + 1 = n
    BY <1>3
  <1>5. n - 1 \in S
    BY <1>2, <1>3, <1>4
  <1> QED
    BY <1>3, <1>4, <1>5

\* Every rank up to the size of a set of positions is the rank of one of them.
LEMMA NthExists ==
    ASSUME NEW P \in SUBSET Nat, IsFiniteSet(P), NEW n \in 1 .. Cardinality(P)
    PROVE  Nth(P, n) \in P /\ Cardinality({l \in P : l <= Nth(P, n)}) = n
  <1> DEFINE upTo(k) == {l \in P : l <= k}
             size == Cardinality(P)
             rank == [k \in P |-> Cardinality(upTo(k))]
  <1>1. size \in Nat
    BY FS_CardinalityType
  <1>2. ASSUME NEW k \in P
        PROVE  IsFiniteSet(upTo(k)) /\ rank[k] \in 1 .. size
    <2>1. upTo(k) \in SUBSET P /\ k \in upTo(k)
      OBVIOUS
    <2>2. IsFiniteSet(upTo(k)) /\ Cardinality(upTo(k)) <= size
      BY <2>1, FS_Subset
    <2>3. Cardinality(upTo(k)) \in Nat /\ Cardinality(upTo(k)) # 0
      BY <2>1, <2>2, FS_CardinalityType, FS_EmptySet
    <2> QED
      BY <1>1, <2>2, <2>3
  <1>3. ASSUME NEW k \in P, NEW l \in P, k < l
        PROVE  rank[k] # rank[l]
    <2>1. upTo(k) \in SUBSET upTo(l) /\ l \in upTo(l) /\ l \notin upTo(k)
      <3>1. k \in Nat /\ l \in Nat /\ \A m \in P : m \in Nat
        OBVIOUS
      <3>2. l \in upTo(l) /\ l \notin upTo(k)
        BY <1>3, <3>1
      <3>3. \A m \in upTo(k) : m \in upTo(l)
        BY <1>3, <3>1
      <3> HIDE DEF upTo
      <3> QED
        BY <3>2, <3>3
    <2> HIDE DEF upTo
    <2>2. Cardinality(upTo(k)) # Cardinality(upTo(l))
      BY <1>2, <2>1, FS_Subset
    <2> QED
      BY <2>2
  <1>4. \E k \in P : rank[k] = n
    <2> SUFFICES ASSUME \A k \in P : rank[k] # n PROVE FALSE
      OBVIOUS
    <2> DEFINE Rest == (1 .. size) \ {n}
    <2>1. IsFiniteSet(1 .. size) /\ Cardinality(1 .. size) = size
      BY <1>1, FS_Interval
    <2>2. IsFiniteSet(Rest) /\ Cardinality(Rest) = size - 1
      BY <2>1, FS_RemoveElement
    <2> HIDE DEF rank, Rest
    <2>3. rank \in [P -> Rest]
      BY <1>2 DEF rank, Rest
    <2>4. Cardinality(Rest) < Cardinality(P)
      BY <1>1, <2>2
    <2>5. \E k, l \in P : k # l /\ rank[k] = rank[l]
      BY <2>2, <2>3, <2>4, FS_PigeonHole, Zenon
    <2>6. PICK k \in P, l \in P : k # l /\ rank[k] = rank[l]
      BY <2>5
    <2>7. k \in Nat /\ l \in Nat
      OBVIOUS
    <2> QED
      BY <1>3, <2>6, <2>7
  <1> QED
    BY <1>4 DEF Nth

\* What a filtered list is made of.
LEMMA AtPositionsProperties ==
    ASSUME NEW S, NEW items \in Seq(S), NEW P \in SUBSET DOMAIN items
    PROVE  /\ AtPositions(items, P) \in Seq(S)
           /\ Len(AtPositions(items, P)) = Cardinality(P)
           /\ Cardinality(P) <= Len(items)
           /\ IsFiniteSet(P)
           /\ \A n \in DOMAIN AtPositions(items, P) :
                 Nth(P, n) \in P /\ AtPositions(items, P)[n] = items[Nth(P, n)]
           /\ \A m, n \in DOMAIN AtPositions(items, P) : Nth(P, m) = Nth(P, n) => m = n
  <1> DEFINE size == Cardinality(P)
             pick == [n \in 1 .. size |-> items[Nth(P, n)]]
  <1>1. DOMAIN items = 1 .. Len(items) /\ Len(items) \in Nat
    OBVIOUS
  <1>2. IsFiniteSet(P) /\ size \in Nat /\ size <= Len(items) /\ P \in SUBSET Nat
    <2>1. IsFiniteSet(DOMAIN items) /\ Cardinality(DOMAIN items) = Len(items)
      <3> DEFINE len == Len(items)
      <3>1. len \in Nat
        BY <1>1
      <3> HIDE DEF len
      <3>2. IsFiniteSet(1 .. len) /\ Cardinality(1 .. len) = len
        BY <3>1, FS_Interval
      <3> QED
        BY <1>1, <3>2 DEF len
    <2>2. IsFiniteSet(P) /\ Cardinality(P) <= Len(items)
      BY <2>1, FS_Subset
    <2>3. Cardinality(P) \in Nat
      BY <2>2, FS_CardinalityType
    <2> QED
      BY <1>1, <2>2, <2>3
  <1>3. \A n \in 1 .. size : Nth(P, n) \in P /\ Cardinality({l \in P : l <= Nth(P, n)}) = n
    BY <1>2, NthExists
  <1>4. AtPositions(items, P) = pick
    BY DEF AtPositions
  <1> HIDE DEF size
  <1>5. pick \in Seq(S) /\ Len(pick) = size /\ DOMAIN pick = 1 .. size
    <2>1. \A k \in P : items[k] \in S
      BY <1>1
    <2>2. \A n \in 1 .. size : items[Nth(P, n)] \in S
      BY <1>3, <2>1
    <2> QED
      BY <1>2, <2>2
  <1> QED
    BY <1>2, <1>3, <1>4, <1>5 DEF size

\* A list without repetitions stays one when it is filtered.
LEMMA AtPositionsInjective ==
    ASSUME NEW S, NEW items \in Seq(S), NEW P \in SUBSET DOMAIN items,
           \A i, k \in DOMAIN items : items[i] = items[k] => i = k,
           NEW m \in DOMAIN AtPositions(items, P), NEW n \in DOMAIN AtPositions(items, P),
           AtPositions(items, P)[m] = AtPositions(items, P)[n]
    PROVE  m = n
  BY AtPositionsProperties

RunningTotal(a, f) ==
    f = [n \in 0 .. Len(a) |-> IF n = 0 THEN 0 ELSE f[n - 1] + a[n]]

LEMMA RunningTotalAt ==
    ASSUME NEW a \in Seq(Nat), NEW f, RunningTotal(a, f)
    PROVE  f[0] = 0 /\ \A n \in 1 .. Len(a) : f[n] = f[n - 1] + a[n]
  <1>1. Len(a) \in Nat /\ 0 \in 0 .. Len(a)
    OBVIOUS
  <1>2. \A n \in 0 .. Len(a) : f[n] = IF n = 0 THEN 0 ELSE f[n - 1] + a[n]
    BY Zenon DEF RunningTotal
  <1> QED
    BY <1>1, <1>2

\* A total is what its recursive definition says.
LEMMA TotalDefined ==
    ASSUME NEW a \in Seq(Nat)
    PROVE  \E f : /\ RunningTotal(a, f)
                  /\ Total(a) = f[Len(a)]
  <1> DEFINE Upto(N, f) == f = [n \in 0 .. N |-> IF n = 0 THEN 0 ELSE f[n - 1] + a[n]]
             S == {N \in Nat : \E f : Upto(N, f)}
  <1>1. 0 \in S
    <2>1. Upto(0, [n \in 0 .. 0 |-> 0])
      OBVIOUS
    <2> QED BY <2>1
  <1>2. ASSUME NEW N \in Nat, N \in S PROVE N + 1 \in S
    <2>1. PICK f : Upto(N, f)
      BY <1>2
    <2> DEFINE g == [n \in 0 .. N + 1 |-> IF n \in 0 .. N THEN f[n] ELSE f[N] + a[N + 1]]
    <2>2. Upto(N + 1, g)
      BY <2>1
    <2> HIDE DEF Upto, g
    <2> QED
      BY <2>2
  <1>3. Nat \subseteq S
    BY <1>1, <1>2, SetInduction
  <1>4. \E f : Upto(Len(a), f)
    BY <1>3
  <1> DEFINE f0 == CHOOSE f : Upto(Len(a), f)
  <1>5. Upto(Len(a), f0)
    BY <1>4
  <1>6. Total(a) = f0[Len(a)]
    BY DEF Total
  <1>7. RunningTotal(a, f0)
    BY <1>5 DEF RunningTotal
  <1> HIDE DEF f0
  <1> QED
    BY <1>6, <1>7

\* Amount by amount smaller, prefix by prefix smaller.
LEMMA PrefixTotals ==
    ASSUME NEW a \in Seq(Nat), NEW b \in Seq(Nat), NEW f, NEW g, NEW N \in Nat,
           N <= Len(a), N <= Len(b), \A n \in 1 .. N : a[n] <= b[n],
           RunningTotal(a, f),
           RunningTotal(b, g)
    PROVE  f[N] \in Nat /\ g[N] \in Nat /\ f[N] <= g[N]
  <1> DEFINE S == {n \in Nat : n <= N => f[n] \in Nat /\ g[n] \in Nat /\ f[n] <= g[n]}
  <1>1. Len(a) \in Nat /\ Len(b) \in Nat
    OBVIOUS
  <1>2. /\ f[0] = 0 /\ \A n \in 1 .. Len(a) : f[n] = f[n - 1] + a[n]
        /\ g[0] = 0 /\ \A n \in 1 .. Len(b) : g[n] = g[n - 1] + b[n]
    BY RunningTotalAt
  <1>3. 0 \in S
    BY <1>2
  <1>4. ASSUME NEW n \in Nat, n \in S PROVE n + 1 \in S
    <2> SUFFICES ASSUME n + 1 <= N
                 PROVE  f[n + 1] \in Nat /\ g[n + 1] \in Nat /\ f[n + 1] <= g[n + 1]
      OBVIOUS
    <2>1. n + 1 \in 1 .. Len(a) /\ n + 1 \in 1 .. Len(b) /\ (n + 1) - 1 = n
      BY <1>1
    <2>2. f[n + 1] = f[n] + a[n + 1] /\ g[n + 1] = g[n] + b[n + 1]
      BY <1>2, <2>1
    <2>3. a[n + 1] \in Nat /\ b[n + 1] \in Nat /\ a[n + 1] <= b[n + 1]
      BY <2>1
    <2>4. f[n] \in Nat /\ g[n] \in Nat /\ f[n] <= g[n]
      BY <1>4
    <2> DEFINE w == f[n]  x == g[n]  y == a[n + 1]  z == b[n + 1]
    <2>5. f[n + 1] = w + y /\ g[n + 1] = x + z
      BY <2>2
    <2>6. w \in Nat /\ x \in Nat /\ w <= x
      BY <2>4
    <2>7. y \in Nat /\ z \in Nat /\ y <= z
      BY <2>3
    <2> HIDE DEF w, x, y, z
    <2>8. w + y \in Nat /\ x + z \in Nat /\ w + y <= x + z
      BY <2>6, <2>7
    <2> QED
      BY <2>5, <2>8
  <1>5. Nat \subseteq S
    BY <1>3, <1>4, SetInduction
  <1> QED
    BY <1>5

LEMMA TotalType ==
    ASSUME NEW a \in Seq(Nat) PROVE Total(a) \in Nat
  <1>1. PICK f : /\ RunningTotal(a, f)
                 /\ Total(a) = f[Len(a)]
    BY TotalDefined
  <1>2. Len(a) \in Nat /\ \A n \in 1 .. Len(a) : a[n] <= a[n]
    OBVIOUS
  <1> QED
    BY <1>1, <1>2, PrefixTotals

LEMMA TotalMonotone ==
    ASSUME NEW a \in Seq(Nat), NEW b \in Seq(Nat), Len(a) = Len(b),
           \A n \in 1 .. Len(a) : a[n] <= b[n]
    PROVE  Total(a) <= Total(b)
  <1>1. PICK f : /\ RunningTotal(a, f)
                 /\ Total(a) = f[Len(a)]
    BY TotalDefined
  <1>2. PICK g : /\ RunningTotal(b, g)
                 /\ Total(b) = g[Len(b)]
    BY TotalDefined
  <1>3. Len(a) \in Nat /\ Len(a) <= Len(a) /\ Len(a) <= Len(b)
    OBVIOUS
  <1>4. f[Len(a)] <= g[Len(a)]
    BY <1>1, <1>2, <1>3, PrefixTotals, Zenon
  <1> QED
    BY <1>1, <1>2, <1>4

\* One more amount, with those before it unchanged.
LEMMA TotalAppend ==
    ASSUME NEW a \in Seq(Nat), NEW b \in Seq(Nat), Len(b) = Len(a) + 1,
           \A n \in 1 .. Len(a) : a[n] = b[n]
    PROVE  Total(b) = Total(a) + b[Len(a) + 1]
  <1>1. PICK f : /\ RunningTotal(a, f)
                 /\ Total(a) = f[Len(a)]
    BY TotalDefined
  <1>2. PICK g : /\ RunningTotal(b, g)
                 /\ Total(b) = g[Len(b)]
    BY TotalDefined
  <1>3. Len(a) \in Nat /\ Len(a) <= Len(a) /\ Len(a) <= Len(b)
    OBVIOUS
  <1>4. \A n \in 1 .. Len(a) : a[n] <= b[n] /\ b[n] <= a[n]
    <2>1. \A n \in 1 .. Len(a) : a[n] \in Nat
      OBVIOUS
    <2> QED
      BY <2>1
  <1>5. f[Len(a)] \in Nat /\ g[Len(a)] \in Nat /\ f[Len(a)] <= g[Len(a)]
    BY <1>1, <1>2, <1>3, <1>4, PrefixTotals, Zenon
  <1>6. g[Len(a)] <= f[Len(a)]
    BY <1>1, <1>2, <1>3, <1>4, PrefixTotals, Zenon
  <1>7. g[Len(b)] = g[Len(a)] + b[Len(a) + 1]
    <2>1. Len(b) \in 1 .. Len(b) /\ Len(b) - 1 = Len(a)
      BY <1>3
    <2> QED
      BY <1>2, <2>1, RunningTotalAt
  <1> QED
    BY <1>1, <1>2, <1>5, <1>6, <1>7

-----------------------------------------------------------------------------
(* The public-priority list.                                               *)

Unique(items) == \A i, k \in DOMAIN items : items[i] = items[k] => i = k

LEMMA EntriesInProperties ==
    ASSUME TypeOK, NEW kept
    PROVE  /\ EntriesIn(kept) \in Seq(Jobs)
           /\ Len(EntriesIn(kept)) <= Len(priority)
           /\ \A i \in DOMAIN EntriesIn(kept) : EntriesIn(kept)[i] \in kept
           /\ Unique(priority) => Unique(EntriesIn(kept))
           /\ (\E i \in DOMAIN priority : priority[i] \notin kept)
                  => Len(EntriesIn(kept)) < Len(priority)
  <1> DEFINE P == {i \in DOMAIN priority : priority[i] \in kept}
             list == AtPositions(priority, P)
  <1>1. priority \in Seq(Jobs) /\ P \in SUBSET DOMAIN priority
    BY DEF TypeOK
  <1>2. /\ list \in Seq(Jobs)
        /\ Len(list) = Cardinality(P) /\ Cardinality(P) <= Len(priority)
        /\ \A n \in DOMAIN list : Nth(P, n) \in P /\ list[n] = priority[Nth(P, n)]
    BY <1>1, AtPositionsProperties
  <1>3. Unique(priority) => Unique(list)
    <2> HIDE DEF P
    <2> QED
      BY <1>1, AtPositionsInjective DEF Unique
  <1>4. ASSUME NEW i \in DOMAIN priority, priority[i] \notin kept
        PROVE  Cardinality(P) < Len(priority)
    <2> DEFINE len == Len(priority)
    <2>1. len \in Nat /\ DOMAIN priority = 1 .. len
      BY <1>1
    <2> HIDE DEF len
    <2>2. IsFiniteSet(1 .. len) /\ Cardinality(1 .. len) = len
      BY <2>1, FS_Interval
    <2>3. P \in SUBSET (1 .. len) /\ P # 1 .. len
      BY <1>4, <2>1
    <2>4. Cardinality(P) <= len /\ Cardinality(P) # len /\ Cardinality(P) \in Nat
      <3> HIDE DEF P
      <3> QED
        BY <2>2, <2>3, FS_Subset, FS_CardinalityType
    <2> QED
      BY <2>1, <2>4 DEF len
  <1>5. EntriesIn(kept) = list
    BY DEF EntriesIn
  <1>6. \A n \in DOMAIN list : list[n] \in kept
    BY <1>2
  <1> HIDE DEF list
  <1> QED
    BY <1>2, <1>3, <1>4, <1>5, <1>6

LEMMA PutAtProperties ==
    ASSUME NEW S, NEW items \in Seq(S), NEW i \in 1 .. (Len(items) + 1), NEW x \in S
    PROVE  /\ PutAt(items, i, x) \in Seq(S)
           /\ Len(PutAt(items, i, x)) = Len(items) + 1
           /\ (Unique(items) /\ \A k \in DOMAIN items : items[k] # x)
                  => Unique(PutAt(items, i, x))
  <1> DEFINE front == SubSeq(items, 1, i - 1)
             back == SubSeq(items, i, Len(items))
             len == Len(items)
             new == PutAt(items, i, x)
  <1>1. len \in Nat /\ i \in Nat /\ i >= 1 /\ i <= len + 1 /\ DOMAIN items = 1 .. len
    OBVIOUS
  <1>2. /\ front \in Seq(S) /\ Len(front) = i - 1
        /\ \A k \in 1 .. (i - 1) : front[k] = items[k]
    BY <1>1
  <1>3. /\ back \in Seq(S) /\ Len(back) = len - i + 1
        /\ \A k \in 1 .. (len - i + 1) : back[k] = items[i + k - 1]
    BY <1>1
  <1>4. new = (front \o <<x>>) \o back
    BY DEF PutAt
  <1> HIDE DEF front, back, new
  <1>5. /\ front \o <<x>> \in Seq(S) /\ Len(front \o <<x>>) = i
        /\ (front \o <<x>>)[i] = x
        /\ \A k \in 1 .. (i - 1) : (front \o <<x>>)[k] = items[k]
    BY <1>1, <1>2
  <1>6. /\ new \in Seq(S) /\ Len(new) = len + 1 /\ DOMAIN new = 1 .. (len + 1)
        /\ \A k \in 1 .. i : new[k] = (front \o <<x>>)[k]
        /\ \A k \in (i + 1) .. (len + 1) : new[k] = back[k - i]
    BY <1>1, <1>3, <1>4, <1>5
  <1> DEFINE from(k) == IF k < i THEN k ELSE k - 1
  <1>7. \A k \in DOMAIN new : IF k = i THEN new[k] = x
                             ELSE from(k) \in DOMAIN items /\ new[k] = items[from(k)]
    BY <1>1, <1>3, <1>5, <1>6
  <1>8. ASSUME Unique(items), \A k \in DOMAIN items : items[k] # x PROVE Unique(new)
    BY <1>1, <1>6, <1>7, <1>8 DEF Unique
  <1> QED
    BY <1>6, <1>8 DEF new

\* What the three statements that write the list leave of it.
ListOK == Len(priority) <= Capacity /\ Unique(priority)

LEMMA PrioritiseList ==
    ASSUME TypeOK, NEW q \in Requests, request[q].job \in Jobs, RequestPrioritise(q)
    PROVE  priority' \in Seq(Jobs) /\ (ListOK => ListOK')
  <1> DEFINE j == request[q].job
             others == OthersStillLive(j)
  <1>1. /\ others \in Seq(Jobs)
        /\ \A i \in DOMAIN others : others[i] # j
        /\ Unique(priority) => Unique(others)
    BY EntriesInProperties DEF OthersStillLive
  <1>2. \/ priority' = priority
        \/ priority' = Append(others, j) /\ Len(others) < Capacity
    BY DEF RequestPrioritise, Fits
  <1> HIDE DEF others
  <1>3. CASE priority' = priority
    BY <1>3 DEF TypeOK, ListOK, Unique
  <1>4. CASE priority' = Append(others, j) /\ Len(others) < Capacity
    <2>1. /\ priority' \in Seq(Jobs) /\ Len(priority') = Len(others) + 1
          /\ DOMAIN priority' = 1 .. (Len(others) + 1) /\ DOMAIN others = 1 .. Len(others)
          /\ priority'[Len(others) + 1] = j
          /\ \A i \in DOMAIN others : priority'[i] = others[i]
      BY <1>1, <1>4
    <2>2. Unique(others) => Unique(priority)'
      BY <1>1, <2>1 DEF Unique
    <2>3. Len(priority') <= Capacity
      BY <1>1, <1>4, <2>1, BoundsAssumption
    <2> QED
      BY <1>1, <2>1, <2>2, <2>3 DEF ListOK
  <1> QED
    BY <1>2, <1>3, <1>4

LEMMA SelectList ==
    ASSUME TypeOK, NEW r \in Runners, SelectPriority(r)
    PROVE  priority' \in Seq(Jobs) /\ (ListOK => ListOK')
  <1>1. priority' = StillLive
    BY DEF SelectPriority
  <1>2. /\ StillLive \in Seq(Jobs) /\ Len(StillLive) <= Len(priority)
        /\ Unique(priority) => Unique(StillLive)
    BY EntriesInProperties DEF StillLive
  <1> QED
    BY <1>1, <1>2, BoundsAssumption DEF ListOK, Unique, TypeOK

LEMMA ReplaceList ==
    ASSUME TypeOK, NEW r \in Runners, ReplaceStale(r)
    PROVE  priority' \in Seq(Jobs) /\ (ListOK => ListOK')
  <1> DEFINE stale == runner[r].job
             new == runner[r].seen
             rest == EntriesIn(Jobs \ {stale, new})
             place == IF IndexOf(stale, priority) > Len(rest) THEN Len(rest) + 1
                      ELSE IndexOf(stale, priority)
  <1>1. new \in Jobs
    BY DEF TypeOK, ReplaceStale, RunnerState
  <1>2. /\ rest \in Seq(Jobs) /\ Len(rest) \in Nat
        /\ \A i \in DOMAIN rest : rest[i] \in Jobs \ {stale, new}
        /\ Unique(priority) => Unique(rest)
    BY EntriesInProperties
  <1>3. /\ \E i \in DOMAIN priority : priority[i] = stale
        /\ priority' = rest \/ priority' = PutAt(rest, place, new)
    BY DEF ReplaceStale, Replaceable
  <1>4. Len(rest) < Len(priority)
    <2>1. \E i \in DOMAIN priority : priority[i] \notin Jobs \ {stale, new}
      BY <1>3
    <2> QED
      BY <2>1, EntriesInProperties
  <1>5. place \in 1 .. (Len(rest) + 1)
    <2>1. IndexOf(stale, priority) \in DOMAIN priority
      BY <1>3 DEF IndexOf
    <2>2. IndexOf(stale, priority) \in Nat \ {0}
      BY <2>1 DEF TypeOK
    <2> QED
      BY <1>2, <2>2
  <1>6. Len(priority) \in Nat
    BY DEF TypeOK
  <1> HIDE DEF rest, place
  <1>7. CASE priority' = rest
    BY <1>2, <1>4, <1>6, <1>7, BoundsAssumption DEF ListOK, Unique
  <1>8. CASE priority' = PutAt(rest, place, new)
    <2>1. /\ priority' \in Seq(Jobs) /\ Len(priority') = Len(rest) + 1
          /\ Unique(rest) => Unique(PutAt(rest, place, new))
      BY <1>1, <1>2, <1>5, <1>8, PutAtProperties
    <2>2. Unique(rest) => Unique(priority)'
      BY <1>8, <2>1 DEF Unique
    <2>3. Len(priority) <= Capacity => Len(priority') <= Capacity
      BY <1>2, <1>4, <1>6, <2>1, BoundsAssumption
    <2> QED
      BY <1>2, <2>1, <2>2, <2>3 DEF ListOK
  <1> QED
    BY <1>3, <1>7, <1>8

-----------------------------------------------------------------------------
LEMMA DaysAreNatural ==
    ASSUME NEW t \in Nat PROVE DayOf(t) \in Nat
  BY BoundsAssumption, SMT DEF DayOf

LEMMA ClipType ==
    ASSUME NEW t \in Nat PROVE Clip(t) \in Nat
  BY BoundsAssumption DEF Clip

LEMMA CurrentJobType ==
    ASSUME TypeOK, NEW o \in Observations PROVE CurrentJob(o) \in Jobs
  BY DEF TypeOK, CurrentJob, Jobs

LEMMA CaptureType ==
    ASSUME NEW j \in Jobs PROVE Capture(j) \in Observations
  BY DEF Capture, Jobs

\* The rows an action writes.
LEMMA QueuedType ==
    ASSUME NEW row \in JobRow, NEW t \in Nat
    PROVE  /\ Queued(row, t) \in JobRow
           /\ Queued(row, t).status = "PENDING"
           /\ Queued(row, t).attempts = row.attempts
           /\ Queued(row, t).token = 0
  BY DEF Queued, JobRow, Statuses, Errors

LEMMA EnqueuedType ==
    ASSUME NEW row \in JobRow, now \in Nat, NEW b \in BOOLEAN
    PROVE  /\ Enqueued(row, b) \in JobRow
           /\ Enqueued(row, b).attempts = row.attempts
           /\ \/ Enqueued(row, b) = row
              \/ Enqueued(row, b).status = "PENDING" /\ Enqueued(row, b).token = 0
  BY QueuedType DEF Enqueued, Reopened

LEMMA ForceFailedType ==
    ASSUME NEW row \in JobRow, NEW e \in Errors
    PROVE  /\ ForceFailed(row, e) \in JobRow
           /\ ForceFailed(row, e).attempts = row.attempts
           /\ ForceFailed(row, e).status = "FAILED"
           /\ ForceFailed(row, e).token = row.token
  BY DEF ForceFailed, JobRow, Statuses

-----------------------------------------------------------------------------
(* Steps that change neither a row nor an attempt keep what is said of     *)
(* rows and attempts.                                                      *)
LEMMA RowsUnchanged ==
    ASSUME IInv, UNCHANGED <<job, attempts>>
    PROVE  LeaseConsistent' /\ AttemptsBounded'
  BY DEF IInv, LeaseConsistent, AttemptsBounded, AttemptsOf

\* Rows change, keep their attempt counts, and each is either left alone, or
\* is not RUNNING afterwards and keeps or loses its token.
LEMMA RowsChanged ==
    ASSUME IInv, job' \in [Jobs -> JobRow], attempts' = attempts,
           \A j \in Jobs :
              /\ job'[j].attempts = job[j].attempts
              /\ \/ job'[j] = job[j]
                 \/ job'[j].status # "RUNNING" /\ job'[j].token \in {0, job[j].token}
    PROVE  LeaseConsistent' /\ AttemptsBounded'
  BY DEF IInv, TypeOK, LeaseConsistent, AttemptsBounded, AttemptsOf

LEMMA RowChanged ==
    ASSUME IInv, NEW j \in Jobs, NEW row \in JobRow,
           job' = [job EXCEPT ![j] = row], attempts' = attempts,
           row.attempts = job[j].attempts,
           row = job[j] \/ (row.status # "RUNNING" /\ row.token \in {0, job[j].token})
    PROVE  job' \in [Jobs -> JobRow] /\ LeaseConsistent' /\ AttemptsBounded'
  <1>1. job' \in [Jobs -> JobRow]
    BY DEF IInv, TypeOK
  <1> QED
    BY <1>1, RowsChanged DEF IInv, TypeOK

LEMMA IInvInit == Init => IInv
  <1> SUFFICES ASSUME Init PROVE IInv
    OBVIOUS
  <1>1. TypeOK
    BY BoundsAssumption, EmptySeq, NoJobAssumption
       DEF Init, TypeOK, Versions, Absent, JobRow, Statuses, Errors, IdleRunner, RunnerState,
           RunnerPcs, Lanes, IdleRequest, RequestState
  <1>2. LocalsOK
    BY DEF Init, LocalsOK, IdleRunner, IdleRequest
  <1>3. LeaseConsistent
    BY DEF Init, LeaseConsistent, Absent
  <1>4. AttemptsBounded
    <2> SUFFICES ASSUME NEW j \in Jobs PROVE Cardinality(AttemptsOf(j)) = 0 /\ 0 <= MaxAttempts
      BY DEF Init, AttemptsBounded, Absent
    <2>1. AttemptsOf(j) = {}
      BY DEF Init, AttemptsOf
    <2> QED
      BY <2>1, FS_EmptySet, BoundsAssumption
  <1> QED
    BY <1>1, <1>2, <1>3, <1>4 DEF IInv

LEMMA TickStep == IInv /\ Tick => IInv'
  <1> SUFFICES ASSUME IInv, Tick PROVE IInv'
    OBVIOUS
  <1>1. TypeOK'
    BY BoundsAssumption DEF IInv, TypeOK, Tick
  <1>2. LocalsOK'
    BY DEF IInv, LocalsOK, Tick
  <1> QED
    BY <1>1, <1>2, RowsUnchanged DEF IInv, Tick

LEMMA LedgerStep ==
    ASSUME NEW o \in Observations, IInv, Revise(o) \/ MoveGate(o) PROVE IInv'
  <1>1. TypeOK'
    <2>1. ledger' \in [Observations -> [version : Versions, moves : 0 .. MaxGateMoves]]
      <3>1. ledger \in [Observations -> [version : Versions, moves : 0 .. MaxGateMoves]]
        BY DEF IInv, TypeOK
      <3>2. CASE Revise(o)
        BY <3>1, <3>2, BoundsAssumption DEF Revise, Versions
      <3>3. CASE MoveGate(o)
        BY <3>1, <3>3, BoundsAssumption DEF MoveGate
      <3> QED
        BY <3>2, <3>3
    <2> QED
      BY <2>1 DEF IInv, TypeOK, Revise, MoveGate
  <1>2. LocalsOK'
    BY DEF IInv, LocalsOK, Revise, MoveGate
  <1> QED
    BY <1>1, <1>2, RowsUnchanged DEF IInv, Revise, MoveGate

-----------------------------------------------------------------------------
(* The API handler.                                                        *)
LEMMA RequestReadStep ==
    ASSUME NEW q \in Requests, IInv, RequestRead(q) PROVE IInv'
  <1>1. PICK o \in Observations :
            request' = [request EXCEPT ![q] = [pc |-> "read", job |-> CurrentJob(o),
                                               accepted |-> FALSE]]
    BY DEF RequestRead
  <1>2. CurrentJob(o) \in Jobs
    BY CurrentJobType DEF IInv
  <1>3. TypeOK'
    BY <1>1, <1>2 DEF IInv, TypeOK, RequestRead, RequestState
  <1>4. LocalsOK'
    BY <1>1, <1>2 DEF IInv, TypeOK, LocalsOK, RequestRead
  <1> QED
    BY <1>3, <1>4, RowsUnchanged DEF IInv, RequestRead

LEMMA RequestEnqueueStep ==
    ASSUME NEW q \in Requests, IInv, RequestEnqueue(q) PROVE IInv'
  <1> DEFINE j == request[q].job
             row == Enqueued(job[j], TRUE)
  <1>1. j \in Jobs /\ job[j] \in JobRow /\ now \in Nat
    BY DEF IInv, TypeOK, LocalsOK, RequestEnqueue
  <1>2. /\ job' = [job EXCEPT ![j] = row]
        /\ request' = [request EXCEPT ![q].pc = "enqueued", ![q].accepted = (row # job[j])]
        /\ UNCHANGED <<ledger, attempts, priority, runner, now, crashes>>
    BY DEF RequestEnqueue
  <1>3. row \in JobRow /\ row.attempts = job[j].attempts
        /\ (row = job[j] \/ (row.status # "RUNNING" /\ row.token = 0))
    BY <1>1, EnqueuedType
  <1> HIDE DEF row
  <1>4. job' \in [Jobs -> JobRow] /\ LeaseConsistent' /\ AttemptsBounded'
    BY <1>1, <1>2, <1>3, RowChanged
  <1>5. TypeOK'
    BY <1>2, <1>4 DEF IInv, TypeOK, RequestState
  <1>6. LocalsOK'
    BY <1>1, <1>2 DEF IInv, TypeOK, LocalsOK
  <1> QED
    BY <1>4, <1>5, <1>6 DEF IInv

LEMMA RequestPrioritiseStep ==
    ASSUME NEW q \in Requests, IInv, RequestPrioritise(q) PROVE IInv'
  <1>1. /\ request' = [request EXCEPT ![q] = request'[q]]
        /\ request'[q] = [request[q] EXCEPT !.pc = "full"] \/ request'[q] = IdleRequest
        /\ request[q].pc = "enqueued"
        /\ UNCHANGED <<ledger, job, attempts, runner, now, crashes>>
    BY DEF RequestPrioritise, IInv, TypeOK
  <1>2. request[q] \in RequestState /\ request[q].job \in Jobs
    BY <1>1 DEF IInv, TypeOK, LocalsOK
  <1>3. request'[q] \in RequestState /\ (request'[q].pc # "idle" => request'[q].job \in Jobs)
    <2>1. CASE request'[q] = IdleRequest
      BY <2>1 DEF RequestState, IdleRequest
    <2>2. CASE request'[q] = [request[q] EXCEPT !.pc = "full"]
      BY <2>2, <1>2 DEF RequestState
    <2> QED
      BY <1>1, <2>1, <2>2
  <1>4. priority' \in Seq(Jobs)
    BY <1>2, PrioritiseList DEF IInv
  <1>5. TypeOK'
    BY <1>1, <1>3, <1>4 DEF IInv, TypeOK
  <1>6. LocalsOK'
    BY <1>1, <1>3 DEF IInv, TypeOK, LocalsOK
  <1> QED
    BY <1>1, <1>5, <1>6, RowsUnchanged DEF IInv

LEMMA RequestRejectFullStep ==
    ASSUME NEW q \in Requests, IInv, RequestRejectFull(q) PROVE IInv'
  <1> DEFINE j == request[q].job
             row == ForceFailed(job[j], "NONE")
  <1>1. j \in Jobs /\ job[j] \in JobRow
    BY DEF IInv, TypeOK, LocalsOK, RequestRejectFull
  <1>2. job' = [job EXCEPT ![j] = row]
    BY DEF RequestRejectFull
  <1>3. row \in JobRow /\ row.attempts = job[j].attempts
        /\ row.status # "RUNNING" /\ row.token = job[j].token
    BY <1>1, ForceFailedType DEF Errors
  <1> HIDE DEF row
  <1>4. job' \in [Jobs -> JobRow] /\ LeaseConsistent' /\ AttemptsBounded'
    BY <1>1, <1>2, <1>3, RowChanged DEF RequestRejectFull
  <1>5. TypeOK'
    BY <1>4 DEF IInv, TypeOK, RequestRejectFull, RequestState, IdleRequest
  <1>6. LocalsOK'
    BY DEF IInv, TypeOK, LocalsOK, RequestRejectFull, IdleRequest
  <1> QED
    BY <1>4, <1>5, <1>6 DEF IInv

LEMMA RequestAbortsStep ==
    ASSUME NEW q \in Requests, IInv, RequestAborts(q) PROVE IInv'
  <1>1. TypeOK'
    BY DEF IInv, TypeOK, RequestAborts, RequestState, IdleRequest
  <1>2. LocalsOK'
    BY DEF IInv, TypeOK, LocalsOK, RequestAborts, IdleRequest
  <1> QED
    BY <1>1, <1>2, RowsUnchanged DEF IInv, RequestAborts

-----------------------------------------------------------------------------
(* The worker, up to its claim.                                            *)

\* A runner's own step that neither starts nor ends a call.
RunnerMoved(r) ==
    /\ runner' = [runner EXCEPT ![r] = runner'[r]]
    /\ runner'[r] \in RunnerState
    /\ runner'[r].pc # "idle" => runner'[r].job \in Jobs
    /\ runner'[r].pc \notin {"calling", "failing"}

LEMMA IdleRunnerType == IdleRunner \in RunnerState /\ IdleRunner.pc = "idle"
  BY DEF IdleRunner, RunnerState, RunnerPcs, Lanes

LEMMA RunnerMovedKeeps ==
    ASSUME NEW r \in Runners, IInv, RunnerMoved(r), UNCHANGED <<request, attempts>>
    PROVE  runner' \in [Runners -> RunnerState] /\ LocalsOK'
  BY DEF IInv, TypeOK, LocalsOK, RunnerMoved

LEMMA SelectStep ==
    ASSUME NEW r \in Runners, IInv,
           SelectPriority(r) \/ SelectPending(r) \/ SelectInventory(r)
    PROVE  IInv'
  <1>1. UNCHANGED <<ledger, job, attempts, request, now, crashes>> /\ runner[r].pc = "idle"
    BY DEF SelectPriority, SelectPending, SelectInventory
  <1>2. RunnerMoved(r)
    <2>1. CASE runner' = runner
      BY <2>1, <1>1 DEF RunnerMoved, IInv, TypeOK
    <2>2. CASE SelectPriority(r) /\ runner' # runner
      <3>1. PICK j \in Jobs : runner' = [runner EXCEPT ![r] = [IdleRunner EXCEPT !.pc = "row",
                                                              !.lane = "public", !.job = j]]
        BY <2>2 DEF SelectPriority
      <3> QED
        BY <3>1 DEF RunnerMoved, IInv, TypeOK, IdleRunner, RunnerState, RunnerPcs, Lanes
    <2>3. CASE SelectPending(r)
      <3>1. PICK j \in Jobs : runner' = [runner EXCEPT ![r] = [IdleRunner EXCEPT !.pc = "row", !.job = j]]
        BY <2>3 DEF SelectPending
      <3> QED
        BY <3>1 DEF RunnerMoved, IInv, TypeOK, IdleRunner, RunnerState, RunnerPcs, Lanes
    <2>4. CASE SelectInventory(r)
      <3>1. PICK o \in Observations :
              runner' = [runner EXCEPT ![r] = [IdleRunner EXCEPT !.pc = "start", !.job = CurrentJob(o)]]
        BY <2>4 DEF SelectInventory
      <3>2. CurrentJob(o) \in Jobs
        BY CurrentJobType DEF IInv
      <3> QED
        BY <3>1, <3>2 DEF RunnerMoved, IInv, TypeOK, IdleRunner, RunnerState, RunnerPcs, Lanes
    <2> QED
      BY <2>1, <2>2, <2>3, <2>4
  <1>3. priority' \in Seq(Jobs)
    <2>1. SelectPriority(r) \/ priority' = priority
      BY DEF SelectPending, SelectInventory
    <2> QED
      BY <2>1, SelectList DEF IInv, TypeOK
  <1>4. TypeOK' /\ LocalsOK'
    BY <1>1, <1>2, <1>3, RunnerMovedKeeps DEF IInv, TypeOK
  <1> QED
    BY <1>1, <1>4, RowsUnchanged DEF IInv

LEMMA CheckInputStep ==
    ASSUME NEW r \in Runners, IInv, CheckInput(r) PROVE IInv'
  <1> DEFINE o == Capture(runner[r].job)
  <1>1. runner[r] \in RunnerState /\ runner[r].job \in Jobs
    BY DEF IInv, TypeOK, LocalsOK, CheckInput
  <1>2. CurrentJob(o) \in Jobs
    BY <1>1, CurrentJobType, CaptureType DEF IInv
  <1>3. /\ runner' = [runner EXCEPT ![r] = runner'[r]]
        /\ \/ runner'[r] = [runner[r] EXCEPT !.pc = "start"]
           \/ runner'[r] = [runner[r] EXCEPT !.pc = "reject", !.seen = CurrentJob(o)]
           \/ runner'[r] = [runner[r] EXCEPT !.pc = "reject", !.seen = NoJob]
    BY DEF CheckInput, IInv, TypeOK
  <1>4. RunnerMoved(r)
    BY <1>1, <1>2, <1>3 DEF RunnerMoved, RunnerState, RunnerPcs
  <1>5. TypeOK' /\ LocalsOK'
    BY <1>4, RunnerMovedKeeps DEF IInv, TypeOK, CheckInput
  <1> QED
    BY <1>5, RowsUnchanged DEF IInv, CheckInput

LEMMA FailStaleStep ==
    ASSUME NEW r \in Runners, IInv, FailStale(r) PROVE IInv'
  <1> DEFINE j == runner[r].job
             row == ForceFailed(job[j], IF runner[r].seen = NoJob THEN "NONE" ELSE "STALE_INPUT")
  <1>1. j \in Jobs /\ job[j] \in JobRow
    BY DEF IInv, TypeOK, LocalsOK, FailStale
  <1>2. job' = [job EXCEPT ![j] = row]
    BY DEF FailStale
  <1>3. row \in JobRow /\ row.attempts = job[j].attempts
        /\ row.status # "RUNNING" /\ row.token = job[j].token
    BY <1>1, ForceFailedType DEF Errors
  <1> HIDE DEF row
  <1>4. job' \in [Jobs -> JobRow] /\ LeaseConsistent' /\ AttemptsBounded'
    BY <1>1, <1>2, <1>3, RowChanged DEF FailStale
  <1>5. RunnerMoved(r)
    BY IdleRunnerType DEF FailStale, RunnerMoved, IInv, TypeOK
  <1>6. TypeOK' /\ LocalsOK'
    BY <1>4, <1>5, RunnerMovedKeeps DEF IInv, TypeOK, FailStale
  <1> QED
    BY <1>4, <1>6 DEF IInv

LEMMA ReadContextStep ==
    ASSUME NEW r \in Runners, IInv, ReadContext(r) PROVE IInv'
  <1> DEFINE o == Capture(runner[r].job)
  <1>1. runner[r] \in RunnerState /\ runner[r].job \in Jobs
    BY DEF IInv, TypeOK, LocalsOK, ReadContext
  <1>2. CurrentJob(o) \in Jobs
    BY <1>1, CurrentJobType, CaptureType DEF IInv
  <1>3. /\ runner' = [runner EXCEPT ![r] = runner'[r]]
        /\ \/ runner'[r] = IdleRunner
           \/ runner'[r] = [runner[r] EXCEPT !.pc = "context", !.job = CurrentJob(o)]
    BY DEF ReadContext, IInv, TypeOK
  <1>4. RunnerMoved(r)
    BY <1>1, <1>2, <1>3, IdleRunnerType DEF RunnerMoved, RunnerState, RunnerPcs
  <1>5. TypeOK' /\ LocalsOK'
    BY <1>4, RunnerMovedKeeps DEF IInv, TypeOK, ReadContext
  <1> QED
    BY <1>5, RowsUnchanged DEF IInv, ReadContext

LEMMA RunnerEnqueueStep ==
    ASSUME NEW r \in Runners, IInv, RunnerEnqueue(r) PROVE IInv'
  <1> DEFINE j == runner[r].job
             row == Enqueued(job[j], FALSE)
  <1>1. j \in Jobs /\ job[j] \in JobRow /\ now \in Nat /\ runner[r] \in RunnerState
    BY BoundsAssumption DEF IInv, TypeOK, LocalsOK, RunnerEnqueue
  <1>2. job' = [job EXCEPT ![j] = row] /\ UNCHANGED <<ledger, attempts, priority, request, now, crashes>>
    BY DEF RunnerEnqueue
  <1>3. row \in JobRow /\ row.attempts = job[j].attempts
        /\ (row = job[j] \/ (row.status # "RUNNING" /\ row.token = 0))
    BY <1>1, EnqueuedType
  <1>4. /\ runner' = [runner EXCEPT ![r] = runner'[r]]
        /\ \/ runner'[r] = IdleRunner
           \/ runner'[r] = [runner[r] EXCEPT !.pc = "claim", !.since = now]
    BY DEF RunnerEnqueue, IInv, TypeOK
  <1>5. RunnerMoved(r)
    BY <1>1, <1>4, IdleRunnerType DEF RunnerMoved, RunnerState, RunnerPcs
  <1> HIDE DEF row
  <1>6. job' \in [Jobs -> JobRow] /\ LeaseConsistent' /\ AttemptsBounded'
    BY <1>1, <1>2, <1>3, RowChanged
  <1>7. TypeOK' /\ LocalsOK'
    BY <1>2, <1>5, <1>6, RunnerMovedKeeps DEF IInv, TypeOK
  <1> QED
    BY <1>6, <1>7 DEF IInv

LEMMA ReplaceStaleStep ==
    ASSUME NEW r \in Runners, IInv, ReplaceStale(r) PROVE IInv'
  <1> DEFINE stale == runner[r].job
             new == runner[r].seen
             failed == [Queued(job[stale], now) EXCEPT !.status = "FAILED", !.error = "STALE_INPUT"]
             row == Enqueued(job[new], TRUE)
  <1>1. /\ stale \in Jobs /\ job[stale] \in JobRow
        /\ new \in Jobs /\ job[new] \in JobRow
        /\ now \in Nat /\ runner[r] \in RunnerState
    BY BoundsAssumption DEF IInv, TypeOK, LocalsOK, ReplaceStale, RunnerState
  <1>2. /\ job' = [job EXCEPT ![stale] = failed, ![new] = row]
        /\ UNCHANGED <<ledger, attempts, request, now, crashes>>
    BY DEF ReplaceStale
  <1>3. /\ failed \in JobRow /\ failed.attempts = job[stale].attempts
        /\ failed.status # "RUNNING" /\ failed.token = 0
    <2> DEFINE reset == Queued(job[stale], now)
    <2>1. reset \in JobRow /\ reset.attempts = job[stale].attempts /\ reset.token = 0
      BY <1>1, QueuedType
    <2>2. failed = [reset EXCEPT !.status = "FAILED", !.error = "STALE_INPUT"]
      OBVIOUS
    <2> HIDE DEF reset
    <2> QED
      BY <2>1, <2>2 DEF JobRow, Statuses, Errors
  <1>4. row \in JobRow /\ row.attempts = job[new].attempts
        /\ (row = job[new] \/ (row.status # "RUNNING" /\ row.token = 0))
    BY <1>1, EnqueuedType
  <1>5. /\ runner' = [runner EXCEPT ![r] = runner'[r]]
        /\ \/ runner'[r] = IdleRunner
           \/ runner'[r] = [runner[r] EXCEPT !.pc = "start", !.job = new, !.seen = NoJob]
    BY DEF ReplaceStale, IInv, TypeOK
  <1>6. RunnerMoved(r)
    BY <1>1, <1>5, IdleRunnerType DEF RunnerMoved, RunnerState, RunnerPcs
  <1> HIDE DEF row, failed
  <1>7. job' \in [Jobs -> JobRow]
    BY <1>1, <1>2, <1>3, <1>4 DEF IInv, TypeOK
  <1>8. LeaseConsistent' /\ AttemptsBounded'
    BY <1>1, <1>2, <1>3, <1>4, <1>7, RowsChanged DEF IInv, TypeOK
  <1>9. priority' \in Seq(Jobs)
    BY ReplaceList DEF IInv
  <1>10. TypeOK' /\ LocalsOK'
    BY <1>2, <1>6, <1>7, <1>9, RunnerMovedKeeps DEF IInv, TypeOK
  <1> QED
    BY <1>8, <1>10 DEF IInv

-----------------------------------------------------------------------------
(* The claim and what follows it.                                          *)

LEMMA CompletionRefusedStep ==
    ASSUME NEW r \in Runners, IInv, CompletionRefused(r) \/ ProviderFails(r) PROVE IInv'
  <1>1. UNCHANGED <<ledger, job, attempts, priority, request, now, crashes>>
    BY DEF CompletionRefused, ProviderFails
  <1>2. runner[r] \in RunnerState /\ runner[r].pc = "calling"
    BY DEF IInv, TypeOK, CompletionRefused, ProviderFails
  <1>3. PICK b \in BOOLEAN : runner' = [runner EXCEPT ![r] =
                                [runner[r] EXCEPT !.pc = "failing", !.retryable = b]]
    BY <1>2 DEF CompletionRefused, ProviderFails, IInv, TypeOK
  <1>4. TypeOK'
    BY <1>1, <1>2, <1>3 DEF IInv, TypeOK, RunnerState, RunnerPcs
  <1>5. LocalsOK'
    BY <1>1, <1>2, <1>3 DEF IInv, TypeOK, LocalsOK, RunnerState
  <1> QED
    BY <1>1, <1>4, <1>5, RowsUnchanged DEF IInv

LEMMA CrashStep ==
    ASSUME NEW r \in Runners, IInv, Crash(r) PROVE IInv'
  <1>1. RunnerMoved(r)
    BY IdleRunnerType DEF Crash, RunnerMoved, IInv, TypeOK
  <1>2. TypeOK' /\ LocalsOK'
    BY <1>1, RunnerMovedKeeps, BoundsAssumption DEF IInv, TypeOK, Crash
  <1> QED
    BY <1>2, RowsUnchanged DEF IInv, Crash

\* The end of a call: the attempt the runner holds is closed, its row is
\* unleased, and no other row holds that attempt's token.
LEMMA CallEnded ==
    ASSUME NEW r \in Runners, IInv, runner[r].pc \in {"calling", "failing"}, HoldsToken(r),
           NEW a \in AttemptRow, NEW row \in JobRow,
           a.job = runner[r].job,
           attempts' = [attempts EXCEPT ![runner[r].token] = a],
           job' = [job EXCEPT ![runner[r].job] = row],
           row.status # "RUNNING", row.token = 0,
           row.attempts = job[runner[r].job].attempts,
           runner' = [runner EXCEPT ![r] = IdleRunner],
           UNCHANGED <<ledger, priority, request, now, crashes>>
    PROVE  IInv'
  <1> DEFINE j == runner[r].job
             k == runner[r].token
  <1>1. j \in Jobs /\ k \in DOMAIN attempts /\ attempts[k].job = j /\ job[j].token = k
    BY DEF IInv, LocalsOK, HoldsToken
  <1>2. attempts \in Seq(AttemptRow)
    BY DEF IInv, TypeOK
  <1>3. /\ attempts' \in Seq(AttemptRow) /\ DOMAIN attempts' = DOMAIN attempts
        /\ \A i \in DOMAIN attempts : attempts'[i].job = attempts[i].job
        /\ \A i \in DOMAIN attempts : i # k => attempts'[i] = attempts[i]
    BY <1>1, <1>2
  <1>4. TypeOK'
    BY <1>1, <1>3, IdleRunnerType DEF IInv, TypeOK
  <1>5. LocalsOK'
    BY <1>1, <1>3 DEF IInv, TypeOK, LocalsOK, IdleRunner
  <1>6. LeaseConsistent'
    BY <1>1, <1>3 DEF IInv, TypeOK, LeaseConsistent
  <1>7. AttemptsBounded'
    <2> SUFFICES ASSUME NEW i \in Jobs
                 PROVE  /\ Cardinality(AttemptsOf(i)') = job'[i].attempts
                        /\ job'[i].attempts <= MaxAttempts
      BY DEF AttemptsBounded
    <2>1. AttemptsOf(i)' = AttemptsOf(i)
      BY <1>3 DEF AttemptsOf
    <2>2. job'[i].attempts = job[i].attempts
      BY <1>1 DEF IInv, TypeOK
    <2> QED
      BY <2>1, <2>2 DEF IInv, AttemptsBounded
  <1> QED
    BY <1>4, <1>5, <1>6, <1>7 DEF IInv

LEMMA CompleteStep ==
    ASSUME NEW r \in Runners, IInv, Complete(r) PROVE IInv'
  <1> DEFINE j == runner[r].job
             k == runner[r].token
             row == [Unleased(job[j]) EXCEPT !.status = "COMPLETED"]
  <1>1. j \in Jobs /\ job[j] \in JobRow /\ k \in DOMAIN attempts /\ attempts[k].job = j
    BY DEF IInv, TypeOK, LocalsOK, Complete
  <1>2. attempts[k] \in AttemptRow
    BY <1>1 DEF IInv, TypeOK
  <1>3. PICK c \in Costs : attempts' = [attempts EXCEPT ![k] =
                              [attempts[k] EXCEPT !.status = "COMPLETED", !.cost = c]]
    BY DEF Complete
  <1> DEFINE a == [attempts[k] EXCEPT !.status = "COMPLETED", !.cost = c]
  <1>4. a \in AttemptRow /\ a.job = j
    BY <1>1, <1>2, BudgetAssumption DEF AttemptRow
  <1>5. /\ row \in JobRow /\ row.attempts = job[j].attempts
        /\ row.status # "RUNNING" /\ row.token = 0
    BY <1>1 DEF Unleased, JobRow, Statuses, Errors
  <1>6. /\ runner[r].pc \in {"calling", "failing"} /\ HoldsToken(r)
        /\ job' = [job EXCEPT ![j] = row]
        /\ runner' = [runner EXCEPT ![r] = IdleRunner]
        /\ UNCHANGED <<ledger, priority, request, now, crashes>>
    BY DEF Complete
  <1> HIDE DEF row, a
  <1> QED
    BY <1>3, <1>4, <1>5, <1>6, CallEnded DEF a

LEMMA FailClaimedStep ==
    ASSUME NEW r \in Runners, IInv, FailClaimed(r) PROVE IInv'
  <1> DEFINE j == runner[r].job
             k == runner[r].token
             retry == runner[r].retryable /\ job[j].attempts < MaxAttempts
             row == [Unleased(job[j]) EXCEPT !.status = IF retry THEN "PENDING" ELSE "FAILED",
                                             !.available = IF retry THEN Clip(now + BackoffTicks)
                                                           ELSE now]
  <1>1. /\ j \in Jobs /\ job[j] \in JobRow /\ k \in DOMAIN attempts /\ attempts[k].job = j
        /\ now \in Nat
    <2>1. runner[r].pc = "failing"
      BY DEF FailClaimed
    <2> QED
      BY <2>1, BoundsAssumption DEF IInv, TypeOK, LocalsOK
  <1>2. attempts[k] \in AttemptRow
    BY <1>1 DEF IInv, TypeOK
  <1>3. CASE HoldsToken(r)
    <2>1. PICK c \in Costs : attempts' = [attempts EXCEPT ![k] =
                                [attempts[k] EXCEPT !.status = "FAILED", !.cost = c]]
      BY <1>3 DEF FailClaimed
    <2> DEFINE a == [attempts[k] EXCEPT !.status = "FAILED", !.cost = c]
    <2>2. a \in AttemptRow /\ a.job = j
      BY <1>1, <1>2, BudgetAssumption DEF AttemptRow
    <2>3. Clip(now + BackoffTicks) \in Nat
      BY <1>1, ClipType, BoundsAssumption
    <2>4. /\ row \in JobRow /\ row.attempts = job[j].attempts
          /\ row.status # "RUNNING" /\ row.token = 0
      BY <1>1, <2>3 DEF Unleased, JobRow, Statuses, Errors
    <2>5. /\ runner[r].pc \in {"calling", "failing"}
          /\ job' = [job EXCEPT ![j] = row]
          /\ runner' = [runner EXCEPT ![r] = IdleRunner]
          /\ UNCHANGED <<ledger, priority, request, now, crashes>>
      BY <1>3 DEF FailClaimed
    <2> HIDE DEF row, a
    <2> QED
      BY <1>3, <2>1, <2>2, <2>4, <2>5, CallEnded DEF a
  <1>4. CASE ~HoldsToken(r)
    <2>1. UNCHANGED <<job, attempts>>
      BY <1>4 DEF FailClaimed
    <2>2. RunnerMoved(r)
      BY IdleRunnerType DEF FailClaimed, RunnerMoved, IInv, TypeOK
    <2>3. TypeOK' /\ LocalsOK'
      BY <2>1, <2>2, RunnerMovedKeeps DEF FailClaimed, IInv, TypeOK
    <2> QED
      BY <2>1, <2>3, RowsUnchanged DEF IInv
  <1> QED
    BY <1>3, <1>4

\* Giving the expired leases back, as every claim does first, keeps every row
\* and every attempt well formed, every count, and the lease discipline.
LEMMA ExpiryKeeps ==
    ASSUME IInv, NEW t \in Nat
    PROVE  /\ RowsAfterExpiry(t) \in [Jobs -> JobRow]
           /\ AttemptsAfterExpiry(t) \in Seq(AttemptRow)
           /\ Len(AttemptsAfterExpiry(t)) = Len(attempts)
           /\ \A i \in DOMAIN attempts : AttemptsAfterExpiry(t)[i].job = attempts[i].job
           /\ \A j \in Jobs : RowsAfterExpiry(t)[j].attempts = job[j].attempts
           /\ \A j \in Jobs :
                 /\ RowsAfterExpiry(t)[j].status = "RUNNING" => RowsAfterExpiry(t)[j].token # 0
                 /\ RowsAfterExpiry(t)[j].token # 0 =>
                       /\ RowsAfterExpiry(t)[j].token \in DOMAIN attempts
                       /\ attempts[RowsAfterExpiry(t)[j].token].job = j
                       /\ AttemptsAfterExpiry(t)[RowsAfterExpiry(t)[j].token].status = "RUNNING"
  <1>1. job \in [Jobs -> JobRow] /\ attempts \in Seq(AttemptRow)
    BY DEF IInv, TypeOK
  <1>2. ASSUME NEW j \in Jobs
        PROVE  /\ RowAfterExpiry(j, t) \in JobRow
               /\ RowAfterExpiry(j, t).attempts = job[j].attempts
               /\ j \in Expired(t) => /\ RowAfterExpiry(j, t).status # "RUNNING"
                                      /\ RowAfterExpiry(j, t).token = 0
               /\ j \notin Expired(t) => RowAfterExpiry(j, t) = job[j]
    BY <1>1 DEF RowAfterExpiry, JobRow, Statuses, Errors
  <1>3. ASSUME NEW i \in DOMAIN attempts
        PROVE  /\ AttemptAfterExpiry(i, t) \in AttemptRow
               /\ AttemptAfterExpiry(i, t).job = attempts[i].job
               /\ attempts[i].job \notin Expired(t) => AttemptAfterExpiry(i, t) = attempts[i]
    <2> DEFINE closed == [attempts[i] EXCEPT !.status = IF attempts[i].status = "RUNNING"
                                                       THEN "FAILED" ELSE attempts[i].status]
    <2>1. attempts[i] \in AttemptRow
      BY <1>1
    <2>2. closed \in AttemptRow /\ closed.job = attempts[i].job
      BY <2>1 DEF AttemptRow
    <2>3. AttemptAfterExpiry(i, t) \in {closed, attempts[i]}
      BY DEF AttemptAfterExpiry
    <2>4. attempts[i].job \notin Expired(t) => AttemptAfterExpiry(i, t) = attempts[i]
      BY DEF AttemptAfterExpiry
    <2> HIDE DEF closed
    <2> QED
      BY <2>1, <2>2, <2>3, <2>4
  <1>4. /\ AttemptsAfterExpiry(t) \in Seq(AttemptRow)
        /\ Len(AttemptsAfterExpiry(t)) = Len(attempts)
        /\ \A i \in DOMAIN attempts : AttemptsAfterExpiry(t)[i] = AttemptAfterExpiry(i, t)
    <2> DEFINE A(i) == AttemptAfterExpiry(i, t)
    <2>1. DOMAIN attempts = 1 .. Len(attempts) /\ Len(attempts) \in Nat
      BY <1>1
    <2>2. AttemptsAfterExpiry(t) = [i \in 1 .. Len(attempts) |-> A(i)]
      BY <2>1 DEF AttemptsAfterExpiry
    <2>3. \A i \in 1 .. Len(attempts) : A(i) \in AttemptRow
      BY <1>3, <2>1
    <2> HIDE DEF A
    <2>4. [i \in 1 .. Len(attempts) |-> A(i)] \in [1 .. Len(attempts) -> AttemptRow]
      BY <2>3
    <2>5. AttemptsAfterExpiry(t) \in Seq(AttemptRow)
      BY <2>1, <2>2, <2>3
    <2>6. Len(AttemptsAfterExpiry(t)) = Len(attempts)
      BY <2>1, <2>2, <2>5
    <2> QED
      BY <2>1, <2>2, <2>5, <2>6 DEF A
  <1>5. \A j \in Jobs : RowsAfterExpiry(t)[j] = RowAfterExpiry(j, t)
    BY DEF RowsAfterExpiry
  <1>6. RowsAfterExpiry(t) \in [Jobs -> JobRow]
    BY <1>2 DEF RowsAfterExpiry
  <1>7. ASSUME NEW j \in Jobs
        PROVE  /\ RowsAfterExpiry(t)[j].status = "RUNNING" => RowsAfterExpiry(t)[j].token # 0
               /\ RowsAfterExpiry(t)[j].token # 0 =>
                     /\ RowsAfterExpiry(t)[j].token \in DOMAIN attempts
                     /\ attempts[RowsAfterExpiry(t)[j].token].job = j
                     /\ AttemptsAfterExpiry(t)[RowsAfterExpiry(t)[j].token].status = "RUNNING"
    <2>1. CASE j \in Expired(t)
      BY <1>2, <1>5, <2>1
    <2>2. CASE j \notin Expired(t)
      <3>1. RowsAfterExpiry(t)[j] = job[j]
        BY <1>2, <1>5, <2>2
      <3>2. /\ job[j].status = "RUNNING" => job[j].token # 0
            /\ job[j].token # 0 =>
                  /\ job[j].token \in DOMAIN attempts
                  /\ attempts[job[j].token].job = j
                  /\ attempts[job[j].token].status = "RUNNING"
        BY DEF IInv, LeaseConsistent
      <3> QED
        BY <3>1, <3>2, <1>3, <1>4, <2>2
    <2> QED
      BY <2>1, <2>2
  <1>8. \A i \in DOMAIN attempts : AttemptsAfterExpiry(t)[i].job = attempts[i].job
    BY <1>3, <1>4
  <1>9. \A j \in Jobs : RowsAfterExpiry(t)[j].attempts = job[j].attempts
    BY <1>2, <1>5
  <1> QED
    BY <1>4, <1>6, <1>7, <1>8, <1>9

\* A claim that is deferred or refused: the expired leases are given back and
\* at most one row, which is not RUNNING and holds no token, is rewritten.
LEMMA ClaimNotGranted ==
    ASSUME NEW r \in Runners, IInv, NEW t \in Nat, NEW j \in Jobs, NEW row \in JobRow,
           row.attempts = job[j].attempts,
           row = RowsAfterExpiry(t)[j] \/ (row.status # "RUNNING" /\ row.token = 0),
           job' = [RowsAfterExpiry(t) EXCEPT ![j] = row],
           attempts' = AttemptsAfterExpiry(t),
           runner' = [runner EXCEPT ![r] = IdleRunner],
           UNCHANGED <<ledger, priority, request, now, crashes>>
    PROVE  IInv'
  <1> DEFINE rows == RowsAfterExpiry(t)
  <1>1. /\ rows \in [Jobs -> JobRow]
        /\ attempts' \in Seq(AttemptRow) /\ Len(attempts') = Len(attempts)
        /\ \A i \in DOMAIN attempts : attempts'[i].job = attempts[i].job
        /\ \A i \in Jobs : rows[i].attempts = job[i].attempts
    BY ExpiryKeeps
  <1>2. \A i \in Jobs :
          /\ rows[i].status = "RUNNING" => rows[i].token # 0
          /\ rows[i].token # 0 =>
                /\ rows[i].token \in DOMAIN attempts
                /\ attempts[rows[i].token].job = i
                /\ attempts'[rows[i].token].status = "RUNNING"
    BY ExpiryKeeps
  <1> HIDE DEF rows
  <1>3. DOMAIN attempts' = DOMAIN attempts
    BY <1>1 DEF IInv, TypeOK
  <1>4. /\ job' \in [Jobs -> JobRow] /\ job'[j] = row
        /\ \A i \in Jobs : i # j => job'[i] = rows[i]
    BY <1>1 DEF rows
  <1>5. TypeOK'
    BY <1>1, <1>4, IdleRunnerType DEF IInv, TypeOK
  <1>6. LocalsOK'
    BY <1>1, <1>3 DEF IInv, TypeOK, LocalsOK, IdleRunner
  <1>7. LeaseConsistent'
    <2> SUFFICES ASSUME NEW i \in Jobs
                 PROVE  /\ job'[i].status = "RUNNING" => job'[i].token # 0
                        /\ job'[i].token # 0 =>
                              /\ job'[i].token \in DOMAIN attempts'
                              /\ attempts'[job'[i].token].job = i
                              /\ attempts'[job'[i].token].status = "RUNNING"
      BY DEF LeaseConsistent
    <2>1. CASE job'[i] = rows[i]
      BY <1>1, <1>2, <1>3, <2>1
    <2>2. CASE job'[i] # rows[i]
      BY <1>4, <2>2 DEF rows
    <2> QED
      BY <2>1, <2>2
  <1>8. AttemptsBounded'
    <2> SUFFICES ASSUME NEW i \in Jobs
                 PROVE  /\ Cardinality(AttemptsOf(i)') = job'[i].attempts
                        /\ job'[i].attempts <= MaxAttempts
      BY DEF AttemptsBounded
    <2>1. AttemptsOf(i)' = AttemptsOf(i)
      BY <1>1, <1>3 DEF AttemptsOf
    <2>2. job'[i].attempts = job[i].attempts
      BY <1>1, <1>4
    <2> QED
      BY <2>1, <2>2 DEF IInv, AttemptsBounded
  <1> QED
    BY <1>5, <1>6, <1>7, <1>8 DEF IInv

LEMMA ClaimDeferredStep ==
    ASSUME NEW r \in Runners, IInv, runner[r].pc = "claim", NEW t \in Nat, NEW d \in Nat,
           ClaimDeferred(r, t, d), UNCHANGED <<ledger, priority, request, now, crashes>>
    PROVE  IInv'
  <1> DEFINE j == runner[r].job
             old == RowsAfterExpiry(t)[j]
             reason == IF runner[r].lane = "public" THEN "PUBLIC_DAILY_CAP" ELSE "DAILY_CAP"
             deferred == [Queued(old, DayEnd(d)) EXCEPT !.status = "BUDGET_BLOCKED", !.error = reason]
             row == IF old.status \in Waiting /\ old.attempts < MaxAttempts THEN deferred ELSE old
  <1>1. /\ j \in Jobs /\ old \in JobRow /\ old.attempts = job[j].attempts
        /\ RowsAfterExpiry(t) \in [Jobs -> JobRow]
    <2>1. j \in Jobs
      BY DEF IInv, LocalsOK
    <2> QED
      BY <2>1, ExpiryKeeps
  <1>2. DayEnd(d) \in Nat
    BY ClipType, BoundsAssumption DEF DayEnd
  <1>3. /\ deferred \in JobRow /\ deferred.attempts = old.attempts
        /\ deferred.status # "RUNNING" /\ deferred.token = 0
    <2> DEFINE reset == Queued(old, DayEnd(d))
    <2>1. reset \in JobRow /\ reset.attempts = old.attempts /\ reset.token = 0
      BY <1>1, <1>2, QueuedType
    <2>2. deferred = [reset EXCEPT !.status = "BUDGET_BLOCKED", !.error = reason]
      OBVIOUS
    <2>3. reason \in Errors
      BY DEF Errors
    <2> HIDE DEF reset, reason
    <2> QED
      BY <2>1, <2>2, <2>3 DEF JobRow, Statuses
  <1>4. /\ job' = [RowsAfterExpiry(t) EXCEPT ![j] = row]
        /\ attempts' = AttemptsAfterExpiry(t)
        /\ runner' = [runner EXCEPT ![r] = IdleRunner]
    BY <1>1 DEF ClaimDeferred
  <1>5. /\ row \in JobRow /\ row.attempts = job[j].attempts
        /\ (row = old \/ (row.status # "RUNNING" /\ row.token = 0))
    BY <1>1, <1>3
  <1> HIDE DEF row
  <1> QED
    BY <1>1, <1>4, <1>5, ClaimNotGranted

LEMMA ClaimRejectedStep ==
    ASSUME NEW r \in Runners, IInv, runner[r].pc = "claim", NEW t \in Nat, NEW d \in Nat,
           ClaimRejected(r, t, d), UNCHANGED <<ledger, priority, request, now, crashes>>
    PROVE  IInv'
  <1> DEFINE j == runner[r].job
             row == RowsAfterExpiry(t)[j]
  <1>1. j \in Jobs
    BY DEF IInv, LocalsOK
  <1>2. RowsAfterExpiry(t) \in [Jobs -> JobRow] /\ row \in JobRow /\ row.attempts = job[j].attempts
    BY <1>1, ExpiryKeeps
  <1>3. /\ job' = [RowsAfterExpiry(t) EXCEPT ![j] = row]
        /\ attempts' = AttemptsAfterExpiry(t)
        /\ runner' = [runner EXCEPT ![r] = IdleRunner]
    BY <1>2 DEF ClaimRejected
  <1> QED
    BY <1>1, <1>2, <1>3, ClaimNotGranted

LEMMA LeasedType ==
    ASSUME NEW x \in JobRow, NEW k \in Nat, NEW t \in Nat
    PROVE  /\ Leased(x, k, t) \in JobRow
           /\ Leased(x, k, t).status = "RUNNING"
           /\ Leased(x, k, t).token = k
           /\ Leased(x, k, t).attempts = x.attempts + 1
  <1>1. Clip(t + LeaseTicks) \in Nat
    BY ClipType, BoundsAssumption
  <1>2. x.attempts + 1 \in Nat
    BY DEF JobRow
  <1> DEFINE n == x.attempts + 1
             lease == Clip(t + LeaseTicks)
  <1>3. Leased(x, k, t) = [x EXCEPT !.status = "RUNNING", !.attempts = n, !.token = k,
                                            !.lease = lease, !.error = "NONE"]
    BY DEF Leased
  <1> HIDE DEF n, lease
  <1>4. n \in Nat /\ lease \in Nat
    BY <1>1, <1>2 DEF n, lease
  <1>5. /\ Leased(x, k, t) \in JobRow
        /\ Leased(x, k, t).status = "RUNNING"
        /\ Leased(x, k, t).token = k
        /\ Leased(x, k, t).attempts = n
    BY <1>3, <1>4 DEF JobRow, Statuses, Errors
  <1> QED
    BY <1>5 DEF n

LEMMA CallingType ==
    ASSUME NEW x \in RunnerState, NEW token \in Nat
    PROVE  [x EXCEPT !.pc = "calling", !.token = token] \in RunnerState
  <1>1. "calling" \in RunnerPcs
    BY DEF RunnerPcs
  <1> QED
    BY <1>1 DEF RunnerState

\* The attempt of a granted claim is new, so the job's attempts grow by one,
\* and so does its count, which was below the limit.
LEMMA ClaimGrantedStep ==
    ASSUME NEW r \in Runners, IInv, runner[r].pc = "claim", NEW t \in Nat, NEW d \in Nat,
           ClaimGranted(r, t, d), UNCHANGED <<ledger, priority, request, now, crashes>>
    PROVE  IInv'
  <1> DEFINE j == runner[r].job
             rows == RowsAfterExpiry(t)
             kept == AttemptsAfterExpiry(t)
             n == Len(attempts)
             token == Len(attempts) + 1
             fresh == [job |-> j, status |-> "RUNNING", day |-> DayOf(t),
                       countedDay |-> d, lane |-> runner[r].lane, cost |-> 0]
             row == Leased(rows[j], token, t)
  <1>1. /\ j \in Jobs /\ runner[r] \in RunnerState /\ job \in [Jobs -> JobRow]
        /\ n \in Nat /\ DOMAIN attempts = 1 .. n
    BY DEF IInv, TypeOK, LocalsOK
  <1>2. /\ rows \in [Jobs -> JobRow]
        /\ kept \in Seq(AttemptRow) /\ Len(kept) = n
        /\ \A i \in 1 .. n : kept[i].job = attempts[i].job
        /\ \A i \in Jobs : rows[i].attempts = job[i].attempts
    BY <1>1, ExpiryKeeps
  <1>3. \A i \in Jobs : /\ rows[i].status = "RUNNING" => rows[i].token # 0
                        /\ rows[i].token # 0 => /\ rows[i].token \in 1 .. n
                                                /\ attempts[rows[i].token].job = i
                                                /\ kept[rows[i].token].status = "RUNNING"
    BY <1>1, ExpiryKeeps
  <1>4. /\ attempts' = Append(kept, fresh)
        /\ job' = [rows EXCEPT ![j] = row]
        /\ runner' = [runner EXCEPT ![r] = [runner[r] EXCEPT !.pc = "calling", !.token = token]]
    BY <1>1, <1>2 DEF ClaimGranted, IInv, TypeOK
  <1>5. rows[j].attempts < MaxAttempts
    BY <1>1 DEF ClaimGranted, Claimable, RowsAfterExpiry
  <1>6. fresh \in AttemptRow
    BY <1>1, DaysAreNatural DEF AttemptRow, RunnerState
  <1>7. token \in Nat /\ token = n + 1
    BY <1>1
  <1>8. /\ row \in JobRow /\ row.status = "RUNNING" /\ row.token = n + 1
        /\ row.attempts = rows[j].attempts + 1
    <2>1. rows[j] \in JobRow
      BY <1>1, <1>2
    <2> HIDE DEF rows, token, n
    <2>2. \A x \in JobRow :
            /\ Leased(x, token, t) \in JobRow
            /\ Leased(x, token, t).status = "RUNNING"
            /\ Leased(x, token, t).token = token
            /\ Leased(x, token, t).attempts = x.attempts + 1
      <3>1. SUFFICES ASSUME NEW x \in JobRow
                     PROVE  /\ Leased(x, token, t) \in JobRow
                            /\ Leased(x, token, t).status = "RUNNING"
                            /\ Leased(x, token, t).token = token
                            /\ Leased(x, token, t).attempts = x.attempts + 1
        OBVIOUS
      <3>2. token \in Nat
        BY <1>7
      <3> QED
        BY <3>2, LeasedType, Zenon
    <2> QED
      BY <1>7, <2>1, <2>2
  <1> HIDE DEF rows, kept, fresh, row
  <1>9. /\ attempts' \in Seq(AttemptRow) /\ Len(attempts') = n + 1 /\ DOMAIN attempts' = 1 .. (n + 1)
        /\ attempts'[n + 1] = fresh
        /\ \A i \in 1 .. n : attempts'[i] = kept[i]
    BY <1>1, <1>2, <1>4, <1>6
  <1>10. /\ job' \in [Jobs -> JobRow] /\ job'[j] = row
         /\ \A i \in Jobs : i # j => job'[i] = rows[i]
    BY <1>1, <1>2, <1>4, <1>8
  <1>11. fresh.job = j /\ fresh.status = "RUNNING"
    BY DEF fresh
  <1>12. TypeOK'
    <2>1. [runner[r] EXCEPT !.pc = "calling", !.token = token] \in RunnerState
      BY <1>1, <1>7, CallingType
    <2>2. runner' \in [Runners -> RunnerState]
      BY <1>4, <2>1 DEF IInv, TypeOK
    <2> QED
      BY <1>9, <1>10, <2>2 DEF IInv, TypeOK
  <1>13. LocalsOK'
    <2>1. \A q \in Requests : request'[q].pc # "idle" => request'[q].job \in Jobs
      BY DEF IInv, LocalsOK
    <2>2. ASSUME NEW x \in Runners
          PROVE  /\ runner'[x].pc # "idle" => runner'[x].job \in Jobs
                 /\ runner'[x].pc \in {"calling", "failing"} =>
                       /\ runner'[x].token \in DOMAIN attempts'
                       /\ attempts'[runner'[x].token].job = runner'[x].job
      <3>1. CASE x = r
        <4>1. runner'[r] = [runner[r] EXCEPT !.pc = "calling", !.token = token]
          BY <1>4 DEF IInv, TypeOK
        <4>2. runner'[r].job = j /\ runner'[r].token = n + 1
          BY <1>1, <4>1 DEF RunnerState
        <4> QED
          BY <1>1, <1>9, <1>11, <3>1, <4>2
      <3>2. CASE x # r
        <4>1. runner'[x] = runner[x]
          BY <1>4, <3>2 DEF IInv, TypeOK
        <4>2. /\ runner[x].pc # "idle" => runner[x].job \in Jobs
              /\ runner[x].pc \in {"calling", "failing"} =>
                    /\ runner[x].token \in 1 .. n
                    /\ attempts[runner[x].token].job = runner[x].job
          BY <1>1 DEF IInv, LocalsOK
        <4> QED
          BY <1>1, <1>2, <1>9, <4>1, <4>2
      <3> QED
        BY <3>1, <3>2
    <2> QED
      BY <2>1, <2>2 DEF LocalsOK
  <1>14. LeaseConsistent'
    <2> SUFFICES ASSUME NEW i \in Jobs
                 PROVE  /\ job'[i].status = "RUNNING" => job'[i].token # 0
                        /\ job'[i].token # 0 =>
                              /\ job'[i].token \in DOMAIN attempts'
                              /\ attempts'[job'[i].token].job = i
                              /\ attempts'[job'[i].token].status = "RUNNING"
      BY DEF LeaseConsistent
    <2>1. CASE i = j
      BY <1>1, <1>8, <1>9, <1>10, <1>11, <2>1
    <2>2. CASE i # j
      BY <1>1, <1>2, <1>3, <1>9, <1>10, <2>2
    <2> QED
      BY <2>1, <2>2
  <1>15. AttemptsBounded'
    <2> SUFFICES ASSUME NEW i \in Jobs
                 PROVE  /\ Cardinality(AttemptsOf(i)') = job'[i].attempts
                        /\ job'[i].attempts <= MaxAttempts
      BY DEF AttemptsBounded
    <2>1. /\ Cardinality(AttemptsOf(i)) = job[i].attempts
          /\ job[i].attempts <= MaxAttempts
          /\ job[i].attempts \in Nat
      BY <1>1 DEF IInv, AttemptsBounded, JobRow
    <2>2. CASE i # j
      <3>1. AttemptsOf(i)' = AttemptsOf(i)
        BY <1>1, <1>2, <1>9, <1>11, <2>2 DEF AttemptsOf
      <3> QED
        BY <1>2, <1>10, <2>1, <2>2, <3>1
    <2>3. CASE i = j
      <3>1. AttemptsOf(i)' = AttemptsOf(i) \cup {n + 1}
        BY <1>1, <1>2, <1>9, <1>11, <2>3 DEF AttemptsOf
      <3>2. AttemptsOf(i) \in SUBSET (1 .. n) /\ n + 1 \notin AttemptsOf(i)
        BY <1>1 DEF AttemptsOf
      <3>3. IsFiniteSet(AttemptsOf(i))
        <4>1. IsFiniteSet(1 .. n)
          BY <1>1, FS_Interval
        <4> QED
          BY <3>2, <4>1, FS_Subset
      <3>4. Cardinality(AttemptsOf(i)') = Cardinality(AttemptsOf(i)) + 1
        BY <3>1, <3>2, <3>3, FS_AddElement
      <3>5. job'[i].attempts = job[i].attempts + 1
        BY <1>1, <1>2, <1>8, <1>10, <2>3
      <3>6. job[i].attempts < MaxAttempts
        BY <1>1, <1>2, <1>5, <2>3
      <3> QED
        BY <2>1, <2>3, <3>4, <3>5, <3>6, BoundsAssumption
    <2> QED
      BY <2>2, <2>3
  <1> QED
    BY <1>12, <1>13, <1>14, <1>15 DEF IInv

LEMMA ClaimStep ==
    ASSUME NEW r \in Runners, IInv, Claim(r) PROVE IInv'
  <1>1. PICK t \in runner[r].since .. now :
            \E d \in DayOf(t) .. DayOf(now) :
                ClaimDeferred(r, t, d) \/ ClaimRejected(r, t, d) \/ ClaimGranted(r, t, d)
    BY DEF Claim
  <1>2. PICK d \in DayOf(t) .. DayOf(now) :
            ClaimDeferred(r, t, d) \/ ClaimRejected(r, t, d) \/ ClaimGranted(r, t, d)
    BY <1>1
  <1>3. now \in Nat /\ runner[r].since \in Nat
    BY BoundsAssumption DEF IInv, TypeOK, RunnerState
  <1>4. t \in Nat /\ d \in Nat
    <2>1. t \in Nat
      BY <1>3
    <2> QED
      BY <1>3, <2>1, DaysAreNatural
  <1>5. runner[r].pc = "claim" /\ UNCHANGED <<ledger, priority, request, now, crashes>>
    BY DEF Claim
  <1> QED
    BY <1>2, <1>4, <1>5, ClaimDeferredStep, ClaimRejectedStep, ClaimGrantedStep

-----------------------------------------------------------------------------
(* Every step keeps the list bounded and free of repetitions.              *)

LEMMA ListInit == Init => ListOK
  BY BoundsAssumption DEF Init, ListOK, Unique

LEMMA ListStep == IInv /\ ListOK /\ [Next]_vars => ListOK'
  <1> SUFFICES ASSUME IInv, ListOK, Next \/ UNCHANGED vars PROVE ListOK'
    OBVIOUS
  <1>1. \/ UNCHANGED priority
        \/ \E q \in Requests : RequestPrioritise(q)
        \/ \E r \in Runners : SelectPriority(r) \/ ReplaceStale(r)
    <2>1. ASSUME NEW q \in Requests, RequestStep(q), ~RequestPrioritise(q) PROVE UNCHANGED priority
      BY <2>1 DEF RequestStep, RequestRead, RequestEnqueue, RequestRejectFull, RequestAborts
    <2>2. ASSUME NEW r \in Runners, RunnerStep(r), ~SelectPriority(r), ~ReplaceStale(r)
          PROVE  UNCHANGED priority
      BY <2>2 DEF RunnerStep, SelectPending, SelectInventory, CheckInput, FailStale, ReadContext,
                  RunnerEnqueue, Claim, Complete, CompletionRefused, ProviderFails, FailClaimed
    <2>3. ASSUME NEW o \in Observations, Revise(o) \/ MoveGate(o) PROVE UNCHANGED priority
      BY <2>3 DEF Revise, MoveGate
    <2>4. ASSUME NEW r \in Runners, Crash(r) PROVE UNCHANGED priority
      BY <2>4 DEF Crash
    <2>5. Tick \/ UNCHANGED vars => UNCHANGED priority
      BY DEF Tick, vars
    <2> QED
      BY <2>1, <2>2, <2>3, <2>4, <2>5 DEF Next
  <1>2. TypeOK
    BY DEF IInv
  <1>3. CASE UNCHANGED priority
    BY <1>3 DEF ListOK, Unique
  <1>4. ASSUME NEW q \in Requests, RequestPrioritise(q) PROVE ListOK'
    <2>1. request[q].job \in Jobs
      BY <1>4 DEF IInv, LocalsOK, RequestPrioritise
    <2> QED
      BY <1>2, <1>4, <2>1, PrioritiseList
  <1>5. ASSUME NEW r \in Runners, SelectPriority(r) \/ ReplaceStale(r) PROVE ListOK'
    BY <1>2, <1>5, SelectList, ReplaceList
  <1> QED
    BY <1>1, <1>3, <1>4, <1>5

-----------------------------------------------------------------------------
(* What any step does to the attempts: some are closed, with what they     *)
(* cost, and a granted claim appends one, within the budget of its lane.   *)

SameCall(a, b) == a.day = b.day /\ a.countedDay = b.countedDay /\ a.lane = b.lane

\* An open attempt may be closed and charged, and nothing else changes.
Closing(a, b) ==
    /\ SameCall(a, b)
    /\ b.status = "RUNNING" => a.status = "RUNNING" /\ b.cost = a.cost
    /\ b.cost = a.cost \/ (a.status = "RUNNING" /\ b.cost \in Costs)

Closed(kept) ==
    /\ kept \in Seq(AttemptRow) /\ Len(kept) = Len(attempts)
    /\ \A i \in DOMAIN attempts : Closing(attempts[i], kept[i])

Granted(fresh) ==
    /\ fresh \in AttemptRow /\ fresh.cost = 0
    /\ ~BudgetSpent(fresh.lane, fresh.countedDay)

Followed(kept) ==
    \/ attempts' = kept
    \/ \E fresh : Granted(fresh) /\ attempts' = Append(kept, fresh)

AttemptsEvolve == \E kept : Closed(kept) /\ Followed(kept)

LEMMA AttemptsAlone == ASSUME IInv, UNCHANGED attempts PROVE AttemptsEvolve
  <1>1. Closed(attempts)
    BY DEF IInv, TypeOK, Closed, Closing, SameCall
  <1> QED
    BY <1>1 DEF AttemptsEvolve, Followed

\* One open attempt is closed and charged.
LEMMA AttemptClosed ==
    ASSUME IInv, NEW k \in DOMAIN attempts, attempts[k].status = "RUNNING",
           NEW status \in {"COMPLETED", "FAILED"}, NEW c \in Costs,
           attempts' = [attempts EXCEPT ![k] = [attempts[k] EXCEPT !.status = status, !.cost = c]]
    PROVE  AttemptsEvolve
  <1> DEFINE a == [attempts[k] EXCEPT !.status = status, !.cost = c]
  <1>1. attempts \in Seq(AttemptRow) /\ attempts[k] \in AttemptRow
    BY DEF IInv, TypeOK
  <1>2. a \in AttemptRow /\ Closing(attempts[k], a)
    BY <1>1, BudgetAssumption DEF AttemptRow, Closing, SameCall
  <1>3. \A i \in DOMAIN attempts : Closing(attempts[i], attempts[i])
    BY DEF Closing, SameCall
  <1> HIDE DEF a
  <1>4. attempts' = [attempts EXCEPT ![k] = a]
    BY DEF a
  <1>5. Closed(attempts')
    BY <1>1, <1>2, <1>3, <1>4 DEF Closed
  <1> QED
    BY <1>5 DEF AttemptsEvolve, Followed

LEMMA ExpiryCloses ==
    ASSUME IInv, NEW t \in Nat PROVE Closed(AttemptsAfterExpiry(t))
  <1>1. attempts \in Seq(AttemptRow)
    BY DEF IInv, TypeOK
  <1>2. ASSUME NEW i \in DOMAIN attempts PROVE Closing(attempts[i], AttemptAfterExpiry(i, t))
    <2>1. attempts[i] \in AttemptRow
      BY <1>1
    <2> DEFINE closed == [attempts[i] EXCEPT !.status = IF attempts[i].status = "RUNNING"
                                                       THEN "FAILED" ELSE attempts[i].status]
    <2>2. AttemptAfterExpiry(i, t) \in {closed, attempts[i]}
      BY DEF AttemptAfterExpiry
    <2>3. Closing(attempts[i], closed) /\ Closing(attempts[i], attempts[i])
      BY <2>1 DEF Closing, SameCall, AttemptRow
    <2> QED
      BY <2>2, <2>3
  <1>3. \A i \in DOMAIN attempts : AttemptsAfterExpiry(t)[i] = AttemptAfterExpiry(i, t)
    BY DEF AttemptsAfterExpiry
  <1> QED
    BY <1>2, <1>3, ExpiryKeeps DEF Closed

LEMMA ClaimAttempts ==
    ASSUME IInv, NEW r \in Runners, Claim(r) PROVE AttemptsEvolve
  <1>1. PICK t \in runner[r].since .. now :
            \E d \in DayOf(t) .. DayOf(now) :
                ClaimDeferred(r, t, d) \/ ClaimRejected(r, t, d) \/ ClaimGranted(r, t, d)
    BY DEF Claim
  <1>2. PICK d \in DayOf(t) .. DayOf(now) :
            ClaimDeferred(r, t, d) \/ ClaimRejected(r, t, d) \/ ClaimGranted(r, t, d)
    BY <1>1
  <1>3. runner[r] \in RunnerState /\ runner[r].job \in Jobs /\ now \in Nat
    BY BoundsAssumption DEF IInv, TypeOK, LocalsOK, Claim
  <1>4. t \in Nat
    BY <1>3 DEF RunnerState
  <1>5. DayOf(t) \in Nat /\ DayOf(now) \in Nat
    BY <1>3, <1>4, DaysAreNatural
  <1>6. Closed(AttemptsAfterExpiry(t))
    BY <1>4, ExpiryCloses
  <1>7. CASE ClaimDeferred(r, t, d) \/ ClaimRejected(r, t, d)
    BY <1>6, <1>7 DEF AttemptsEvolve, Followed, ClaimDeferred, ClaimRejected
  <1>8. CASE ClaimGranted(r, t, d)
    <2> DEFINE fresh == [job |-> runner[r].job, status |-> "RUNNING", day |-> DayOf(t),
                         countedDay |-> d, lane |-> runner[r].lane, cost |-> 0]
    <2>1. attempts' = Append(AttemptsAfterExpiry(t), fresh) /\ ~BudgetSpent(runner[r].lane, d)
      BY <1>8 DEF ClaimGranted
    <2>2. fresh \in AttemptRow
      BY <1>3, <1>5 DEF AttemptRow, RunnerState
    <2>3. fresh.cost = 0 /\ fresh.lane = runner[r].lane /\ fresh.countedDay = d
      OBVIOUS
    <2> HIDE DEF fresh
    <2>4. Granted(fresh)
      BY <2>1, <2>2, <2>3 DEF Granted
    <2> QED
      BY <1>6, <2>1, <2>4 DEF AttemptsEvolve, Followed
  <1> QED
    BY <1>2, <1>7, <1>8

LEMMA StepAttempts == IInv /\ [Next]_vars => AttemptsEvolve
  <1> SUFFICES ASSUME IInv, Next \/ UNCHANGED vars PROVE AttemptsEvolve
    OBVIOUS
  <1>1. ASSUME NEW q \in Requests, RequestStep(q) PROVE UNCHANGED attempts
    BY <1>1 DEF RequestStep, RequestRead, RequestEnqueue, RequestPrioritise, RequestRejectFull,
                RequestAborts
  <1>2. ASSUME NEW r \in Runners, RunnerStep(r) PROVE AttemptsEvolve
    <2>1. CASE Claim(r)
      BY <2>1, ClaimAttempts
    <2>2. CASE Complete(r)
      <3>1. PICK c \in Costs : attempts' = [attempts EXCEPT ![runner[r].token] =
              [attempts[runner[r].token] EXCEPT !.status = "COMPLETED", !.cost = c]]
        BY <2>2 DEF Complete
      <3>2. runner[r].token \in DOMAIN attempts /\ attempts[runner[r].token].status = "RUNNING"
        BY <2>2 DEF IInv, LocalsOK, Complete, LeaseRuns
      <3> QED
        BY <3>1, <3>2, AttemptClosed
    <2>3. CASE FailClaimed(r) /\ HoldsToken(r)
      <3>1. PICK c \in Costs : attempts' = [attempts EXCEPT ![runner[r].token] =
              [attempts[runner[r].token] EXCEPT !.status = "FAILED", !.cost = c]]
        BY <2>3 DEF FailClaimed
      <3>2. runner[r].job \in Jobs /\ runner[r].token \in DOMAIN attempts
        BY <2>3 DEF IInv, LocalsOK, FailClaimed
      <3>3. runner[r].token # 0
        BY <3>2 DEF IInv, TypeOK
      <3>4. attempts[runner[r].token].status = "RUNNING"
        BY <2>3, <3>2, <3>3 DEF HoldsToken, IInv, LeaseConsistent
      <3> QED
        BY <3>1, <3>2, <3>4, AttemptClosed
    <2>4. CASE ~Claim(r) /\ ~Complete(r) /\ ~(FailClaimed(r) /\ HoldsToken(r))
      <3>1. UNCHANGED attempts
        BY <1>2, <2>4 DEF RunnerStep, SelectPriority, SelectPending, SelectInventory, CheckInput,
                   ReplaceStale, FailStale, ReadContext, RunnerEnqueue, CompletionRefused,
                   ProviderFails, FailClaimed
      <3> QED
        BY <3>1, AttemptsAlone
    <2> QED
      BY <2>1, <2>2, <2>3, <2>4
  <1>3. ASSUME NEW o \in Observations, Revise(o) \/ MoveGate(o) PROVE UNCHANGED attempts
    BY <1>3 DEF Revise, MoveGate
  <1>4. ASSUME NEW r \in Runners, Crash(r) PROVE UNCHANGED attempts
    BY <1>4 DEF Crash
  <1>5. Tick \/ UNCHANGED vars => UNCHANGED attempts
    BY DEF Tick, vars
  <1> QED
    BY <1>1, <1>2, <1>3, <1>4, <1>5, AttemptsAlone DEF Next

-----------------------------------------------------------------------------
(* The budgets.                                                            *)

StartedBefore(i) == {k \in StartedOn(attempts[i].day) : k < i}

\* What the attempts counted on their own day cost, attempt by attempt.
Weight(i) == IF attempts[i].cost \in 1 .. CallReserve THEN attempts[i].cost ELSE CallReserve
Spent(d) == [i \in DOMAIN attempts |-> IF i \in CountedOn(d) THEN Weight(i) ELSE 0]
Charges(d) == [i \in DOMAIN attempts |-> IF i \in StartedOn(d) THEN Charge(i) ELSE 0]

OpenUncharged == \A i \in DOMAIN attempts : attempts[i].status = "RUNNING" => attempts[i].cost = 0

RequestsWithin == RequestCap > 0 => \A d \in Nat : Cardinality(CountedOn(d)) <= RequestCap

ReserveLeft ==
    RequestCap > 0 =>
        \A i \in DOMAIN attempts :
            attempts[i].countedDay = attempts[i].day /\ attempts[i].lane = "background" =>
                Cardinality(StartedBefore(i)) + RequestReserve < RequestCap

RequestBudgets == OpenUncharged /\ RequestsWithin /\ ReserveLeft

CnyWithin == CnyCap > 0 => \A d \in Nat : Total(Spent(d)) <= CnyCap

LEMMA StartedFinite ==
    ASSUME TypeOK, NEW d
    PROVE  /\ IsFiniteSet(StartedOn(d)) /\ Cardinality(StartedOn(d)) \in Nat
           /\ IsFiniteSet(CountedOn(d)) /\ Cardinality(CountedOn(d)) <= Cardinality(StartedOn(d))
           /\ Cardinality(CountedOn(d)) \in Nat
  <1> DEFINE len == Len(attempts)
  <1>1. len \in Nat /\ DOMAIN attempts = 1 .. len
    BY DEF TypeOK
  <1> HIDE DEF len
  <1>2. IsFiniteSet(1 .. len)
    BY <1>1, FS_Interval
  <1>3. StartedOn(d) \in SUBSET (1 .. len) /\ CountedOn(d) \in SUBSET StartedOn(d)
    BY <1>1 DEF StartedOn, CountedOn
  <1>4. IsFiniteSet(StartedOn(d))
    BY <1>2, <1>3, FS_Subset
  <1> QED
    BY <1>3, <1>4, FS_Subset, FS_CardinalityType

\* Closing attempts leaves what was started when as it was.
LEMMA ClosingKeepsDays ==
    ASSUME TypeOK, NEW kept, Closed(kept), attempts' = kept
    PROVE  /\ DOMAIN attempts' = DOMAIN attempts
           /\ \A d : StartedOn(d)' = StartedOn(d) /\ CountedOn(d)' = CountedOn(d)
           /\ \A i \in DOMAIN attempts : Closing(attempts[i], attempts'[i])
  <1>1. DOMAIN attempts' = DOMAIN attempts
    BY DEF TypeOK, Closed
  <1> QED
    BY <1>1 DEF Closed, Closing, SameCall, StartedOn, CountedOn

\* A granted claim adds its attempt, the last, to those of its own day.
Adds(n, fresh) ==
    /\ DOMAIN attempts = 1 .. Len(attempts) /\ Len(attempts) \in Nat
    /\ n \notin DOMAIN attempts /\ DOMAIN attempts' = DOMAIN attempts \cup {n}
    /\ attempts'[n] = fresh
    /\ \A i \in DOMAIN attempts : Closing(attempts[i], attempts'[i])
    /\ \A d : StartedOn(d)' = IF fresh.day = d THEN StartedOn(d) \cup {n} ELSE StartedOn(d)
    /\ \A d : CountedOn(d)' = IF fresh.day = d /\ fresh.countedDay = d
                             THEN CountedOn(d) \cup {n} ELSE CountedOn(d)

LEMMA GrantAdds ==
    ASSUME TypeOK, NEW kept, Closed(kept), NEW fresh, Granted(fresh),
           attempts' = Append(kept, fresh), NEW n, n = Len(attempts) + 1
    PROVE  Adds(n, fresh)
  <1>1. /\ DOMAIN attempts = 1 .. Len(attempts) /\ Len(attempts) \in Nat
        /\ n \notin DOMAIN attempts /\ DOMAIN attempts' = DOMAIN attempts \cup {n}
        /\ attempts'[n] = fresh
        /\ \A i \in DOMAIN attempts : attempts'[i] = kept[i]
    BY DEF TypeOK, Closed, Granted
  <1>2. \A i \in DOMAIN attempts : Closing(attempts[i], attempts'[i])
    BY <1>1 DEF Closed
  <1>3. \A d : StartedOn(d)' = IF fresh.day = d THEN StartedOn(d) \cup {n} ELSE StartedOn(d)
    BY <1>1, <1>2 DEF StartedOn, Closing, SameCall
  <1>4. \A d : CountedOn(d)' = IF fresh.day = d /\ fresh.countedDay = d
                             THEN CountedOn(d) \cup {n} ELSE CountedOn(d)
    BY <1>1, <1>2 DEF StartedOn, CountedOn, Closing, SameCall
  <1> QED
    BY <1>1, <1>2, <1>3, <1>4 DEF Adds

LEMMA GrantedRequests ==
    ASSUME TypeOK, NEW fresh, Granted(fresh), RequestCap > 0
    PROVE  /\ Cardinality(StartedOn(fresh.countedDay)) < RequestCap
           /\ fresh.lane = "background" =>
                  Cardinality(StartedOn(fresh.countedDay)) + RequestReserve < RequestCap
  <1> DEFINE started == Cardinality(StartedOn(fresh.countedDay))
  <1>1. started \in Nat
    BY StartedFinite
  <1>2. started < RequestCapFor(fresh.lane)
    <2>1. RequestCapFor(fresh.lane) \in Nat
      BY BudgetAssumption DEF RequestCapFor, Less
    <2> QED
      BY <1>1, <2>1 DEF Granted, BudgetSpent
  <1>3. fresh.lane \in {"public", "background"}
    BY DEF Granted, AttemptRow, Lanes
  <1> HIDE DEF started
  <1>4. CASE fresh.lane = "public"
    BY <1>1, <1>2, <1>4 DEF RequestCapFor, started
  <1>5. CASE fresh.lane = "background"
    <2>1. started < IF RequestCap > RequestReserve THEN RequestCap - RequestReserve ELSE 0
      BY <1>2, <1>5 DEF RequestCapFor, Less
    <2> QED
      BY <1>1, <2>1, BudgetAssumption DEF started
  <1> QED
    BY <1>3, <1>4, <1>5

LEMMA RequestsStep ==
    ASSUME TypeOK, RequestBudgets, AttemptsEvolve PROVE RequestBudgets'
  <1>1. PICK kept : Closed(kept) /\ Followed(kept)
    BY DEF AttemptsEvolve
  <1>2. CASE attempts' = kept
    <2>1. /\ DOMAIN attempts' = DOMAIN attempts
          /\ \A d : StartedOn(d)' = StartedOn(d) /\ CountedOn(d)' = CountedOn(d)
          /\ \A i \in DOMAIN attempts : Closing(attempts[i], attempts'[i])
      BY <1>1, <1>2, ClosingKeepsDays
    <2>2. OpenUncharged'
      BY <2>1 DEF RequestBudgets, OpenUncharged, Closing
    <2>3. RequestsWithin'
      BY <2>1 DEF RequestBudgets, RequestsWithin
    <2>4. ReserveLeft'
      <3>1. \A i \in DOMAIN attempts : StartedBefore(i)' = StartedBefore(i)
        BY <2>1 DEF StartedBefore, Closing, SameCall
      <3> QED
        BY <2>1, <3>1 DEF RequestBudgets, ReserveLeft, Closing, SameCall
    <2> QED
      BY <2>2, <2>3, <2>4 DEF RequestBudgets
  <1>3. ASSUME NEW fresh, Granted(fresh), attempts' = Append(kept, fresh) PROVE RequestBudgets'
    <2>0. PICK n : n = Len(attempts) + 1
      OBVIOUS
    <2>1. /\ DOMAIN attempts = 1 .. Len(attempts) /\ Len(attempts) \in Nat
          /\ n \notin DOMAIN attempts /\ DOMAIN attempts' = DOMAIN attempts \cup {n}
          /\ attempts'[n] = fresh
          /\ \A i \in DOMAIN attempts : Closing(attempts[i], attempts'[i])
          /\ \A d : StartedOn(d)' = IF fresh.day = d THEN StartedOn(d) \cup {n} ELSE StartedOn(d)
          /\ \A d : CountedOn(d)' = IF fresh.day = d /\ fresh.countedDay = d
                                   THEN CountedOn(d) \cup {n} ELSE CountedOn(d)
      <3>1. Adds(n, fresh)
        BY <1>1, <1>3, <2>0, GrantAdds
      <3> QED
        BY <3>1 DEF Adds
    <2>2. n \in Nat /\ \A i \in DOMAIN attempts : i \in Nat /\ i < n
      BY <2>0, <2>1
    <2>3. OpenUncharged'
      BY <1>3, <2>1 DEF RequestBudgets, OpenUncharged, Closing, Granted
    <2>4. RequestsWithin'
      <3> SUFFICES ASSUME RequestCap > 0, NEW d \in Nat PROVE Cardinality(CountedOn(d)') <= RequestCap
        BY DEF RequestsWithin
      <3>1. CASE ~(fresh.day = d /\ fresh.countedDay = d)
        BY <2>1, <3>1 DEF RequestBudgets, RequestsWithin
      <3>2. CASE fresh.day = d /\ fresh.countedDay = d
        <4>1. CountedOn(d)' = CountedOn(d) \cup {n} /\ n \notin CountedOn(d)
          BY <2>1, <3>2 DEF CountedOn, StartedOn
        <4>2. Cardinality(CountedOn(d)') = Cardinality(CountedOn(d)) + 1
          BY <4>1, StartedFinite, FS_AddElement
        <4>3. Cardinality(CountedOn(d)) < RequestCap
          BY <1>3, <3>2, GrantedRequests, StartedFinite, BudgetAssumption
        <4> QED
          BY <4>2, <4>3, StartedFinite, BudgetAssumption
      <3> QED
        BY <3>1, <3>2
    <2>5. ReserveLeft'
      <3> SUFFICES ASSUME RequestCap > 0, NEW i \in DOMAIN attempts',
                          attempts'[i].countedDay = attempts'[i].day,
                          attempts'[i].lane = "background"
                   PROVE  Cardinality(StartedBefore(i)') + RequestReserve < RequestCap
        BY DEF ReserveLeft
      <3>1. CASE i = n
        <4>1. StartedBefore(i)' = StartedOn(fresh.day)
          BY <2>1, <2>2, <3>1 DEF StartedBefore, StartedOn
        <4>2. fresh.countedDay = fresh.day /\ fresh.lane = "background"
          BY <2>1, <3>1
        <4> QED
          BY <1>3, <4>1, <4>2, GrantedRequests
      <3>2. CASE i # n
        <4>1. i \in DOMAIN attempts /\ i < n /\ SameCall(attempts[i], attempts'[i])
          BY <2>1, <2>2, <3>2 DEF Closing
        <4>2. StartedBefore(i)' = StartedBefore(i)
          BY <2>1, <2>2, <4>1 DEF StartedBefore, SameCall
        <4> QED
          BY <4>1, <4>2 DEF RequestBudgets, ReserveLeft, SameCall
      <3> QED
        BY <3>1, <3>2
    <2> QED
      BY <2>3, <2>4, <2>5 DEF RequestBudgets
  <1> QED
    BY <1>1, <1>2, <1>3 DEF Followed

LEMMA RequestsInit == Init => RequestBudgets
  <1> SUFFICES ASSUME Init PROVE RequestBudgets
    OBVIOUS
  <1>1. DOMAIN attempts = {} /\ \A d : CountedOn(d) = {}
    BY DEF Init, CountedOn, StartedOn
  <1> QED
    BY <1>1, FS_EmptySet, BudgetAssumption
       DEF RequestBudgets, OpenUncharged, RequestsWithin, ReserveLeft

\* The attempts a day was counted for cost no more than all it is charged with.
LEMMA SpentWithinCharges ==
    ASSUME TypeOK, NEW d
    PROVE  /\ Spent(d) \in Seq(Nat) /\ Len(Spent(d)) = Len(attempts)
           /\ Charges(d) \in Seq(Nat) /\ Len(Charges(d)) = Len(attempts)
           /\ \A i \in 1 .. Len(attempts) : Spent(d)[i] <= Charges(d)[i]
  <1>1. Len(attempts) \in Nat /\ DOMAIN attempts = 1 .. Len(attempts)
    BY DEF TypeOK
  <1>2. ASSUME NEW i \in DOMAIN attempts PROVE attempts[i].cost \in Nat
    <2>1. attempts[i] \in AttemptRow
      BY DEF TypeOK
    <2> QED
      BY <2>1 DEF AttemptRow
  <1>3. \A i \in DOMAIN attempts : Weight(i) \in Nat /\ Charge(i) \in Nat /\ Weight(i) <= Charge(i)
    BY <1>2, BudgetAssumption DEF Weight, Charge
  <1>4. /\ Spent(d) \in [1 .. Len(attempts) -> Nat]
        /\ Charges(d) \in [1 .. Len(attempts) -> Nat]
    BY <1>1, <1>3 DEF Spent, Charges
  <1>5. \A i \in 1 .. Len(attempts) : Spent(d)[i] <= Charges(d)[i]
    <2> SUFFICES ASSUME NEW i \in 1 .. Len(attempts) PROVE Spent(d)[i] <= Charges(d)[i]
      OBVIOUS
    <2>1. /\ Spent(d)[i] = IF i \in CountedOn(d) THEN Weight(i) ELSE 0
          /\ Charges(d)[i] = IF i \in StartedOn(d) THEN Charge(i) ELSE 0
      BY <1>1 DEF Spent, Charges
    <2>2. i \in CountedOn(d) => i \in StartedOn(d)
      BY DEF CountedOn
    <2> QED
      BY <1>1, <1>3, <2>1, <2>2
  <1>6. \A f \in [1 .. Len(attempts) -> Nat] : f \in Seq(Nat) /\ Len(f) = Len(attempts)
    BY <1>1
  <1> QED
    BY <1>4, <1>5, <1>6

LEMMA SpentStays ==
    ASSUME TypeOK, NEW d
    PROVE  Total(Spent(d)) \in Nat /\ ChargedOn(d) \in Nat /\ Total(Spent(d)) <= ChargedOn(d)
  <1>1. PICK s, c : s = Spent(d) /\ c = Charges(d)
    OBVIOUS
  <1>2. s \in Seq(Nat) /\ c \in Seq(Nat) /\ Len(s) = Len(c) /\ \A i \in 1 .. Len(s) : s[i] <= c[i]
    BY <1>1, SpentWithinCharges
  <1>3. Total(s) \in Nat /\ Total(c) \in Nat /\ Total(s) <= Total(c)
    BY <1>2, TotalType, TotalMonotone
  <1>4. ChargedOn(d) = Total(Charges(d))
    BY DEF ChargedOn, Charges
  <1> QED
    BY <1>1, <1>3, <1>4

\* No closing raises what an attempt weighs: an open one weighs its
\* reservation, and no report makes it weigh more.
LEMMA ClosingWeighsLess ==
    ASSUME TypeOK, TypeOK', OpenUncharged,
           NEW i \in DOMAIN attempts, i \in DOMAIN attempts',
           Closing(attempts[i], attempts'[i])
    PROVE  Weight(i)' <= Weight(i) /\ Weight(i) \in Nat /\ Weight(i)' \in Nat
  <1>1. attempts[i].cost \in Nat /\ attempts'[i].cost \in Nat
    <2>1. attempts[i] \in AttemptRow /\ attempts'[i] \in AttemptRow
      BY DEF TypeOK
    <2> QED
      BY <2>1 DEF AttemptRow
  <1>2. CASE attempts'[i].cost = attempts[i].cost
    BY <1>1, <1>2, BudgetAssumption DEF Weight
  <1>3. CASE attempts[i].status = "RUNNING" /\ attempts'[i].cost \in Costs
    <2>1. attempts[i].cost = 0
      BY <1>3 DEF OpenUncharged
    <2> QED
      BY <1>1, <2>1, BudgetAssumption DEF Weight
  <1> QED
    BY <1>2, <1>3 DEF Closing

LEMMA CnyStep ==
    ASSUME TypeOK, TypeOK', RequestBudgets, CnyWithin, AttemptsEvolve
    PROVE  CnyWithin'
  <1> SUFFICES ASSUME CnyCap > 0, NEW d \in Nat PROVE Total(Spent(d)') <= CnyCap
    BY DEF CnyWithin
  <1>1. PICK kept : Closed(kept) /\ Followed(kept)
    BY DEF AttemptsEvolve
  <1>2. PICK before, after : before = Spent(d) /\ after = Spent(d)'
    OBVIOUS
  <1>3. /\ before \in Seq(Nat) /\ Len(before) = Len(attempts)
        /\ after \in Seq(Nat) /\ Len(after) = Len(attempts')
    <2>1. Spent(d) \in Seq(Nat) /\ Len(Spent(d)) = Len(attempts)
      BY SpentWithinCharges
    <2>2. Spent(d)' \in Seq(Nat) /\ Len(Spent(d)') = Len(attempts')
      <3>1. Len(attempts') \in Nat /\ DOMAIN attempts' = 1 .. Len(attempts')
        BY DEF TypeOK
      <3>2. ASSUME NEW i \in DOMAIN attempts' PROVE Weight(i)' \in Nat
        <4>1. attempts'[i] \in AttemptRow
          BY DEF TypeOK
        <4> QED
          BY <4>1, BudgetAssumption DEF Weight, AttemptRow
      <3>3. Spent(d)' \in [1 .. Len(attempts') -> Nat]
        BY <3>1, <3>2 DEF Spent
      <3> QED
        BY <3>1, <3>3
    <2> QED
      BY <1>2, <2>1, <2>2
  <1>4. /\ \A i \in DOMAIN attempts : before[i] = IF i \in CountedOn(d) THEN Weight(i) ELSE 0
        /\ \A i \in DOMAIN attempts' : after[i] = IF i \in CountedOn(d)' THEN Weight(i)' ELSE 0
    BY <1>2 DEF Spent
  <1>5. Total(before) <= CnyCap /\ Total(before) <= ChargedOn(d) /\ Total(before) \in Nat
        /\ ChargedOn(d) \in Nat
    BY <1>2, SpentStays DEF CnyWithin
  <1>6. CASE attempts' = kept
    <2>1. /\ DOMAIN attempts' = DOMAIN attempts
          /\ \A e : StartedOn(e)' = StartedOn(e) /\ CountedOn(e)' = CountedOn(e)
          /\ \A i \in DOMAIN attempts : Closing(attempts[i], attempts'[i])
      BY <1>1, <1>6, ClosingKeepsDays
    <2>2. Len(attempts') = Len(attempts) /\ DOMAIN attempts = 1 .. Len(attempts)
      BY <1>1, <1>6 DEF Closed, TypeOK
    <2>3. ASSUME NEW i \in DOMAIN attempts PROVE after[i] <= before[i]
      <3>1. Weight(i)' <= Weight(i) /\ Weight(i) \in Nat /\ Weight(i)' \in Nat
        BY <2>1, <2>3, ClosingWeighsLess DEF RequestBudgets
      <3> QED
        BY <1>4, <2>1, <2>3, <3>1
    <2>4. Total(after) <= Total(before) /\ Total(after) \in Nat
      BY <1>3, <2>2, <2>3, TotalMonotone, TotalType
    <2> QED
      BY <1>2, <1>5, <2>4, BudgetAssumption
  <1>7. ASSUME NEW fresh, Granted(fresh), attempts' = Append(kept, fresh)
        PROVE  Total(Spent(d)') <= CnyCap
    <2>0. PICK n : n = Len(attempts) + 1
      OBVIOUS
    <2>1. Adds(n, fresh)
      BY <1>1, <1>7, <2>0, GrantAdds
    <2>2. /\ DOMAIN attempts = 1 .. Len(attempts) /\ Len(attempts) \in Nat
          /\ DOMAIN attempts' = DOMAIN attempts \cup {n} /\ n \in Nat
          /\ n \notin DOMAIN attempts
          /\ CountedOn(d)' = IF fresh.day = d /\ fresh.countedDay = d
                             THEN CountedOn(d) \cup {n} ELSE CountedOn(d)
      BY <2>0, <2>1 DEF Adds
    <2>3. Len(attempts') = n
      BY <1>1, <1>7, <2>0, <2>2 DEF Closed, Granted
    <2>4. PICK old : old = [i \in 1 .. Len(before) |-> after[i]]
      OBVIOUS
    <2>5. /\ old \in Seq(Nat) /\ Len(old) = Len(before) /\ Len(after) = Len(old) + 1
          /\ \A i \in 1 .. Len(old) : old[i] = after[i]
      BY <1>3, <2>0, <2>2, <2>3, <2>4
    <2>6. ASSUME NEW i \in 1 .. Len(old) PROVE old[i] <= before[i]
      <3>1. i \in DOMAIN attempts /\ i \in DOMAIN attempts' /\ i # n
        BY <1>3, <2>2, <2>5, <2>6
      <3>2. Closing(attempts[i], attempts'[i])
        BY <2>1, <3>1 DEF Adds
      <3>3. Weight(i)' <= Weight(i) /\ Weight(i) \in Nat /\ Weight(i)' \in Nat
        BY <3>1, <3>2, ClosingWeighsLess DEF RequestBudgets
      <3>4. i \in CountedOn(d)' <=> i \in CountedOn(d)
        BY <2>2, <3>1
      <3> QED
        BY <1>4, <2>5, <3>1, <3>3, <3>4
    <2>7. Total(old) <= Total(before) /\ Total(old) \in Nat
      BY <2>5, <2>6, <1>3, TotalMonotone, TotalType
    <2>8. Total(after) = Total(old) + after[Len(old) + 1]
      BY <1>3, <2>5, TotalAppend
    <2>9. after[Len(old) + 1] = IF n \in CountedOn(d)' THEN Weight(n)' ELSE 0
      BY <1>3, <1>4, <2>0, <2>2, <2>5
    <2>10. CASE n \notin CountedOn(d)'
      BY <1>2, <1>5, <2>7, <2>8, <2>9, <2>10, BudgetAssumption
    <2>11. CASE n \in CountedOn(d)'
      <3>1. Weight(n)' = CallReserve
        BY <1>7, <2>1 DEF Weight, Adds, Granted
      <3>2. fresh.countedDay = d
        BY <2>2, <2>11 DEF CountedOn, StartedOn
      <3>3. ~(ChargedOn(d) + CallReserve > CnyCapFor(fresh.lane))
        BY <1>7, <3>2 DEF Granted, BudgetSpent
      <3>4. CnyCapFor(fresh.lane) \in Nat /\ CnyCapFor(fresh.lane) <= CnyCap
        BY BudgetAssumption DEF CnyCapFor, Less
      <3>5. ChargedOn(d) + CallReserve <= CnyCap
        BY <1>5, <3>3, <3>4, BudgetAssumption
      <3> QED
        BY <1>2, <1>5, <2>7, <2>8, <2>9, <2>11, <3>1, <3>5, BudgetAssumption
    <2> QED
      BY <2>10, <2>11
  <1> QED
    BY <1>1, <1>6, <1>7 DEF Followed

LEMMA CnyInit == Init => CnyWithin
  <1> SUFFICES ASSUME Init, CnyCap > 0, NEW d \in Nat PROVE Total(Spent(d)) <= CnyCap
    BY DEF CnyWithin
  <1>1. PICK s : s = Spent(d)
    OBVIOUS
  <1>2. s = <<>>
    BY <1>1 DEF Spent, Init
  <1>3. s \in Seq(Nat) /\ Len(s) = 0
    BY <1>2
  <1>4. PICK f : RunningTotal(s, f) /\ Total(s) = f[Len(s)]
    BY <1>3, TotalDefined
  <1>5. Total(s) = 0
    BY <1>3, <1>4, RunningTotalAt
  <1> QED
    BY <1>1, <1>5, BudgetAssumption

-----------------------------------------------------------------------------
(* The theorems.                                                           *)

LEMMA StutterStep == IInv /\ UNCHANGED vars => IInv'
  <1> SUFFICES ASSUME IInv, UNCHANGED vars PROVE IInv'
    OBVIOUS
  <1>1. TypeOK' /\ LocalsOK'
    BY DEF IInv, vars, TypeOK, LocalsOK
  <1> QED
    BY <1>1, RowsUnchanged DEF IInv, vars

LEMMA IInvStep == IInv /\ [Next]_vars => IInv'
  <1> SUFFICES ASSUME IInv, Next \/ UNCHANGED vars PROVE IInv'
    OBVIOUS
  <1>1. ASSUME NEW q \in Requests, RequestStep(q) PROVE IInv'
    BY <1>1, RequestReadStep, RequestEnqueueStep, RequestPrioritiseStep, RequestRejectFullStep,
       RequestAbortsStep DEF RequestStep
  <1>2. ASSUME NEW r \in Runners, RunnerStep(r) PROVE IInv'
    BY <1>2, SelectStep, CheckInputStep, ReplaceStaleStep, FailStaleStep, ReadContextStep,
       RunnerEnqueueStep, ClaimStep, CompleteStep, CompletionRefusedStep, FailClaimedStep
       DEF RunnerStep
  <1>3. ASSUME NEW o \in Observations, Revise(o) \/ MoveGate(o) PROVE IInv'
    BY <1>3, LedgerStep
  <1>4. ASSUME NEW r \in Runners, Crash(r) PROVE IInv'
    BY <1>4, CrashStep
  <1> QED
    BY <1>1, <1>2, <1>3, <1>4, TickStep, StutterStep DEF Next

\* Every behaviour keeps the inductive invariant.
THEOREM Inductive == Spec => []IInv
  BY IInvInit, IInvStep, PTL DEF Spec

\* Rows, attempts and what each process remembers are well formed.
THEOREM TypeCorrect == Spec => []TypeOK
  <1>1. IInv => TypeOK
    BY DEF IInv
  <1> QED
    BY <1>1, Inductive, PTL

\* claim, complete, fail and expiry (app/storage/operations.py) never leave a
\* row leased by a finished attempt or by another job's attempt, whatever the
\* number of workers and requests, and however they crash and interleave.
THEOREM LeaseSafety == Spec => []LeaseConsistent
  <1>1. IInv => LeaseConsistent
    BY DEF IInv
  <1> QED
    BY <1>1, Inductive, PTL

\* No identity is sent to the provider more than MaxAttempts times, over all
\* retries, expiries, crashes and explicit reopenings.
THEOREM AttemptLimit == Spec => []AttemptsBounded
  <1>1. IInv => AttemptsBounded
    BY DEF IInv
  <1> QED
    BY <1>1, Inductive, PTL

\* The public list stays within its capacity and names a job once, whichever
\* requests are accepted and whichever stale entries are replaced meanwhile.
THEOREM ListBounded == Spec => []PriorityWellFormed
  <1>1. ListOK => PriorityWellFormed
    BY DEF ListOK, PriorityWellFormed, Unique
  <1> QED
    BY <1>1, ListInit, ListStep, Inductive, PTL DEF Spec

BudgetInv == IInv /\ RequestBudgets

LEMMA BudgetInductive == Spec => []BudgetInv
  <1>1. Init => BudgetInv
    BY IInvInit, RequestsInit DEF BudgetInv
  <1>2. BudgetInv /\ [Next]_vars => BudgetInv'
    <2> SUFFICES ASSUME BudgetInv, [Next]_vars PROVE BudgetInv'
      OBVIOUS
    <2>1. IInv' /\ AttemptsEvolve
      BY IInvStep, StepAttempts DEF BudgetInv
    <2>2. RequestBudgets'
      BY <2>1, RequestsStep DEF BudgetInv, IInv
    <2> QED
      BY <2>1, <2>2 DEF BudgetInv
  <1> QED
    BY <1>1, <1>2, PTL DEF Spec

\* Background calls leave readers their reserve of the daily requests: a claim
\* counts the day's attempts and inserts its own in one transaction, so that no
\* interleaving of claims lets background work in once the reserve is reached.
THEOREM ReserveKept == Spec => []ReaderReserveKept
  <1>1. BudgetInv => ReaderReserveKept
    <2> SUFFICES ASSUME RequestBudgets, RequestCap > 0, NEW d, NEW i \in CountedOn(d),
                        attempts[i].lane = "background"
                 PROVE  Cardinality({k \in StartedOn(d) : k < i}) + RequestReserve < RequestCap
      BY DEF BudgetInv, ReaderReserveKept
    <2>1. i \in DOMAIN attempts /\ attempts[i].day = d /\ attempts[i].countedDay = d
      BY DEF CountedOn, StartedOn
    <2>2. StartedBefore(i) = {k \in StartedOn(d) : k < i}
      BY <2>1 DEF StartedBefore
    <2> QED
      BY <2>1, <2>2 DEF RequestBudgets, ReserveLeft
  <1> QED
    BY <1>1, BudgetInductive, PTL

\* The attempts of a day that were claimed by reading one and the same day
\* twice stay within the daily request cap and pass the daily spending ceiling
\* by no more than what single calls report above their reservation, however
\* many runners claim at once and whatever calls report, fail or expire.
THEOREM CapsKept == Spec => []SameDayCaps
  <1>1. BudgetInv /\ CnyWithin => SameDayCaps
    <2> SUFFICES ASSUME RequestBudgets, CnyWithin, NEW d \in Days
                 PROVE  /\ RequestCap > 0 => Cardinality(CountedOn(d)) <= RequestCap
                        /\ CnyCap > 0 => Total(Spent(d)) <= CnyCap
      BY DEF BudgetInv, SameDayCaps, Spent, Weight
    <2>1. d \in Nat
      BY DEF Days
    <2> QED
      BY <2>1 DEF RequestBudgets, RequestsWithin, CnyWithin
  <1>2. BudgetInv /\ BudgetInv' /\ CnyWithin /\ [Next]_vars => CnyWithin'
    BY StepAttempts, CnyStep DEF BudgetInv, IInv
  <1> QED
    BY <1>1, <1>2, CnyInit, BudgetInductive, PTL DEF Spec

=============================================================================
