-------------------------------- MODULE Lists --------------------------------
(***************************************************************************)
(* What the operations database's methods do with the JSON lists of        *)
(* runtime_state and with the columns they sum: filters and totals.        *)
(***************************************************************************)
EXTENDS Naturals, Sequences, FiniteSets

\* The n-th of a set of positions, counted from the front of the list.
Nth(positions, n) == CHOOSE k \in positions : Cardinality({l \in positions : l <= k}) = n

\* A list comprehension with a condition: the items at some positions, in order.
AtPositions(items, positions) ==
    [n \in 1 .. Cardinality(positions) |-> items[Nth(positions, n)]]

\* list.pop(k - 1).
Without(items, k) == AtPositions(items, DOMAIN items \ {k})

\* SUM over the rows of a table, each contributing its amount.
Total(amounts) ==
    LET upTo[n \in 0 .. Len(amounts)] == IF n = 0 THEN 0 ELSE upTo[n - 1] + amounts[n]
    IN  upTo[Len(amounts)]

=============================================================================
