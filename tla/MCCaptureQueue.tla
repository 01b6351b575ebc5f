--------------------------- MODULE MCCaptureQueue ---------------------------
(***************************************************************************)
(* CaptureQueue for TLC: observations, workers and requests are            *)
(* interchangeable, which the invariants of the budgets may exploit.       *)
(***************************************************************************)
EXTENDS CaptureQueue, TLC

Symmetry == Permutations(Observations) \cup Permutations(Runners) \cup Permutations(Requests)

=============================================================================
