-------------------------- MODULE MCFormalMutation --------------------------
(***************************************************************************)
(* FormalMutation for TLC: events, executions and batches are              *)
(* interchangeable, which its invariants may exploit.                      *)
(***************************************************************************)
EXTENDS FormalMutation, TLC

Symmetry == Permutations(Events) \cup Permutations(Runners) \cup Permutations(Batches)

=============================================================================
