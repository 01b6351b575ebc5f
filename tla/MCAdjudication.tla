---------------------------- MODULE MCAdjudication ----------------------------
(***************************************************************************)
(* The instance of module Adjudication that is model-checked: three        *)
(* samples, two of them texts of one event, from two sources; a blind set  *)
(* needs two samples labelled as risks.                                    *)
(***************************************************************************)
EXTENDS Adjudication, TLC

CONSTANTS s1, s2, s3, r1, r2, a1

MCOrder == <<s1, s3, s2>>
MCSource == (s1 :> "press") @@ (s3 :> "press") @@ (s2 :> "court")
MCOverlap == {<<s1, s3>>, <<s3, s1>>}
MCRole == (r1 :> "REVIEWER") @@ (r2 :> "REVIEWER") @@ (a1 :> "ARBITER")
MCAxes ==
    {[materiality |-> "MATERIAL_ADVERSE", polarity |-> "ADVERSE",
      evidence |-> "PRIMARY_SUPPORTED"],
     [materiality |-> "NOT_MATERIAL_ADVERSE", polarity |-> "NEUTRAL",
      evidence |-> "PRIMARY_SUPPORTED"]}
MCQuota == [label \in Labels |-> IF label = "RISK_REVIEW" THEN 2 ELSE 0]

\* The two reviewers have one role, and the freeze processes one program.
Symmetry == Permutations({r1, r2}) \cup Permutations(Freezers)
=============================================================================
