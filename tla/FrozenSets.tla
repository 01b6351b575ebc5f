------------------------------ MODULE FrozenSets ------------------------------
(***************************************************************************)
(* What the review desk and the freeze promise together, as if there were  *)
(* no files, no authorizations and no processes that read long before they *)
(* write: a sample gets one verdict, for good; a blind set is frozen in one*)
(* step, from the verdicts as they stand, and shares no sample with a set  *)
(* that is frozen.                                                         *)
(***************************************************************************)
CONSTANTS Samples, Verdicts, IsBlindSet(_), Nothing

VARIABLES
    verdict,    \* the verdict on a sample, or Nothing
    frozen      \* the sets frozen so far: verdicts by sample

vars == <<verdict, frozen>>

Init ==
    /\ verdict = [s \in Samples |-> Nothing]
    /\ frozen = {}

Judge(s) ==
    /\ verdict[s] = Nothing
    /\ verdict'[s] \in Verdicts
    /\ verdict' = [verdict EXCEPT ![s] = verdict'[s]]
    /\ UNCHANGED frozen

Freeze(S) ==
    LET set == [s \in S |-> verdict[s]]
    IN  /\ \A s \in S : verdict[s] # Nothing
        /\ \A other \in frozen : S \cap DOMAIN other = {}
        /\ IsBlindSet(set)
        /\ frozen' = frozen \cup {set}
        /\ UNCHANGED verdict

Next ==
    \/ \E s \in Samples : Judge(s)
    \/ \E S \in SUBSET Samples : Freeze(S)

Spec == Init /\ [][Next]_vars

=============================================================================
