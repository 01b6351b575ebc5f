---------------------------- MODULE AuditedLedger ----------------------------
(***************************************************************************)
(* What an audited ledger promises, as if intent, conclusion and verdict   *)
(* were one store: a mutation is intended once, concluded at most once and *)
(* exactly as intended, and its audit is closed at most once, by what      *)
(* became of it.  FormalMutation reaches this over two databases.          *)
(***************************************************************************)
CONSTANTS Mutations, Contents, Nothing

VARIABLES
    intended,   \* the content that was announced for a mutation, or Nothing
    concluded,  \* the content that it was concluded with, or Nothing
    verdict     \* what its audit says of it

vars == <<intended, concluded, verdict>>

Init ==
    /\ intended = [m \in Mutations |-> Nothing]
    /\ concluded = [m \in Mutations |-> Nothing]
    /\ verdict = [m \in Mutations |-> "open"]

Open(m) == intended[m] # Nothing /\ verdict[m] = "open"

Intend(m) ==
    /\ intended[m] = Nothing
    /\ \E content \in Contents : intended' = [intended EXCEPT ![m] = content]
    /\ UNCHANGED <<concluded, verdict>>

Conclude(m) ==
    /\ Open(m) /\ concluded[m] = Nothing
    /\ concluded' = [concluded EXCEPT ![m] = intended[m]]
    /\ UNCHANGED <<intended, verdict>>

Confirm(m) ==
    /\ Open(m) /\ concluded[m] # Nothing
    /\ verdict' = [verdict EXCEPT ![m] = "committed"]
    /\ UNCHANGED <<intended, concluded>>

Abandon(m) ==
    /\ Open(m) /\ concluded[m] = Nothing
    /\ verdict' = [verdict EXCEPT ![m] = "abandoned"]
    /\ UNCHANGED <<intended, concluded>>

Next == \E m \in Mutations : Intend(m) \/ Conclude(m) \/ Confirm(m) \/ Abandon(m)

Spec == Init /\ [][Next]_vars

=============================================================================
