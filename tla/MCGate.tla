------------------------------- MODULE MCGate -------------------------------
(***************************************************************************)
(* Small instances of Gate.                                                *)
(***************************************************************************)
EXTENDS Gate, TLC

\* The rules behind the limiter are a function: all sessions and paths are tried.
ASSUME RulesAssumption == RulesLeadSomewhere

GateSymmetry == Permutations(Requests)

\* A visitor who is not signed in, and a client who has not chosen a role yet.
TwoVisits ==
    {<<NoSession, "/">>,
     <<[user |-> TRUE, role |-> "client", onboarded |-> FALSE], "/dashboard/client">>}

OneVisit == {<<NoSession, "/">>}
=============================================================================
