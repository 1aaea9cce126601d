------------------------------ MODULE MCOutbox ------------------------------
(***************************************************************************)
(* Small instances of Outbox.                                              *)
(***************************************************************************)
EXTENDS Outbox, TLC

\* Names are numbers here so that the events can take turns among them.
TurnsOf == [e \in Events |-> e % Cardinality(Names)]

WorkerSymmetry == Permutations(Workers)
=============================================================================
