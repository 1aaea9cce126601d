----------------------------- MODULE EventRelay -----------------------------
(***************************************************************************)
(* What the outbox promises of each event, however many workers drain it   *)
(* and wherever they fail: an event is announced, in the order of the      *)
(* appends, before it is called completed; an earlier event may be left    *)
(* behind only if it was given up for failed.                              *)
(***************************************************************************)
EXTENDS Naturals

CONSTANT MaxEvents

VARIABLES fate,       \* fate[e]: the status column of row e, "none" before it exists
          announced   \* events that reached the Valkey channel at least once

relayVars == <<fate, announced>>

Events == 1..MaxEvents

Become(e, f) == fate' = [fate EXCEPT ![e] = f] /\ UNCHANGED announced

Take(e) ==
    /\ fate[e] = "none"
    /\ Become(e, "pending")

Announce(e) ==
    /\ fate[e] # "none"
    /\ \A d \in Events : d < e => d \in announced \/ fate[d] = "failed"
    /\ announced' = announced \cup {e}
    /\ UNCHANGED fate

Finish(e) ==
    /\ e \in announced
    /\ Become(e, "completed")

GiveUp(e) ==
    /\ fate[e] # "none"
    /\ Become(e, "failed")

RelayInit ==
    /\ fate = [e \in Events |-> "none"]
    /\ announced = {}

RelayNext == \E e \in Events : Take(e) \/ Announce(e) \/ Finish(e) \/ GiveUp(e)

RelaySpec == RelayInit /\ [][RelayNext]_relayVars
=============================================================================
