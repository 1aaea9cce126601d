---------------------------- MODULE OrderLedger ----------------------------
(***************************************************************************)
(* What the order routes and the timeout worker promise of one order,      *)
(* whatever the interleaving of their unguarded UPDATEs: the row shows the *)
(* last committed decision, every decision stays on record, and no         *)
(* completion is recorded for an order that no acceptance was recorded     *)
(* for.  It says nothing of the order of decisions: two handlers that read *)
(* the same status both commit, and a terminal status may be overwritten.  *)
(***************************************************************************)
CONSTANT Orders

VARIABLES current,   \* current[o]: the status column, "none" before INSERT
          reached    \* reached[o]: every status ever committed for o

ledgerVars == <<current, reached>>

Record(o, s) ==
    /\ current' = [current EXCEPT ![o] = s]
    /\ reached' = [reached EXCEPT ![o] = @ \cup {s}]

Open(o) ==
    /\ current[o] = "none"
    /\ Record(o, "pending")

\* A craftsman's answer, a client's withdrawal or the 48 hour timeout.
Decide(o, s) ==
    /\ "pending" \in reached[o]
    /\ Record(o, s)

Complete(o) ==
    /\ {"pending", "accepted"} \subseteq reached[o]
    /\ Record(o, "completed")

LedgerInit ==
    /\ current = [o \in Orders |-> "none"]
    /\ reached = [o \in Orders |-> {}]

LedgerNext ==
    \E o \in Orders :
        \/ Open(o)
        \/ \E s \in {"accepted", "rejected", "cancelled"} : Decide(o, s)
        \/ Complete(o)

LedgerSpec == LedgerInit /\ [][LedgerNext]_ledgerVars
=============================================================================
