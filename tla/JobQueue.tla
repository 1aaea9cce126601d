------------------------------ MODULE JobQueue ------------------------------
(***************************************************************************)
(* What the job queues promise of each request that became a job: it stays *)
(* queued until its target has acted and its worker knows, or until it is  *)
(* given up; a target acts only on queued requests, at most Limit times,   *)
(* and more than once only when there was doubt.  Nothing that was queued  *)
(* disappears, and nothing settled or given up is queued again.            *)
(***************************************************************************)
EXTENDS Naturals

CONSTANTS Items, Limit

VARIABLES
    place,    \* place[x]: where item x is
    acts,     \* acts[x]: how often the target of x has acted
    doubt     \* doubt[x]: the target of x acted without its worker knowing

queueVars == <<place, acts, doubt>>

Places == {"none", "queued", "settled", "abandoned"}

QueueInit ==
    /\ place = [x \in Items |-> "none"]
    /\ acts = [x \in Items |-> 0]
    /\ doubt = [x \in Items |-> FALSE]

Move(x, from, to) == place[x] = from /\ place'[x] = to

\* The target of x does nothing.
Quiet(x) == acts'[x] = acts[x] /\ doubt'[x] = doubt[x]

\* The target of x acts.
Act(x) == place[x] = "queued" /\ acts[x] < Limit /\ acts'[x] = acts[x] + 1

Put(x) == Move(x, "none", "queued") /\ Quiet(x)

\* The worker is told that the target has acted.
Settle(x) == Move(x, "queued", "settled") /\ Act(x) /\ doubt'[x] = doubt[x]

\* The worker is told nothing, whatever the target did.
Falter(x) ==
    /\ Move(x, "queued", "queued") \/ Move(x, "queued", "abandoned")
    /\ Quiet(x) \/ (Act(x) /\ doubt'[x])

Rest(x) == place'[x] = place[x] /\ Quiet(x)

\* Each item goes its own way; several move at once when their worker dies.
QueueNext ==
    /\ place' \in [Items -> Places]
    /\ acts' \in [Items -> Nat]
    /\ doubt' \in [Items -> BOOLEAN]
    /\ \A x \in Items : Rest(x) \/ Put(x) \/ Settle(x) \/ Falter(x)

QueueSpec == QueueInit /\ [][QueueNext]_queueVars
=============================================================================
