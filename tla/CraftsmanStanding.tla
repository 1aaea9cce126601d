------------------------- MODULE CraftsmanStanding -------------------------
(***************************************************************************)
(* What the review and moderation of craftsmen promise of each of them,    *)
(* however the unguarded UPDATEs of admins and session callbacks           *)
(* interleave: a freeze counts once and is never taken back; nobody is     *)
(* announced as banned without grounds, deleted before that, or reported   *)
(* to webhooks before the deletion, and none of this is undone; and nobody *)
(* is trusted as a craftsman who was never accepted.  It says nothing of   *)
(* the current status, which later decisions overwrite freely.             *)
(***************************************************************************)
EXTENDS Naturals

CONSTANTS Craftsmen, Threshold

VARIABLES
    freezes,    \* freezes[c]: how often c was frozen
    banned,     \* banned[c]: an admin has banned c
    accepted,   \* accepted[c]: c was approved or frozen at some time
    trusted,    \* trusted[c]: c passes for a craftsman who has been accepted
    fate        \* fate[c]: how far the consequences of a ban have come

record == <<freezes, banned, accepted>>
standingVars == <<record, trusted, fate>>

StandingInit ==
    /\ freezes = [c \in Craftsmen |-> 0]
    /\ banned = [c \in Craftsmen |-> FALSE]
    /\ accepted = [c \in Craftsmen |-> FALSE]
    /\ trusted = [c \in Craftsmen |-> FALSE]
    /\ fate = [c \in Craftsmen |-> "none"]

Accept(c) ==
    /\ accepted' = [accepted EXCEPT ![c] = TRUE]
    /\ UNCHANGED <<freezes, banned, trusted, fate>>

\* Only a freeze that may be the last one need not leave the craftsman frozen,
\* which counts as accepted.
Freeze(c) ==
    /\ freezes' = [freezes EXCEPT ![c] = @ + 1]
    /\ \/ accepted' = [accepted EXCEPT ![c] = TRUE]
       \/ freezes[c] + 1 >= Threshold /\ UNCHANGED accepted
    /\ UNCHANGED <<banned, trusted, fate>>

Ban(c) ==
    /\ banned' = [banned EXCEPT ![c] = TRUE]
    /\ UNCHANGED <<freezes, accepted, trusted, fate>>

Advance(c, from, to) ==
    /\ fate[c] = from
    /\ fate' = [fate EXCEPT ![c] = to]
    /\ UNCHANGED <<record, trusted>>

Announce(c) == (banned[c] \/ freezes[c] >= Threshold) /\ Advance(c, "none", "announced")
Delete(c) == Advance(c, "announced", "deleted")
Report(c) == Advance(c, "deleted", "reported")

Believe(c, b) ==
    /\ b => accepted[c]
    /\ trusted' = [trusted EXCEPT ![c] = b]
    /\ UNCHANGED <<record, fate>>

StandingNext ==
    \E c \in Craftsmen :
        \/ Accept(c) \/ Freeze(c) \/ Ban(c)
        \/ Announce(c) \/ Delete(c) \/ Report(c)
        \/ \E b \in BOOLEAN : Believe(c, b)

StandingSpec == StandingInit /\ [][StandingNext]_standingVars
=============================================================================
