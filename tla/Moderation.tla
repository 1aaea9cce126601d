----------------------------- MODULE Moderation -----------------------------
(***************************************************************************)
(* The review and moderation of craftsmen: the admin routes of             *)
(* apps/web/src/app/api/admin/craftsmen, the onboarding routes, the        *)
(* CraftsmanRepository and applyBanCascade they call, and the JWT callback *)
(* of apps/web/src/app/auth.ts.                                            *)
(*                                                                         *)
(* The craftsman_profiles row holds the review; users.onboarding_complete  *)
(* caches "reviewed and accepted", and each session's JWT caches that.     *)
(* Every UPDATE is by id alone, without a transaction, so pc[r] names the  *)
(* await request r is suspended at and sync[s] that of session s's JWT     *)
(* callback.  Requests is the bound on the number of admitted requests.    *)
(*                                                                         *)
(* freezeUntil is left out: no code reads it.                              *)
(***************************************************************************)
EXTENDS Naturals, FiniteSets

CONSTANTS
    Craftsmen,    \* users; each has at most one craftsman_profiles row
    Requests,     \* admitted HTTP requests; each runs one handler once
    Sessions,     \* signed-in browsers
    Holder,       \* Holder[s]: the user of session s
    Threshold,    \* FREEZE_BAN_THRESHOLD
    NoOne

ASSUME ModerationAssumption ==
    /\ IsFiniteSet(Requests)
    /\ Holder \in [Sessions -> Craftsmen]
    /\ Threshold \in Nat \ {0}
    /\ NoOne \notin Craftsmen

VARIABLES
    \* craftsman_profiles
    status,      \* "none" before the INSERT
    strikes,     \* freeze_count
    mark,        \* freeze_reason: "none", an admin's "reason", or "permanent_ban"
    \* users
    role, flag,  \* flag: onboarding_complete
    deleted,     \* is_deleted
    \* Handlers in flight
    pc, req,
    \* Other stores
    outbox,      \* rows ever inserted into event_outbox
    webhooks,    \* requests that queued the craftsman.banned webhook
    \* Sessions
    token,       \* the claims of the JWT that the proxy reads
    sync,        \* where the JWT callback is suspended
    seen,        \* what it has read: the flag, and whether the profile is accepted
    \* History, read by properties only
    log          \* every committed write of a status

profileVars == <<status, strikes, mark>>
userVars == <<role, flag, deleted>>
sessionVars == <<token, sync, seen>>
vars == <<profileVars, userVars, pc, req, outbox, webhooks, sessionVars, log>>

Statuses == {"pending", "approved", "rejected", "frozen"}
Roles == {"client", "craftsman"}

Init ==
    /\ status = [c \in Craftsmen |-> "none"]
    /\ strikes = [c \in Craftsmen |-> 0]
    /\ mark = [c \in Craftsmen |-> "none"]
    /\ role = [c \in Craftsmen |-> "client"]  \* as the first sign-in inserts it
    /\ flag = [c \in Craftsmen |-> FALSE]
    /\ deleted = [c \in Craftsmen |-> FALSE]
    /\ pc = [r \in Requests |-> "idle"]
    /\ req = [r \in Requests |-> [kind |-> "none", craftsman |-> NoOne, count |-> 0]]
    /\ outbox = {}
    /\ webhooks = {}
    /\ token = [s \in Sessions |-> [role |-> "none", complete |-> FALSE]]
    /\ sync = [s \in Sessions |-> "idle"]
    /\ seen = [s \in Sessions |-> [flag |-> FALSE, accepted |-> FALSE]]
    /\ log = {}

Goto(r, label) == pc' = [pc EXCEPT ![r] = label]

\* Request r is about craftsman c; a freeze will store count.
Receive(r, kind, c, count) ==
    req' = [req EXCEPT ![r] = [kind |-> kind, craftsman |-> c, count |-> count]]

\* UPDATE craftsman_profiles SET status = s, by request r.
SetStatus(r, c, s) ==
    /\ status' = [status EXCEPT ![c] = s]
    /\ log' = log \cup {[by |-> r, craftsman |-> c, status |-> s]}

-----------------------------------------------------------------------------
(***************************************************************************)
(* Becoming a craftsman                                                    *)
(***************************************************************************)

\* POST /api/users/onboarding: one UPDATE, whatever the user's state.
ChooseAccount(r) ==
    /\ pc[r] = "idle"
    /\ \E c \in Craftsmen, chosen \in Roles :
        /\ Receive(r, "choose", c, 0)
        /\ role' = [role EXCEPT ![c] = chosen]
        /\ flag' = [flag EXCEPT ![c] = chosen = "client"]
    /\ Goto(r, "ok")
    /\ UNCHANGED <<profileVars, deleted, outbox, webhooks, sessionVars, log>>

\* POST /api/craftsmen/onboarding or POST /api/craftsmen, up to the read that
\* finds no profile.
ReadForProfile(r) ==
    /\ pc[r] = "idle"
    /\ \E c \in Craftsmen, kind \in {"onboard", "create"} :
        /\ status[c] = "none"
        /\ Receive(r, kind, c, 0)
    /\ Goto(r, "insert")
    /\ UNCHANGED <<profileVars, userVars, outbox, webhooks, sessionVars, log>>

\* createProfile: user_id is unique, so the second INSERT throws.  The
\* repository that POST /api/craftsmen uses has no outbox to append to.
InsertProfile(r) ==
    LET c == req[r].craftsman IN
    /\ pc[r] = "insert"
    /\ IF status[c] = "none"
       THEN /\ SetStatus(r, c, "pending")
            /\ Goto(r, IF req[r].kind = "onboard" THEN "append" ELSE "ok")
       ELSE Goto(r, "failed") /\ UNCHANGED <<status, log>>
    /\ UNCHANGED <<strikes, mark, userVars, req, outbox, webhooks, sessionVars>>

\* Variant of the onboarding route that takes the submitted form for enough.
FinishOnboarding_Complete(r) ==
    LET c == req[r].craftsman IN
    /\ pc[r] = "user"
    /\ role' = [role EXCEPT ![c] = "craftsman"]
    /\ flag' = [flag EXCEPT ![c] = TRUE]
    /\ Goto(r, "ok")
    /\ UNCHANGED <<profileVars, deleted, req, outbox, webhooks, sessionVars, log>>

\* The onboarding route's last step, after the profile and its event.
FinishOnboarding(r) ==
    LET c == req[r].craftsman IN
    /\ pc[r] = "user"
    /\ role' = [role EXCEPT ![c] = "craftsman"]
    /\ flag' = [flag EXCEPT ![c] = FALSE]
    /\ Goto(r, "ok")
    /\ UNCHANGED <<profileVars, deleted, req, outbox, webhooks, sessionVars, log>>

-----------------------------------------------------------------------------
(***************************************************************************)
(* What the admin does: no route looks at the status it overwrites         *)
(***************************************************************************)

Approve(r) ==
    /\ pc[r] = "idle"
    /\ \E c \in Craftsmen :
        /\ status[c] # "none"
        /\ Receive(r, "approve", c, 0)
        /\ SetStatus(r, c, "approved")
    /\ Goto(r, "flag")
    /\ UNCHANGED <<strikes, mark, userVars, outbox, webhooks, sessionVars>>

Reject(r) ==
    /\ pc[r] = "idle"
    /\ \E c \in Craftsmen :
        /\ status[c] # "none"
        /\ Receive(r, "reject", c, 0)
        /\ SetStatus(r, c, "rejected")
    /\ Goto(r, "flag")
    /\ UNCHANGED <<strikes, mark, userVars, outbox, webhooks, sessionVars>>

\* The second UPDATE of approve and of reject, on the users row.
SetFlag(r) ==
    /\ pc[r] = "flag"
    /\ flag' = [flag EXCEPT ![req[r].craftsman] = req[r].kind = "approve"]
    /\ Goto(r, "append")
    /\ UNCHANGED <<profileVars, role, deleted, req, outbox, webhooks, sessionVars, log>>

Unfreeze(r) ==
    /\ pc[r] = "idle"
    /\ \E c \in Craftsmen :
        /\ status[c] # "none"
        /\ Receive(r, "unfreeze", c, 0)
        /\ SetStatus(r, c, "pending")
        /\ mark' = [mark EXCEPT ![c] = "none"]
    /\ Goto(r, "append")
    /\ UNCHANGED <<strikes, userVars, outbox, webhooks, sessionVars>>

\* Variant of ban() that appends no event.
Ban_NoEvent(r) ==
    /\ pc[r] = "idle"
    /\ \E c \in Craftsmen :
        /\ status[c] # "none"
        /\ Receive(r, "ban", c, 0)
        /\ SetStatus(r, c, "rejected")
        /\ mark' = [mark EXCEPT ![c] = "permanent_ban"]
    /\ Goto(r, "cascade")
    /\ UNCHANGED <<strikes, userVars, outbox, webhooks, sessionVars>>

Ban(r) ==
    /\ pc[r] = "idle"
    /\ \E c \in Craftsmen :
        /\ status[c] # "none"
        /\ Receive(r, "ban", c, 0)
        /\ SetStatus(r, c, "rejected")
        /\ mark' = [mark EXCEPT ![c] = "permanent_ban"]
    /\ Goto(r, "append")
    /\ UNCHANGED <<strikes, userVars, outbox, webhooks, sessionVars>>

\* freeze() reads the strike counter ...
ReadForFreeze(r) ==
    /\ pc[r] = "idle"
    /\ \E c \in Craftsmen :
        /\ status[c] # "none"
        /\ Receive(r, "freeze", c, strikes[c] + 1)
    /\ Goto(r, "freeze")
    /\ UNCHANGED <<profileVars, userVars, outbox, webhooks, sessionVars, log>>

\* Variant of computeFreezeState that bans one strike early.
StruckOut_Early(count) == count + 1 >= Threshold

\* computeFreezeState: banned.
StruckOut(count) == count >= Threshold

\* ... and stores what computeFreezeState makes of the count it read.
UpdateFrozen(r) ==
    LET c == req[r].craftsman IN
    /\ pc[r] = "freeze"
    /\ SetStatus(r, c, IF StruckOut(req[r].count) THEN "rejected" ELSE "frozen")
    /\ strikes' = [strikes EXCEPT ![c] = req[r].count]
    /\ mark' = [mark EXCEPT ![c] = "reason"]
    /\ Goto(r, "append")
    /\ UNCHANGED <<userVars, req, outbox, webhooks, sessionVars>>

-----------------------------------------------------------------------------
(***************************************************************************)
(* The outbox INSERT, the ban cascade, and faults                          *)
(***************************************************************************)

Bans(r) == \/ req[r].kind = "ban"
           \/ req[r].kind = "freeze" /\ StruckOut(req[r].count)

\* Variant with a name no consumer subscribes to.
EventOf_Misnamed == [onboard |-> "registered",
                     approve |-> "approved", reject |-> "rejected",
                     freeze |-> "frozen", unfreeze |-> "unfreeze"]

EventOf == [onboard |-> "registered",
            approve |-> "approved", reject |-> "rejected",
            freeze |-> "frozen", unfreeze |-> "unfrozen"]

\* Variant of the freeze route without the call of applyBanCascade.
AfterAppend_NoAutoBan(r) ==
    IF req[r].kind = "ban" THEN "cascade"
    ELSE IF req[r].kind = "onboard" THEN "user" ELSE "ok"

AfterAppend(r) ==
    IF Bans(r) THEN "cascade"
    ELSE IF req[r].kind = "onboard" THEN "user" ELSE "ok"

AppendEvent(r) ==
    /\ pc[r] = "append"
    /\ outbox' = outbox \cup
           {[by |-> r, craftsman |-> req[r].craftsman,
             name |-> IF Bans(r) THEN "banned" ELSE EventOf[req[r].kind]]}
    /\ Goto(r, AfterAppend(r))
    /\ UNCHANGED <<profileVars, userVars, req, webhooks, sessionVars, log>>

\* applyBanCascade, first half: the users row.
DeleteUser(r) ==
    /\ pc[r] = "cascade"
    /\ deleted' = [deleted EXCEPT ![req[r].craftsman] = TRUE]
    /\ Goto(r, "webhook")
    /\ UNCHANGED <<profileVars, role, flag, req, outbox, webhooks, sessionVars, log>>

\* Second half: dispatchWebhook queues a job for each active webhook, if any.
DispatchWebhook(r) ==
    /\ pc[r] = "webhook"
    /\ \/ webhooks' = webhooks \cup {r}
       \/ UNCHANGED webhooks
    /\ Goto(r, "ok")
    /\ UNCHANGED <<profileVars, userVars, req, outbox, sessionVars, log>>

InFlight == {"insert", "user", "flag", "freeze", "append", "cascade", "webhook"}

\* A statement fails, or the process dies, at the await r is suspended at.
\* What was committed stays; nothing is retried.
Fail(r) ==
    /\ pc[r] \in InFlight
    /\ Goto(r, "failed")
    /\ UNCHANGED <<profileVars, userVars, req, outbox, webhooks, sessionVars, log>>

-----------------------------------------------------------------------------
(***************************************************************************)
(* The JWT callback: sign-in of an existing user, and the refresh of a     *)
(* token older than a day or on useSession().update()                      *)
(***************************************************************************)

Accepted(c) == status[c] \in {"approved", "frozen"}

Move(s, label) == sync' = [sync EXCEPT ![s] = label]

\* The callback ends: the token says what it found.
Issue(s, r, complete) ==
    /\ token' = [token EXCEPT ![s] = [role |-> r, complete |-> complete]]
    /\ Move(s, "idle")

\* SELECT the users row; for a client its flag is all there is to know.
SyncRead(s) ==
    LET c == Holder[s] IN
    /\ sync[s] = "idle"
    /\ IF role[c] = "craftsman"
       THEN /\ seen' = [seen EXCEPT ![s].flag = flag[c]]
            /\ Move(s, "profile")
            /\ UNCHANGED token
       ELSE /\ Issue(s, role[c], flag[c])
            /\ UNCHANGED seen
    /\ UNCHANGED <<profileVars, userVars, pc, req, outbox, webhooks, log>>

\* Variant that compares with the token at hand rather than with the row.
SyncProfile_TokenOnly(s) ==
    LET c == Holder[s] IN
    /\ sync[s] = "profile"
    /\ IF Accepted(c) # token[s].complete
       THEN /\ seen' = [seen EXCEPT ![s].accepted = Accepted(c)]
            /\ Move(s, "write")
            /\ UNCHANGED token
       ELSE /\ Issue(s, "craftsman", Accepted(c))
            /\ UNCHANGED seen
    /\ UNCHANGED <<profileVars, userVars, pc, req, outbox, webhooks, log>>

\* SELECT the profile, and compare with the flag read before.
SyncProfile(s) ==
    LET c == Holder[s] IN
    /\ sync[s] = "profile"
    /\ IF Accepted(c) # seen[s].flag
       THEN /\ seen' = [seen EXCEPT ![s].accepted = Accepted(c)]
            /\ Move(s, "write")
            /\ UNCHANGED token
       ELSE /\ Issue(s, "craftsman", Accepted(c))
            /\ UNCHANGED seen
    /\ UNCHANGED <<profileVars, userVars, pc, req, outbox, webhooks, log>>

\* UPDATE users with the answer found, however old it is by now.
SyncWrite(s) ==
    /\ sync[s] = "write"
    /\ flag' = [flag EXCEPT ![Holder[s]] = seen[s].accepted]
    /\ Issue(s, "craftsman", seen[s].accepted)
    /\ UNCHANGED <<profileVars, role, deleted, pc, req, outbox, webhooks, seen, log>>

\* A statement of the callback throws, the last one committed or not.  At
\* sign-in there is no token yet.  A refresh swallows the error and keeps the
\* token, whose role it has already replaced by the one it read.
SyncFail(s) ==
    /\ sync[s] \in {"profile", "write"}
    /\ flag' \in {flag, [flag EXCEPT ![Holder[s]] =
                          IF sync[s] = "write" THEN seen[s].accepted ELSE @]}
    /\ token' = [token EXCEPT ![s].role = IF @ = "none" THEN @ ELSE "craftsman"]
    /\ Move(s, "idle")
    /\ UNCHANGED <<profileVars, role, deleted, pc, req, outbox, webhooks, seen, log>>

-----------------------------------------------------------------------------
StartRequest(r) ==
    \/ ChooseAccount(r) \/ ReadForProfile(r)
    \/ Approve(r) \/ Reject(r) \/ ReadForFreeze(r) \/ Unfreeze(r) \/ Ban(r)

ContinueRequest(r) ==
    \/ InsertProfile(r) \/ FinishOnboarding(r) \/ SetFlag(r) \/ UpdateFrozen(r)
    \/ AppendEvent(r) \/ DeleteUser(r) \/ DispatchWebhook(r)

Sync(s) == SyncRead(s) \/ SyncProfile(s) \/ SyncWrite(s)

Next ==
    \/ \E r \in Requests : StartRequest(r) \/ ContinueRequest(r) \/ Fail(r)
    \/ \E s \in Sessions : Sync(s) \/ SyncFail(s)

Spec == Init /\ [][Next]_vars

\* Browsers stay in use, so their tokens are refreshed again and again, and
\* the database, though it may fail, answers a callback infinitely often.
\* Nothing is assumed of requests.
FairSpec ==
    /\ Spec
    /\ \A s \in Sessions :
        WF_vars(SyncRead(s)) /\ SF_vars(SyncProfile(s)) /\ SF_vars(SyncWrite(s))
-----------------------------------------------------------------------------
(***************************************************************************)
(* Properties                                                              *)
(***************************************************************************)

Kinds == {"none", "choose", "onboard", "create", "approve", "reject", "freeze",
          "unfreeze", "ban"}
EventNames == {"registered", "approved", "rejected", "frozen", "unfrozen", "banned"}

\* Every table, handler and session holds a value of its type; an event is
\* only ever one of the six names the outbox consumers know.
TypeOK ==
    /\ status \in [Craftsmen -> Statuses \cup {"none"}]
    /\ strikes \in [Craftsmen -> Nat]
    /\ mark \in [Craftsmen -> {"none", "reason", "permanent_ban"}]
    /\ role \in [Craftsmen -> Roles]
    /\ flag \in [Craftsmen -> BOOLEAN]
    /\ deleted \in [Craftsmen -> BOOLEAN]
    /\ pc \in [Requests -> InFlight \cup {"idle", "ok", "failed"}]
    /\ req \in [Requests -> [kind: Kinds, craftsman: Craftsmen \cup {NoOne}, count: Nat]]
    /\ outbox \subseteq [by: Requests, craftsman: Craftsmen, name: EventNames]
    /\ webhooks \subseteq Requests
    /\ token \in [Sessions -> [role: Roles \cup {"none"}, complete: BOOLEAN]]
    /\ sync \in [Sessions -> {"idle", "profile", "write"}]
    /\ seen \in [Sessions -> [flag: BOOLEAN, accepted: BOOLEAN]]
    /\ log \subseteq [by: Requests, craftsman: Craftsmen, status: Statuses]

\* The freezes of c that were committed.
Freezes(c) == {r \in Requests : /\ req[r].kind = "freeze"
                                /\ \E w \in log : w.by = r /\ w.craftsman = c}

\* A craftsman whose counter stands at the threshold loses the account, unless
\* the freeze that struck is still on its way there or was cut short: the
\* races on the counter never let one reach the threshold unnoticed.
StrikeOutBans ==
    \A c \in Craftsmen : strikes[c] >= Threshold =>
        \/ deleted[c]
        \/ \E r \in Freezes(c) :
               StruckOut(req[r].count) /\ pc[r] \in {"append", "cascade", "failed"}

\* Nobody loses the account but by an admin's ban or by as many committed
\* freezes as the threshold asks for.
BanIsDeserved ==
    \A c \in Craftsmen : deleted[c] =>
        \/ \E r \in Requests : req[r].kind = "ban" /\ req[r].craftsman = c
        \/ Cardinality(Freezes(c)) >= Threshold

\* The ban is told in order: the event is committed before the account is
\* deleted, and the webhook is queued after.
BanIsAnnounced ==
    /\ \A c \in Craftsmen : deleted[c] =>
           \E e \in outbox : e.craftsman = c /\ e.name = "banned"
    /\ \A r \in webhooks : deleted[req[r].craftsman]

\* At some time c's profile was approved or frozen.
WasAccepted(c) == \E w \in log : w.craftsman = c /\ w.status \in {"approved", "frozen"}

\* A user with the craftsman's role has the flag only if the profile was
\* accepted at some time, although the session sync writes the flag from what
\* it read before and account-type changes run in between.
FlagWasEarned ==
    \A c \in Craftsmen : role[c] = "craftsman" /\ flag[c] => WasAccepted(c)

\* What the tables and the history say of each craftsman's standing.
Frozen == [c \in Craftsmen |-> Cardinality(Freezes(c))]
Banned == [c \in Craftsmen |-> \E r \in Requests : req[r].kind = "ban" /\ req[r].craftsman = c]
OnceAccepted == [c \in Craftsmen |-> WasAccepted(c)]
Trusted == [c \in Craftsmen |-> role[c] = "craftsman" /\ flag[c]]
Fate == [c \in Craftsmen |->
            IF \E r \in webhooks : req[r].craftsman = c THEN "reported"
            ELSE IF deleted[c] THEN "deleted"
            ELSE IF \E e \in outbox : e.craftsman = c /\ e.name = "banned" THEN "announced"
            ELSE "none"]

\* Decisions are on record for good, the consequences of a ban come one after
\* the other and only with grounds, and trust follows an acceptance: admin
\* routes, cascade and session callbacks implement the standing.
Standing == INSTANCE CraftsmanStanding WITH
    freezes <- Frozen, banned <- Banned, accepted <- OnceAccepted,
    trusted <- Trusted, fate <- Fate

ImplementsStanding == Standing!StandingSpec

\* The caches converge: for a user who stays a craftsman, in the end the flag
\* and every token that is in use say what the profile says, whatever stale
\* values concurrent handlers and callbacks have written.
CachesConverge ==
    \A s \in Sessions :
        LET c == Holder[s] IN
        <>[](role[c] = "craftsman") =>
            <>[](flag[c] = Accepted(c) /\ token[s].complete = Accepted(c))
-----------------------------------------------------------------------------
(***************************************************************************)
(* What comments and documents say and the code does not do                *)
(***************************************************************************)

\* "Each freeze increments the strike counter"
\* (packages/shared/src/moderation.ts).
EachFreezeCounts == \A c \in Craftsmen : strikes[c] = Cardinality(Freezes(c))

\* "A rejected craftsman stays outside the dashboard."
\* (craftsman.repository.ts): once a rejection is through, and while the
\* profile stays rejected, the flag does not come back.
RejectedStaysOutside ==
    [][\A r \in Requests :
         LET c == req[r].craftsman IN
         req[r].kind = "reject" /\ pc[r] = "ok" /\ status[c] = "rejected"
             /\ role[c] = "craftsman" /\ role'[c] = "craftsman" /\ ~flag[c] =>
             ~flag'[c]]_vars
=============================================================================
