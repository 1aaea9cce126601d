-------------------------------- MODULE Gate --------------------------------
(***************************************************************************)
(* What stands before every page: proxy.ts of the web process, with the    *)
(* rate limiter it asks first and the role and onboarding rules behind it. *)
(*                                                                         *)
(* The limiter keeps one counter per client address in Valkey.  It reads   *)
(* the counter with one command, looks at the clock, and writes it back    *)
(* with another, which Valkey runs when it arrives: requests interleave    *)
(* and time passes between all of these.  A client that lost its           *)
(* connection sends the write again, or gives up on one that has run or    *)
(* still will.                                                             *)
(***************************************************************************)
EXTENDS Naturals, FiniteSets

CONSTANTS
    Requests,     \* page requests
    Ips,          \* client addresses
    Visits,       \* what a request is for: a subset of Sessions \X Paths
    Max,          \* maxRequests
    Window,       \* windowMs
    Second,       \* milliseconds to the second
    MaxNow,       \* bound: the last moment
    StoreFails    \* may a command or its answer be lost?

Roles == {"client", "craftsman", "admin", "super_admin"}
NoSession == [user |-> FALSE, role |-> "client", onboarded |-> FALSE]
Sessions == {NoSession} \cup [user : {TRUE}, role : Roles, onboarded : BOOLEAN]

Onboarding == {"/choose-account", "/dashboard/craftsman/onboarding"}
Home == [client |-> "/dashboard/client", craftsman |-> "/dashboard/craftsman",
         admin |-> "/dashboard/admin", super_admin |-> "/dashboard/super_admin"]
UnderCraftsman == {"/dashboard/craftsman", "/dashboard/craftsman/onboarding"}
UnderAdmin == {"/dashboard/admin"}
UnderSuperAdmin == {"/dashboard/super_admin"}
UnderDashboard == {"/dashboard/client"} \cup UnderCraftsman \cup UnderAdmin \cup UnderSuperAdmin
Paths == {"/", "/login", "/unauthorized", "/choose-account"} \cup UnderDashboard

ASSUME GateAssumption ==
    /\ IsFiniteSet(Requests)
    /\ Visits \subseteq Sessions \X Paths
    /\ Max \in Nat \ {0} /\ Second \in Nat \ {0} /\ MaxNow \in Nat
    /\ Window \in Nat \ {0}
    /\ StoreFails \in BOOLEAN

VARIABLES
    now,       \* Date.now()
    counter,   \* counter[i]: the value of rate_limit:rate_limit:i, and when it expires
    req,       \* req[q]: a page request
    overlap    \* history: <<p, q>> of one address had writes ahead of them at once

vars == <<now, counter, req, overlap>>

NoRequest == [ip |-> "none", session |-> NoSession, path |-> "/", pc |-> "idle",
              count |-> 0, readAt |-> 0, setAt |-> 0, ran |-> FALSE, ranAt |-> 0,
              answer |-> "none"]

Init ==
    /\ now = 0
    /\ counter = [i \in Ips |-> [value |-> 0, expires |-> 0]]
    /\ req = [q \in Requests |-> NoRequest]
    /\ overlap = {}

-----------------------------------------------------------------------------
(***************************************************************************)
(* The roles and the onboarding lock: where a visit is sent                *)
(***************************************************************************)

\* The rest of proxy(): the path a visit is redirected to, or "next".
RoleGate(s, p) ==
    LET onboardingRoute == IF s.role = "craftsman" THEN "/dashboard/craftsman/onboarding"
                                                   ELSE "/choose-account" IN
    CASE s.user /\ p = "/login" ->
            IF s.onboarded THEN Home[s.role] ELSE onboardingRoute
      [] ~s.user /\ p \in UnderDashboard \cup {"/choose-account"} -> "/login"
      [] s.user /\ ~s.onboarded /\ p # onboardingRoute -> onboardingRoute
      [] s.user /\ s.onboarded /\ p \in Onboarding -> Home[s.role]
      [] s.user /\ p \in UnderAdmin /\ s.role \notin {"admin", "super_admin"} -> "/unauthorized"
      [] s.user /\ p \in UnderSuperAdmin /\ s.role # "super_admin" -> "/unauthorized"
      [] s.user /\ p \in UnderCraftsman /\ s.role # "craftsman" -> "/unauthorized"
      [] OTHER -> "next"

-----------------------------------------------------------------------------
(***************************************************************************)
(* The limiter                                                             *)
(***************************************************************************)

WindowOf(t) == t \div Window

\* get: null once the key has expired; (current ?? 0).
Current(i) == IF now < counter[i].expires THEN counter[i].value ELSE 0

\* Variant of the time to live that SETEX never refuses.
Ttl_Positive(t) == IF Window - (t % Window) < Second THEN 1 ELSE (Window - (t % Window)) \div Second

\* Variant of the time to live that rounds up.
Ttl_Long(t) == ((Window - (t % Window)) \div Second) + 1

\* Whole seconds left in the window, which are none in its last second.
Ttl(t) == (Window - (t % Window)) \div Second

\* A request whose write is still to run, or may still run again.
Working(q) == req[q].pc \in {"counted", "sent", "lost"}

\* The requests of address i that a new one finds at work.
AtWork(q, i) ==
    UNION {{<<p, q>>, <<q, p>>} : p \in {p \in Requests : Working(p) /\ req[p].ip = i}}

\* Variant of the read that counts the requests it turns away as well.
Receive_CountsAll(q, i, v) ==
    /\ req[q].pc = "idle"
    /\ req' = [req EXCEPT ![q] = [NoRequest EXCEPT
                   !.ip = i, !.session = v[1], !.path = v[2], !.pc = "counted",
                   !.count = Current(i) + 1, !.readAt = now]]
    /\ overlap' = overlap \cup AtWork(q, i)
    /\ UNCHANGED <<now, counter>>

\* rateLimitMiddleware asks for the address; check() reads its counter.  A
\* request above the limit is answered and writes nothing.
Receive(q, i, v) ==
    /\ req[q].pc = "idle"
    /\ LET count == Current(i) + 1
           refused == count > Max IN
        /\ req' = [req EXCEPT ![q] = [NoRequest EXCEPT
                       !.ip = i, !.session = v[1], !.path = v[2],
                       !.pc = IF refused THEN "done" ELSE "counted",
                       !.count = count, !.readAt = now,
                       !.answer = IF refused THEN "429" ELSE "none"]]
        /\ overlap' = IF refused THEN overlap ELSE overlap \cup AtWork(q, i)
    /\ UNCHANGED <<now, counter>>

\* The answer to the read never comes: proxy() throws.
ReadFails(q, i, v) ==
    /\ StoreFails
    /\ req[q].pc = "idle"
    /\ req' = [req EXCEPT ![q] = [NoRequest EXCEPT
                   !.ip = i, !.session = v[1], !.path = v[2], !.pc = "done", !.answer = "fault"]]
    /\ UNCHANGED <<now, counter, overlap>>

\* check() looks at the clock for the time to live and sends SETEX.
Send(q) ==
    /\ req[q].pc = "counted"
    /\ req' = [req EXCEPT ![q].pc = "sent", ![q].setAt = now]
    /\ UNCHANGED <<now, counter, overlap>>

\* Valkey runs SETEX: the seconds it was sent with count from here.  The
\* client of a connection that was lost sends a command again which may have
\* run, and one it has given up on may be on its way still.
Execute(q) ==
    /\ req[q].pc \in {"sent", "lost"}
    /\ req[q].ran => StoreFails
    /\ Ttl(req[q].setAt) > 0
    /\ counter' = [counter EXCEPT ![req[q].ip] =
                       [value |-> req[q].count, expires |-> now + Ttl(req[q].setAt) * Second]]
    /\ req' = [req EXCEPT ![q].ran = TRUE, ![q].ranAt = now]
    /\ UNCHANGED <<now, overlap>>

\* SETEX refuses a time to live of 0: proxy() throws.
InvalidExpire(q) ==
    /\ req[q].pc = "sent"
    /\ Ttl(req[q].setAt) = 0
    /\ req' = [req EXCEPT ![q].pc = "done", ![q].answer = "500"]
    /\ UNCHANGED <<now, counter, overlap>>

\* The answer of proxy(): the limiter's own, whenever it has one; it always
\* has, because the middleware makes a NextResponse.next() of an admission.
Proxy(q, limiter) == IF limiter # "null" THEN limiter ELSE RoleGate(req[q].session, req[q].path)

\* The answer to SETEX is back and the middleware lets the request through.
Admit(q) ==
    /\ req[q].pc = "sent"
    /\ req[q].ran
    /\ req' = [req EXCEPT ![q].pc = "done", ![q].answer = Proxy(q, "next")]
    /\ UNCHANGED <<now, counter, overlap>>

\* The client gives up on the answer to SETEX, run or not: proxy() throws.
StoreFailure(q) ==
    /\ StoreFails
    /\ req[q].pc = "sent"
    /\ req' = [req EXCEPT ![q].pc = "lost", ![q].answer = "fault"]
    /\ UNCHANGED <<now, counter, overlap>>

\* Nothing of a write that was given up on is under way any more.
Drop(q) ==
    /\ req[q].pc = "lost"
    /\ req' = [req EXCEPT ![q].pc = "done"]
    /\ UNCHANGED <<now, counter, overlap>>

Tick ==
    /\ now < MaxNow
    /\ now' = now + 1
    /\ UNCHANGED <<counter, req, overlap>>

Next ==
    \/ \E q \in Requests :
        \/ \E i \in Ips, v \in Visits : Receive(q, i, v) \/ ReadFails(q, i, v)
        \/ Send(q) \/ Execute(q) \/ InvalidExpire(q) \/ Admit(q)
        \/ StoreFailure(q) \/ Drop(q)
    \/ Tick

Spec == Init /\ [][Next]_vars

-----------------------------------------------------------------------------
(***************************************************************************)
(* Properties                                                              *)
(***************************************************************************)

Answers == {"none", "next", "429", "500", "fault"} \cup Paths

TypeOK ==
    /\ now \in 0..MaxNow
    /\ counter \in [Ips -> [value : 0..Max, expires : Nat]]
    /\ req \in [Requests -> [ip : Ips \cup {"none"}, session : Sessions, path : Paths,
                             pc : {"idle", "counted", "sent", "lost", "done"},
                             count : 0..(Max + 1), readAt : 0..MaxNow, setAt : 0..MaxNow,
                             ran : BOOLEAN, ranAt : 0..MaxNow, answer : Answers]]
    /\ overlap \subseteq Requests \X Requests

\* The requests of address i that were let through, with a time to live taken
\* in window w.
Admitted(i, w) ==
    {q \in Requests : req[q].answer = "next" /\ req[q].ip = i /\ WindowOf(req[q].setAt) = w}

\* Between its read and its last write no other request was at work.
Lone(p) == \A q \in Requests : <<p, q>> \notin overlap

Windows == 0..WindowOf(MaxNow)

\* Of the requests that had the counter to themselves an address gets no more
\* than Max in one window, whatever others overlap each other before, after and
\* between them: what they wrote is not lowered, and it does not expire before
\* the window has no whole second left, when nobody is admitted.
LimitHolds ==
    \A i \in Ips, w \in Windows : Cardinality({p \in Admitted(i, w) : Lone(p)}) <= Max

\* The requests of address i that read the counter in window w and raised it.
Counted(i, w) ==
    {p \in Requests : req[p].ran /\ req[p].ip = i /\ WindowOf(req[p].readAt) = w}

\* A request that had read the counter before window w wrote it late, so that
\* it lived into w: it took the time to live in a later window than it had
\* read in, or Valkey ran its SETEX later than it had taken that time.
CarriedOver(i, w) ==
    \E p \in Requests :
        /\ req[p].ran /\ req[p].ip = i
        /\ WindowOf(req[p].readAt) < w
        /\ req[p].ranAt + Ttl(req[p].setAt) * Second > w * Window
        /\ WindowOf(req[p].setAt) > WindowOf(req[p].readAt) \/ req[p].ranAt > req[p].setAt

\* A request is turned away only if Max others of its address raised the
\* counter after reading it in the same window, or a late write carried an
\* earlier window's count into this one; and it fails on its time to live only
\* when that was taken in the last second of a window.
TurnedAwayForCause ==
    \A q \in Requests :
        LET i == req[q].ip
            w == WindowOf(req[q].readAt) IN
        /\ req[q].answer = "429" => Cardinality(Counted(i, w)) >= Max \/ CarriedOver(i, w)
        /\ req[q].answer = "500" => req[q].setAt % Window > Window - Second

Follow(s, p) == IF RoleGate(s, p) = "next" THEN p ELSE RoleGate(s, p)

\* The rules behind the limiter: whatever the session, a visit ends after two
\* redirects at most, on a page that the session may see, which is no other
\* than its onboarding page until it has finished that.
RulesLeadSomewhere ==
    \A s \in Sessions, p \in Paths :
        LET q == Follow(s, Follow(s, p)) IN
        /\ RoleGate(s, q) = "next"
        /\ q \in UnderDashboard => s.user
        /\ q \in UnderAdmin => s.role \in {"admin", "super_admin"}
        /\ q \in UnderSuperAdmin => s.role = "super_admin"
        /\ q \in UnderCraftsman => s.role = "craftsman"
        /\ s.user => (q \in Onboarding <=> ~s.onboarded)

-----------------------------------------------------------------------------
(***************************************************************************)
(* What a comment of the code says and the code does not do                *)
(***************************************************************************)

\* "Onboarding is mandatory: a signed-in user who has not completed onboarding
\* is locked to their onboarding route and cannot navigate anywhere else until
\* done" (proxy.ts).
OnboardingIsMandatory ==
    \A q \in Requests :
        (req[q].answer = "next" /\ req[q].session.user /\ ~req[q].session.onboarded) =>
            req[q].path \in Onboarding
=============================================================================
