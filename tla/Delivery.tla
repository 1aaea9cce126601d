------------------------------ MODULE Delivery ------------------------------
(***************************************************************************)
(* What an event sets off: the handlers that buildEventHandlers of         *)
(* apps/workers/src/worker.ts registers, the notifications they insert,    *)
(* the e-mail queue they fill and its worker, and, from the web process,   *)
(* the webhook dispatcher with the webhooks table, its queue and worker.   *)
(*                                                                         *)
(* A run is one delivery of one event to its handler; runs interleave at   *)
(* every await, and the bus never delivers an event again because a run    *)
(* failed.  Jobs live in Valkey and survive the worker; runs do not.  The  *)
(* queue itself (BullMQ) is external: it refuses to add a job whose id     *)
(* exists, and puts a job back once when its worker died with it.          *)
(***************************************************************************)
EXTENDS Naturals, Sequences, FiniteSets

CONSTANTS
    Runs,          \* deliveries of events to handlers
    Dispatches,    \* calls of dispatchWebhook
    Hooks,         \* rows of the webhooks table, all for the same event
    Kinds,         \* events delivered; see AllKinds
    Client, Craftsman,  \* the users an event is about
    NoUser,        \* an undefined user id
    Attempts,      \* attempts of a job
    MaxNow,        \* bound: milliseconds that pass
    MaxCrashes,    \* bound: deaths of the worker process
    MaxStarted,    \* bound: runs and dispatches that begin
    StoreFails     \* may PostgreSQL and Valkey refuse a command?

CraftsmanKinds == {"craftsman.registered", "craftsman.approved", "craftsman.rejected",
                   "craftsman.frozen", "craftsman.unfrozen", "craftsman.banned"}

\* "order.timed_out" is the order.rejected that the timeout job appends.
OrderKinds == {"order.created", "order.accepted", "order.rejected", "order.timed_out",
               "order.in_progress", "order.completed", "order.cancelled"}

FeedbackKinds == {"review.created", "complaint.filed", "complaint.investigating",
                  "complaint.resolved", "complaint.dismissed"}

AllKinds == CraftsmanKinds \cup OrderKinds \cup FeedbackKinds

Users == {Client, Craftsman}

\* Sources of jobs, and the addresses they go to.
Sources == Runs \cup Dispatches
Targets == Users \cup Hooks

ASSUME DeliveryAssumption ==
    /\ Kinds \subseteq AllKinds
    /\ Client # Craftsman /\ NoUser \notin Users
    /\ Users \cap Hooks = {} /\ Runs \cap Dispatches = {}
    /\ \A S \in {Runs, Dispatches, Hooks} : IsFiniteSet(S)
    /\ Attempts \in Nat \ {0}
    /\ {MaxNow, MaxCrashes, MaxStarted} \subseteq Nat
    /\ StoreFails \in BOOLEAN

VARIABLES
    run,       \* run[r]: the event of run r, and the craftsman of its order
    step,      \* step[r]: the call of the handler that r is at; 0 before r starts
    result,    \* result[r]: "none", "ok", "failed" or "lost"
    rows,      \* notifications: <<r, i>> if call i of run r inserted one
    jobs,      \* the jobs in both queues
    hook,      \* hook[h]: "none", "active", "inactive" or "deleted"
    pc,        \* pc[d]: where dispatch d is
    todo,      \* todo[d]: hooks it read and has not queued a job for
    now,       \* Date.now()
    crashes,   \* deaths of the worker process
    \* History, read by properties only
    queued,    \* <<source, target>> pairs that became a job
    merged,    \* pairs whose job was refused, with the moment
    skipped,   \* runs whose user could not be looked up
    acts,      \* acts[s, t]: how often t acted on the job s queued for it
    faulted    \* pairs that acted although the worker saw no answer

handlerVars == <<run, step, result, rows>>
dispatchVars == <<hook, pc, todo>>
actVars == <<acts, faulted>>
vars == <<handlerVars, jobs, dispatchVars, now, crashes, queued, merged, skipped, actVars>>

Init ==
    /\ run = [r \in Runs |-> [kind |-> "none", craftsman |-> NoUser]]
    /\ step = [r \in Runs |-> 0]
    /\ result = [r \in Runs |-> "none"]
    /\ rows = {}
    /\ jobs = {}
    /\ hook = [h \in Hooks |-> "none"]
    /\ pc = [d \in Dispatches |-> "idle"]
    /\ todo = [d \in Dispatches |-> {}]
    /\ now = 0
    /\ crashes = 0
    /\ queued = {}
    /\ merged = {}
    /\ skipped = {}
    /\ acts = [x \in Sources \X Targets |-> 0]
    /\ faulted = {}

-----------------------------------------------------------------------------
(***************************************************************************)
(* Events: the user ids that reach the handlers                            *)
(***************************************************************************)

\* craftsman.* carry userId.
CraftsmanPayload == [userId |-> Craftsman]

\* order.* carry both parties; craftsmanId is null until an order has one.
OrderPayload(c) == [clientId |-> Client, craftsmanId |-> c]

\* The timeout job's order.rejected carries the order's id and a reason.
TimeoutPayload == [clientId |-> NoUser, craftsmanId |-> NoUser]

\* Of the complaint events only complaint.filed says against whom.
ComplaintPayload(kind) ==
    [againstUserId |-> IF kind = "complaint.filed" THEN Craftsman ELSE NoUser]

ReviewPayload == [craftsmanId |-> Craftsman]

-----------------------------------------------------------------------------
(***************************************************************************)
(* Handlers: which functions of their configuration they call, in order    *)
(***************************************************************************)

Call(f, u) == [f |-> f, to |-> u]

CraftsmanCalls(kind) ==
    LET u == CraftsmanPayload.userId IN
    IF kind = "craftsman.registered"
    THEN <<Call("enqueueUserWelcomeEmail", u), Call("enqueueAdminPendingNotification", NoUser)>>
    ELSE <<Call("enqueueEmailTo", u), Call("createInAppNotification", u)>>

OrderCalls(kind, p) ==
    LET client == p.clientId IN
    CASE kind = "order.created" ->
            <<Call("enqueueOrderCreatedEmail", client), Call("notifyAdminsNewOrder", NoUser)>>
      [] kind = "order.accepted" ->
            <<Call("enqueueOrderAcceptedEmail", client), Call("createInAppNotification", client),
              Call("notifyOtherBidders", p.craftsmanId)>>
      [] kind \in {"order.rejected", "order.timed_out"} ->
            <<Call("enqueueOrderRejectedEmail", client), Call("notifyClient", client)>>
      [] kind = "order.in_progress" ->
            <<Call("notifyClient", client)>>
      [] kind = "order.completed" ->
            <<Call("enqueueOrderCompletedEmail", client), Call("enqueueReviewRequestToClient", client),
              Call("notifyClient", client), Call("notifyCraftsman", p.craftsmanId)>>
      [] kind = "order.cancelled" ->
            <<Call("enqueueOrderCancelledEmail", client), Call("notifyClient", client),
              Call("notifyCraftsman", p.craftsmanId)>>

ReviewCalls ==
    <<Call("enqueueReviewReceivedEmail", ReviewPayload.craftsmanId),
      Call("notifyUser", ReviewPayload.craftsmanId)>>

ComplaintCalls(kind) ==
    LET against == ComplaintPayload(kind).againstUserId IN
    CASE kind = "complaint.filed" ->
            <<Call("enqueueComplaintFiledEmail", against), Call("notifyUser", against),
              Call("notifyAdmin", NoUser)>>
      [] kind = "complaint.resolved" ->
            <<Call("enqueueComplaintResolvedEmail", against), Call("notifyUser", against)>>
      [] OTHER -> <<Call("notifyUser", against)>>

\* The calls of run r.
Calls(r) ==
    LET k == run[r].kind IN
    CASE k \in CraftsmanKinds -> CraftsmanCalls(k)
      [] k = "order.timed_out" -> OrderCalls(k, TimeoutPayload)
      [] k \in OrderKinds \ {"order.timed_out"} -> OrderCalls(k, OrderPayload(run[r].craftsman))
      [] k = "review.created" -> ReviewCalls
      [] k \in FeedbackKinds \ {"review.created"} -> ComplaintCalls(k)
      [] OTHER -> <<>>

(***************************************************************************)
(* What buildEventHandlers makes of each of those functions: a "mail" for  *)
(* the user, a "row" in the user's notifications, a row for the user id    *)
(* 'admin', or one INSERT for 'admin' and all the other craftsmen.         *)
(***************************************************************************)
CraftsmanConfig ==
    [enqueueUserWelcomeEmail |-> "welcome", enqueueAdminPendingNotification |-> "admin",
     enqueueEmailTo |-> "email", createInAppNotification |-> "row"]

OrderConfig ==
    [enqueueOrderCreatedEmail |-> "email", notifyAdminsNewOrder |-> "admin",
     enqueueOrderAcceptedEmail |-> "email", createInAppNotification |-> "row",
     notifyOtherBidders |-> "bidders",
     enqueueOrderRejectedEmail |-> "email", notifyClient |-> "row",
     enqueueOrderCompletedEmail |-> "email", enqueueReviewRequestToClient |-> "row",
     enqueueOrderCancelledEmail |-> "email", notifyCraftsman |-> "row"]

FeedbackConfig ==
    [enqueueReviewReceivedEmail |-> "email", notifyUser |-> "row",
     enqueueComplaintFiledEmail |-> "email", notifyAdmin |-> "admin",
     enqueueComplaintResolvedEmail |-> "email"]

\* What call i of run r does.
Does(r, i) ==
    LET f == Calls(r)[i].f IN
    CASE run[r].kind \in CraftsmanKinds -> CraftsmanConfig[f]
      [] run[r].kind \in OrderKinds -> OrderConfig[f]
      [] OTHER -> FeedbackConfig[f]

Running(r) == result[r] = "none" /\ step[r] \in 1..Len(Calls(r))
To(r) == Calls(r)[step[r]].to

-----------------------------------------------------------------------------
(***************************************************************************)
(* The queues                                                              *)
(***************************************************************************)

Job(kind, s, t) ==
    [kind |-> kind, src |-> s, to |-> t, at |-> now,
     state |-> "waiting", tries |-> 0, stalls |-> 0]

\* Variant of the job ids that leaves the time out.
JobId_Timeless(j) == <<j.kind, j.to>>

\* `welcome:${email}:${Date.now()}`, `email:...` or `webhook:${id}:...`.
JobId(j) == <<j.kind, j.to, j.at>>

\* Queue.add: nothing happens if a job has this id, finished or not.
Add(kind, s, t) ==
    LET j == Job(kind, s, t) IN
    IF \E k \in jobs : JobId(k) = JobId(j)
    THEN /\ merged' = merged \cup {[src |-> s, to |-> t, kind |-> kind, at |-> now]}
         /\ UNCHANGED <<jobs, queued>>
    ELSE /\ jobs' = jobs \cup {j}
         /\ queued' = queued \cup {[src |-> s, to |-> t, kind |-> kind, at |-> now]}
         /\ UNCHANGED merged

\* May another run or dispatch begin?
MayStart ==
    Cardinality({r \in Runs : step[r] > 0} \cup {d \in Dispatches : pc[d] # "idle"}) < MaxStarted

-----------------------------------------------------------------------------
(***************************************************************************)
(* Handler runs                                                            *)
(***************************************************************************)

\* The bus hands an event to its subscription.
Receive(r) ==
    /\ MayStart
    /\ step[r] = 0 /\ result[r] = "none"
    /\ \E k \in Kinds, c \in {Craftsman, NoUser} :
        /\ c = Craftsman \/ k \in {"order.created", "order.cancelled"}
        /\ run' = [run EXCEPT ![r] = [kind |-> k, craftsman |-> c]]
    /\ step' = [step EXCEPT ![r] = 1]
    /\ UNCHANGED <<result, rows, jobs, dispatchVars, now, crashes, queued, merged, skipped, actVars>>

Advance(r) ==
    /\ step' = [step EXCEPT ![r] = @ + 1]
    /\ UNCHANGED <<run, result>>

\* The call throws: the rest of the handler is not run.
Throw(r) ==
    /\ result' = [result EXCEPT ![r] = "failed"]
    /\ UNCHANGED <<run, step>>

\* Variant of enqueueEmail that does not care whether there is such a user.
EnqueueEmail_ToNobody(r) ==
    /\ Running(r)
    /\ Does(r, step[r]) \in {"email", "welcome"}
    /\ Add(Does(r, step[r]), r, To(r))
    /\ Advance(r)
    /\ UNCHANGED <<rows, dispatchVars, now, crashes, skipped, actVars>>

\* enqueueEmail and enqueueUserWelcomeEmail for a user that resolveUser finds.
EnqueueEmail(r) ==
    /\ Running(r)
    /\ Does(r, step[r]) \in {"email", "welcome"}
    /\ To(r) \in Users
    /\ Add(Does(r, step[r]), r, To(r))
    /\ Advance(r)
    /\ UNCHANGED <<rows, dispatchVars, now, crashes, skipped, actVars>>

\* resolveUser has no user: the id is undefined, or the query failed, which it
\* does not tell apart.  The call returns as if the mail were queued.
SkipEmail(r) ==
    /\ Running(r)
    /\ Does(r, step[r]) \in {"email", "welcome"}
    /\ To(r) = NoUser \/ StoreFails
    /\ skipped' = skipped \cup {r}
    /\ Advance(r)
    /\ UNCHANGED <<rows, jobs, dispatchVars, now, crashes, queued, merged, actVars>>

\* Variant of notify that swallows the error of a user id that is undefined.
Notify_Lenient(r) ==
    /\ Running(r)
    /\ Does(r, step[r]) = "row"
    /\ rows' = IF To(r) \in Users THEN rows \cup {<<r, step[r]>>} ELSE rows
    /\ Advance(r)
    /\ UNCHANGED <<jobs, dispatchVars, now, crashes, queued, merged, skipped, actVars>>

\* notify: DatabaseNotificationService.send.  user_id is NOT NULL.
Notify(r) ==
    /\ Running(r)
    /\ Does(r, step[r]) = "row"
    /\ IF To(r) \in Users
       THEN rows' = rows \cup {<<r, step[r]>>} /\ Advance(r)
       ELSE Throw(r) /\ UNCHANGED rows
    /\ UNCHANGED <<jobs, dispatchVars, now, crashes, queued, merged, skipped, actVars>>

\* notify('admin', ...): user_id references users.id, where no id is 'admin'.
NotifyAdmin(r) ==
    /\ Running(r)
    /\ Does(r, step[r]) = "admin"
    /\ Throw(r)
    /\ UNCHANGED <<rows, jobs, dispatchVars, now, crashes, queued, merged, skipped, actVars>>

\* notifyOtherBidders: no order, no other craftsman, or one INSERT of all rows
\* together, of which the one for 'admin' fails it.  Its catch goes on.
NotifyOtherBidders(r) ==
    /\ Running(r)
    /\ Does(r, step[r]) = "bidders"
    /\ Advance(r)
    /\ UNCHANGED <<rows, jobs, dispatchVars, now, crashes, queued, merged, skipped, actVars>>

\* PostgreSQL refuses the INSERT of a notification, or Valkey the new job.
CallFails(r) ==
    /\ StoreFails
    /\ Running(r)
    /\ Does(r, step[r]) # "bidders"
    /\ Throw(r)
    /\ UNCHANGED <<rows, jobs, dispatchVars, now, crashes, queued, merged, skipped, actVars>>

\* The handler returns; the cache handler behind it changes nothing here.
Finish(r) ==
    /\ result[r] = "none" /\ step[r] = Len(Calls(r)) + 1 /\ step[r] > 1
    /\ result' = [result EXCEPT ![r] = "ok"]
    /\ UNCHANGED <<run, step, rows, jobs, dispatchVars, now, crashes, queued, merged, skipped, actVars>>

-----------------------------------------------------------------------------
(***************************************************************************)
(* Webhooks                                                                *)
(***************************************************************************)

\* POST /api/admin/webhooks.
CreateHook(h) ==
    /\ hook[h] = "none"
    /\ hook' = [hook EXCEPT ![h] = "active"]
    /\ UNCHANGED <<handlerVars, jobs, pc, todo, now, crashes, queued, merged, skipped, actVars>>

\* PATCH: the admin's value, whatever the row holds.
SetHook(h) ==
    /\ hook[h] \in {"active", "inactive"}
    /\ \E to \in {"active", "inactive"} : hook' = [hook EXCEPT ![h] = to]
    /\ UNCHANGED <<handlerVars, jobs, pc, todo, now, crashes, queued, merged, skipped, actVars>>

\* DELETE.  Jobs hold the URL and the secret themselves.
DeleteHook(h) ==
    /\ hook[h] \in {"active", "inactive"}
    /\ hook' = [hook EXCEPT ![h] = "deleted"]
    /\ UNCHANGED <<handlerVars, jobs, pc, todo, now, crashes, queued, merged, skipped, actVars>>

\* findActiveWebhooksByEvent, which asks for the event alone.
ReadHooks(d) ==
    /\ MayStart
    /\ pc[d] = "idle"
    /\ todo' = [todo EXCEPT ![d] = {h \in Hooks : hook[h] \in {"active", "inactive"}}]
    /\ pc' = [pc EXCEPT ![d] = "adding"]
    /\ UNCHANGED <<handlerVars, jobs, hook, now, crashes, queued, merged, skipped, actVars>>

\* One turn of dispatchWebhook's loop.
AddHookJob(d) ==
    /\ pc[d] = "adding"
    /\ \E h \in todo[d] :
        /\ Add("webhook", d, h)
        /\ todo' = [todo EXCEPT ![d] = @ \ {h}]
    /\ UNCHANGED <<handlerVars, hook, pc, now, crashes, skipped, actVars>>

EndDispatch(d) ==
    /\ pc[d] = "adding"
    /\ todo[d] = {}
    /\ pc' = [pc EXCEPT ![d] = "ok"]
    /\ UNCHANGED <<handlerVars, jobs, hook, todo, now, crashes, queued, merged, skipped, actVars>>

\* Valkey refuses a job: the hooks not reached get none.
DispatchFails(d) ==
    /\ StoreFails
    /\ pc[d] = "adding" /\ todo[d] # {}
    /\ pc' = [pc EXCEPT ![d] = "failed"]
    /\ UNCHANGED <<handlerVars, jobs, hook, todo, now, crashes, queued, merged, skipped, actVars>>

-----------------------------------------------------------------------------
(***************************************************************************)
(* The workers of the two queues                                           *)
(***************************************************************************)

Take(j) ==
    /\ j \in jobs /\ j.state = "waiting"
    /\ jobs' = (jobs \ {j}) \cup {[j EXCEPT !.state = "active"]}
    /\ UNCHANGED <<handlerVars, dispatchVars, now, crashes, queued, merged, skipped, actVars>>

\* The target has acted on job j.
Act(j) == acts' = [acts EXCEPT ![<<j.src, j.to>>] = @ + 1]

\* removeOnComplete.
Complete(j) == jobs' = jobs \ {j}

\* The processor threw: another attempt later, or the job has failed.
Retry(j) ==
    jobs' = (jobs \ {j}) \cup
        {[j EXCEPT !.tries = @ + 1,
                   !.state = IF j.tries + 1 < Attempts THEN "waiting" ELSE "failed"]}

\* Variant of the processor's end that throws after a success too.
Attempt_ThrowAlways(j) ==
    /\ j \in jobs /\ j.state = "active"
    /\ \/ Retry(j) /\ Act(j) /\ UNCHANGED faulted
       \/ Retry(j) /\ UNCHANGED actVars
       \/ Retry(j) /\ Act(j) /\ faulted' = faulted \cup {<<j.src, j.to>>}
    /\ UNCHANGED <<handlerVars, dispatchVars, now, crashes, queued, merged, skipped>>

\* A processor's end: answered in time, refused, or an answer that came as an
\* error, after the abort, or never, although the target had acted.
Attempt(j) ==
    /\ j \in jobs /\ j.state = "active"
    /\ \/ Complete(j) /\ Act(j) /\ UNCHANGED faulted
       \/ Retry(j) /\ UNCHANGED actVars
       \/ Retry(j) /\ Act(j) /\ faulted' = faulted \cup {<<j.src, j.to>>}
    /\ UNCHANGED <<handlerVars, dispatchVars, now, crashes, queued, merged, skipped>>

\* The e-mail worker: ResendEmailService.send throws when Resend reports an error.
SendEmail(j) == j.kind \in {"welcome", "email"} /\ Attempt(j)

\* The webhook worker: a POST that it gives up after 30 s, or whose status is
\* not 2xx, throws.
CallWebhook(j) == j.kind = "webhook" /\ Attempt(j)

\* The worker process dies and is started again.  Its runs are gone; a job it
\* held is put back once, and has failed the second time.  Each of those had
\* acted or not.
Crash ==
    /\ crashes < MaxCrashes
    /\ crashes' = crashes + 1
    /\ result' = [r \in Runs |-> IF result[r] = "none" /\ step[r] > 0 THEN "lost" ELSE result[r]]
    /\ \E acted \in SUBSET {j \in jobs : j.state = "active"} :
        LET pairs == {<<j.src, j.to>> : j \in acted} IN
        /\ acts' = [x \in DOMAIN acts |-> IF x \in pairs THEN acts[x] + 1 ELSE acts[x]]
        /\ faulted' = faulted \cup pairs
    /\ jobs' = {IF j.state # "active" THEN j
                ELSE [j EXCEPT !.stalls = @ + 1,
                               !.state = IF j.stalls = 0 THEN "waiting" ELSE "failed"] : j \in jobs}
    /\ UNCHANGED <<run, step, rows, dispatchVars, now, queued, merged, skipped>>

Tick ==
    /\ now < MaxNow
    /\ now' = now + 1
    /\ UNCHANGED <<handlerVars, jobs, dispatchVars, crashes, queued, merged, skipped, actVars>>

-----------------------------------------------------------------------------
RunStep(r) ==
    \/ EnqueueEmail(r) \/ SkipEmail(r) \/ Notify(r) \/ NotifyAdmin(r)
    \/ NotifyOtherBidders(r) \/ CallFails(r) \/ Finish(r)

DispatchStep(d) == ReadHooks(d) \/ AddHookJob(d) \/ EndDispatch(d) \/ DispatchFails(d)

JobStep == \E j \in jobs : Take(j) \/ SendEmail(j) \/ CallWebhook(j)

Next ==
    \/ \E r \in Runs : Receive(r) \/ RunStep(r)
    \/ \E h \in Hooks : CreateHook(h) \/ SetHook(h) \/ DeleteHook(h)
    \/ \E d \in Dispatches : DispatchStep(d)
    \/ JobStep
    \/ Crash \/ Tick

Spec == Init /\ [][Next]_vars

-----------------------------------------------------------------------------
(***************************************************************************)
(* Properties                                                              *)
(***************************************************************************)

Jobs == [kind : {"welcome", "email", "webhook"}, src : Sources, to : Targets, at : 0..MaxNow,
         state : {"waiting", "active", "failed"}, tries : 0..Attempts, stalls : 0..2]

Requests == [src : Sources, to : Targets, kind : {"welcome", "email", "webhook"}, at : 0..MaxNow]

TypeOK ==
    /\ run \in [Runs -> [kind : AllKinds \cup {"none"}, craftsman : {Craftsman, NoUser}]]
    /\ step \in [Runs -> 0..5]
    /\ result \in [Runs -> {"none", "ok", "failed", "lost"}]
    /\ rows \subseteq Runs \X (1..4)
    /\ jobs \subseteq Jobs
    /\ hook \in [Hooks -> {"none", "active", "inactive", "deleted"}]
    /\ pc \in [Dispatches -> {"idle", "adding", "ok", "failed"}]
    /\ todo \in [Dispatches -> SUBSET Hooks]
    /\ now \in 0..MaxNow
    /\ crashes \in 0..MaxCrashes
    /\ queued \subseteq Requests /\ merged \subseteq Requests
    /\ skipped \subseteq Runs
    /\ acts \in [Sources \X Targets -> Nat]
    /\ faulted \subseteq Sources \X Targets

\* A mail or webhook is dropped in favour of another job only if that job was
\* asked for in the same millisecond, by another run or dispatch, for the same
\* target: job ids keep apart what different moments ask for.
DroppedForATwin ==
    \A m \in merged : \E q \in queued :
        q.kind = m.kind /\ q.to = m.to /\ q.at = m.at /\ q.src # m.src

\* A user gets one mail twice, or a receiver acts on one webhook twice, only if
\* an earlier attempt had acted without its worker seeing the answer (a late
\* answer, or a crash); and never more often than the attempts and the one
\* restart of a stalled job allow.
RepeatsHaveACause ==
    \A x \in Sources \X Targets :
        /\ acts[x] > 1 => x \in faulted
        /\ acts[x] <= Attempts + 1

\* What is asked for: mails by runs, webhooks by dispatches.
Pairs == (Runs \X Users) \cup (Dispatches \X Hooks)

\* Where such a request is.  A job that is gone was removed on completion, which
\* its target has acted before.
HasJob(x) == \E j \in jobs : <<j.src, j.to>> = x
Failed(x) == \E j \in jobs : <<j.src, j.to>> = x /\ j.state = "failed"
Where(x) == IF HasJob(x)
            THEN IF Failed(x) THEN "abandoned" ELSE "queued"
            ELSE IF acts[x] > 0 THEN "settled" ELSE "none"

Place == [x \in Pairs |-> Where(x)]
Acts == [x \in Pairs |-> acts[x]]
Doubt == [x \in Pairs |-> x \in faulted]

\* Every request that became a job stays queued until it is acted upon and
\* acknowledged, or given up, through late answers, retries and crashes: the
\* two queues and their workers implement the job queue.
Queue == INSTANCE JobQueue WITH
    Items <- Pairs, Limit <- Attempts + 1, place <- Place, acts <- Acts, doubt <- Doubt

ImplementsQueue == Queue!QueueSpec

\* A handler that ends normally has told every user it was to tell: the row is
\* there, and the mail was queued, dropped for a twin, or could not be
\* addressed.  Only the other bidders may have been left out.
HandledMeansTold ==
    \A r \in Runs : result[r] = "ok" =>
        \A i \in 1..Len(Calls(r)) :
            LET u == Calls(r)[i].to IN
            CASE Does(r, i) = "row" -> u \in Users /\ <<r, i>> \in rows
              [] Does(r, i) \in {"email", "welcome"} ->
                    \/ r \in skipped
                    \/ \E q \in queued \cup merged : q.src = r /\ q.to = u
              [] Does(r, i) = "bidders" -> TRUE
              [] OTHER -> FALSE
=============================================================================
