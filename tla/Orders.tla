------------------------------- MODULE Orders -------------------------------
(***************************************************************************)
(* The order life cycle: the HTTP handlers of apps/web/src/app/api/orders, *)
(* the OrderRepository they call and the order-timeout worker.             *)
(*                                                                         *)
(* A handler is a Node.js async function; between two awaits it is atomic, *)
(* and at every await any other handler or the worker may run.  A handler  *)
(* reads the order (findById), checks what it read, UPDATEs the row by id  *)
(* alone, INSERTs the outbox event in a second statement, and then does    *)
(* what its route adds.  There is no transaction and no lock, so pc[r]     *)
(* names the await request r is suspended at.                              *)
(*                                                                         *)
(* A request refused by its checks (4xx) changes nothing; it is not an     *)
(* action.  Requests is the bound on the number of admitted requests.      *)
(***************************************************************************)
EXTENDS FiniteSets

CONSTANTS
    Clients, Craftsmen, Admins,  \* user ids, by the role in the session
    ProfileId,        \* ProfileId[c]: id of craftsman c's craftsman_profiles row
    Orders,           \* ids of orders rows
    Requests,         \* admitted HTTP requests; each runs one handler once
    TimeoutJob,       \* stands for the job timeout:<orderId> as the writer
    NoUser, NoOrder, NoPrice,
    WorkerRunning,    \* is a consumer attached to the order-timeout queue?
    ClockSkew         \* may the job's delay elapse before createdAt + 48h?

Users == Clients \cup Craftsmen \cup Admins

ASSUME OrdersAssumption ==
    /\ Clients \cap Craftsmen = {}
    /\ Admins \cap (Clients \cup Craftsmen) = {}
    /\ NoUser \notin Users
    /\ NoOrder \notin Orders
    /\ NoPrice \notin Requests
    /\ TimeoutJob \notin Requests
    /\ DOMAIN ProfileId = Craftsmen
    /\ {WorkerRunning, ClockSkew} \subseteq BOOLEAN

Statuses == {"pending", "accepted", "rejected", "in_progress", "completed", "cancelled"}
Terminal == {"rejected", "completed", "cancelled"}
EventNames == {"created", "accepted", "rejected", "completed", "cancelled"}
Kinds == {"create", "accept", "reject", "cancel", "complete", "setPrice", "acceptPrice"}
Writers == Requests \cup {TimeoutJob}

VARIABLES
    \* The orders table
    status,      \* "none" before the INSERT
    client, craftsman,
    finalPrice,  \* the request that supplied final_price, or NoPrice
    priceAgreed, \* client_accepted_final_price = true
    expired,     \* now - created_at >= 48h, by the worker's clock
    \* Handlers in flight
    pc,          \* where request r is suspended
    req,         \* what it is about and what it has read
    \* Other stores
    job,         \* the BullMQ job timeout:<orderId>
    stalled,     \* that job has already been recovered from a dead worker once
    outbox,      \* rows ever inserted into event_outbox
    realtime,    \* accept requests whose update reached the Valkey channel
    notified,    \* orders whose client has the in-app timeout notification
    \* History, read by properties only
    log          \* every committed status write

rowVars == <<status, client, craftsman, finalPrice, priceAgreed, expired>>
vars == <<status, client, craftsman, finalPrice, priceAgreed, expired,
          pc, req, job, stalled, outbox, realtime, notified, log>>

Idle == [kind |-> "none", user |-> NoUser, order |-> NoOrder, seen |-> "none"]

Init ==
    /\ status = [o \in Orders |-> "none"]
    /\ client = [o \in Orders |-> NoUser]
    /\ craftsman = [o \in Orders |-> NoUser]
    /\ finalPrice = [o \in Orders |-> NoPrice]
    /\ priceAgreed = [o \in Orders |-> FALSE]
    /\ expired = [o \in Orders |-> FALSE]
    /\ pc = [r \in Requests |-> "idle"]
    /\ req = [r \in Requests |-> Idle]
    /\ job = [o \in Orders |-> "none"]
    /\ stalled = [o \in Orders |-> FALSE]
    /\ outbox = {}
    /\ realtime = {}
    /\ notified = {}
    /\ log = {}

Goto(r, label) == pc' = [pc EXCEPT ![r] = label]

\* UPDATE orders SET status = s WHERE id = o, by writer w.
SetStatus(o, s, w) ==
    /\ status' = [status EXCEPT ![o] = s]
    /\ log' = log \cup {[by |-> w, order |-> o, status |-> s]}

\* INSERT INTO event_outbox, by writer w.
AppendOutbox(o, name, w) ==
    outbox' = outbox \cup {[by |-> w, order |-> o, name |-> name]}

-----------------------------------------------------------------------------
(***************************************************************************)
(* POST /api/orders                                                        *)
(***************************************************************************)

\* The route looks the body's craftsmanId up among profile ids, then inserts
\* the same id into a column that references users.id.  findProfileById and
\* the client lookup read rows that no route deletes.
Create(r) ==
    /\ pc[r] = "idle"
    /\ \E u \in Clients, c \in Craftsmen, o \in Orders :
        /\ status[o] = "none"
        /\ req' = [req EXCEPT ![r] =
               [kind |-> "create", user |-> u, order |-> o, seen |-> "none"]]
        /\ IF ProfileId[c] \in Users
           THEN /\ SetStatus(o, "pending", r)
                /\ client' = [client EXCEPT ![o] = u]
                /\ craftsman' = [craftsman EXCEPT ![o] = ProfileId[c]]
                /\ Goto(r, "append")
           ELSE /\ Goto(r, "error")
                /\ UNCHANGED <<status, log, client, craftsman>>
    /\ UNCHANGED <<finalPrice, priceAgreed, expired, job, stalled, outbox,
                   realtime, notified>>

\* enqueueOrderTimeoutCheck, after the order and its event are committed.
\* BullMQ leaves a job alone that already has this id.
EnqueueTimeout(r) ==
    /\ pc[r] = "enqueue"
    /\ job' = [job EXCEPT ![req[r].order] = IF @ = "none" THEN "delayed" ELSE @]
    /\ Goto(r, "ok")
    /\ UNCHANGED <<rowVars, req, stalled, outbox, realtime, notified, log>>

-----------------------------------------------------------------------------
(***************************************************************************)
(* Read and check: the first awaited query of each PATCH route             *)
(***************************************************************************)

Admit(r, kind, u, o, label) ==
    /\ pc[r] = "idle"
    /\ status[o] # "none"
    /\ req' = [req EXCEPT ![r] =
           [kind |-> kind, user |-> u, order |-> o, seen |-> status[o]]]
    /\ Goto(r, label)
    /\ UNCHANGED <<rowVars, job, stalled, outbox, realtime, notified, log>>

ReadForAccept(r) ==
    \E u \in Craftsmen, o \in Orders :
        /\ craftsman[o] = u
        /\ status[o] = "pending"
        /\ Admit(r, "accept", u, o, "write")

\* Variant of the reject check that also admits an accepted order.
ReadForReject_Late(r) ==
    \E u \in Craftsmen, o \in Orders :
        /\ craftsman[o] = u
        /\ status[o] \in {"pending", "accepted"}
        /\ Admit(r, "reject", u, o, "write")

ReadForReject(r) ==
    \E u \in Craftsmen, o \in Orders :
        /\ craftsman[o] = u
        /\ status[o] = "pending"
        /\ Admit(r, "reject", u, o, "write")

\* Variant of the cancel check without the test of the status.
ReadForCancel_AnyStatus(r) ==
    \E u \in Users, o \in Orders :
        /\ u \in Clients => client[o] = u
        /\ u \in Craftsmen => craftsman[o] = u
        /\ Admit(r, "cancel", u, o, "write")

ReadForCancel(r) ==
    \E u \in Users, o \in Orders :
        /\ u \in Clients => client[o] = u
        /\ u \in Craftsmen => craftsman[o] = u
        /\ status[o] \in {"pending", "accepted"}
        /\ Admit(r, "cancel", u, o, "write")

\* Variant of the complete check that also admits a pending order.
ReadForComplete_Pending(r) ==
    \E u \in Craftsmen, o \in Orders :
        /\ craftsman[o] = u
        /\ status[o] \in {"pending", "in_progress", "accepted"}
        /\ Admit(r, "complete", u, o, "write")

\* The body's finalPrice is required; the request stands for its value.
ReadForComplete(r) ==
    \E u \in Craftsmen, o \in Orders :
        /\ craftsman[o] = u
        /\ status[o] \in {"in_progress", "accepted"}
        /\ Admit(r, "complete", u, o, "write")

\* Variant of the craftsman's PATCH that does not look at the status.
ReadForSetPrice_AnyStatus(r) ==
    \E u \in Craftsmen, o \in Orders :
        /\ craftsman[o] = u
        /\ Admit(r, "setPrice", u, o, "patch")

\* PATCH /api/orders/[id] by a craftsman, with finalPrice in the body.
ReadForSetPrice(r) ==
    \E u \in Craftsmen, o \in Orders :
        /\ craftsman[o] = u
        /\ status[o] = "completed"
        /\ Admit(r, "setPrice", u, o, "patch")

\* PATCH /api/orders/[id] by a client, with clientAcceptedFinalPrice.
ReadForAcceptPrice(r) ==
    \E u \in Clients, o \in Orders :
        /\ client[o] = u
        /\ status[o] = "completed"
        /\ Admit(r, "acceptPrice", u, o, "patch")

-----------------------------------------------------------------------------
(***************************************************************************)
(* The UPDATE by id, with no condition on the status                       *)
(***************************************************************************)

StatusOf == [accept |-> "accepted", reject |-> "rejected",
             complete |-> "completed", cancel |-> "cancelled",
             create |-> "pending"]

\* OrderRepository.updateStatus: the row exists, so the UPDATE matches it.
UpdateStatus(r) ==
    /\ pc[r] = "write"
    /\ req[r].kind \in {"accept", "reject", "complete"}
    /\ SetStatus(req[r].order, StatusOf[req[r].kind], r)
    /\ Goto(r, "append")
    /\ UNCHANGED <<client, craftsman, finalPrice, priceAgreed, expired, req,
                   job, stalled, outbox, realtime, notified>>

\* Variant of cancel() that reports a cancellation whether or not a row matched.
CancelRow_Unchecked(r) ==
    /\ pc[r] = "write"
    /\ req[r].kind = "cancel"
    /\ IF client[req[r].order] = req[r].user
       THEN SetStatus(req[r].order, "cancelled", r)
       ELSE UNCHANGED <<status, log>>
    /\ Goto(r, "append")
    /\ UNCHANGED <<client, craftsman, finalPrice, priceAgreed, expired, req,
                   job, stalled, outbox, realtime, notified>>

\* OrderRepository.cancel: WHERE id = ? AND client_id = userId.  For anyone
\* but the owner no row is returned and reading updated.id throws.
CancelRow(r) ==
    /\ pc[r] = "write"
    /\ req[r].kind = "cancel"
    /\ IF client[req[r].order] = req[r].user
       THEN /\ SetStatus(req[r].order, "cancelled", r)
            /\ Goto(r, "append")
       ELSE /\ Goto(r, "error")
            /\ UNCHANGED <<status, log>>
    /\ UNCHANGED <<client, craftsman, finalPrice, priceAgreed, expired, req,
                   job, stalled, outbox, realtime, notified>>

\* OrderRepository.update with finalPrice, from the craftsman's PATCH; the
\* body may carry null.
PatchFinalPrice(r) ==
    /\ pc[r] = "patch"
    /\ req[r].kind = "setPrice"
    /\ \E p \in {r, NoPrice} :
        finalPrice' = [finalPrice EXCEPT ![req[r].order] = p]
    /\ Goto(r, "ok")
    /\ UNCHANGED <<status, client, craftsman, priceAgreed, expired, req, job,
                   stalled, outbox, realtime, notified, log>>

\* OrderRepository.update with clientAcceptedFinalPrice, from the client's.
PatchAcceptPrice(r) ==
    /\ pc[r] = "patch"
    /\ req[r].kind = "acceptPrice"
    /\ \E answer \in BOOLEAN :
        priceAgreed' = [priceAgreed EXCEPT ![req[r].order] = answer]
    /\ Goto(r, "ok")
    /\ UNCHANGED <<status, client, craftsman, finalPrice, expired, req, job,
                   stalled, outbox, realtime, notified, log>>

-----------------------------------------------------------------------------
(***************************************************************************)
(* The outbox INSERT, and what the route does after the repository call    *)
(***************************************************************************)

\* Variant that names the event after the route rather than the status.
EventOf_Route(kind) == kind

EventOf(kind) == IF kind = "create" THEN "created" ELSE StatusOf[kind]

\* Variant of POST /api/orders that answers before it queues the job.
AfterAppend_NoJob == [create |-> "ok", accept |-> "publish", complete |-> "price",
                      reject |-> "ok", cancel |-> "ok"]

AfterAppend == [create |-> "enqueue", accept |-> "publish", complete |-> "price",
                reject |-> "ok", cancel |-> "ok"]

AppendEvent(r) ==
    /\ pc[r] = "append"
    /\ AppendOutbox(req[r].order, EventOf(req[r].kind), r)
    /\ Goto(r, AfterAppend[req[r].kind])
    /\ UNCHANGED <<rowVars, req, job, stalled, realtime, notified, log>>

\* publishOrderUpdate swallows a failed publish.
PublishAccepted(r) ==
    /\ pc[r] = "publish"
    /\ \/ realtime' = realtime \cup {r}
       \/ UNCHANGED realtime
    /\ Goto(r, "ok")
    /\ UNCHANGED <<rowVars, req, job, stalled, outbox, notified, log>>

\* The complete route stores the price with a second UPDATE.
SetFinalPrice(r) ==
    /\ pc[r] = "price"
    /\ finalPrice' = [finalPrice EXCEPT ![req[r].order] = r]
    /\ Goto(r, "ok")
    /\ UNCHANGED <<status, client, craftsman, priceAgreed, expired, req, job,
                   stalled, outbox, realtime, notified, log>>

InFlight == {"write", "patch", "append", "publish", "price", "enqueue"}

\* A statement fails, or the process dies, at the await r is suspended at.
\* What was committed stays; nothing is retried.
Fail(r) ==
    /\ pc[r] \in InFlight
    /\ Goto(r, "failed")
    /\ UNCHANGED <<rowVars, req, job, stalled, outbox, realtime, notified, log>>

-----------------------------------------------------------------------------
(***************************************************************************)
(* The order-timeout worker                                                *)
(***************************************************************************)

\* 48 hours pass since created_at.
Expire(o) ==
    /\ status[o] # "none"
    /\ ~expired[o]
    /\ expired' = [expired EXCEPT ![o] = TRUE]
    /\ UNCHANGED <<status, client, craftsman, finalPrice, priceAgreed, pc, req,
                   job, stalled, outbox, realtime, notified, log>>

\* A worker may take the job: its delay, counted on the web server's clock,
\* has elapsed.  As worker processes are started today none consumes the queue
\* (WorkerConsumesQueues of Outbox); WorkerRunning checks the job's code as it
\* is written.
JobDue(o) ==
    /\ WorkerRunning
    /\ job[o] = "delayed"
    /\ expired[o] \/ ClockSkew

\* Variant of the worker without the age test.
JobRead_NoAge(o) ==
    /\ JobDue(o)
    /\ job' = [job EXCEPT ![o] = IF status[o] = "pending" THEN "write" ELSE "done"]
    /\ UNCHANGED <<rowVars, pc, req, stalled, outbox, realtime, notified, log>>

\* The worker reads the order, and returns when it is not pending or not yet
\* 48 hours old.
JobRead(o) ==
    /\ JobDue(o)
    /\ job' = [job EXCEPT ![o] =
           IF status[o] = "pending" /\ expired[o] THEN "write" ELSE "done"]
    /\ UNCHANGED <<rowVars, pc, req, stalled, outbox, realtime, notified, log>>

\* Variant of the worker that notifies without appending the event.
JobUpdate_NoEvent(o) ==
    /\ job[o] = "write"
    /\ SetStatus(o, "rejected", TimeoutJob)
    /\ job' = [job EXCEPT ![o] = "notify"]
    /\ UNCHANGED <<client, craftsman, finalPrice, priceAgreed, expired, pc, req,
                   stalled, outbox, realtime, notified>>

JobUpdate(o) ==
    /\ job[o] = "write"
    /\ SetStatus(o, "rejected", TimeoutJob)
    /\ job' = [job EXCEPT ![o] = "append"]
    /\ UNCHANGED <<client, craftsman, finalPrice, priceAgreed, expired, pc, req,
                   stalled, outbox, realtime, notified>>

JobAppend(o) ==
    /\ job[o] = "append"
    /\ AppendOutbox(o, "rejected", TimeoutJob)
    /\ job' = [job EXCEPT ![o] = "notify"]
    /\ UNCHANGED <<rowVars, pc, req, stalled, realtime, notified, log>>

\* notifyOrderTimeout swallows a failed INSERT.
JobNotify(o) ==
    /\ job[o] = "notify"
    /\ \/ notified' = notified \cup {o}
       \/ UNCHANGED notified
    /\ job' = [job EXCEPT ![o] = "done"]
    /\ UNCHANGED <<rowVars, pc, req, stalled, outbox, realtime, log>>

ActiveJob == {"write", "append", "notify"}

\* A statement of the job throws (one attempt only: the producer sets none;
\* the notification's INSERT is caught), or the worker that holds the job dies
\* for the second time.
JobFail(o) ==
    /\ \/ JobDue(o)
       \/ job[o] \in {"write", "append"}
       \/ job[o] = "notify" /\ stalled[o]
    /\ job' = [job EXCEPT ![o] = "failed"]
    /\ UNCHANGED <<rowVars, pc, req, stalled, outbox, realtime, notified, log>>

\* The worker that holds the job dies; BullMQ hands the stalled job out once
\* more (maxStalledCount is left at its default of 1).
JobStall(o) ==
    /\ job[o] \in ActiveJob
    /\ ~stalled[o]
    /\ job' = [job EXCEPT ![o] = "delayed"]
    /\ stalled' = [stalled EXCEPT ![o] = TRUE]
    /\ UNCHANGED <<rowVars, pc, req, outbox, realtime, notified, log>>

-----------------------------------------------------------------------------
ReadRequest(r) ==
    \/ ReadForAccept(r) \/ ReadForReject(r) \/ ReadForCancel(r)
    \/ ReadForComplete(r) \/ ReadForSetPrice(r) \/ ReadForAcceptPrice(r)

ContinueRequest(r) ==
    \/ UpdateStatus(r) \/ CancelRow(r) \/ PatchFinalPrice(r)
    \/ PatchAcceptPrice(r) \/ AppendEvent(r) \/ PublishAccepted(r)
    \/ SetFinalPrice(r) \/ EnqueueTimeout(r)

RunJob(o) == JobRead(o) \/ JobUpdate(o) \/ JobAppend(o) \/ JobNotify(o)

Next ==
    \/ \E r \in Requests :
        Create(r) \/ ReadRequest(r) \/ ContinueRequest(r) \/ Fail(r)
    \/ \E o \in Orders : Expire(o) \/ RunJob(o) \/ JobFail(o) \/ JobStall(o)

Spec == Init /\ [][Next]_vars
-----------------------------------------------------------------------------
(***************************************************************************)
(* Properties                                                              *)
(***************************************************************************)

RequestInfo == [kind: Kinds \cup {"none"}, user: Users \cup {NoUser},
                order: Orders \cup {NoOrder}, seen: Statuses \cup {"none"}]
PcLabels == InFlight \cup {"idle", "ok", "error", "failed"}
JobStates == ActiveJob \cup {"none", "delayed", "done", "failed"}
Writes == [by: Writers, order: Orders, status: Statuses]
Events == [by: Writers, order: Orders, name: EventNames]

\* Every table, job and suspended handler holds a value of its type; an event
\* is only ever one of the five names the outbox consumers know.
TypeOK ==
    /\ status \in [Orders -> Statuses \cup {"none"}]
    /\ client \in [Orders -> Clients \cup {NoUser}]
    /\ craftsman \in [Orders -> Users \cup {NoUser}]
    /\ finalPrice \in [Orders -> Requests \cup {NoPrice}]
    /\ priceAgreed \in [Orders -> BOOLEAN]
    /\ expired \in [Orders -> BOOLEAN]
    /\ pc \in [Requests -> PcLabels]
    /\ req \in [Requests -> RequestInfo]
    /\ job \in [Orders -> JobStates]
    /\ stalled \in [Orders -> BOOLEAN]
    /\ outbox \subseteq Events
    /\ realtime \subseteq Requests
    /\ notified \subseteq Orders
    /\ log \subseteq Writes

\* Some handler committed status s for order o.
Wrote(o, s) == \E e \in log : e.order = o /\ e.status = s

\* An order is completed only if its craftsman's acceptance was committed at
\* some time before, although the complete route checks a status that other
\* handlers may have overwritten by the time it writes.
CompletedWasAccepted ==
    \A o \in Orders : Wrote(o, "completed") => Wrote(o, "accepted")

\* No phantom events: an outbox row's writer committed exactly the status
\* change the row announces, on that order.
EventsMatchWrites ==
    \A e \in outbox : \E w \in log :
        /\ w.by = e.by
        /\ w.order = e.order
        /\ e.name = IF w.status = "pending" THEN "created" ELSE w.status

\* No event is lost in silence: a committed change lacks its outbox row only
\* while its writer still has the INSERT to do, or if a fault stopped it
\* between the two statements.
LostEventsHaveACause ==
    \A w \in log :
        \/ \E e \in outbox : e.by = w.by /\ e.order = w.order
        \/ IF w.by = TimeoutJob
           THEN job[w.order] \in {"append", "failed"} \/ stalled[w.order]
           ELSE pc[w.by] \in {"append", "failed"}

\* Who may write what: only the owner's request cancels, only the assigned
\* craftsman's accepts, rejects or completes, and the job rejects only an
\* order that is 48 hours old.
Authorised(w) ==
    /\ w.by = TimeoutJob => w.status = "rejected" /\ expired[w.order]
    /\ w.by \in Requests =>
           req[w.by].user = IF w.status \in {"pending", "cancelled"}
                            THEN client[w.order] ELSE craftsman[w.order]

WritersAuthorised == \A w \in log : Authorised(w)

\* A final price was named by the assigned craftsman, and neither it nor the
\* client's agreement to it is ever recorded for an order that was not once
\* completed.
PriceAfterCompletion ==
    \A o \in Orders :
        /\ finalPrice[o] # NoPrice =>
               /\ req[finalPrice[o]].user = craftsman[o]
               /\ Wrote(o, "completed")
        /\ priceAgreed[o] => Wrote(o, "completed")

\* The client is told of a timeout only after the rejection and its event are
\* both committed.
TimeoutNoticeIsBacked ==
    \A o \in notified :
        /\ [by |-> TimeoutJob, order |-> o, status |-> "rejected"] \in log
        /\ [by |-> TimeoutJob, order |-> o, name |-> "rejected"] \in outbox

\* No order waits for ever unnoticed: one without a timeout job still has its
\* creation under way, or a fault stopped that creation after the INSERT.
UntimedOrderHasACause ==
    \A o \in Orders : status[o] # "none" /\ job[o] = "none" =>
        \E r \in Requests :
            /\ req[r].kind = "create"
            /\ req[r].order = o
            /\ pc[r] \in {"append", "enqueue", "failed"}

\* A handler or the job has read o and has a status write still to make.
PendingWriter(o) ==
    \/ \E r \in Requests : pc[r] = "write" /\ req[r].order = o
    \/ job[o] = "write"

\* A terminal status is final as soon as no handler that read an earlier one
\* is still in flight: nothing overwrites it, and no new writer is admitted.
QuietTerminalIsFinal ==
    [][\A o \in Orders :
         status[o] \in Terminal /\ ~PendingWriter(o) =>
             status'[o] = status[o] /\ ~PendingWriter(o)']_vars

\* The order state diagram of docs/diagrams/data-flow-order.md, as the routes
\* implement it.
DiagramEdges == { <<"pending", "accepted">>, <<"pending", "rejected">>,
                  <<"pending", "cancelled">>, <<"accepted", "completed">>,
                  <<"accepted", "cancelled">> }

\* A write that comes while the status is still the one its handler read is
\* an edge of the state diagram; every other transition is a stale write.
FreshWritesFollowDiagram ==
    [][/\ \A r \in Requests :
            LET o == req[r].order IN
            pc[r] = "write" /\ pc'[r] = "append" /\ req[r].seen = status[o]
                => <<status[o], status'[o]>> \in DiagramEdges
       /\ \A o \in Orders :
            job[o] = "write" /\ job'[o] = "append" /\ status[o] = "pending"
                => <<status[o], status'[o]>> \in DiagramEdges]_vars

\* The orders, their history included, behave as the ledger promises.
Ledger == INSTANCE OrderLedger WITH
    current <- status,
    reached <- [o \in Orders |-> {s \in Statuses : Wrote(o, s)}]

ImplementsLedger == Ledger!LedgerSpec

-----------------------------------------------------------------------------
(***************************************************************************)
(* What the documentation says of orders and the code does not do          *)
(***************************************************************************)

\* "Status: completed -> Status is final; cannot be changed back"
\* (docs/diagrams/data-flow-order.md).
CompletedIsFinal ==
    [][\A o \in Orders : status[o] = "completed" => status'[o] = "completed"]_vars

\* "craftsmanId: dto.craftsmanId", a user id looked up by
\* craftsmanProfiles.userId (docs/diagrams/data-flow-order.md): naming an
\* existing craftsman does not make the order's INSERT fail.
KnownCraftsmanGetsOrder ==
    \A r \in Requests : req[r].kind = "create" => pc[r] # "error"
=============================================================================
