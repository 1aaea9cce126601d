# A TLA+ verification of HeRaFiNo

HeRaFiNo is a marketplace between clients and craftsmen: a Next.js application whose API routes write to PostgreSQL,
a worker process (`apps/workers`) that relays events and runs BullMQ jobs over Valkey, and a WebSocket server. This
directory holds TLA+ models of its core, TLC configurations that check them on small instances, and TLAPS proofs of
theorems that hold for every instance.

The question behind all of them: **no handler of this system uses a transaction or a lock.** A handler reads a row,
checks it, `UPDATE`s it by id, `INSERT`s an outbox event in a second statement, and then talks to another store. At
every `await` any other handler may run and the process may die. What is still true?

## 1. Inventory

### Components, their state and their operations

| Component | Code | State | Operations |
|---|---|---|---|
| Orders | `apps/web/src/app/api/orders/**`, `order.repository.ts` | `orders` rows | create, accept, reject, cancel, complete, set the final price, accept the final price |
| Order timeout | `webhook-dispatcher.service.ts` (producer), `order-timeout.worker.ts` | BullMQ job `timeout:<orderId>` | enqueue with a 48 h delay; read, reject, append, notify; stall, fail |
| Event outbox | `outbox-repository.ts`, `outbox-processor.ts`, `valkey-event-bus.ts` | `event_outbox` rows; the batch in memory; the subscriptions of one connection | append, getPending, publish, markCompleted, markFailed, handle a message |
| Worker process | `apps/workers/src/{index,worker}.ts` | consumers of three queues | start-up, signal, crash and restart |
| Moderation | `api/admin/craftsmen/**`, `craftsman.repository.ts`, `moderation.ts`, `moderation.service.ts` | `craftsman_profiles`, `users.is_deleted` | register, approve, reject, freeze, unfreeze, ban, the ban cascade |
| Sessions | `auth.ts`, `proxy.ts`, `api/users/onboarding` | `users.role`, `users.onboarding_complete`, the JWT | choose an account type, sign in, refresh the token |
| Complaints | `complaint.repository.ts`, two families of routes | `complaints` | file, investigate, resolve, dismiss |
| Reviews | `review.repository.ts`, `api/reviews` | `reviews`, unique per order | create |
| Event handlers, e-mail | `worker.ts:47-382`, `event-handlers/`, `email.queue.ts` | `notifications`, BullMQ `email` queue | one handler per event, three attempts per mail |
| Webhooks | `webhook.worker.ts`, `api/admin/webhooks` | `webhooks`, BullMQ `webhook` queue | dispatch, deliver with an abort after 30 s, three attempts |
| WebSocket server | `apps/web/src/ws/server.ts` | clients, rooms | authenticate, subscribe, broadcast, heartbeat, shut down |
| Proxy, rate limiter | `proxy.ts`, `rate-limit.middleware.ts`, `rate-limit.service.ts` | a counter per address in Valkey | check; redirect by role and onboarding |
| WebSocket client | `ws-provider.tsx` | a socket, a reconnect timer, what the pages are told | connect, reconnect, send, disconnect |
| Dashboards | `app/dashboard/**`, `orders/new`, `craftsmen/[id]`, `query-provider.tsx` | the browser's query cache | show, refetch, a mutation per button, invalidate |
| Search, uploads, statistics, audit, health, the rest of the UI | see `PROJECT.json` | rows that nothing else reads, or none | reads and pure I/O |

### How they interact

* Routes and the timeout job share the `orders` table; each sees the others only through the row it read.
* Orders and moderation append to `event_outbox`; the processor of the worker process publishes the rows on Valkey
  channels, on which the same process listens for its event handlers.
* `POST /api/orders` puts the timeout job into BullMQ, whose consumer `startWorkerService` creates.
* Moderation writes `craftsman_profiles.status`; `users.onboarding_complete` caches "reviewed and accepted", and the
  JWT caches that. The JWT callback writes the middle cache too.
* A ban queues a webhook; an acceptance publishes on the WebSocket server's channel.
* The event handlers insert notifications and fill the e-mail queue; the jobs outlive the worker, the handlers do not.
* The dashboards learn of other people's writes only by fetching again, and of their own by what each mutation invalidates.

### What is hard, and what makes each part correct

* **Orders**: stale checks. A handler that read `accepted` cancels an order completed in the meantime. Correct means:
  a completion presupposes an acceptance, only those entitled write, and everything outside the state diagram is
  traceable to a stale writer. Events must not be phantom, and may be lost only by a fault.
* **Timeout**: the job crosses two stores and may be run twice. Correct means: no young order is rejected, no order lacks
  its job without a fault, and nobody is told of a rejection that was not committed.
* **Outbox**: several workers hold the same rows, crash between publishing and marking, or fail to mark. Correct means:
  order is kept, completed implies announced, repetition has a cause, and the backlog drains.
* **Moderation and sessions**: lost strikes, a cascade cut short, three copies of one fact written by racing parties.
  Correct means: no ban without cause, none skipped unless a fault stops it, and the copies converge.

* **Complaints and reviews**: a check, the write that relies on it and the event about it are three statements. Correct
  means: one review per order, a decision is overruled only by somebody who could not have known, and the last event about
  a complaint says what its row says.
* **Delivery**: handlers that fail in the middle, jobs that are tried again after they had worked, job ids made of the
  clock. Correct means: who counts as told was told, and nobody is told twice or not at all without a cause.
* **Gate**: a counter read and written in two commands, over the boundary of its window, the second of which may run late,
  twice, or unheard of. Correct means: the limit can be exceeded, and a request turned away before it is reached, only so.
* **Sockets**: two programs that each believe something about a connection. Correct means: the two records of who is in
  a room agree, a dead connection is forgotten, a page that says "connected" is, and nobody is left without a socket and
  without an attempt to get one.
* **Dashboards**: answers that arrive after they have been overtaken, buttons offered on what a row was. Correct means: who
  was told that a change succeeded sees the state before it afterwards only for a reason that can be named, and a route
  refuses a button only when the row has moved on.

`PROJECT.json` lists every hazard with its line and the properties that watch it.

## 2. Modules

| Module | What it is |
|---|---|
| `Orders` | the seven order handlers and the timeout job, one action per statement between awaits |
| `OrderLedger` | abstract: what an order's history promises whatever interleaves |
| `OrdersProofs` | theorems about `Orders` |
| `Outbox` | table, processor loop, bus and worker process |
| `EventRelay` | abstract: announced in order, announced before completed |
| `OutboxProofs` | theorems about `Outbox` |
| `Moderation` | registration, admin routes, ban cascade, JWT callback |
| `CraftsmanStanding` | abstract: decisions stay on record, a ban's consequences come in order and with grounds, trust follows an acceptance |
| `ModerationProofs` | theorems about `Moderation` |
| `Feedback`, `FeedbackProofs` | the routes that write complaints and reviews, and theorems about them |
| `JobQueue` | abstract: a job stays until it is acknowledged or given up, and acts again only in doubt |
| `Delivery`, `DeliveryProofs` | event handlers, notifications, webhooks, the e-mail and webhook queues and their workers |
| `Gate`, `GateProofs` | the proxy: the limiter and the rules behind it |
| `WsLink` | the connections, as browser and WebSocket server share them |
| `WsServer`, `WsProvider` | the two programs at the ends of a connection |
| `WsSystem`, `WsProofs` | the two composed, with a network that loses connections, and theorems about both |
| `QueryCache` | TanStack Query as the pages use it (external) |
| `Pages`, `PagesProofs` | the dashboards on top of it |
| `MC...` | constants, symmetry and scopes for TLC |

`Orders` and `Outbox` are separate because they share only `append`, an `INSERT` that cannot conflict; `Orders` keeps the
set of rows appended, `Outbox` starts from the row being there. The constant `WorkerRunning` of `Orders` stands for a consumer
of the timeout queue. As the worker is started today there is none (`WorkerConsumesQueues`, section 6); with
`WorkerRunning = TRUE` the job's code is checked as it is written. What is safe with the job is safe without it.

Definitions named `X_Something`, each introduced by a comment "Variant of ...", are plausible wrong versions of `X`. They
are used nowhere; they show that each property would notice such a bug.

### Reading `Orders`

`pc[r]` is the `await` at which the handler of request `r` is suspended, `req[r]` what it has read; `job[o]` is the same
for the timeout job.

| Action | Code |
|---|---|
| `Create` | the POST handler up to the INSERT of the row, whose foreign key decides whether it succeeds |
| `ReadForAccept` ... `ReadForAcceptPrice` | `findById` and every check of the PATCH route; a refusal (4xx) changes nothing and is no action |
| `UpdateStatus`, `CancelRow` | the UPDATE by id; `cancel` also matches the client and throws on no row |
| `AppendEvent` | `outbox.append`, a second statement |
| `PublishAccepted`, `SetFinalPrice`, `EnqueueTimeout` | what accept, complete and POST do afterwards |
| `PatchFinalPrice`, `PatchAcceptPrice` | `update()` by PATCH `/api/orders/[id]` |
| `Fail` | the statement throws or the process dies; what was committed stays |
| `JobRead`, `JobUpdate`, `JobAppend`, `JobNotify` | the worker's callback |
| `JobFail`, `JobStall` | one attempt only; a stalled job is handed out once more (BullMQ's default) |
| `Expire` | 48 h have passed since `created_at` |

Prices are represented by the request that supplied them. `in_progress` is in the type of the column, but no route
writes it.

### Reading `Outbox`

Rows are numbered in the order of `created_at` (ties are not modelled). `aged` counts the rows older than the 24 hours
that `getPending` asks for. `batch[w]` is the rest of the array the `for` loop walks. `channels[w]` are the channels the
worker's single connection is subscribed to: a connection that listens refuses `PUBLISH`, so `Publish` requires
`channels[w] = {}` and `PublishRejected` covers the refusal. A client that resends a command after a reconnect counts as
one `PUBLISH`. `Crash` also stands for signals: the handler that `main()` registers calls `process.exit` before anything
is closed, so the graceful path (`stop()`) is never reached; `running` therefore stays true while a worker is up, and
the second branch of `Poll` is there because the code has it.

### Reading `Moderation`

`status`, `strikes` and `mark` are the profile's `status`, `freeze_count` and `freeze_reason`; `flag` is
`onboarding_complete`. `SyncRead`, `SyncProfile` and `SyncWrite` are the three database accesses of the JWT callback, for
a sign-in and for a refresh alike; `SyncFail` is a refresh that throws after it has assigned `token.role`. Admins and
their tokens are exempt in the code and left out. One callback per session runs at a time. `deleted` is written and
never read: no sign-in and no route looks at `is_deleted`. The initial state is a user just created by a first sign-in.

### Reading `Feedback`

A request is a handler at work: `req[q]` says what it is for, `pc[q]` the database call it is at, `answer[q]` the status
it was answered with. `Start` enters who is at work on the same row (`overlap`). `writes[c]` and `log[c]` record who wrote
the row of complaint `c` and whose event about it got into the outbox. `OrderChanges` stands for the order routes, of
which `POST /api/reviews` reads the status once. The admin routes read a complaint only to learn that it exists.

### Reading `Delivery`

A run is one delivery of an event to its handler; `step[r]` is the call of the handler it is at, and `Calls` says which
calls an event's handler makes, with the user ids its payload really has. `Does` says what `buildEventHandlers` makes of
each. `order.timed_out` is the `order.rejected` the timeout job appends, whose payload has no `clientId`. A job is tried
`Attempts` times; `faulted` are those that acted although the worker saw no answer. `Crash` kills the handlers and stalls
the jobs in hand.

### Reading `Gate`

A page request goes through one `await` at a time. `Receive` reads the counter of the client's address (`ReadFails`: the read
throws), `Send` looks at the clock for the time to live and sends `SETEX`, `Execute` is Valkey running it, from when on its
seconds count, and `Admit` is its answer coming back. The clock may tick between any two of these. `InvalidExpire` is `SETEX`
refusing a time to live of 0. `StoreFailure` is the client giving up on the answer (`maxRetriesPerRequest`): the command may
have run, may run again when it is sent over a new connection, or may still be on its way, until `Drop` says that nothing of
it is left. `Proxy` is the body of `proxy()`: the limiter's answer whenever there is one. Since `rateLimitMiddleware` answers an
admission with `NextResponse.next()`, `RoleGate`, which is the rest of `proxy()`, is never reached. It is modelled all the
same, and `MCGate` has TLC evaluate `RulesLeadSomewhere` about it for every session and path.

### Reading the sockets

`link[s]` and `up[s]` are the connection and the frames on it; they belong to both programs. `WsServer` keeps `entry`
(`clients`) and `members` (`rooms`). Its variable `finds` is chosen once: with `"clients"` it is the server as it is, where
`handleAuth` looks for the socket that logs in among the clients and never finds it, so that nobody is ever entered and
everything behind the login is dead code; with `"sockets"` it is the same server with that one lookup repaired, and the
rest of the code is checked as it is written. Both are explored in one run. `stop()`, `notifyUser` and `notifyOrder` have
no caller. `WsProvider` keeps the refs and the state of the component; `userRef` is the ref that is set at the first render
only. `isConnected` is what the pages are told, `wsRef` the socket they send through, and `open` and `heard` are the sockets
the browser has open and those whose `onclose` it has run: four things that may disagree.

### Reading `Pages`

One row of one kind is followed through one browser: the row, the cache entries of the keys that show it, the page that is
open, and the calls of its buttons. `Visit`, `Reconnect`, `Poll`, `Read`, `Arrive`, `Break`, `Age` and `Collect` are the
cache's life, `Press`, `Serve` and `Settle` a mutation's, `Others` somebody else's write. `Scopes` says which kind and keys
a behaviour follows, so that one run covers every key of every dashboard.

A route is described by the statuses it takes, those it writes to, and what it writes. Three routes take none: `CreateOrder`,
because both forms send the craftsman's user id where the route looks for a profile's (`api/orders/route.ts:71`), and
`ShowAvailable` and `ShowBusy`, because `PATCH /api/craftsmen/me` hands a profile id to a function that looks for a user's
(`me/route.ts:42`). The row of a review is its order: `open`, `completed` or `reviewed`. The dialog for it goes by two lists,
the client's orders (`via`) and the ids of those reviewed (`by`), which are fetched apart from each other.

`from` says where an entry's data came from, for the properties only: an answer that was already on its way when its key was
invalidated, and that the cache then keeps for fresh, is `"overtaken"`.

## 3. Runs

| Run | Instance | What it shows |
|---|---|---|
| `orders_safety` | 1 order, 4 requests, 2 clients, 2 craftsmen, 1 admin, clock skew | the safety properties of section 4 and the refinement of `OrderLedger`, 346 000 states |
| `orders_completed_final` | 4 requests | **violated**: a completed order becomes cancelled |
| `outbox_safety` | 2 workers, 2 events, a failing UPDATE and a crash each, broker faults | repetition, finality, refinement of `EventRelay`, 387 000 states |
| `outbox_drain` | 1 worker, 3 events in batches of 2, `FairSpec` | every aged event is settled, 5 300 states |
| `outbox_handlers` | 2 workers, 2 events, `FairSpec`, no faults | **violated**: no event gets to a handler |
| `moderation_safety` | 1 craftsman, 3 requests, 1 session, threshold 2, `FairSpec` | strikes, bans and the flag, the refinement of `CraftsmanStanding`; flag and token converge to the profile, 152 000 states |
| `feedback_safety` | 1 complaint, 1 order, 3 requests, 2 clients, 1 admin, failing INSERTs | decisions, their events, one review per order, 158 000 states |
| `delivery_safety` | 2 of 2 handler runs and 2 dispatches, 1 webhook, 2 attempts, 1 crash, failing stores | who is told, twice, or not at all, the refinement of `JobQueue`, 722 000 states |
| `gate_safety` | 1 address, 3 requests, limit 2, windows of 3 with seconds of 2, writes that are late, repeated or unanswered | the limit and whom it turns away, 3 460 000 states |
| `gate_onboarding` | 2 requests, 2 sessions | **violated**: a user who has not finished the onboarding gets any page |
| `sockets_safety` | 2 sockets, 1 order, 1 frame under way, 2 token fetches | rooms, dead connections, whether a browser is left without a socket, 1 560 000 states |
| `pages_safety` | every key of ten kinds of rows, two pairs of keys, 1 or 2 calls, up to 2 writes | old views and refusals have a cause, 658 000 states |

The violated ones quote the documentation in `PROJECT.json` under `findings`.

### Bounds

* `Requests` bounds the number of *admitted* requests, each running one handler once. For the orders four are enough for
  the longest shape in play: create, accept, and two handlers racing on what they read. Three are enough elsewhere: the
  registration and two freezes that race; two decisions about a complaint and an investigation between them; a limit of 2 and
  a third page.
* One order, craftsman, complaint or address: handlers of different ones share no row. The theorems cover any number.
* Two clients and craftsmen tell the owner from a stranger; they, the requests, the workers and the sockets are symmetric.
  Symmetry is not used where liveness is checked.
* `Threshold = 2` stands for `FREEZE_BAN_THRESHOLD = 3`: the theorems hold for every positive threshold, and two freezes
  are enough to race. `BatchLimit = 2` stands for 50, `Attempts = 2` for 3, `Max = 2` for the limiter's number of requests.
* `MaxAborts` and `MaxCrashes`, one each per worker, bound the faults; without a bound a worker could fail for ever.
* `MaxStarted = 2`: any two of the runs and dispatches, so two handlers, two dispatches or one of each are at work at once.
  `Kinds` of `delivery_safety` holds an event with a mail, a row and the bidders' INSERT, one whose payload names nobody,
  and one that ends with the row for `'admin'`; `Delivery` defines the calls of all events.
* `Window = 3`, `Second = 2`, `MaxNow = 4`: one window and most of the next. At 0 and 1 the time to live is a second, at 2 it
  rounds to 0; a write sent at 0 or 1 and run at 2 lives into the next window, where it turns the third request away. How often
  a write is repeated is not bounded.
* `MaxFrames = 1`: handling is one frame at a time, and a login with an order's subscription behind it needs no queue.
  `MaxFetches = 2` lets a second fetch begin while the first is in flight.
* `Pages`: two writes let an answer be overtaken twice; two keys together only where one mutation names both or one button
  goes by both.
* `CHECK_DEADLOCK FALSE` wherever requests, runs or sockets are finitely many, so that the system may come to rest.
* `outbox_handlers` allows no fault at all, so that no fault can be what violates the property.
* `ProfileId <- SameIds`: with generated ids no order can be created (section 6), and nothing beyond that could be checked.
  Ids are text columns with a client-side default, so a profile that shares its user's id is a state the schema admits,
  and seeded data can contain it.

### Fairness

* `Outbox`: time passes, a supervisor restarts a dead worker (`Boot`), the loop polls every second and its promises
  settle (`Loop`), a received message is handled (`Handle`); `outbox_handlers` assumes the same. Weak fairness on the
  disjunction of the loop's actions: a run where every PUBLISH fails is allowed, since the event is then marked failed.
* `Moderation`: browsers stay in use, so tokens are refreshed again and again (`SyncRead`, weak), and the database
  answers a callback's second and third statement infinitely often (`SyncProfile`, `SyncWrite`, strong, since a failing
  statement takes the callback back to its start). Nothing is assumed of requests.
* The other modules state no fairness. What a heartbeat has to do about a dead connection is stated as a bound
  (`ClosedSocketIsForgotten`), and what keeps a browser trying to connect as an invariant (`ConnectionIsBacked`).

## 4. Properties

*Orders.* `EventsMatchWrites`, `LostEventsHaveACause`, `WritersAuthorised`, `PriceAfterCompletion`,
`UntimedOrderHasACause` (invariants); `QuietTerminalIsFinal`: a terminal status changes only while a handler that read an
earlier one is in flight; `FreshWritesFollowDiagram`: a transition outside the documented diagram is always a stale write;
`ImplementsLedger`. `CompletedWasAccepted` and `TimeoutNoticeIsBacked` are theorems without a run. `CompletedIsFinal` is
violated.

That an unanswered order is rejected in the end is not among the properties, for two reasons. No worker consumes the queue
(`WorkerConsumesQueues`, section 6). And if one did, the job's delay is counted by the web server, the age by the worker from the
database's `created_at`: a job that comes a moment early finds the order too young, completes, and is never repeated; the
order then stays pending. `ClockSkew` explores that, and `WritersAuthorised` says that such a job at least rejects nothing.

*Outbox.* `RepeatsHaveACause` (invariant); `SettledRowIsFinal`: a completed row may still be turned into a failed one, but
only while a worker holds it; `ImplementsRelay`; `AgedEventSettles`. Violated: `EventReachesHandlers`, which the
repository's README promises; it holds in this model as soon as the bus publishes on a connection of its own.

*Moderation.* `StrikeOutBans`, `BanIsDeserved`, `FlagWasEarned` (invariants); `ImplementsStanding`; `CachesConverge`.
`BanIsAnnounced` is a theorem without a run.

*Feedback.* `DecidedOnce`, `LastEventTellsStatus`, `OneReviewPerOrder`.

*Delivery.* `DroppedForATwin`: a job id that already exists is that of a job asked for in the same millisecond for the same
target, and one of the two is dropped; `ImplementsQueue`: through late answers, retries and a crash in the middle of a job,
what was queued is neither forgotten nor, once acknowledged or given up, queued again; `HandledMeansTold`: a handler that ends well has told everybody
it was to tell, but for users that could not be looked up. With the timeout's event and with every event whose handler
ends with a row for `'admin'` a handler never ends well. `RepeatsHaveACause` is a theorem without a run: `JobQueue` says
as much.

*Gate.* `LimitHolds`: requests that had the counter to themselves get no more than the limit; what overlapping requests get is
not bounded by the code. `TurnedAwayForCause`: a 429 takes as many requests in its window as the limit, or a write that
carried an earlier window's count into it, by a late read, a late `SETEX` or one sent again.

*Sockets.* `RoomsAgree`, `ClosedSocketIsForgotten`; `ConnectionIsBacked`: who is told of a connection has an open socket, and a
signed-in user the component knows of has a socket not known to be closed, or an attempt to get one under way, unless no token
was to be had. It does not say that the pages are told of every connection: they are not (section 6).

*Pages.* `OldViewsHaveACause`: after a change the browser was told of, an entry that the cache takes for fresh shows an older
state only if no mutation names its key (`LeftBehind`), if its answer was overtaken, or if its fetch failed; TLC finds a
behaviour for each of the three. `WritesReachEveryView`, which the caching document promises, fails by the first (section 6).
`RefusalsHaveACause`: but for the three routes that refuse every call, a refusal takes a row that has changed, or an answer
that was none.

## 5. Theorems

Every safety property that a run checks is stated by a theorem. All are proved from the named assumptions on the
constants, for any number of users, orders, complaints, requests, workers, events, jobs, addresses, sockets and writes. The
assumptions ask no more than that the sets are finite where they are counted, that limits and times are numbers, positive
where the code has a positive literal, and that a value which stands for "nobody" or "none" is nobody's:
`OrdersAssumption`, `OutboxAssumption`, `ModerationAssumption`, `FeedbackAssumption`, `DeliveryAssumption`,
`GateAssumption` (a window need not be a whole number of seconds), `ServerAssumption` and `SystemAssumption` of the sockets,
`PagesAssumption` (a scope follows keys that show its kind). TLC evaluates them on every run.

In all eight modules the argument has one form: `IInv`, which adds to the property what it silently relies on; `Init => IInv`;
a lemma per action; and `IInv =>` the property. What is worth reading is what had to be added.

* **`OrdersProofs`.** None of the safety properties is inductive: a property of the *record* of writes depends on what
  every suspended handler has already checked. `IInv` adds it: `RequestInv` says what a handler has established at each
  `await` (a handler about to write `completed` has seen `accepted`, and *an acceptance is on record*, which no later
  overwrite can undo), `LogInv` ties each record to the request that made it, `JobInv` does the same for the job,
  `RowInv` says that the row shows a recorded write. `Init => IInv`, one lemma per action for `IInv`, and the
  invariants follow. `QuietTerminalAlwaysFinal` and `FreshWritesAlwaysFollowDiagram` are step properties under `IInv`.
  `OrdersImplementLedger` maps each step to a ledger step or a stutter. `UntimedOrderAlwaysHasACause` is an induction
  of its own on top of `IInv`.
* **`OutboxProofs`.** `IInv` bounds the publications of an event still in a worker's hands more tightly than that of the
  others, and says that everything before a batch has been announced or failed, which is what keeps the order.
  `ReceivedInv` says that what a worker received was published by another, since a connection that listens publishes nothing.
  `LoneWorkerHandlesNothing` is its corollary for the single worker that is deployed.
* **`ModerationProofs`.** The counter cannot exceed the number of committed freezes, since a freeze stores one more than
  a count that was in the row when fewer had been committed; hence `BanAlwaysDeserved`, by cardinality. The flag is
  only ever written by who has seen an acceptance; hence `FlagAlwaysEarned`. `ModerationImplementsStanding` maps each
  statement to a step of `CraftsmanStanding` or a stutter: an UPDATE by `freeze` is one more freeze whatever other admins do,
  the event is a ban's announcement only if it is the first and there are grounds (by `CountInv`), and a callback's stale
  write of the flag is trust in somebody accepted (by `EarnInv`).

* **`FeedbackProofs`.** `Phases` says what a request at a step is for. `Together`: two requests at work on one row are in
  `overlap`, so that whatever happened to the row since a request looked was done by one that overlapped it. On these rest
  `ReviewInv` (the loser of the INSERT overlapped the winner, whose row has the order's own client) and `ComplaintInv`
  (an open complaint that was closed before has been reopened since; what the public route saw open was closed since by
  requests it overlapped; whoever still has an event to append wrote last, or together with the one that did). The four
  theorems follow. `Works` and `Starts` put the routes' steps together, so that each lemma treats a shape once.

* **`DeliveryProofs`.** A job id is made of the clock, so that two requests to send may share one. `Asked` says that nobody
  asks for one target twice: a handler has at most one call that sends a mail, and no event has more than four
  (`CallsBounded`, by cases on the events). Hence a source has one job for a target (`OneJob`), which is what makes
  `AlwaysDroppedForATwin` true: what is dropped is another's. `Bounded` weighs how often a job has acted against its tries and
  stalls, and no job acts twice unless one of its attempts is in `faulted` or stalled; that is `RepeatsAlwaysHaveACause`.
  `Tells` is an induction on the step of a handler: each call it has left behind has inserted its row, has asked for its mail,
  or is among those that found no user (`skipped`). `DeliveryImplementsQueue` maps a request to its place: with its job,
  and without one to `"settled"` or `"none"` by whether its target has acted. No action but `EnqueueEmail`, `AddHookJob`,
  `Attempt` and `Crash` moves a request. `Asked` makes a new job a `Put`, `OneJob` makes the end of a job the end of the
  request, and `Bounded` keeps the acts within the limit. A crash moves all requests in hand at once.
* **`GateProofs`.** The limiter's read and write are two commands, the second runs when it arrives, and no guard bounds what an
  address is let through with. Requests that had the counter to themselves carry *different* counts (`Distinct`), none above
  `Max`, and so there are at most `Max` in a window (`LimitAlwaysHolds`, by cardinality). For that, the counter must not fall
  below such a request's count, nor expire, while somebody can still be let through in its window (`Lasting`); who is at work
  must have read it after such a request's last write (`After`) and so carry more (`Climbing`), of which `Together` (two
  requests at work on one counter know of each other) excludes the ones that overlap. In the other direction, every counter
  that has not expired was written by somebody (`Source`), and enough requests of the window, or a write that was late, stand
  behind every count (`Backed`); hence `TurnedAwayAlwaysForCause`. The arithmetic of windows and whole seconds
  (`RestOfWindow`, `TtlBounds`, `LifeOfCounter`) is stated as lemmas of its own.
* **`WsProofs`.** The rooms and the entries are changed by different handlers: `Agree` says room by room that a socket
  is a member exactly if its entry lists the room, and that nobody has an entry where the lookup fails. `OneLogin`: the browser sends one login over a connection and nothing before
  it, so that no second login leaves the first one's rooms behind; this is where the proof needs both programs.
  `Pinged` (a heartbeat that kept the entry of a closed socket has pinged it in vain) gives `ClosedSocketAlwaysForgotten`.
  `Hearing`, `Unopened` and `Idle` say what the browser cannot have heard or sent yet, which `ConnectionAlwaysBacked` and
  `OneLogin` need: `connect` gives up only on a socket that is open, and one that is open has not been heard to close. Both values of `finds` are covered.
* **`PagesProofs`.** `Agrees` says of a button that its mutation invalidates every key that shows what it writes, but for those
  in `LeftBehind`, and that its route takes every status under which the button is offered, by one key or by two, unless it is
  one of `DeadRoutes`. It is proved for every button of every page, one lemma per page, and `PagesByName` joins them. `Sound`
  says that an entry that counts as fresh, and an answer on its way to one, is no older than what the browser was told it
  wrote, unless it was overtaken, failed, or is under a key that is left behind; the operators of `QueryCache` preserve it, and
  `InvalidateDrops` says what becomes of an answer on its way when a mutation succeeds: it is dropped, or it is overtaken.
  `Remembers` says what a call that is under way has seen of the row, for `RefusalsAlwaysHaveACause`.

**Only model-checked**: the liveness properties (`AgedEventSettles`, `CachesConverge`), which are beyond the prover. The
violated properties are refuted by TLC's counterexamples, and `RulesLeadSomewhere` is evaluated by TLC for all its
arguments, which no constant can add to.

## 6. Divergences noted while modelling, without a run of their own

* The cancel route admits the assigned craftsman (docs/diagrams/data-flow-order.md:169 says he may cancel), but
  `cancel()` matches the client's id only and throws for anyone else (`order.repository.ts:111-119`).
* `getPending` selects rows *older* than 24 hours (`outbox-repository.ts:23`), so every event is delayed by a day.
* The automatic ban stores the admin's reason, not `permanent_ban` (`craftsman.repository.ts:193`, `moderation.ts:13`).
* A pending or rejected profile can be frozen and counts as accepted from then on (`auth.ts:23,43`).
* Unfreezing yields `pending`, not `approved` (`craftsman.repository.ts:219`, docs/diagrams/data-flow-onboarding.md:185),
  and lifts a permanent ban of the profile (docs/plan.md:595 calls it irreversible).
* A refresh that fails halfway leaves the new role beside the old completeness in the token (`auth.ts:75-76`).
* PATCH and DELETE `/api/craftsmen/[id]` and PATCH `/api/craftsmen/me` pass a profile id to `updateProfile`, which
  expects a user id, and so throw before they write: the availability switch always fails (`DeadRoutes`).
* Both order forms send the craftsman's user id (`craftsmen/[id]/page.tsx:193`, `orders/new/page.tsx:121`), which
  `POST /api/orders` looks up among profile ids (`orders/route.ts:71`) and answers with 404.
* `dispatchWebhook` ignores `is_active`.

Some modules keep a definition that states what a document says and that TLC refutes when it is added to a configuration:

| Definition | Add to | Says | Why it fails |
|---|---|---|---|
| `KnownCraftsmanGetsOrder` (`Orders`) | `Orders_final.cfg` with both craftsmen and `ProfileId <- GeneratedIds` | an order can be placed with a known craftsman | the route looks the id up among profile ids (`orders/route.ts:71`) and stores it in a column that references users (`orders.craftsman_id`), so that the INSERT throws |
| `WorkerConsumesQueues` (`Outbox`) | `Outbox_handlers.cfg` | a running worker consumes all queues (README.md:44) | `startWorkerService` waits for the outbox loop, which does not end (`worker.ts:421`) |
| `EachFreezeCounts` (`Moderation`) | `Moderation_safety.cfg`, threshold 3 | every freeze is a strike | two admins store the same count |
| `RejectedStaysOutside` (`Moderation`) | `Moderation_safety.cfg`, under PROPERTIES | a rejected craftsman's flag stays off | a request that had read the acceptance writes it back |
| `WritesReachEveryView` (`Pages`) | `Pages_safety.cfg` | a mutation's result shows everywhere (docs/diagrams/caching-strategy.md:104-105) | the keys in `LeftBehind` are named by no mutation, and the query client is given no `onSettled` (`query-provider.tsx:33-35`) |
| `ToldOfConnection` (`WsProvider`) | `Sockets_safety.cfg`, as a definition `Told == Provider!ToldOfConnection` of `MCWs` | the pages are told of the connection they have | `onclose` of a replaced socket tells them otherwise, and `connect` finds the new one open and returns (`ws-provider.tsx:59,74`) |

More that was noticed:

* Nobody can log in to the WebSocket server (`server.ts:234`), and in the app no browser gets as far as trying:
  `ws-provider.tsx:57` asks a ref that was set before the session was loaded.
* No handler that ends with `notify('admin', ...)` ends well: `notifications.user_id` references `users`, where no row has
  that id. `notifyOtherBidders` inserts that row together with those of the other craftsmen, and swallows the error.
* The cache event handler deletes keys that nobody writes.
* A review is answered 500, not 409, when it loses the race (`api/reviews/route.ts:64`).
* The admin routes decide a complaint again and again; a dismissed complaint can be resolved and the other way round.
* `notifyUser`, `notifyOrder`, `stop()` of the WebSocket server and `services/websocket.service.ts` have no caller, and
  nobody appends `admin.action_taken`.

## 7. Abstractions, and what is not modelled

* Payloads, texts, prices, coordinates and timestamps are left out or stand as tokens; reads (GET) change nothing.
* PostgreSQL: each statement is atomic and durable; a statement that throws in the model may be one that committed
  wherever a caller can react to it (`MarkCompletedThrows`, `MarkFailedThrows`, `SyncFail`). In the order and moderation
  handlers nothing reacts, and a handler that dies after the commit is `Fail` at the next `await`.
* BullMQ and Valkey are modelled from how the code uses them, and marked external. BullMQ may refuse a job id that
  contains a colon, as `timeout:<id>` does; that outcome is `Fail` at `enqueue`.
* `OutboxRepository.cleanup`, `markProcessed` and `CraftsmanRepository.incrementFreezeCount` are never called.
* `freezeUntil` is never read.
* `Feedback`: the id a complaint gets is fresh by construction; the order of a review changes as the order routes may
  change it, without their requests.
* `Delivery`: texts, addresses and signatures are left out; a user is an address. A retry's delay is arbitrary. Whether an
  attempt that threw had acted is a choice. The handlers run in whatever process hears the event (see `Outbox`).
* `Gate`: one counter per address; `x-forwarded-for` is taken as the address.
* Sockets: what the server sends to browsers is left out, since a page only shows it. A terminated connection takes what
  was on its way with it.
* `Pages`: one browser and one row; an answer that is not ok is an empty list, as the fetchers make of it; the query
  client's own retries are part of `Break`; the invalidations of one `onSuccess` are one step; of `["admin-craftsmen", tab]`
  one tab stands for all; a craftsman's review page is left to the kind `craftsman`.

**Not modelled**, each with its reason in `PROJECT.json`:

* Search, geometry and geocoding: computations over reads, and calls to a service.
* Uploads: a presigned URL and a PUT from the browser; nothing in the repository reads the object's state again. The
  upload hook's state is that of one component, and two uploads at once overwrite each other's progress only on screen.
* Statistics, audit log and health: reads and unconditional INSERTs.
* Of the user interface, layout, forms and their validation, the landing page and the vendored components.
* Signing in itself: OAuth, of which `Moderation` models what the callbacks do.

## 8. Plan

1. `System`: `Orders` and the worker process of `Outbox` composed, `WorkerRunning` replaced by the consumers the worker
   has created. Worth its states once the start-up order is repaired: until then the job never runs.
