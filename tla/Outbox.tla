------------------------------- MODULE Outbox -------------------------------
(***************************************************************************)
(* The event outbox and the worker processes that drain it: OutboxProcessor*)
(* and OutboxRepository over the event_outbox table, ValkeyEventBus, and   *)
(* startWorkerService, which runs them.                                    *)
(*                                                                         *)
(* Rows are numbered in the order of created_at.  A worker takes a batch,  *)
(* publishes and marks its events one by one, and holds no lock on them:   *)
(* another worker may hold the same rows.  Messages on the channels are    *)
(* kept nowhere.                                                           *)
(***************************************************************************)
EXTENDS Naturals, FiniteSets

CONSTANTS
    Workers,      \* worker processes
    MaxEvents,    \* bound: rows appended
    Names,        \* event names with handlers, so with a channel listened on
    NameOf,       \* NameOf[e]: the name of event e, with handlers or without
    BatchLimit,   \* the limit of getPending
    MaxAborts,    \* bound: failed markFailed statements, per worker
    MaxCrashes,   \* bound: times a worker process dies
    BrokerFails   \* may commands to Valkey fail?

Events == 1..MaxEvents

ASSUME OutboxAssumption ==
    /\ {MaxEvents, MaxAborts, MaxCrashes} \subseteq Nat
    /\ BatchLimit \in Nat \ {0}
    /\ DOMAIN NameOf = Events
    /\ BrokerFails \in BOOLEAN

VARIABLES
    row,        \* row[e]: status column of event_outbox, "none" before INSERT
    aged,       \* rows 1..aged are more than 24 hours old
    at,         \* at[w]: where worker w's loop is
    batch,      \* batch[w]: events of its getPending still to be processed
    running,    \* OutboxProcessor.running
    channels,   \* channels the worker's only Valkey connection listens on
    inbox,      \* events received, their handlers not yet run
    consumers,  \* BullMQ queues the worker consumes
    pubs,       \* history: pubs[w][e] counts w's executed PUBLISHes of e
    handled,    \* history: <<w, e>> if w's handlers have run for e
    aborts,     \* history: batches w abandoned because markFailed threw
    crashes     \* history: deaths of w

procVars == <<at, batch, running, channels, inbox, consumers>>
historyVars == <<pubs, handled, aborts, crashes>>
vars == <<row, aged, procVars, historyVars>>

Init ==
    /\ row = [e \in Events |-> "none"]
    /\ aged = 0
    /\ at = [w \in Workers |-> "down"]
    /\ batch = [w \in Workers |-> {}]
    /\ running = [w \in Workers |-> FALSE]
    /\ channels = [w \in Workers |-> {}]
    /\ inbox = [w \in Workers |-> {}]
    /\ consumers = [w \in Workers |-> {}]
    /\ pubs = [w \in Workers |-> [e \in Events |-> 0]]
    /\ handled = {}
    /\ aborts = [w \in Workers |-> 0]
    /\ crashes = [w \in Workers |-> 0]

-----------------------------------------------------------------------------
(***************************************************************************)
(* The table                                                               *)
(***************************************************************************)

\* OutboxRepository.append, by a route, a job or a handler.
Append(e) ==
    /\ row[e] = "none"
    /\ \A d \in Events : d < e => row[d] # "none"
    /\ row' = [row EXCEPT ![e] = "pending"]
    /\ UNCHANGED <<aged, procVars, historyVars>>

\* The oldest row that is not 24 hours old becomes so.
Age ==
    /\ aged < MaxEvents
    /\ row[aged + 1] # "none"
    /\ aged' = aged + 1
    /\ UNCHANGED <<row, procVars, historyVars>>

\* Variant of the WHERE clause that also selects failed rows.
Due_RetryFailed == {e \in Events : row[e] \in {"pending", "failed"} /\ e <= aged}

\* getPending's WHERE: status = 'pending' and created_at < now - 24h.
Due == {e \in Events : row[e] = "pending" /\ e <= aged}

\* getPending: the oldest BatchLimit of them.
GetPending == {e \in Due : Cardinality({d \in Due : d <= e}) <= BatchLimit}

-----------------------------------------------------------------------------
(***************************************************************************)
(* The worker process                                                      *)
(***************************************************************************)

\* startWorkerService up to the loop of OutboxProcessor.start: the e-mail and
\* webhook consumers, then one SUBSCRIBE per event name.  bus.subscribe returns
\* without waiting; a SUBSCRIBE that fails is logged and not repeated.  The
\* connection runs commands in order, so its mode is settled before a PUBLISH.
Boot(w) ==
    /\ at[w] = "down"
    /\ \E cs \in SUBSET Names :
        /\ BrokerFails \/ cs = Names
        /\ channels' = [channels EXCEPT ![w] = cs]
    /\ at' = [at EXCEPT ![w] = "loop"]
    /\ running' = [running EXCEPT ![w] = TRUE]
    /\ consumers' = [consumers EXCEPT ![w] = {"email", "webhook"}]
    /\ UNCHANGED <<row, aged, batch, inbox, historyVars>>

\* The head of the loop.  Only when running is false does start() return and
\* startWorkerService go on to create the order-timeout worker.
Poll(w) ==
    /\ at[w] = "loop"
    /\ batch[w] = {}
    /\ IF running[w]
       THEN /\ batch' = [batch EXCEPT ![w] = GetPending]
            /\ UNCHANGED <<at, consumers>>
       ELSE /\ at' = [at EXCEPT ![w] = "ready"]
            /\ consumers' = [consumers EXCEPT ![w] = @ \cup {"order-timeout"}]
            /\ UNCHANGED batch
    /\ UNCHANGED <<row, aged, running, channels, inbox, historyVars>>

\* The event the for loop is at.
Current(w, e) == e \in batch[w] /\ \A d \in batch[w] : e <= d

Goto(w, label) == at' = [at EXCEPT ![w] = label]

\* The server runs w's PUBLISH of e: listeners receive it if their own
\* connection is up at that moment.
Deliver(w, e) ==
    /\ pubs' = [pubs EXCEPT ![w][e] = @ + 1]
    /\ \E receivers \in SUBSET {v \in Workers : NameOf[e] \in channels[v]} :
        /\ BrokerFails \/ receivers = {v \in Workers : NameOf[e] \in channels[v]}
        /\ inbox' = [v \in Workers |->
               IF v \in receivers THEN inbox[v] \cup {e} ELSE inbox[v]]

\* eventBus.publish resolves.  The bus publishes on the connection it has
\* subscribed with, which accepts no PUBLISH while it listens on a channel.
Publish(w) ==
    /\ at[w] = "loop"
    /\ channels[w] = {}
    /\ \E e \in batch[w] : Current(w, e) /\ Deliver(w, e)
    /\ Goto(w, "complete")
    /\ UNCHANGED <<row, aged, batch, running, channels, consumers,
                   handled, aborts, crashes>>

\* Variant of the bus that swallows the error.
PublishRejected_Swallowed(w) ==
    /\ at[w] = "loop"
    /\ batch[w] # {}
    /\ channels[w] # {} \/ BrokerFails
    /\ Goto(w, "complete")
    /\ UNCHANGED <<row, aged, batch, running, channels, inbox, consumers,
                   historyVars>>

\* eventBus.publish rejects: the connection listens on channels, or the reply
\* never comes, whether or not the server ran the command.
PublishRejected(w) ==
    /\ at[w] = "loop"
    /\ batch[w] # {}
    /\ \/ /\ channels[w] # {} \/ BrokerFails
          /\ UNCHANGED <<pubs, inbox>>
       \/ /\ channels[w] = {} /\ BrokerFails
          /\ \E e \in batch[w] : Current(w, e) /\ Deliver(w, e)
    /\ Goto(w, "fail")
    /\ UNCHANGED <<row, aged, batch, running, channels, consumers,
                   handled, aborts, crashes>>

\* UPDATE event_outbox SET status = s, and on to the next event of the batch.
Settle(w, s) ==
    /\ \E e \in batch[w] :
        /\ Current(w, e)
        /\ row' = [row EXCEPT ![e] = s]
        /\ batch' = [batch EXCEPT ![w] = @ \ {e}]
    /\ Goto(w, "loop")
    /\ UNCHANGED <<aged, running, channels, inbox, consumers, historyVars>>

MarkCompleted(w) == at[w] = "complete" /\ Settle(w, "completed")

\* markCompleted throws, the UPDATE committed or not; the catch block takes
\* the published event for a failed one.
MarkCompletedThrows(w) ==
    /\ at[w] = "complete"
    /\ \E e \in batch[w] :
        /\ Current(w, e)
        /\ row' \in {row, [row EXCEPT ![e] = "completed"]}
    /\ Goto(w, "fail")
    /\ UNCHANGED <<aged, batch, running, channels, inbox, consumers, historyVars>>

\* Variant of markFailed that leaves the row pending, to be tried again.
MarkFailed_Retry(w) == at[w] = "fail" /\ Settle(w, "pending")

MarkFailed(w) == at[w] = "fail" /\ Settle(w, "failed")

\* markFailed throws out of the for loop: the rest of the batch is dropped
\* until the next poll.
MarkFailedThrows(w) ==
    /\ at[w] = "fail"
    /\ aborts[w] < MaxAborts
    /\ \E e \in batch[w] :
        /\ Current(w, e)
        /\ row' \in {row, [row EXCEPT ![e] = "failed"]}
    /\ batch' = [batch EXCEPT ![w] = {}]
    /\ Goto(w, "loop")
    /\ aborts' = [aborts EXCEPT ![w] = @ + 1]
    /\ UNCHANGED <<aged, running, channels, inbox, consumers, pubs, handled, crashes>>

\* The subscriber callback runs the handlers of a received event; an error in
\* them is logged and nothing more.
Handle(w, e) ==
    /\ e \in inbox[w]
    /\ inbox' = [inbox EXCEPT ![w] = @ \ {e}]
    /\ \/ handled' = handled \cup {<<w, e>>}
       \/ UNCHANGED handled
    /\ UNCHANGED <<row, aged, at, batch, running, channels, consumers, pubs,
                   aborts, crashes>>

\* Variant of a restart that resumes the batch at hand.
Crash_KeepsBatch(w) ==
    /\ at[w] # "down"
    /\ crashes[w] < MaxCrashes
    /\ Goto(w, "down")
    /\ running' = [running EXCEPT ![w] = FALSE]
    /\ channels' = [channels EXCEPT ![w] = {}]
    /\ inbox' = [inbox EXCEPT ![w] = {}]
    /\ consumers' = [consumers EXCEPT ![w] = {}]
    /\ crashes' = [crashes EXCEPT ![w] = @ + 1]
    /\ UNCHANGED <<row, aged, batch, pubs, handled, aborts>>

\* The process dies, or takes a signal: the handler main() registered calls
\* process.exit before anything is closed.
Crash(w) ==
    /\ at[w] # "down"
    /\ crashes[w] < MaxCrashes
    /\ Goto(w, "down")
    /\ batch' = [batch EXCEPT ![w] = {}]
    /\ running' = [running EXCEPT ![w] = FALSE]
    /\ channels' = [channels EXCEPT ![w] = {}]
    /\ inbox' = [inbox EXCEPT ![w] = {}]
    /\ consumers' = [consumers EXCEPT ![w] = {}]
    /\ crashes' = [crashes EXCEPT ![w] = @ + 1]
    /\ UNCHANGED <<row, aged, pubs, handled, aborts>>

-----------------------------------------------------------------------------
Loop(w) ==
    \/ Poll(w) \/ Publish(w) \/ PublishRejected(w)
    \/ MarkCompleted(w) \/ MarkCompletedThrows(w) \/ MarkFailed(w)

Next ==
    \/ \E e \in Events : Append(e)
    \/ Age
    \/ \E w \in Workers :
        \/ Boot(w) \/ Loop(w) \/ MarkFailedThrows(w) \/ Crash(w)
        \/ \E e \in Events : Handle(w, e)

Spec == Init /\ [][Next]_vars

\* Time passes; a supervisor starts dead workers again; a worker's loop, and
\* the handlers of what it received, keep running.
FairSpec ==
    /\ Spec
    /\ WF_vars(Age)
    /\ \A w \in Workers :
        /\ WF_vars(Boot(w))
        /\ WF_vars(Loop(w))
        /\ WF_vars(\E e \in Events : Handle(w, e))
-----------------------------------------------------------------------------
(***************************************************************************)
(* Properties                                                              *)
(***************************************************************************)

RowStates == {"none", "pending", "completed", "failed"}
Labels == {"down", "loop", "complete", "fail", "ready"}
Queues == {"email", "webhook", "order-timeout"}

\* Every table and process holds a value of its type; a batch holds only rows
\* that exist and are old enough, and a dead process holds nothing.
TypeOK ==
    /\ row \in [Events -> RowStates]
    /\ aged \in 0..MaxEvents
    /\ at \in [Workers -> Labels]
    /\ batch \in [Workers -> SUBSET {e \in Events : row[e] # "none" /\ e <= aged}]
    /\ running \in [Workers -> BOOLEAN]
    /\ channels \in [Workers -> SUBSET Names]
    /\ inbox \in [Workers -> SUBSET Events]
    /\ consumers \in [Workers -> SUBSET Queues]
    /\ pubs \in [Workers -> [Events -> Nat]]
    /\ handled \subseteq Workers \X Events
    /\ aborts \in [Workers -> Nat]
    /\ crashes \in [Workers -> Nat]
    /\ \A w \in Workers :
        /\ at[w] = "down" => batch[w] = {} /\ channels[w] = {} /\ inbox[w] = {}
        /\ at[w] \in {"complete", "fail"} => batch[w] # {}

Announced == {e \in Events : \E w \in Workers : pubs[w][e] > 0}

\* At least once, with a cause for every repetition: a worker publishes an
\* event once more only after a markFailed of its own threw or after it died,
\* whatever the other workers do to the row in the meantime.
RepeatsHaveACause ==
    \A w \in Workers, e \in Events : pubs[w][e] <= 1 + aborts[w] + crashes[w]

\* A settled row is final once no worker holds it in a batch: nobody picks it
\* up again.  While one does, a completed row may still become a failed one.
SettledRowIsFinal ==
    [][\A e \in Events :
         row[e] \in {"completed", "failed"} /\ (\A w \in Workers : e \notin batch[w]) =>
             row'[e] = row[e] /\ (\A w \in Workers : e \notin batch'[w])]_vars

\* Completed means announced, and events are announced in the order of their
\* rows: the table and the channel implement the relay.
Relay == INSTANCE EventRelay WITH fate <- row, announced <- Announced

ImplementsRelay == Relay!RelaySpec

\* A pending event that has reached its 24 hours is settled: no poison event,
\* crash or thrown UPDATE keeps the batch from advancing for good.
AgedEventSettles ==
    \A e \in Events : row[e] = "pending" /\ e <= aged ~> row[e] # "pending"

-----------------------------------------------------------------------------
(***************************************************************************)
(* What the documentation says of the worker and the code does not do      *)
(***************************************************************************)

\* "ValkeyEventBus -> publishes to events:order.created -> EmailWorker,
\* NotificationService" (README.md): an event that waits in the outbox gets to
\* a worker that has handlers for it.  Not so: each worker publishes on the
\* connection it listens with, which accepts no PUBLISH.
EventReachesHandlers ==
    \A e \in Events :
        row[e] = "pending" /\ e \notin Announced ~> \E w \in Workers : e \in inbox[w]

\* "BullMQ workers for email, webhooks, and order timeouts" (README.md): a
\* worker that stays up consumes the three queues.  Not so: the consumer of the
\* third would be created after the outbox loop, which does not end.
WorkerConsumesQueues ==
    \A w \in Workers : at[w] = "loop" ~> at[w] = "down" \/ consumers[w] = Queues
=============================================================================
