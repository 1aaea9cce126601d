---------------------------- MODULE OrdersProofs ----------------------------
(***************************************************************************)
(* Theorems about Orders for any sets of users, orders and requests.       *)
(***************************************************************************)
EXTENDS Orders, TLAPS

(***************************************************************************)
(* The inductive invariant                                                 *)
(***************************************************************************)

\* The requests that write a status.
StatusKinds == {"create", "accept", "reject", "complete", "cancel"}

\* A row exists exactly when its creation is on record, and shows some
\* recorded write.
RowInv ==
    \A o \in Orders : status[o] # "none" =>
        Wrote(o, "pending") /\ Wrote(o, status[o])

\* A request's write is recorded under its order and its kind, once it is
\* past the UPDATE; the job only ever rejects.
LogInv ==
    \A w \in log :
        /\ status[w.order] # "none"
        /\ w.status \in {"pending", "accepted", "rejected", "completed", "cancelled"}
        /\ w.by \in Requests =>
               /\ pc[w.by] \in {"append", "publish", "price", "enqueue", "ok", "failed"}
               /\ req[w.by].order = w.order
               /\ req[w.by].kind \in StatusKinds
               /\ w.status = StatusOf[req[w.by].kind]
        /\ w.by = TimeoutJob => w.status = "rejected"

\* What a request has established by the time it is suspended at pc[r].
RequestInv ==
    \A r \in Requests :
        LET q == req[r]
            o == q.order IN
        /\ pc[r] \in InFlight => o \in Orders /\ status[o] # "none"
        /\ pc[r] = "write" =>
               \/ /\ q.kind \in {"accept", "reject"}
                  /\ q.user = craftsman[o]
                  /\ q.seen = "pending"
               \/ /\ q.kind = "complete"
                  /\ q.user = craftsman[o]
                  /\ q.seen = "accepted"
                  /\ Wrote(o, "accepted")
               \/ /\ q.kind = "cancel"
                  /\ q.seen \in {"pending", "accepted"}
        /\ pc[r] = "patch" =>
               /\ q.kind \in {"setPrice", "acceptPrice"}
               /\ q.kind = "setPrice" => q.user = craftsman[o]
               /\ Wrote(o, "completed")
        /\ pc[r] \in {"append", "publish", "price", "enqueue"} =>
               /\ q.kind \in StatusKinds
               /\ [by |-> r, order |-> o, status |-> StatusOf[q.kind]] \in log
        /\ pc[r] = "price" => q.kind = "complete"

\* What the job has established by the time it is suspended.
JobInv ==
    \A o \in Orders :
        /\ job[o] # "none" => status[o] # "none"
        /\ job[o] = "write" => expired[o]
        /\ job[o] \in {"append", "notify"} =>
               [by |-> TimeoutJob, order |-> o, status |-> "rejected"] \in log
        /\ job[o] = "notify" =>
               [by |-> TimeoutJob, order |-> o, name |-> "rejected"] \in outbox

\* A request that supplied the stored price has answered.
PriceInv ==
    \A o \in Orders : finalPrice[o] # NoPrice => pc[finalPrice[o]] = "ok"

CoreInv == TypeOK /\ RowInv /\ LogInv /\ RequestInv /\ JobInv /\ PriceInv

SafetyInv ==
    /\ CompletedWasAccepted
    /\ EventsMatchWrites
    /\ LostEventsHaveACause
    /\ WritersAuthorised
    /\ PriceAfterCompletion
    /\ TimeoutNoticeIsBacked

IInv == CoreInv /\ SafetyInv

-----------------------------------------------------------------------------
(***************************************************************************)
(* Facts about a committed write, whoever makes it                         *)
(***************************************************************************)

Labels == {"append", "publish", "price", "enqueue", "ok", "failed"}

\* What is on record stays on record.
LEMMA WroteStays ==
    ASSUME log \subseteq log', NEW o, NEW s, Wrote(o, s)
    PROVE  Wrote(o, s)'
BY DEF Wrote

\* SetStatus keeps the rows and the record consistent, and records a
\* completion only where an acceptance is on record.
LEMMA CommitKeepsRows ==
    ASSUME TypeOK, RowInv, CompletedWasAccepted,
           NEW o \in Orders, NEW w \in Writers,
           NEW s \in {"accepted", "rejected", "completed", "cancelled"},
           status[o] # "none",
           s = "completed" => Wrote(o, "accepted"),
           SetStatus(o, s, w)
    PROVE  /\ log \subseteq log'
           /\ Wrote(o, s)'
           /\ status' \in [Orders -> Statuses \cup {"none"}]
           /\ log' \subseteq Writes
           /\ \A p \in Orders : status[p] # "none" => status'[p] # "none"
           /\ RowInv'
           /\ CompletedWasAccepted'
<1>1. log \subseteq log' /\ Wrote(o, s)'
  <2>1. [by |-> w, order |-> o, status |-> s] \in log' /\ log \subseteq log'
    BY DEF SetStatus
  <2>2. QED
    BY <2>1, Zenon DEF Wrote
<1>2. /\ status' \in [Orders -> Statuses \cup {"none"}]
      /\ log' \subseteq Writes
      /\ \A p \in Orders : status[p] # "none" => status'[p] # "none"
    BY DEF SetStatus, TypeOK, Statuses, Writes
<1>3. RowInv'
  <2> SUFFICES ASSUME NEW p \in Orders, status'[p] # "none"
               PROVE  Wrote(p, "pending")' /\ Wrote(p, status[p])'
    BY DEF RowInv
  <2>1. status[p] # "none"
    BY DEF SetStatus, TypeOK
  <2>2. Wrote(p, "pending")'
    BY <1>1, <2>1, WroteStays DEF RowInv
  <2>3. CASE p = o
    BY <1>1, <2>2, <2>3 DEF SetStatus, TypeOK
  <2>4. CASE p # o
    <3>1. status'[p] = status[p]
      BY <2>4 DEF SetStatus, TypeOK
    <3>2. \E e \in log : e.order = p /\ e.status = status[p]
      BY <2>1 DEF RowInv, Wrote
    <3>3. QED
      BY <1>1, <3>1, <3>2, <2>2 DEF Wrote
  <2>5. QED
    BY <2>3, <2>4
<1>4. CompletedWasAccepted'
  <2> SUFFICES ASSUME NEW p \in Orders, Wrote(p, "completed")'
               PROVE  Wrote(p, "accepted")'
    BY DEF CompletedWasAccepted, Wrote
  <2>1. Wrote(p, "completed") \/ (p = o /\ s = "completed")
    BY DEF SetStatus, Wrote
  <2>2. Wrote(p, "accepted")
    BY <2>1 DEF CompletedWasAccepted
  <2>3. QED
    BY <1>1, <2>2, WroteStays
<1>5. QED
    BY <1>1, <1>2, <1>3, <1>4

\* Events stay matched while the record only grows.
LEMMA EventsStayMatched ==
    ASSUME EventsMatchWrites, log \subseteq log', outbox' = outbox
    PROVE  EventsMatchWrites'
BY DEF EventsMatchWrites

\* A step of one request that writes no row but its own label.
LEMMA QuietStep ==
    ASSUME OrdersAssumption, IInv, NEW r \in Requests,
           NEW label \in {"ok", "failed", "error"},
           pc[r] \in InFlight,
           label = "error" => pc[r] = "write",
           label = "ok" => pc[r] # "append",
           pc' = [pc EXCEPT ![r] = label],
           realtime' \subseteq realtime \cup {r},
           UNCHANGED <<status, client, craftsman, finalPrice, priceAgreed, expired,
                       req, job, stalled, outbox, notified, log>>
    PROVE  IInv'
<1>1. TypeOK'
    BY DEF IInv, CoreInv, TypeOK, PcLabels
<1>2. RowInv' /\ JobInv' /\ CompletedWasAccepted' /\ EventsMatchWrites'
    BY DEF IInv, CoreInv, SafetyInv, RowInv, JobInv, CompletedWasAccepted,
           EventsMatchWrites, Wrote
<1>3. LogInv'
    BY DEF IInv, CoreInv, LogInv, TypeOK
<1>4. RequestInv'
    BY DEF IInv, CoreInv, RequestInv, TypeOK, InFlight, Wrote
<1>5. PriceInv'
    BY DEF IInv, CoreInv, PriceInv, TypeOK, InFlight
<1>6. LostEventsHaveACause'
    BY DEF IInv, CoreInv, SafetyInv, LogInv, LostEventsHaveACause, TypeOK, InFlight,
           Writes, Writers, OrdersAssumption
<1>7. WritersAuthorised' /\ PriceAfterCompletion' /\ TimeoutNoticeIsBacked'
    BY DEF IInv, SafetyInv, WritersAuthorised, Authorised, PriceAfterCompletion,
           TimeoutNoticeIsBacked, Wrote
<1>8. QED
    BY <1>1, <1>2, <1>3, <1>4, <1>5, <1>6, <1>7 DEF IInv, CoreInv, SafetyInv

\* The first step of a request that writes no row: it only says what the
\* request is about.
LEMMA FirstStep ==
    ASSUME OrdersAssumption, IInv, NEW r \in Requests, pc[r] = "idle",
           NEW label \in {"write", "patch", "error"},
           pc' = [pc EXCEPT ![r] = label],
           req' \in [Requests -> RequestInfo],
           \A x \in Requests : x # r => req'[x] = req[x],
           label # "error" => RequestInv',
           UNCHANGED <<status, client, craftsman, finalPrice, priceAgreed, expired,
                       job, stalled, outbox, realtime, notified, log>>
    PROVE  IInv'
<1>1. \A w \in log : w.by # r
    BY DEF IInv, CoreInv, LogInv
<1>2. \A p \in Orders : finalPrice[p] # r
    BY DEF IInv, CoreInv, PriceInv, OrdersAssumption
<1>3. TypeOK'
    BY DEF IInv, CoreInv, TypeOK, PcLabels, InFlight
<1>4. RowInv' /\ JobInv' /\ CompletedWasAccepted' /\ EventsMatchWrites' /\ TimeoutNoticeIsBacked'
    BY DEF IInv, CoreInv, SafetyInv, RowInv, JobInv, CompletedWasAccepted,
           EventsMatchWrites, TimeoutNoticeIsBacked, Wrote
<1>5. LogInv'
    BY <1>1 DEF IInv, CoreInv, LogInv, TypeOK
<1>6. RequestInv'
  <2>1. CASE label = "error"
    BY <2>1 DEF IInv, CoreInv, RequestInv, TypeOK, InFlight, Wrote
  <2>2. QED
    BY <2>1
<1>7. PriceInv'
    BY <1>2 DEF IInv, CoreInv, PriceInv, TypeOK
<1>8. LostEventsHaveACause'
    BY <1>1 DEF IInv, CoreInv, SafetyInv, LostEventsHaveACause, TypeOK, Writes, Writers
<1>9. WritersAuthorised'
    BY <1>1 DEF IInv, SafetyInv, WritersAuthorised, Authorised
<1>10. PriceAfterCompletion'
    BY <1>2 DEF IInv, CoreInv, SafetyInv, PriceAfterCompletion, TypeOK, Wrote
<1>11. QED
    BY <1>3, <1>4, <1>5, <1>6, <1>7, <1>8, <1>9, <1>10 DEF IInv, CoreInv, SafetyInv

-----------------------------------------------------------------------------
(***************************************************************************)
(* The four actions that write a status                                    *)
(***************************************************************************)

LEMMA UpdateStatusStep ==
    ASSUME OrdersAssumption, IInv, NEW r \in Requests, UpdateStatus(r)
    PROVE  IInv'
<1> DEFINE o == req[r].order
           s == StatusOf[req[r].kind]
<1>1. /\ o \in Orders /\ status[o] # "none"
      /\ s \in {"accepted", "rejected", "completed"}
      /\ s = "completed" => Wrote(o, "accepted")
      /\ req[r].user = craftsman[o]
      /\ req[r].kind \in StatusKinds
  <2>1. pc[r] = "write" /\ req[r].kind \in {"accept", "reject", "complete"}
    BY DEF UpdateStatus
  <2>2. /\ o \in Orders /\ status[o] # "none" /\ req[r].user = craftsman[o]
        /\ req[r].kind = "complete" => Wrote(o, "accepted")
    BY <2>1 DEF IInv, CoreInv, RequestInv, InFlight
  <2>3. /\ s \in {"accepted", "rejected", "completed"}
        /\ s = "completed" => req[r].kind = "complete"
    BY <2>1 DEF StatusOf
  <2>4. QED
    BY <2>1, <2>2, <2>3 DEF StatusKinds
<1>2. /\ SetStatus(o, s, r)
      /\ pc' = [pc EXCEPT ![r] = "append"]
      /\ UNCHANGED <<client, craftsman, finalPrice, priceAgreed, expired, req,
                     job, stalled, outbox, realtime, notified>>
    BY DEF UpdateStatus, Goto
<1>3. /\ log \subseteq log'
      /\ status' \in [Orders -> Statuses \cup {"none"}]
      /\ log' \subseteq Writes
      /\ \A p \in Orders : status[p] # "none" => status'[p] # "none"
      /\ RowInv'
      /\ CompletedWasAccepted'
    BY <1>1, <1>2, CommitKeepsRows DEF IInv, CoreInv, SafetyInv, Writers
<1>4. /\ \A w \in log : w.by # r
      /\ log' = log \cup {[by |-> r, order |-> o, status |-> s]}
    BY <1>2 DEF IInv, CoreInv, LogInv, UpdateStatus, SetStatus
<1>5. TypeOK'
    BY <1>2, <1>3 DEF IInv, CoreInv, TypeOK, PcLabels, InFlight
<1>6. LogInv'
    BY <1>1, <1>2, <1>3, <1>4 DEF IInv, CoreInv, LogInv, TypeOK, Writes, OrdersAssumption
<1>7. RequestInv'
    BY <1>1, <1>2, <1>3, <1>4, WroteStays DEF IInv, CoreInv, RequestInv, TypeOK, InFlight
<1>8. JobInv' /\ TimeoutNoticeIsBacked'
    BY <1>2, <1>3 DEF IInv, CoreInv, SafetyInv, JobInv, TimeoutNoticeIsBacked
<1>9. PriceInv'
    BY <1>2 DEF IInv, CoreInv, PriceInv, TypeOK, UpdateStatus
<1>10. EventsMatchWrites'
    BY <1>2, <1>3, EventsStayMatched DEF IInv, SafetyInv
<1>11. LostEventsHaveACause'
    BY <1>2, <1>4 DEF IInv, CoreInv, SafetyInv, LostEventsHaveACause, TypeOK, Writes, Writers, OrdersAssumption
<1>12. WritersAuthorised'
    BY <1>1, <1>2, <1>4 DEF IInv, SafetyInv, WritersAuthorised, Authorised, OrdersAssumption
<1>13. PriceAfterCompletion'
    BY <1>2, <1>3, WroteStays DEF IInv, SafetyInv, PriceAfterCompletion
<1>14. QED
    BY <1>3, <1>5, <1>6, <1>7, <1>8, <1>9, <1>10, <1>11, <1>12, <1>13
       DEF IInv, CoreInv, SafetyInv

LEMMA CancelRowStep ==
    ASSUME OrdersAssumption, IInv, NEW r \in Requests, CancelRow(r)
    PROVE  IInv'
<1> DEFINE o == req[r].order
<1>1. /\ o \in Orders /\ status[o] # "none"
      /\ req[r].kind = "cancel" /\ pc[r] = "write"
    BY DEF CancelRow, IInv, CoreInv, RequestInv, InFlight
<1>2. UNCHANGED <<client, craftsman, finalPrice, priceAgreed, expired, req,
                  job, stalled, outbox, realtime, notified>>
    BY DEF CancelRow
<1>3. CASE client[o] = req[r].user
  <2>1. SetStatus(o, "cancelled", r) /\ pc' = [pc EXCEPT ![r] = "append"]
    BY <1>3 DEF CancelRow, Goto
  <2>2. /\ log \subseteq log'
        /\ status' \in [Orders -> Statuses \cup {"none"}]
        /\ log' \subseteq Writes
        /\ \A p \in Orders : status[p] # "none" => status'[p] # "none"
        /\ RowInv'
        /\ CompletedWasAccepted'
    BY <1>1, <2>1, CommitKeepsRows DEF IInv, CoreInv, SafetyInv, Writers
  <2>3. /\ \A w \in log : w.by # r
        /\ log' = log \cup {[by |-> r, order |-> o, status |-> "cancelled"]}
    BY <1>1, <2>1 DEF IInv, CoreInv, LogInv, SetStatus
  <2>4. StatusOf[req[r].kind] = "cancelled" /\ req[r].kind \in StatusKinds
    BY <1>1 DEF StatusOf, StatusKinds
  <2>5. TypeOK'
    BY <1>2, <2>1, <2>2 DEF IInv, CoreInv, TypeOK, PcLabels, InFlight
  <2>6. LogInv'
    BY <1>1, <1>2, <2>1, <2>2, <2>3, <2>4 DEF IInv, CoreInv, LogInv, TypeOK, Writes, OrdersAssumption
  <2>7. RequestInv'
    BY <1>1, <1>2, <2>1, <2>2, <2>3, <2>4, WroteStays DEF IInv, CoreInv, RequestInv, TypeOK, InFlight
  <2>8. JobInv' /\ TimeoutNoticeIsBacked'
    BY <1>2, <2>2 DEF IInv, CoreInv, SafetyInv, JobInv, TimeoutNoticeIsBacked
  <2>9. PriceInv'
    BY <1>1, <1>2, <2>1 DEF IInv, CoreInv, PriceInv, TypeOK
  <2>10. EventsMatchWrites'
    BY <1>2, <2>2, EventsStayMatched DEF IInv, SafetyInv
  <2>11. LostEventsHaveACause'
    BY <1>2, <2>1, <2>3 DEF IInv, CoreInv, SafetyInv, LostEventsHaveACause, TypeOK, Writes, Writers, OrdersAssumption
  <2>12. WritersAuthorised'
    BY <1>1, <1>2, <1>3, <2>3 DEF IInv, SafetyInv, WritersAuthorised, Authorised, OrdersAssumption
  <2>13. PriceAfterCompletion'
    BY <1>2, <2>2, WroteStays DEF IInv, SafetyInv, PriceAfterCompletion
  <2>14. QED
    BY <2>2, <2>5, <2>6, <2>7, <2>8, <2>9, <2>10, <2>11, <2>12, <2>13
       DEF IInv, CoreInv, SafetyInv
<1>4. CASE client[o] # req[r].user
  <2>1. pc' = [pc EXCEPT ![r] = "error"] /\ status' = status /\ log' = log
    BY <1>4 DEF CancelRow, Goto
  <2>2. QED
    BY <1>1, <1>2, <2>1, QuietStep DEF InFlight
<1>5. QED
    BY <1>3, <1>4

LEMMA JobUpdateStep ==
    ASSUME OrdersAssumption, IInv, NEW o \in Orders, JobUpdate(o)
    PROVE  IInv'
<1>1. status[o] # "none" /\ expired[o] /\ job[o] = "write"
    BY DEF JobUpdate, IInv, CoreInv, JobInv
<1>2. /\ SetStatus(o, "rejected", TimeoutJob)
      /\ job' = [job EXCEPT ![o] = "append"]
      /\ UNCHANGED <<client, craftsman, finalPrice, priceAgreed, expired, pc, req,
                     stalled, outbox, realtime, notified>>
    BY DEF JobUpdate
<1>3. /\ log \subseteq log'
      /\ status' \in [Orders -> Statuses \cup {"none"}]
      /\ log' \subseteq Writes
      /\ \A p \in Orders : status[p] # "none" => status'[p] # "none"
      /\ RowInv'
      /\ CompletedWasAccepted'
    BY <1>1, <1>2, CommitKeepsRows DEF IInv, CoreInv, SafetyInv, Writers
<1>4. log' = log \cup {[by |-> TimeoutJob, order |-> o, status |-> "rejected"]}
    BY <1>2 DEF SetStatus
<1>5. TypeOK'
    BY <1>2, <1>3 DEF IInv, CoreInv, TypeOK, JobStates, ActiveJob
<1>6. LogInv'
    BY <1>1, <1>2, <1>3, <1>4 DEF IInv, CoreInv, LogInv, TypeOK, Writes, OrdersAssumption
<1>7. RequestInv'
    BY <1>2, <1>3, WroteStays DEF IInv, CoreInv, RequestInv, InFlight
<1>8. JobInv' /\ TimeoutNoticeIsBacked'
    BY <1>1, <1>2, <1>3, <1>4 DEF IInv, CoreInv, SafetyInv, JobInv, TimeoutNoticeIsBacked, TypeOK
<1>9. PriceInv'
    BY <1>2 DEF IInv, CoreInv, PriceInv
<1>10. EventsMatchWrites'
    BY <1>2, <1>3, EventsStayMatched DEF IInv, SafetyInv
<1>11. LostEventsHaveACause'
    BY <1>1, <1>2, <1>4 DEF IInv, CoreInv, SafetyInv, LostEventsHaveACause, TypeOK, Writes, Writers, OrdersAssumption
<1>12. WritersAuthorised'
    BY <1>1, <1>2, <1>4 DEF IInv, SafetyInv, WritersAuthorised, Authorised, OrdersAssumption
<1>13. PriceAfterCompletion'
    BY <1>2, <1>3, WroteStays DEF IInv, SafetyInv, PriceAfterCompletion
<1>14. QED
    BY <1>3, <1>5, <1>6, <1>7, <1>8, <1>9, <1>10, <1>11, <1>12, <1>13
       DEF IInv, CoreInv, SafetyInv

LEMMA CreateStep ==
    ASSUME OrdersAssumption, IInv, NEW r \in Requests, Create(r)
    PROVE  IInv'
<1>1. PICK u \in Clients, c \in Craftsmen, o \in Orders :
          /\ status[o] = "none"
          /\ req' = [req EXCEPT ![r] =
                 [kind |-> "create", user |-> u, order |-> o, seen |-> "none"]]
          /\ IF ProfileId[c] \in Users
             THEN /\ SetStatus(o, "pending", r)
                  /\ client' = [client EXCEPT ![o] = u]
                  /\ craftsman' = [craftsman EXCEPT ![o] = ProfileId[c]]
                  /\ Goto(r, "append")
             ELSE /\ Goto(r, "error")
                  /\ UNCHANGED <<status, log, client, craftsman>>
    BY DEF Create
<1>2. /\ pc[r] = "idle"
      /\ UNCHANGED <<finalPrice, priceAgreed, expired, job, stalled, outbox,
                     realtime, notified>>
    BY DEF Create
<1>3. \A w \in log : w.by # r /\ w.order # o
    BY <1>1, <1>2 DEF IInv, CoreInv, LogInv
<1>4. \A p \in Orders : finalPrice[p] # r
    BY <1>2 DEF IInv, CoreInv, PriceInv, OrdersAssumption
<1>5. req'[r] = [kind |-> "create", user |-> u, order |-> o, seen |-> "none"]
      /\ \A x \in Requests : x # r => req'[x] = req[x]
    BY <1>1 DEF IInv, CoreInv, TypeOK
<1>6. req' \in [Requests -> RequestInfo]
    BY <1>1 DEF IInv, CoreInv, TypeOK, RequestInfo, Kinds, Users
<1>7. CASE ProfileId[c] \in Users
  <2>1. /\ status' = [status EXCEPT ![o] = "pending"]
        /\ log' = log \cup {[by |-> r, order |-> o, status |-> "pending"]}
        /\ client' = [client EXCEPT ![o] = u]
        /\ craftsman' = [craftsman EXCEPT ![o] = ProfileId[c]]
        /\ pc' = [pc EXCEPT ![r] = "append"]
    BY <1>1, <1>7 DEF SetStatus, Goto
  <2>2. /\ log \subseteq log'
        /\ \A p \in Orders : status[p] # "none" => status'[p] # "none"
        /\ \A p \in Orders : status[p] # "none" => client'[p] = client[p] /\ craftsman'[p] = craftsman[p]
    BY <1>1, <2>1 DEF IInv, CoreInv, TypeOK
  <2>3. TypeOK'
    BY <1>2, <1>6, <1>7, <2>1 DEF IInv, CoreInv, TypeOK, Statuses, Writes, Writers, PcLabels, InFlight
  <2>4. RowInv'
    <3> SUFFICES ASSUME NEW p \in Orders, status'[p] # "none"
                 PROVE  Wrote(p, "pending")' /\ Wrote(p, status[p])'
      BY DEF RowInv
    <3>1. CASE p = o
      <4>1. [by |-> r, order |-> o, status |-> "pending"] \in log' /\ status'[o] = "pending"
        BY <2>1 DEF IInv, CoreInv, TypeOK
      <4>2. QED
        BY <3>1, <4>1, Zenon DEF Wrote
    <3>2. CASE p # o
      BY <2>1, <3>2 DEF IInv, CoreInv, TypeOK, Wrote, RowInv
    <3>3. QED
      BY <3>1, <3>2
  <2>5. LogInv'
    BY <1>3, <1>5, <2>1, <2>2 DEF IInv, CoreInv, LogInv, TypeOK, StatusOf, StatusKinds, Writes, OrdersAssumption
  <2>6. RequestInv'
    BY <1>5, <2>1, <2>2, WroteStays DEF IInv, CoreInv, RequestInv, TypeOK, InFlight, StatusOf, StatusKinds
  <2>7. JobInv' /\ TimeoutNoticeIsBacked'
    BY <1>2, <2>2 DEF IInv, CoreInv, SafetyInv, JobInv, TimeoutNoticeIsBacked
  <2>8. PriceInv'
    BY <1>2, <1>4, <2>1 DEF IInv, CoreInv, PriceInv, TypeOK
  <2>9. CompletedWasAccepted'
    BY <2>1, WroteStays DEF IInv, SafetyInv, CompletedWasAccepted, Wrote
  <2>10. EventsMatchWrites'
    BY <1>2, <2>2, EventsStayMatched DEF IInv, SafetyInv
  <2>11. LostEventsHaveACause'
    BY <1>2, <1>3, <2>1 DEF IInv, CoreInv, SafetyInv, LostEventsHaveACause, TypeOK, Writes, Writers, OrdersAssumption
  <2>12. WritersAuthorised'
    <3>1. \A w \in log : w.order \in Orders /\ client'[w.order] = client[w.order]
                         /\ craftsman'[w.order] = craftsman[w.order]
                         /\ (w.by \in Requests => req'[w.by] = req[w.by])
      BY <1>3, <1>5, <2>2 DEF IInv, CoreInv, TypeOK, LogInv, Writes
    <3>2. \A w \in log : Authorised(w)'
      BY <1>2, <3>1 DEF IInv, SafetyInv, WritersAuthorised, Authorised
    <3>3. client'[o] = u
      BY <2>1 DEF IInv, CoreInv, TypeOK
    <3>4. QED
      BY <1>5, <2>1, <3>2, <3>3 DEF WritersAuthorised, Authorised, OrdersAssumption
  <2>13. PriceAfterCompletion'
    <3>1. \A p \in Orders : Wrote(p, "completed") => Wrote(p, "completed")' /\ status[p] # "none"
      BY <2>2, WroteStays DEF IInv, CoreInv, LogInv, Wrote
    <3>2. \A p \in Orders : finalPrice[p] # NoPrice => req'[finalPrice[p]] = req[finalPrice[p]]
      BY <1>4, <1>5 DEF IInv, CoreInv, TypeOK
    <3>3. QED
      BY <1>2, <2>2, <3>1, <3>2 DEF IInv, SafetyInv, PriceAfterCompletion
  <2>14. QED
    BY <2>3, <2>4, <2>5, <2>6, <2>7, <2>8, <2>9, <2>10, <2>11, <2>12, <2>13
       DEF IInv, CoreInv, SafetyInv
<1>8. CASE ProfileId[c] \notin Users
  <2>1. UNCHANGED <<status, log, client, craftsman>> /\ pc' = [pc EXCEPT ![r] = "error"]
    BY <1>1, <1>8 DEF Goto
  <2>2. QED
    BY <1>2, <1>5, <1>6, <2>1, FirstStep DEF PcLabels
<1>9. QED
    BY <1>7, <1>8

LEMMA AdmitStep ==
    ASSUME OrdersAssumption, IInv, NEW r \in Requests, NEW kind \in Kinds,
           NEW u \in Users, NEW o \in Orders, NEW label \in {"write", "patch"},
           Admit(r, kind, u, o, label),
           label = "write" =>
               \/ kind \in {"accept", "reject"} /\ u = craftsman[o] /\ status[o] = "pending"
               \/ kind = "complete" /\ u = craftsman[o] /\ status[o] \in {"in_progress", "accepted"}
               \/ kind = "cancel" /\ status[o] \in {"pending", "accepted"},
           label = "patch" =>
               /\ kind \in {"setPrice", "acceptPrice"}
               /\ kind = "setPrice" => u = craftsman[o]
               /\ status[o] = "completed"
    PROVE  IInv'
<1>1. /\ pc[r] = "idle" /\ status[o] # "none"
      /\ req' = [req EXCEPT ![r] = [kind |-> kind, user |-> u, order |-> o, seen |-> status[o]]]
      /\ pc' = [pc EXCEPT ![r] = label]
      /\ UNCHANGED <<status, client, craftsman, finalPrice, priceAgreed, expired,
                     job, stalled, outbox, realtime, notified, log>>
    BY DEF Admit, Goto, rowVars
<1>2. Wrote(o, status[o]) /\ status[o] # "in_progress"
    BY <1>1 DEF IInv, CoreInv, RowInv, LogInv, Wrote
<1>3. req'[r] = [kind |-> kind, user |-> u, order |-> o, seen |-> status[o]]
      /\ \A x \in Requests : x # r => req'[x] = req[x]
    BY <1>1 DEF IInv, CoreInv, TypeOK
<1>4. req' \in [Requests -> RequestInfo]
    BY <1>1 DEF IInv, CoreInv, TypeOK, RequestInfo
<1>5. RequestInv'
  <2>1. \A x \in Requests : x # r => pc'[x] = pc[x]
    BY <1>1 DEF IInv, CoreInv, TypeOK
  <2>2. pc'[r] = label
    BY <1>1 DEF IInv, CoreInv, TypeOK
  <2>3. QED
    BY <1>1, <1>2, <1>3, <2>1, <2>2 DEF IInv, CoreInv, RequestInv, InFlight, Wrote
<1>6. QED
    BY <1>1, <1>3, <1>4, <1>5, FirstStep DEF PcLabels, InFlight

-----------------------------------------------------------------------------
(***************************************************************************)
(* The remaining steps of a request                                        *)
(***************************************************************************)

LEMMA ReadRequestStep ==
    ASSUME OrdersAssumption, IInv, NEW r \in Requests, ReadRequest(r)
    PROVE  IInv'
<1> USE AdmitStep DEF Kinds, Users
<1>1. CASE ReadForAccept(r)   BY <1>1 DEF ReadForAccept
<1>2. CASE ReadForReject(r)   BY <1>2 DEF ReadForReject
<1>3. CASE ReadForCancel(r)   BY <1>3 DEF ReadForCancel
<1>4. CASE ReadForComplete(r) BY <1>4 DEF ReadForComplete
<1>5. CASE ReadForSetPrice(r) BY <1>5 DEF ReadForSetPrice
<1>6. CASE ReadForAcceptPrice(r) BY <1>6 DEF ReadForAcceptPrice
<1>7. QED
    BY <1>1, <1>2, <1>3, <1>4, <1>5, <1>6 DEF ReadRequest

LEMMA PatchFinalPriceStep ==
    ASSUME OrdersAssumption, IInv, NEW r \in Requests,
           PatchFinalPrice(r) \/ SetFinalPrice(r)
    PROVE  IInv'
<1> DEFINE o == req[r].order
<1>1. /\ pc[r] \in {"patch", "price"}
      /\ \E p \in {r, NoPrice} : finalPrice' = [finalPrice EXCEPT ![o] = p]
      /\ pc' = [pc EXCEPT ![r] = "ok"]
      /\ UNCHANGED <<status, client, craftsman, priceAgreed, expired, req, job,
                     stalled, outbox, realtime, notified, log>>
    BY DEF PatchFinalPrice, SetFinalPrice, Goto
<1>2. o \in Orders /\ req[r].user = craftsman[o] /\ Wrote(o, "completed")
  <2>1. CASE PatchFinalPrice(r)
    BY <2>1 DEF PatchFinalPrice, IInv, CoreInv, RequestInv, InFlight
  <2>2. CASE SetFinalPrice(r)
    <3>1. /\ o \in Orders /\ req[r].kind = "complete"
          /\ [by |-> r, order |-> o, status |-> StatusOf[req[r].kind]] \in log
      BY <2>2 DEF SetFinalPrice, IInv, CoreInv, RequestInv, InFlight
    <3>2. [by |-> r, order |-> o, status |-> "completed"] \in log
      BY <3>1 DEF StatusOf
    <3>3. Authorised([by |-> r, order |-> o, status |-> "completed"])
      BY <3>2 DEF IInv, SafetyInv, WritersAuthorised
    <3>4. req[r].user = craftsman[o]
      BY <3>3 DEF Authorised
    <3>5. Wrote(o, "completed")
      BY <3>2, Zenon DEF Wrote
    <3>6. QED
      BY <3>1, <3>4, <3>5
  <2>3. QED
    BY <2>1, <2>2
<1>3. PICK p \in {r, NoPrice} : finalPrice' = [finalPrice EXCEPT ![o] = p]
    BY <1>1
<1>4. TypeOK'
    BY <1>1, <1>3 DEF IInv, CoreInv, TypeOK, PcLabels
<1>5. RowInv' /\ JobInv' /\ CompletedWasAccepted' /\ EventsMatchWrites' /\ TimeoutNoticeIsBacked'
    BY <1>1 DEF IInv, CoreInv, SafetyInv, RowInv, JobInv, CompletedWasAccepted,
           EventsMatchWrites, TimeoutNoticeIsBacked, Wrote
<1>6. LogInv' /\ RequestInv'
    BY <1>1 DEF IInv, CoreInv, LogInv, RequestInv, TypeOK, InFlight, Wrote
<1>7. PriceInv'
    BY <1>1, <1>2, <1>3 DEF IInv, CoreInv, PriceInv, TypeOK
<1>8. LostEventsHaveACause'
    BY <1>1 DEF IInv, CoreInv, SafetyInv, LostEventsHaveACause, TypeOK, Writes, Writers
<1>9. WritersAuthorised'
    BY <1>1 DEF IInv, SafetyInv, WritersAuthorised, Authorised
<1>10. PriceAfterCompletion'
    BY <1>1, <1>2, <1>3 DEF IInv, CoreInv, SafetyInv, PriceAfterCompletion, TypeOK, Wrote
<1>11. QED
    BY <1>4, <1>5, <1>6, <1>7, <1>8, <1>9, <1>10 DEF IInv, CoreInv, SafetyInv

LEMMA PatchAcceptPriceStep ==
    ASSUME OrdersAssumption, IInv, NEW r \in Requests, PatchAcceptPrice(r)
    PROVE  IInv'
<1> DEFINE o == req[r].order
<1>1. /\ pc[r] = "patch"
      /\ pc' = [pc EXCEPT ![r] = "ok"]
      /\ UNCHANGED <<status, client, craftsman, finalPrice, expired, req, job,
                     stalled, outbox, realtime, notified, log>>
    BY DEF PatchAcceptPrice, Goto
<1>2. PICK answer \in BOOLEAN : priceAgreed' = [priceAgreed EXCEPT ![o] = answer]
    BY DEF PatchAcceptPrice
<1>3. o \in Orders /\ Wrote(o, "completed")
    BY <1>1 DEF IInv, CoreInv, RequestInv, InFlight
<1>4. TypeOK'
    BY <1>1, <1>2 DEF IInv, CoreInv, TypeOK, PcLabels
<1>5. RowInv' /\ JobInv' /\ CompletedWasAccepted' /\ EventsMatchWrites' /\ TimeoutNoticeIsBacked'
    BY <1>1 DEF IInv, CoreInv, SafetyInv, RowInv, JobInv, CompletedWasAccepted,
           EventsMatchWrites, TimeoutNoticeIsBacked, Wrote
<1>6. LogInv' /\ RequestInv' /\ PriceInv'
    BY <1>1 DEF IInv, CoreInv, LogInv, RequestInv, PriceInv, TypeOK, InFlight, Wrote
<1>7. LostEventsHaveACause'
    BY <1>1 DEF IInv, CoreInv, SafetyInv, LostEventsHaveACause, TypeOK, Writes, Writers
<1>8. WritersAuthorised'
    BY <1>1 DEF IInv, SafetyInv, WritersAuthorised, Authorised
<1>9. PriceAfterCompletion'
    BY <1>1, <1>2, <1>3 DEF IInv, CoreInv, SafetyInv, PriceAfterCompletion, TypeOK, Wrote
<1>10. QED
    BY <1>4, <1>5, <1>6, <1>7, <1>8, <1>9 DEF IInv, CoreInv, SafetyInv

LEMMA AppendEventStep ==
    ASSUME OrdersAssumption, IInv, NEW r \in Requests, AppendEvent(r)
    PROVE  IInv'
<1> DEFINE o == req[r].order
           n == EventOf(req[r].kind)
<1>1. /\ pc[r] = "append" /\ o \in Orders /\ req[r].kind \in StatusKinds
      /\ [by |-> r, order |-> o, status |-> StatusOf[req[r].kind]] \in log
    BY DEF AppendEvent, IInv, CoreInv, RequestInv, InFlight
<1>2. /\ outbox' = outbox \cup {[by |-> r, order |-> o, name |-> n]}
      /\ pc' = [pc EXCEPT ![r] = AfterAppend[req[r].kind]]
      /\ UNCHANGED <<status, client, craftsman, finalPrice, priceAgreed, expired,
                     req, job, stalled, realtime, notified, log>>
    BY DEF AppendEvent, AppendOutbox, Goto, rowVars
<1>3. /\ n = IF StatusOf[req[r].kind] = "pending" THEN "created" ELSE StatusOf[req[r].kind]
      /\ n \in EventNames
      /\ AfterAppend[req[r].kind] \in {"enqueue", "publish", "price", "ok"}
      /\ AfterAppend[req[r].kind] = "price" => req[r].kind = "complete"
    BY <1>1 DEF StatusKinds, StatusOf, EventOf, EventNames, AfterAppend
<1>4. TypeOK'
    BY <1>1, <1>2, <1>3 DEF IInv, CoreInv, TypeOK, PcLabels, InFlight, Events, Writers
<1>5. RowInv' /\ JobInv' /\ CompletedWasAccepted' /\ TimeoutNoticeIsBacked'
    BY <1>2 DEF IInv, CoreInv, SafetyInv, RowInv, JobInv, CompletedWasAccepted,
           TimeoutNoticeIsBacked, Wrote
<1>6. LogInv'
    BY <1>1, <1>2, <1>3 DEF IInv, CoreInv, LogInv, TypeOK
<1>7. RequestInv'
    BY <1>1, <1>2, <1>3 DEF IInv, CoreInv, RequestInv, TypeOK, InFlight, Wrote
<1>8. PriceInv'
    BY <1>1, <1>2, <1>3 DEF IInv, CoreInv, PriceInv, TypeOK
<1>9. EventsMatchWrites'
  <2> SUFFICES ASSUME NEW e \in outbox'
               PROVE  \E w \in log : /\ w.by = e.by
                                     /\ w.order = e.order
                                     /\ e.name = IF w.status = "pending" THEN "created" ELSE w.status
    BY <1>2 DEF EventsMatchWrites
  <2>1. CASE e \in outbox
    BY <2>1 DEF IInv, SafetyInv, EventsMatchWrites
  <2>2. CASE e = [by |-> r, order |-> o, name |-> n]
    BY <1>1, <1>3, <2>2
  <2>3. QED
    BY <1>2, <2>1, <2>2
<1>10. LostEventsHaveACause'
  <2> SUFFICES ASSUME NEW w \in log
               PROVE  \/ \E e \in outbox' : e.by = w.by /\ e.order = w.order
                      \/ IF w.by = TimeoutJob
                         THEN job[w.order] \in {"append", "failed"} \/ stalled[w.order]
                         ELSE pc'[w.by] \in {"append", "failed"}
    BY <1>2 DEF LostEventsHaveACause
  <2>1. CASE w.by = r
    <3>1. w.order = o
      BY <2>1 DEF IInv, CoreInv, LogInv
    <3>2. [by |-> r, order |-> o, name |-> n] \in outbox'
      BY <1>2
    <3>3. \E e \in outbox' : e.by = w.by /\ e.order = w.order
      BY <2>1, <3>1, <3>2, Zenon
    <3>4. QED
      BY <3>3
  <2>2. CASE w.by # r
    <3>1. w.by # TimeoutJob => pc'[w.by] = pc[w.by]
      BY <1>2, <2>2 DEF IInv, CoreInv, TypeOK, Writes, Writers
    <3>2. QED
      BY <1>2, <3>1 DEF IInv, SafetyInv, LostEventsHaveACause
  <2>3. QED
    BY <2>1, <2>2
<1>11. WritersAuthorised' /\ PriceAfterCompletion'
    BY <1>2 DEF IInv, SafetyInv, WritersAuthorised, Authorised, PriceAfterCompletion, Wrote
<1>12. QED
    BY <1>4, <1>5, <1>6, <1>7, <1>8, <1>9, <1>10, <1>11 DEF IInv, CoreInv, SafetyInv

LEMMA EnqueueTimeoutStep ==
    ASSUME OrdersAssumption, IInv, NEW r \in Requests, EnqueueTimeout(r)
    PROVE  IInv'
<1> DEFINE o == req[r].order
<1>1. /\ pc[r] = "enqueue" /\ o \in Orders /\ status[o] # "none"
    BY DEF EnqueueTimeout, IInv, CoreInv, RequestInv, InFlight
<1>2. /\ job' = [job EXCEPT ![o] = IF @ = "none" THEN "delayed" ELSE @]
      /\ pc' = [pc EXCEPT ![r] = "ok"]
      /\ UNCHANGED <<status, client, craftsman, finalPrice, priceAgreed, expired,
                     req, stalled, outbox, realtime, notified, log>>
    BY DEF EnqueueTimeout, Goto, rowVars
<1>3. TypeOK'
    BY <1>1, <1>2 DEF IInv, CoreInv, TypeOK, PcLabels, JobStates
<1>4. RowInv' /\ CompletedWasAccepted' /\ EventsMatchWrites' /\ TimeoutNoticeIsBacked'
    BY <1>2 DEF IInv, CoreInv, SafetyInv, RowInv, CompletedWasAccepted,
           EventsMatchWrites, TimeoutNoticeIsBacked, Wrote
<1>5. LogInv' /\ RequestInv' /\ PriceInv'
    BY <1>1, <1>2 DEF IInv, CoreInv, LogInv, RequestInv, PriceInv, TypeOK, InFlight, Wrote
<1>6. JobInv'
    BY <1>1, <1>2 DEF IInv, CoreInv, JobInv, TypeOK
<1>7. LostEventsHaveACause'
    BY <1>1, <1>2 DEF IInv, CoreInv, SafetyInv, LostEventsHaveACause, TypeOK, Writes, Writers
<1>8. WritersAuthorised' /\ PriceAfterCompletion'
    BY <1>2 DEF IInv, SafetyInv, WritersAuthorised, Authorised, PriceAfterCompletion, Wrote
<1>9. QED
    BY <1>3, <1>4, <1>5, <1>6, <1>7, <1>8 DEF IInv, CoreInv, SafetyInv

LEMMA ContinueRequestStep ==
    ASSUME OrdersAssumption, IInv, NEW r \in Requests, ContinueRequest(r)
    PROVE  IInv'
<1>1. CASE PublishAccepted(r)
  <2>1. /\ pc[r] = "publish" /\ pc' = [pc EXCEPT ![r] = "ok"]
        /\ realtime' \subseteq realtime \cup {r}
        /\ UNCHANGED <<status, client, craftsman, finalPrice, priceAgreed, expired,
                       req, job, stalled, outbox, notified, log>>
    BY <1>1 DEF PublishAccepted, Goto, rowVars
  <2>2. QED
    BY <2>1, QuietStep DEF InFlight
<1>2. QED
    BY <1>1, UpdateStatusStep, CancelRowStep, PatchFinalPriceStep,
       PatchAcceptPriceStep, AppendEventStep, EnqueueTimeoutStep DEF ContinueRequest

LEMMA FailStep ==
    ASSUME OrdersAssumption, IInv, NEW r \in Requests, Fail(r)
    PROVE  IInv'
<1>1. /\ pc[r] \in InFlight /\ pc' = [pc EXCEPT ![r] = "failed"]
      /\ UNCHANGED <<status, client, craftsman, finalPrice, priceAgreed, expired,
                     req, job, stalled, outbox, realtime, notified, log>>
    BY DEF Fail, Goto, rowVars
<1>2. QED
    BY <1>1, QuietStep

-----------------------------------------------------------------------------
(***************************************************************************)
(* The remaining steps of the timeout job                                  *)
(***************************************************************************)

\* A step of the job that writes no row: it may notify the client once the
\* rejection and its event are in place.
LEMMA QuietJobStep ==
    ASSUME OrdersAssumption, IInv, NEW o \in Orders, NEW state \in JobStates,
           job[o] \notin {"none", "failed"},
           job' = [job EXCEPT ![o] = state],
           state = "write" => expired[o],
           state \notin {"append", "notify"},
           job[o] = "append" => state = "failed" \/ stalled'[o],
           stalled' \in [Orders -> BOOLEAN],
           \A p \in Orders : stalled[p] => stalled'[p],
           notified' \subseteq notified \cup {o},
           notified' # notified => job[o] = "notify",
           UNCHANGED <<status, client, craftsman, finalPrice, priceAgreed, expired,
                       pc, req, outbox, realtime, log>>
    PROVE  IInv'
<1>1. TypeOK'
    BY DEF IInv, CoreInv, TypeOK
<1>2. RowInv' /\ LogInv' /\ RequestInv' /\ PriceInv'
    BY DEF IInv, CoreInv, RowInv, LogInv, RequestInv, PriceInv, Wrote
<1>3. JobInv'
    BY DEF IInv, CoreInv, JobInv, TypeOK
<1>4. CompletedWasAccepted' /\ EventsMatchWrites' /\ WritersAuthorised' /\ PriceAfterCompletion'
    BY DEF IInv, SafetyInv, CompletedWasAccepted, EventsMatchWrites,
           WritersAuthorised, Authorised, PriceAfterCompletion, Wrote
<1>5. LostEventsHaveACause'
  <2> SUFFICES ASSUME NEW w \in log
               PROVE  \/ \E e \in outbox : e.by = w.by /\ e.order = w.order
                      \/ IF w.by = TimeoutJob
                         THEN job'[w.order] \in {"append", "failed"} \/ stalled'[w.order]
                         ELSE pc[w.by] \in {"append", "failed"}
    BY DEF LostEventsHaveACause
  <2>1. w.order \in Orders /\ job \in [Orders -> JobStates]
    BY DEF IInv, CoreInv, TypeOK, Writes
  <2>2. \/ \E e \in outbox : e.by = w.by /\ e.order = w.order
        \/ IF w.by = TimeoutJob
           THEN job[w.order] \in {"append", "failed"} \/ stalled[w.order]
           ELSE pc[w.by] \in {"append", "failed"}
    BY DEF IInv, SafetyInv, LostEventsHaveACause
  <2>3. CASE w.order = o
    BY <2>1, <2>2, <2>3
  <2>4. CASE w.order # o
    BY <2>1, <2>2, <2>4
  <2>5. QED
    BY <2>3, <2>4
<1>6. TimeoutNoticeIsBacked'
  <2>1. job[o] = "notify" =>
            /\ [by |-> TimeoutJob, order |-> o, status |-> "rejected"] \in log
            /\ [by |-> TimeoutJob, order |-> o, name |-> "rejected"] \in outbox
    BY DEF IInv, CoreInv, JobInv
  <2>2. QED
    BY <2>1 DEF IInv, SafetyInv, TimeoutNoticeIsBacked
<1>7. QED
    BY <1>1, <1>2, <1>3, <1>4, <1>5, <1>6 DEF IInv, CoreInv, SafetyInv

LEMMA JobAppendStep ==
    ASSUME OrdersAssumption, IInv, NEW o \in Orders, JobAppend(o)
    PROVE  IInv'
<1> DEFINE e0 == [by |-> TimeoutJob, order |-> o, name |-> "rejected"]
<1>1. /\ job[o] = "append"
      /\ [by |-> TimeoutJob, order |-> o, status |-> "rejected"] \in log
    BY DEF JobAppend, IInv, CoreInv, JobInv
<1>2. /\ outbox' = outbox \cup {e0}
      /\ job' = [job EXCEPT ![o] = "notify"]
      /\ UNCHANGED <<status, client, craftsman, finalPrice, priceAgreed, expired,
                     pc, req, stalled, realtime, notified, log>>
    BY DEF JobAppend, AppendOutbox, rowVars
<1>3. TypeOK'
    BY <1>2 DEF IInv, CoreInv, TypeOK, JobStates, ActiveJob, Events, Writers, EventNames
<1>4. RowInv' /\ LogInv' /\ RequestInv' /\ PriceInv'
    BY <1>2 DEF IInv, CoreInv, RowInv, LogInv, RequestInv, PriceInv, Wrote
<1>5. JobInv'
    BY <1>1, <1>2 DEF IInv, CoreInv, JobInv, TypeOK
<1>6. CompletedWasAccepted' /\ WritersAuthorised' /\ PriceAfterCompletion' /\ TimeoutNoticeIsBacked'
    BY <1>2 DEF IInv, SafetyInv, CompletedWasAccepted, WritersAuthorised,
           Authorised, PriceAfterCompletion, TimeoutNoticeIsBacked, Wrote
<1>7. EventsMatchWrites'
    BY <1>1, <1>2 DEF IInv, SafetyInv, EventsMatchWrites
<1>8. LostEventsHaveACause'
  <2> SUFFICES ASSUME NEW w \in log
               PROVE  \/ \E e \in outbox' : e.by = w.by /\ e.order = w.order
                      \/ IF w.by = TimeoutJob
                         THEN job'[w.order] \in {"append", "failed"} \/ stalled[w.order]
                         ELSE pc[w.by] \in {"append", "failed"}
    BY <1>2 DEF LostEventsHaveACause
  <2>1. CASE w.by = TimeoutJob /\ w.order = o
    <3>1. e0 \in outbox' /\ e0.by = w.by /\ e0.order = w.order
      BY <1>2, <2>1
    <3>2. QED
      BY <3>1
  <2>2. CASE ~(w.by = TimeoutJob /\ w.order = o)
    <3>1. w.by = TimeoutJob => job'[w.order] = job[w.order]
      BY <1>2, <2>2 DEF IInv, CoreInv, TypeOK, Writes
    <3>2. QED
      BY <1>2, <3>1 DEF IInv, SafetyInv, LostEventsHaveACause
  <2>3. QED
    BY <2>1, <2>2
<1>9. QED
    BY <1>3, <1>4, <1>5, <1>6, <1>7, <1>8 DEF IInv, CoreInv, SafetyInv

LEMMA ExpireStep ==
    ASSUME OrdersAssumption, IInv, NEW o \in Orders, Expire(o)
    PROVE  IInv'
<1>1. /\ expired' = [expired EXCEPT ![o] = TRUE]
      /\ UNCHANGED <<status, client, craftsman, finalPrice, priceAgreed, pc, req,
                     job, stalled, outbox, realtime, notified, log>>
    BY DEF Expire
<1>2. TypeOK'
    BY <1>1 DEF IInv, CoreInv, TypeOK
<1>3. RowInv' /\ LogInv' /\ RequestInv' /\ PriceInv'
    BY <1>1 DEF IInv, CoreInv, RowInv, LogInv, RequestInv, PriceInv, Wrote
<1>4. JobInv' /\ WritersAuthorised'
    BY <1>1 DEF IInv, CoreInv, SafetyInv, JobInv, WritersAuthorised, Authorised, TypeOK, Writes
<1>5. CompletedWasAccepted' /\ EventsMatchWrites' /\ LostEventsHaveACause'
      /\ PriceAfterCompletion' /\ TimeoutNoticeIsBacked'
    BY <1>1 DEF IInv, SafetyInv, CompletedWasAccepted, EventsMatchWrites,
           LostEventsHaveACause, PriceAfterCompletion, TimeoutNoticeIsBacked, Wrote
<1>6. QED
    BY <1>2, <1>3, <1>4, <1>5 DEF IInv, CoreInv, SafetyInv

LEMMA JobStepKeeps ==
    ASSUME OrdersAssumption, IInv, NEW o \in Orders,
           RunJob(o) \/ JobFail(o) \/ JobStall(o)
    PROVE  IInv'
<1> USE DEF rowVars, JobStates, ActiveJob
<1>0. job \in [Orders -> JobStates] /\ stalled \in [Orders -> BOOLEAN]
    BY DEF IInv, CoreInv, TypeOK
<1>1. CASE JobRead(o)
  <2> DEFINE next == IF status[o] = "pending" /\ expired[o] THEN "write" ELSE "done"
  <2>1. /\ next \in JobStates
        /\ next = "write" => expired[o]
        /\ next \notin {"append", "notify"}
    OBVIOUS
  <2>2. /\ job[o] = "delayed"
        /\ job' = [job EXCEPT ![o] = next]
        /\ UNCHANGED <<status, client, craftsman, finalPrice, priceAgreed, expired,
                       pc, req, stalled, outbox, realtime, notified, log>>
    BY <1>1 DEF JobRead, JobDue
  <2> HIDE DEF next
  <2>3. QED
    BY <1>0, <2>1, <2>2, QuietJobStep
<1>2. CASE JobNotify(o)
  <2> DEFINE next == "done"
  <2>1. /\ job[o] = "notify"
        /\ job' = [job EXCEPT ![o] = next]
        /\ notified' \subseteq notified \cup {o}
        /\ UNCHANGED <<status, client, craftsman, finalPrice, priceAgreed, expired,
                       pc, req, stalled, outbox, realtime, log>>
    BY <1>2 DEF JobNotify
  <2>2. next \in JobStates /\ next \notin {"write", "append", "notify"}
    OBVIOUS
  <2> HIDE DEF next
  <2>3. QED
    BY <1>0, <2>1, <2>2, QuietJobStep
<1>3. CASE JobFail(o)
  <2> DEFINE next == "failed"
  <2>1. /\ job[o] \in {"delayed", "write", "append", "notify"}
        /\ job' = [job EXCEPT ![o] = next]
        /\ UNCHANGED <<status, client, craftsman, finalPrice, priceAgreed, expired,
                       pc, req, stalled, outbox, realtime, notified, log>>
    BY <1>3 DEF JobFail, JobDue
  <2>2. /\ next \in JobStates
        /\ next \notin {"write", "append", "notify"}
        /\ next = "failed"
    OBVIOUS
  <2> HIDE DEF next
  <2>3. QED
    BY <1>0, <2>1, <2>2, QuietJobStep
<1>4. CASE JobStall(o)
  <2> DEFINE next == "delayed"
  <2>1. /\ job[o] \in {"write", "append", "notify"}
        /\ job' = [job EXCEPT ![o] = next]
        /\ stalled' = [stalled EXCEPT ![o] = TRUE]
        /\ UNCHANGED <<status, client, craftsman, finalPrice, priceAgreed, expired,
                       pc, req, outbox, realtime, notified, log>>
    BY <1>4 DEF JobStall
  <2>2. next \in JobStates /\ next \notin {"write", "append", "notify"}
    OBVIOUS
  <2> HIDE DEF next
  <2>3. /\ stalled' \in [Orders -> BOOLEAN]
        /\ stalled'[o]
        /\ \A p \in Orders : stalled[p] => stalled'[p]
    BY <1>0, <2>1
  <2>4. /\ notified' \subseteq notified \cup {o}
        /\ notified' # notified => job[o] = "notify"
        /\ job[o] \notin {"none", "failed"}
        /\ next = "write" => expired[o]
        /\ next \notin {"append", "notify"}
        /\ job[o] = "append" => next = "failed" \/ stalled'[o]
        /\ UNCHANGED <<status, client, craftsman, finalPrice, priceAgreed, expired,
                       pc, req, outbox, realtime, log>>
    BY <2>1, <2>2, <2>3
  <2>5. QED
    BY <2>1, <2>2, <2>3, <2>4, QuietJobStep, Zenon
<1>5. QED
    BY <1>1, <1>2, <1>3, <1>4, JobUpdateStep, JobAppendStep DEF RunJob

-----------------------------------------------------------------------------
(***************************************************************************)
(* The theorems                                                            *)
(***************************************************************************)

LEMMA InitEstablishes == OrdersAssumption /\ Init => IInv
<1> SUFFICES ASSUME OrdersAssumption, Init
             PROVE  IInv
    OBVIOUS
<1>1. TypeOK
    BY DEF Init, TypeOK, RequestInfo, PcLabels, JobStates, Idle
<1>2. RowInv /\ LogInv /\ RequestInv /\ JobInv /\ PriceInv
    BY DEF Init, RowInv, LogInv, RequestInv, JobInv, PriceInv, InFlight
<1>3. SafetyInv
    BY DEF Init, SafetyInv, CompletedWasAccepted, EventsMatchWrites, Wrote,
           LostEventsHaveACause, WritersAuthorised, PriceAfterCompletion,
           TimeoutNoticeIsBacked
<1>4. QED
    BY <1>1, <1>2, <1>3 DEF IInv, CoreInv

LEMMA NextPreserves == OrdersAssumption /\ IInv /\ [Next]_vars => IInv'
<1> SUFFICES ASSUME OrdersAssumption, IInv, [Next]_vars
             PROVE  IInv'
    OBVIOUS
<1>1. ASSUME NEW r \in Requests, Create(r)
      PROVE  IInv'
    BY <1>1, CreateStep
<1>2. ASSUME NEW r \in Requests, ReadRequest(r)
      PROVE  IInv'
    BY <1>2, ReadRequestStep
<1>3. ASSUME NEW r \in Requests, ContinueRequest(r)
      PROVE  IInv'
    BY <1>3, ContinueRequestStep
<1>4. ASSUME NEW r \in Requests, Fail(r)
      PROVE  IInv'
    BY <1>4, FailStep
<1>5. ASSUME NEW o \in Orders, Expire(o)
      PROVE  IInv'
    BY <1>5, ExpireStep
<1>6. ASSUME NEW o \in Orders, RunJob(o) \/ JobFail(o) \/ JobStall(o)
      PROVE  IInv'
    BY <1>6, JobStepKeeps
<1>7. CASE UNCHANGED vars
    BY <1>7 DEF vars, IInv, CoreInv, SafetyInv, TypeOK, RowInv, LogInv,
           RequestInv, JobInv, PriceInv, CompletedWasAccepted, EventsMatchWrites,
           LostEventsHaveACause, WritersAuthorised, Authorised,
           PriceAfterCompletion, TimeoutNoticeIsBacked, Wrote
<1>8. QED
    BY <1>1, <1>2, <1>3, <1>4, <1>5, <1>6, <1>7 DEF Next

LEMMA Invariance == Spec => []IInv
<1>1. Init => IInv
    BY OrdersAssumption, InitEstablishes
<1>2. IInv /\ [Next]_vars => IInv'
    BY OrdersAssumption, NextPreserves
<1>3. QED
    BY <1>1, <1>2, PTL DEF Spec
\* Every table, job and suspended handler keeps a value of its type, for any
\* number of users, orders and concurrent requests.
THEOREM TypeCorrect == Spec => []TypeOK
<1>1. IInv => TypeOK
    BY DEF IInv, CoreInv
<1>2. QED
    BY <1>1, Invariance, PTL

\* No order is completed without an acceptance on record, however many stale
\* handlers write to it.
THEOREM CompletedAlwaysAccepted == Spec => []CompletedWasAccepted
<1>1. IInv => CompletedWasAccepted
    BY DEF IInv, SafetyInv
<1>2. QED
    BY <1>1, Invariance, PTL

\* No handler and no job ever leaves an outbox row that its own committed
\* write does not back.
THEOREM EventsAlwaysMatchWrites == Spec => []EventsMatchWrites
<1>1. IInv => EventsMatchWrites
    BY DEF IInv, SafetyInv
<1>2. QED
    BY <1>1, Invariance, PTL

\* A committed status change without its outbox row always points at a writer
\* that is still running or was stopped by a fault.
THEOREM LostEventsAlwaysHaveACause == Spec => []LostEventsHaveACause
<1>1. IInv => LostEventsHaveACause
    BY DEF IInv, SafetyInv
<1>2. QED
    BY <1>1, Invariance, PTL

\* Only the owner cancels, only the assigned craftsman answers or completes,
\* and the job rejects only what is 48 hours old: the checks made before the
\* await still hold of every write made after it.
THEOREM WritersAlwaysAuthorised == Spec => []WritersAuthorised
<1>1. IInv => WritersAuthorised
    BY DEF IInv, SafetyInv
<1>2. QED
    BY <1>1, Invariance, PTL

\* A price, or the client's agreement to it, is stored only for an order that
\* was once completed, and the price is its craftsman's.
THEOREM PriceAlwaysAfterCompletion == Spec => []PriceAfterCompletion
<1>1. IInv => PriceAfterCompletion
    BY DEF IInv, SafetyInv
<1>2. QED
    BY <1>1, Invariance, PTL

\* The timeout notification is only ever sent with the rejection and its event
\* committed.
THEOREM TimeoutNoticeAlwaysBacked == Spec => []TimeoutNoticeIsBacked
<1>1. IInv => TimeoutNoticeIsBacked
    BY DEF IInv, SafetyInv
<1>2. QED
    BY <1>1, Invariance, PTL

-----------------------------------------------------------------------------
(***************************************************************************)
(* Every order has its timeout job, or its creation explains why not       *)
(***************************************************************************)

\* A creation that explains why o has no job: under way, or stopped by a fault.
Explains(r, o) ==
    /\ req[r].kind = "create"
    /\ req[r].order = o
    /\ pc[r] \in {"append", "enqueue", "failed"}

LEMMA UntimedRequestStep ==
    ASSUME OrdersAssumption, IInv, UntimedOrderHasACause, NEW r \in Requests,
           Create(r) \/ ReadRequest(r) \/ ContinueRequest(r) \/ Fail(r)
    PROVE  UntimedOrderHasACause'
<1>0. TypeOK /\ RequestInv
    BY DEF IInv, CoreInv
<1> SUFFICES ASSUME NEW o \in Orders, status'[o] # "none", job'[o] = "none"
             PROVE  \E x \in Requests : Explains(x, o)'
    BY DEF UntimedOrderHasACause, Explains
<1>1. /\ \A x \in Requests : x # r => pc'[x] = pc[x] /\ req'[x] = req[x]
      /\ job[o] = "none"
  <2>1. CASE Create(r)
    BY <1>0, <2>1 DEF Create, Goto, SetStatus, TypeOK
  <2>2. CASE ReadRequest(r)
    BY <1>0, <2>2 DEF ReadRequest, ReadForAccept, ReadForReject, ReadForCancel,
           ReadForComplete, ReadForSetPrice, ReadForAcceptPrice, Admit, Goto, TypeOK
  <2>3. CASE EnqueueTimeout(r)
    BY <1>0, <2>3 DEF EnqueueTimeout, Goto, TypeOK
  <2>4. CASE UpdateStatus(r) \/ CancelRow(r) \/ PatchFinalPrice(r) \/ PatchAcceptPrice(r)
    BY <1>0, <2>4 DEF UpdateStatus, CancelRow, PatchFinalPrice, PatchAcceptPrice,
           Goto, TypeOK
  <2>5. CASE AppendEvent(r) \/ PublishAccepted(r) \/ SetFinalPrice(r) \/ Fail(r)
    BY <1>0, <2>5 DEF AppendEvent, PublishAccepted, SetFinalPrice, Fail, Goto, TypeOK
  <2>6. QED
    BY <2>1, <2>2, <2>3, <2>4, <2>5 DEF ContinueRequest
<1>2. CASE status[o] # "none"
  <2>1. PICK x \in Requests : Explains(x, o)
    BY <1>1, <1>2 DEF UntimedOrderHasACause, Explains
  <2>2. CASE x # r
    BY <1>1, <2>1, <2>2 DEF Explains
  <2>3. CASE x = r
    <3>1. pc[r] \in {"append", "enqueue", "failed"} /\ req[r].kind = "create" /\ req[r].order = o
      BY <2>1, <2>3 DEF Explains
    <3>2. CASE AppendEvent(r)
      <4>1. pc' = [pc EXCEPT ![r] = AfterAppend[req[r].kind]] /\ req' = req
        BY <3>2 DEF AppendEvent, Goto
      <4>2. AfterAppend[req[r].kind] = "enqueue"
        BY <3>1 DEF AfterAppend
      <4>3. pc'[r] = "enqueue"
        BY <1>0, <4>1, <4>2 DEF TypeOK
      <4>4. QED
        BY <3>1, <4>1, <4>3 DEF Explains
    <3>3. CASE Fail(r)
      BY <1>0, <3>1, <3>3 DEF Fail, Goto, TypeOK, Explains
    <3>4. CASE EnqueueTimeout(r)
      <4>1. job' = [job EXCEPT ![o] = IF @ = "none" THEN "delayed" ELSE @]
        BY <3>1, <3>4 DEF EnqueueTimeout
      <4>2. QED
        BY <1>0, <1>1, <4>1 DEF TypeOK
    <3>5. ~Create(r) /\ ~ReadRequest(r) /\ ~UpdateStatus(r) /\ ~CancelRow(r)
      BY <3>1 DEF Create, ReadRequest, ReadForAccept, ReadForReject, ReadForCancel,
             ReadForComplete, ReadForSetPrice, ReadForAcceptPrice, Admit,
             UpdateStatus, CancelRow
    <3>6. ~PatchFinalPrice(r) /\ ~PatchAcceptPrice(r) /\ ~PublishAccepted(r) /\ ~SetFinalPrice(r)
      BY <3>1 DEF PatchFinalPrice, PatchAcceptPrice, PublishAccepted, SetFinalPrice
    <3>7. QED
      BY <3>2, <3>3, <3>4, <3>5, <3>6 DEF ContinueRequest
  <2>4. QED
    BY <2>2, <2>3
<1>3. CASE status[o] = "none"
  <2>1. Create(r)
    <3>1. ~UpdateStatus(r) /\ ~CancelRow(r)
      BY <1>0, <1>3 DEF UpdateStatus, CancelRow, SetStatus, TypeOK, RequestInv, InFlight
    <3>2. ~ReadRequest(r) /\ ~Fail(r)
      BY <1>3 DEF ReadRequest, ReadForAccept, ReadForReject, ReadForCancel,
             ReadForComplete, ReadForSetPrice, ReadForAcceptPrice, Admit, Fail, rowVars
    <3>3. /\ ~PatchFinalPrice(r) /\ ~PatchAcceptPrice(r) /\ ~AppendEvent(r)
          /\ ~PublishAccepted(r) /\ ~SetFinalPrice(r) /\ ~EnqueueTimeout(r)
      BY <1>3 DEF PatchFinalPrice, PatchAcceptPrice, AppendEvent, PublishAccepted,
             SetFinalPrice, EnqueueTimeout, rowVars
    <3>4. QED
      BY <3>1, <3>2, <3>3 DEF ContinueRequest
  <2>2. req'[r].kind = "create" /\ req'[r].order = o /\ pc'[r] = "append"
    BY <1>0, <1>3, <2>1 DEF Create, SetStatus, Goto, TypeOK
  <2>3. QED
    BY <2>2 DEF Explains
<1>4. QED
    BY <1>2, <1>3

LEMMA UntimedOrderStep ==
    ASSUME IInv, UntimedOrderHasACause, NEW p \in Orders,
           Expire(p) \/ RunJob(p) \/ JobFail(p) \/ JobStall(p)
    PROVE  UntimedOrderHasACause'
<1>0. TypeOK /\ JobInv
    BY DEF IInv, CoreInv
<1>1. pc' = pc /\ req' = req
    BY DEF Expire, RunJob, JobRead, JobUpdate, JobAppend, JobNotify, JobFail, JobStall
<1>2. \A o \in Orders : job'[o] = "none" => job[o] = "none"
    BY <1>0 DEF Expire, RunJob, JobRead, JobUpdate, JobAppend, JobNotify, JobFail,
           JobStall, TypeOK
<1>3. \A o \in Orders : job'[o] = "none" /\ status'[o] # "none" => status[o] # "none"
  <2>1. CASE JobUpdate(p)
    BY <1>0, <2>1 DEF JobUpdate, SetStatus, TypeOK
  <2>2. CASE Expire(p)
    BY <2>2 DEF Expire
  <2>3. CASE JobRead(p) \/ JobAppend(p) \/ JobNotify(p) \/ JobFail(p) \/ JobStall(p)
    BY <2>3 DEF JobRead, JobAppend, JobNotify, JobFail, JobStall, rowVars
  <2>4. QED
    BY <2>1, <2>2, <2>3 DEF RunJob
<1>4. QED
    BY <1>1, <1>2, <1>3 DEF UntimedOrderHasACause

\* An order without a timeout job still has its creation under way, or a fault
\* stopped that creation between the INSERT and the queueing.
THEOREM UntimedOrderAlwaysHasACause == Spec => []UntimedOrderHasACause
<1>1. Init => UntimedOrderHasACause
    BY DEF Init, UntimedOrderHasACause
<1>2. IInv /\ UntimedOrderHasACause /\ [Next]_vars => UntimedOrderHasACause'
  <2> SUFFICES ASSUME IInv, UntimedOrderHasACause, [Next]_vars
               PROVE  UntimedOrderHasACause'
    OBVIOUS
  <2>1. CASE Next
    BY <2>1, OrdersAssumption, UntimedRequestStep, UntimedOrderStep DEF Next
  <2>2. CASE UNCHANGED vars
    BY <2>2 DEF vars, UntimedOrderHasACause
  <2>3. QED
    BY <2>1, <2>2
<1>3. QED
    BY <1>1, <1>2, Invariance, PTL DEF Spec

-----------------------------------------------------------------------------
(***************************************************************************)
(* Action properties                                                       *)
(***************************************************************************)

QuietFinalStep ==
    \A o \in Orders :
        status[o] \in Terminal /\ ~PendingWriter(o) =>
            status'[o] = status[o] /\ ~PendingWriter(o)'

LEMMA QuietRequestStep ==
    ASSUME OrdersAssumption, IInv, NEW r \in Requests,
           Create(r) \/ ReadRequest(r) \/ ContinueRequest(r) \/ Fail(r)
    PROVE  QuietFinalStep
<1> USE DEF Terminal, PendingWriter
<1> SUFFICES ASSUME NEW o \in Orders, status[o] \in Terminal, ~PendingWriter(o)
             PROVE  status'[o] = status[o] /\ ~PendingWriter(o)'
    BY DEF QuietFinalStep
<1>0. TypeOK /\ RequestInv
    BY DEF IInv, CoreInv
<1>1. CASE Create(r)
    BY <1>0, <1>1 DEF Create, SetStatus, Goto, TypeOK
<1>2. CASE ReadRequest(r)
    BY <1>0, <1>2 DEF ReadRequest, ReadForAccept, ReadForReject, ReadForCancel,
           ReadForComplete, ReadForSetPrice, ReadForAcceptPrice, Admit, Goto,
           rowVars, TypeOK
<1>3. CASE UpdateStatus(r) \/ CancelRow(r)
    BY <1>0, <1>3 DEF UpdateStatus, CancelRow, SetStatus, Goto, TypeOK,
           RequestInv, InFlight
<1>4. CASE PatchFinalPrice(r) \/ PatchAcceptPrice(r) \/ SetFinalPrice(r)
    BY <1>0, <1>4 DEF PatchFinalPrice, PatchAcceptPrice, SetFinalPrice, Goto, TypeOK
<1>5. CASE AppendEvent(r) \/ PublishAccepted(r)
  <2>1. CASE AppendEvent(r)
    <3>1. /\ status' = status /\ job' = job /\ req' = req
          /\ pc' = [pc EXCEPT ![r] = AfterAppend[req[r].kind]]
          /\ req[r].kind \in StatusKinds
      BY <1>0, <2>1 DEF AppendEvent, Goto, rowVars, RequestInv
    <3>2. AfterAppend[req[r].kind] # "write"
      BY <3>1 DEF AfterAppend, StatusKinds
    <3>3. QED
      BY <1>0, <3>1, <3>2 DEF TypeOK
  <2>2. CASE PublishAccepted(r)
    BY <1>0, <2>2 DEF PublishAccepted, Goto, rowVars, TypeOK
  <2>3. QED
    BY <1>5, <2>1, <2>2
<1>6. CASE EnqueueTimeout(r)
  <2>1. /\ status' = status /\ req' = req
        /\ pc' = [pc EXCEPT ![r] = "ok"]
        /\ job'[o] = "write" => job[o] = "write"
    BY <1>0, <1>6 DEF EnqueueTimeout, Goto, rowVars, TypeOK
  <2>2. QED
    BY <1>0, <2>1 DEF TypeOK
<1>7. CASE Fail(r)
    BY <1>0, <1>7 DEF Fail, Goto, rowVars, TypeOK
<1>8. QED
    BY <1>1, <1>2, <1>3, <1>4, <1>5, <1>6, <1>7 DEF ContinueRequest

LEMMA QuietOrderStep ==
    ASSUME OrdersAssumption, IInv, NEW p \in Orders,
           Expire(p) \/ RunJob(p) \/ JobFail(p) \/ JobStall(p)
    PROVE  QuietFinalStep
<1> USE DEF Terminal, PendingWriter
<1> SUFFICES ASSUME NEW o \in Orders, status[o] \in Terminal, ~PendingWriter(o)
             PROVE  status'[o] = status[o] /\ ~PendingWriter(o)'
    BY DEF QuietFinalStep
<1>0. TypeOK
    BY DEF IInv, CoreInv
<1>1. CASE Expire(p)
    BY <1>1 DEF Expire
<1>2. CASE JobUpdate(p)
    BY <1>0, <1>2 DEF JobUpdate, SetStatus, TypeOK
<1>3. CASE JobRead(p) \/ JobAppend(p) \/ JobNotify(p) \/ JobFail(p) \/ JobStall(p)
  <2>1. status' = status /\ pc' = pc /\ req' = req
    BY <1>3 DEF JobRead, JobAppend, JobNotify, JobFail, JobStall, rowVars
  <2>2. job'[o] # "write"
    BY <1>0, <1>3 DEF JobRead, JobAppend, JobNotify, JobFail, JobStall, TypeOK
  <2>3. QED
    BY <2>1, <2>2
<1>4. QED
    BY <1>1, <1>2, <1>3 DEF RunJob

\* Once every handler that had read o is past its UPDATE, a terminal status is
\* final: only a stale handler can overwrite it, never a new one.
THEOREM QuietTerminalAlwaysFinal == Spec => QuietTerminalIsFinal
<1>1. IInv /\ [Next]_vars => [QuietFinalStep]_vars
  <2> SUFFICES ASSUME IInv, Next
               PROVE  QuietFinalStep
    OBVIOUS
  <2>1. QED
    BY OrdersAssumption, QuietRequestStep, QuietOrderStep DEF Next
<1>2. QED
    BY <1>1, Invariance, PTL DEF Spec, QuietTerminalIsFinal, QuietFinalStep
FreshStep ==
    /\ \A r \in Requests :
            LET o == req[r].order IN
            pc[r] = "write" /\ pc'[r] = "append" /\ req[r].seen = status[o]
                => <<status[o], status'[o]>> \in DiagramEdges
    /\ \A o \in Orders :
            job[o] = "write" /\ job'[o] = "append" /\ status[o] = "pending"
                => <<status[o], status'[o]>> \in DiagramEdges

\* A request that moves from "write" to "append" runs one of the two UPDATEs.
LEMMA OnlyUpdatesWrite ==
    ASSUME TypeOK, Next, NEW r \in Requests, pc[r] = "write", pc'[r] = "append"
    PROVE  UpdateStatus(r) \/ CancelRow(r)
<1> DEFINE Others(q) ==
        \/ Create(q) \/ ReadRequest(q) \/ PatchFinalPrice(q) \/ PatchAcceptPrice(q)
        \/ AppendEvent(q) \/ PublishAccepted(q) \/ SetFinalPrice(q)
        \/ EnqueueTimeout(q) \/ Fail(q)
<1>1. ASSUME NEW q \in Requests, q # r,
             Create(q) \/ ReadRequest(q) \/ ContinueRequest(q) \/ Fail(q)
      PROVE  FALSE
    BY <1>1 DEF TypeOK, Create, ReadRequest, ReadForAccept, ReadForReject,
           ReadForCancel, ReadForComplete, ReadForSetPrice, ReadForAcceptPrice,
           Admit, ContinueRequest, UpdateStatus, CancelRow, PatchFinalPrice,
           PatchAcceptPrice, AppendEvent, PublishAccepted, SetFinalPrice,
           EnqueueTimeout, Fail, Goto
<1>2. CASE Others(r)
    BY <1>2 DEF TypeOK, Create, ReadRequest, ReadForAccept, ReadForReject,
           ReadForCancel, ReadForComplete, ReadForSetPrice, ReadForAcceptPrice,
           Admit, PatchFinalPrice, PatchAcceptPrice, AppendEvent,
           PublishAccepted, SetFinalPrice, EnqueueTimeout, Fail, Goto
<1>3. ASSUME NEW o \in Orders, Expire(o) \/ RunJob(o) \/ JobFail(o) \/ JobStall(o)
      PROVE  FALSE
    BY <1>3 DEF Expire, RunJob, JobRead, JobUpdate, JobAppend, JobNotify,
           JobFail, JobStall, rowVars
<1>4. QED
    BY <1>1, <1>2, <1>3 DEF Next, ContinueRequest

LEMMA OnlyJobUpdateWrites ==
    ASSUME TypeOK, Next, NEW o \in Orders, job[o] = "write", job'[o] = "append"
    PROVE  JobUpdate(o)
<1>1. ASSUME NEW q \in Requests,
             Create(q) \/ ReadRequest(q) \/ ContinueRequest(q) \/ Fail(q)
      PROVE  job'[o] # "append"
  <2>1. CASE EnqueueTimeout(q)
      BY <2>1 DEF EnqueueTimeout, TypeOK
  <2>2. CASE ~EnqueueTimeout(q)
      BY <1>1, <2>2 DEF Create, ReadRequest, ReadForAccept, ReadForReject,
           ReadForCancel, ReadForComplete, ReadForSetPrice, ReadForAcceptPrice,
           Admit, ContinueRequest, UpdateStatus, CancelRow, PatchFinalPrice,
           PatchAcceptPrice, AppendEvent, PublishAccepted, SetFinalPrice, Fail
  <2>3. QED
      BY <2>1, <2>2
<1>2. ASSUME NEW p \in Orders,
             Expire(p) \/ JobRead(p) \/ JobAppend(p) \/ JobNotify(p) \/ JobFail(p)
                \/ JobStall(p) \/ (p # o /\ JobUpdate(p))
      PROVE  job'[o] # "append"
    BY <1>2 DEF TypeOK, Expire, JobRead, JobUpdate, JobAppend, JobNotify,
           JobFail, JobStall
<1>3. QED
    BY <1>1, <1>2 DEF Next, RunJob

\* A handler whose UPDATE finds the status it had read makes a transition of
\* the documented state diagram, whatever else is in flight.
THEOREM FreshWritesAlwaysFollowDiagram == Spec => FreshWritesFollowDiagram
<1>1. IInv /\ [Next]_vars => [FreshStep]_vars
  <2> SUFFICES ASSUME IInv, Next
               PROVE  FreshStep
    OBVIOUS
  <2>0. TypeOK /\ RequestInv
    BY DEF IInv, CoreInv
  <2>1. ASSUME NEW r \in Requests, pc[r] = "write", pc'[r] = "append",
               req[r].seen = status[req[r].order]
        PROVE  <<status[req[r].order], status'[req[r].order]>> \in DiagramEdges
    <3> DEFINE o == req[r].order
    <3>1. o \in Orders /\ status[o] # "none"
      BY <2>0, <2>1 DEF RequestInv, InFlight
    <3>2. CASE UpdateStatus(r)
      <4>1. status'[o] = StatusOf[req[r].kind]
        BY <2>0, <3>1, <3>2 DEF UpdateStatus, SetStatus, TypeOK
      <4>2. \/ /\ req[r].kind \in {"accept", "reject"}
               /\ status[o] = "pending"
            \/ /\ req[r].kind = "complete"
               /\ status[o] = "accepted"
        BY <2>0, <2>1, <3>2 DEF RequestInv, UpdateStatus
      <4>3. QED
        BY <4>1, <4>2 DEF StatusOf, DiagramEdges
    <3>3. CASE CancelRow(r)
      <4>1. status'[o] = "cancelled"
        BY <2>0, <2>1, <3>1, <3>3 DEF CancelRow, SetStatus, Goto, TypeOK
      <4>2. status[o] \in {"pending", "accepted"}
        BY <2>0, <2>1, <3>3 DEF RequestInv, CancelRow
      <4>3. QED
        BY <4>1, <4>2 DEF DiagramEdges
    <3>4. QED
      BY <2>0, <2>1, <3>2, <3>3, OnlyUpdatesWrite
  <2>2. ASSUME NEW o \in Orders, job[o] = "write", job'[o] = "append",
               status[o] = "pending"
        PROVE  <<status[o], status'[o]>> \in DiagramEdges
    <3>1. JobUpdate(o)
      BY <2>0, <2>2, OnlyJobUpdateWrites
    <3>2. status'[o] = "rejected"
      BY <2>0, <3>1 DEF JobUpdate, SetStatus, TypeOK
    <3>3. QED
      BY <2>2, <3>2 DEF DiagramEdges
  <2>3. QED
    BY <2>1, <2>2 DEF FreshStep
<1>2. QED
    BY <1>1, Invariance, PTL DEF Spec, FreshWritesFollowDiagram, FreshStep

-----------------------------------------------------------------------------
(***************************************************************************)
(* Refinement: the orders implement the ledger                             *)
(***************************************************************************)

\* Every UPDATE or INSERT of a status is one entry of the ledger.
LEMMA WriteIsRecorded ==
    ASSUME TypeOK, NEW o \in Orders, NEW s \in Statuses, NEW w, SetStatus(o, s, w)
    PROVE  Ledger!Record(o, s)
<1> DEFINE Reached == [p \in Orders |-> {x \in Statuses : Wrote(p, x)}]
           Reached2 == [p \in Orders |-> {x \in Statuses :
                                \E e \in log' : e.order = p /\ e.status = x}]
<1>1. status' = [status EXCEPT ![o] = s]
    BY DEF SetStatus
<1>2. ASSUME NEW p \in Orders, NEW x \in Statuses
      PROVE  (\E e \in log' : e.order = p /\ e.status = x)
                <=> Wrote(p, x) \/ (p = o /\ x = s)
  <2> DEFINE entry == [by |-> w, order |-> o, status |-> s]
  <2>1. log' = log \cup {entry} /\ entry.order = o /\ entry.status = s
    BY DEF SetStatus
  <2> HIDE DEF entry
  <2>2. QED
    BY <2>1 DEF Wrote
<1>3. Reached2 = [Reached EXCEPT ![o] = @ \cup {s}]
  <2>1. ASSUME NEW p \in Orders
        PROVE  Reached2[p] = [Reached EXCEPT ![o] = @ \cup {s}][p]
    BY <1>2, <2>1
  <2> HIDE DEF Reached2
  <2>2. Reached2 = [p \in Orders |-> Reached2[p]]
    BY DEF Reached2
  <2>3. [Reached EXCEPT ![o] = @ \cup {s}]
            = [p \in Orders |-> [Reached EXCEPT ![o] = @ \cup {s}][p]]
    OBVIOUS
  <2>4. QED
    BY <2>1, <2>2, <2>3
<1>4. QED
    BY <1>1, <1>3 DEF Ledger!Record, Wrote
LEMMA LedgerInitially == Init => Ledger!LedgerInit
BY DEF Init, Ledger!LedgerInit, Wrote

\* A request's step opens an order, records a decision on it, or leaves the
\* ledger alone.
LEMMA RequestStepInLedger ==
    ASSUME OrdersAssumption, IInv, NEW r \in Requests,
           Create(r) \/ ReadRequest(r) \/ ContinueRequest(r) \/ Fail(r)
    PROVE  Ledger!LedgerNext \/ UNCHANGED <<status, log>>
<1>0. TypeOK /\ RowInv /\ RequestInv
    BY DEF IInv, CoreInv
<1>1. CASE Create(r)
  <2>1. CASE UNCHANGED <<status, log>>
    BY <2>1
  <2>2. CASE ~UNCHANGED <<status, log>>
    <3>1. PICK o \in Orders : status[o] = "none" /\ SetStatus(o, "pending", r)
      BY <1>1, <2>2 DEF Create
    <3>2. Ledger!Record(o, "pending")
      BY <1>0, <3>1, WriteIsRecorded DEF Statuses
    <3>3. QED
      BY <3>1, <3>2 DEF Ledger!LedgerNext, Ledger!Open
  <2>3. QED
    BY <2>1, <2>2
<1>2. CASE UpdateStatus(r)
  <2> DEFINE o == req[r].order
             s == StatusOf[req[r].kind]
  <2>1. o \in Orders /\ status[o] # "none" /\ SetStatus(o, s, r)
    BY <1>0, <1>2 DEF UpdateStatus, RequestInv, InFlight
  <2>2. \/ s \in {"accepted", "rejected"}
        \/ s = "completed" /\ Wrote(o, "accepted")
    <3>1. \/ req[r].kind \in {"accept", "reject"}
          \/ req[r].kind = "complete" /\ Wrote(o, "accepted")
      BY <1>0, <1>2 DEF UpdateStatus, RequestInv
    <3>2. QED
      BY <3>1 DEF StatusOf
  <2>3. Wrote(o, "pending")
    BY <1>0, <2>1 DEF RowInv
  <2> HIDE DEF o, s
  <2>4. Ledger!Record(o, s)
    BY <1>0, <2>1, <2>2, WriteIsRecorded DEF Statuses
  <2>5. CASE s \in {"accepted", "rejected"}
    BY <2>1, <2>3, <2>4, <2>5 DEF Ledger!LedgerNext, Ledger!Decide, Statuses
  <2>6. CASE s = "completed" /\ Wrote(o, "accepted")
    BY <2>1, <2>3, <2>4, <2>6 DEF Ledger!LedgerNext, Ledger!Complete, Statuses
  <2>7. QED
    BY <2>2, <2>5, <2>6
<1>3. CASE CancelRow(r)
  <2>1. CASE UNCHANGED <<status, log>>
    BY <2>1
  <2>2. CASE ~UNCHANGED <<status, log>>
    <3> DEFINE o == req[r].order
    <3>1. o \in Orders /\ status[o] # "none" /\ SetStatus(o, "cancelled", r)
      BY <1>0, <1>3, <2>2 DEF CancelRow, RequestInv, InFlight
    <3>2. Wrote(o, "pending")
      BY <1>0, <3>1 DEF RowInv
    <3> HIDE DEF o
    <3>3. Ledger!Record(o, "cancelled")
      BY <1>0, <3>1, WriteIsRecorded DEF Statuses
    <3>4. QED
      BY <3>1, <3>2, <3>3 DEF Ledger!LedgerNext, Ledger!Decide, Statuses
  <2>3. QED
    BY <2>1, <2>2
<1>4. CASE ~(Create(r) \/ UpdateStatus(r) \/ CancelRow(r))
    BY <1>4 DEF ReadRequest, ReadForAccept, ReadForReject, ReadForCancel,
           ReadForComplete, ReadForSetPrice, ReadForAcceptPrice, Admit,
           ContinueRequest, PatchFinalPrice, PatchAcceptPrice, AppendEvent,
           PublishAccepted, SetFinalPrice, EnqueueTimeout, Fail, rowVars
<1>5. QED
    BY <1>1, <1>2, <1>3, <1>4

LEMMA OrderStepInLedger ==
    ASSUME OrdersAssumption, IInv, NEW o \in Orders,
           Expire(o) \/ RunJob(o) \/ JobFail(o) \/ JobStall(o)
    PROVE  Ledger!LedgerNext \/ UNCHANGED <<status, log>>
<1>0. TypeOK /\ RowInv /\ JobInv
    BY DEF IInv, CoreInv
<1>1. CASE JobUpdate(o)
  <2>1. SetStatus(o, "rejected", TimeoutJob) /\ Wrote(o, "pending")
    BY <1>0, <1>1 DEF JobUpdate, RowInv, JobInv
  <2>2. Ledger!Record(o, "rejected")
    BY <1>0, <2>1, WriteIsRecorded DEF Statuses
  <2>3. QED
    BY <2>1, <2>2 DEF Ledger!LedgerNext, Ledger!Decide, Statuses
<1>2. CASE ~JobUpdate(o)
    BY <1>2 DEF Expire, RunJob, JobRead, JobAppend, JobNotify, JobFail, JobStall, rowVars
<1>3. QED
    BY <1>1, <1>2

\* The table and its history implement the ledger: whatever handlers, job and
\* faults do, each step is one recorded decision or leaves the ledger alone.
THEOREM OrdersImplementLedger == Spec => ImplementsLedger
<1>1. Init => Ledger!LedgerInit
    BY LedgerInitially
<1>2. IInv /\ [Next]_vars => [Ledger!LedgerNext]_(Ledger!ledgerVars)
  <2>1. ASSUME IInv, [Next]_vars
        PROVE  Ledger!LedgerNext \/ UNCHANGED <<status, log>>
    BY <2>1, OrdersAssumption, RequestStepInLedger, OrderStepInLedger DEF Next, vars
  <2>2. UNCHANGED <<status, log>> => UNCHANGED Ledger!ledgerVars
    BY DEF Ledger!ledgerVars, Wrote
  <2>3. QED
    BY <2>1, <2>2
<1>3. QED
    BY <1>1, <1>2, Invariance, PTL DEF Spec, ImplementsLedger, Ledger!LedgerSpec
=============================================================================
