------------------------------ MODULE Feedback ------------------------------
(***************************************************************************)
(* Complaints and reviews: the routes of apps/web/src/app/api that file,   *)
(* investigate, dismiss and resolve a complaint or review an order, with   *)
(* the repositories behind them.                                           *)
(*                                                                         *)
(* A request is a handler at work.  Every database call of a handler is a  *)
(* step of its own, because requests interleave there: a check and the     *)
(* UPDATE or INSERT that relies on it are separate statements, and so are  *)
(* a row's UPDATE and the INSERT of its event into the outbox.  A web      *)
(* process that dies in the middle of a request is a step that fails.      *)
(***************************************************************************)
EXTENDS Naturals, Sequences

CONSTANTS
    Complaints,    \* ids of complaints
    Orders,        \* ids of orders
    Requests,      \* calls of the routes
    Clients,       \* users with role client
    Admins,        \* users with role admin or super_admin
    Verdicts,      \* the actions an admin can take: warning, freeze, permanent_ban
    None,          \* an absent value
    StoreFails     \* may PostgreSQL refuse the INSERT of an event?

Users == Clients \cup Admins

ASSUME FeedbackAssumption ==
    /\ Clients \cap Admins = {}
    /\ Complaints \cap Orders = {}
    /\ None \notin Complaints \cup Orders \cup Users \cup Verdicts \cup Requests
    /\ StoreFails \in BOOLEAN

VARIABLES
    complaint,  \* complaint[c]: the row, status "none" before it is filed
    order,      \* order[o]: status and client of an order
    reviews,    \* rows of the reviews table
    req,        \* req[q]: what request q is for
    pc,         \* pc[q]: where it is
    answer,     \* answer[q]: the status code it was answered with, 0 before
    \* History, read by properties only
    writes,     \* writes[c]: the requests that wrote the row of c, in order
    log,        \* log[c]: the requests whose event about c entered the outbox, in order
    told,       \* the requests whose review.created entered the outbox
    overlap     \* <<p, q>>: p and q were at work on the same row at once

vars == <<complaint, order, reviews, req, pc, answer, writes, log, told, overlap>>
complaintVars == <<complaint, writes, log>>
reviewVars == <<order, reviews, told>>

Ops == {"file", "patch", "resolve", "dismiss", "investigate", "review"}
Closed == {"resolved", "dismissed"}

NoRow == [status |-> "none", action |-> None, by |-> None]
Pending == [NoRow EXCEPT !.status = "pending"]
NoRequest == [op |-> "none", who |-> None, on |-> None, verdict |-> None]

\* Some complaints were filed before, and are still to be decided.
Init ==
    /\ complaint \in [Complaints -> {NoRow, Pending}]
    /\ order \in [Orders -> [status : {"in_progress"}, client : Clients]]
    /\ reviews = {}
    /\ req = [q \in Requests |-> NoRequest]
    /\ pc = [q \in Requests |-> "idle"]
    /\ answer = [q \in Requests |-> 0]
    /\ writes = [c \in Complaints |-> <<>>]
    /\ log = [c \in Complaints |-> <<>>]
    /\ told = {}
    /\ overlap = {}

-----------------------------------------------------------------------------
(***************************************************************************)
(* Requests                                                                *)
(***************************************************************************)

InFlight(q) == pc[q] \notin {"idle", "done"}

At(q, l) == pc[q] = l

\* A route is called: op by user u on row x.
Start(q, op, u, x, v, l) ==
    /\ At(q, "idle")
    /\ req' = [req EXCEPT ![q] = [op |-> op, who |-> u, on |-> x, verdict |-> v]]
    /\ pc' = [pc EXCEPT ![q] = l]
    /\ overlap' = overlap \cup
         UNION {{<<p, q>>, <<q, p>>} : p \in {p \in Requests : InFlight(p) /\ req[p].on = x}}
    /\ UNCHANGED <<answer, complaintVars, reviewVars>>

Goto(q, l) == pc' = [pc EXCEPT ![q] = l] /\ UNCHANGED <<req, answer>>

\* The response is sent.
Answer(q, code) ==
    /\ pc' = [pc EXCEPT ![q] = "done"]
    /\ answer' = [answer EXCEPT ![q] = code]
    /\ UNCHANGED req

\* requireAdmin, and the role check of the public resolve route.
RequireAdmin(u) == u \in Admins

\* A user whom the route's role check refuses is answered and changes nothing.
Forbidden(q) ==
    /\ At(q, "idle")
    /\ \E op \in Ops \ {"file"}, u \in Users, x \in Complaints \cup Orders :
        /\ op = "review" <=> x \in Orders
        /\ IF op = "review" THEN u \notin Clients ELSE ~RequireAdmin(u)
        /\ req' = [req EXCEPT ![q] = [op |-> op, who |-> u, on |-> x, verdict |-> None]]
    /\ pc' = [pc EXCEPT ![q] = "done"]
    /\ answer' = [answer EXCEPT ![q] = 403]
    /\ UNCHANGED <<complaintVars, reviewVars, overlap>>

-----------------------------------------------------------------------------
(***************************************************************************)
(* Complaints                                                              *)
(***************************************************************************)

\* POST /api/complaints: any user who is signed in.  c is a fresh id.
PostComplaint(q) ==
    \E u \in Users, c \in Complaints :
        /\ complaint[c] = NoRow /\ \A p \in Requests : req[p].on # c
        /\ Start(q, "file", u, c, None, "insert")

\* PATCH /api/complaints/[id]/resolve.
PatchResolve(q) ==
    \E u \in Admins, c \in Complaints, v \in Verdicts : Start(q, "patch", u, c, v, "read")

\* POST /api/admin/complaints/[id]/resolve, which reads nothing first.
AdminResolve(q) ==
    \E u \in Admins, c \in Complaints, v \in Verdicts : Start(q, "resolve", u, c, v, "update")

\* POST /api/admin/complaints/[id]/dismiss.
AdminDismiss(q) ==
    \E u \in Admins, c \in Complaints : Start(q, "dismiss", u, c, None, "read")

\* POST /api/admin/complaints/[id]/investigate.
AdminInvestigate(q) ==
    \E u \in Admins, c \in Complaints : Start(q, "investigate", u, c, None, "read")

\* Variant of the read that lets a closed complaint through.
FindComplaint_Unchecked(q) ==
    /\ At(q, "read")
    /\ LET status == complaint[req[q].on].status IN
       IF status = "none" THEN Answer(q, 404) ELSE Goto(q, "update")
    /\ UNCHANGED <<complaintVars, reviewVars, overlap>>

\* findById and the checks behind it: only the public route looks at the status.
FindComplaint(q) ==
    /\ At(q, "read")
    /\ LET status == complaint[req[q].on].status IN
       IF status = "none" THEN Answer(q, 404)
       ELSE IF req[q].op = "patch" /\ status \in Closed THEN Answer(q, 400)
       ELSE Goto(q, "update")
    /\ UNCHANGED <<complaintVars, reviewVars, overlap>>

Wrote(q) == writes' = [writes EXCEPT ![req[q].on] = Append(@, q)]

\* create: the INSERT.
InsertComplaint(q) ==
    /\ At(q, "insert") /\ req[q].op = "file"
    /\ complaint' = [complaint EXCEPT ![req[q].on] = Pending]
    /\ Wrote(q)
    /\ Goto(q, "append")
    /\ UNCHANGED <<reviewVars, log, overlap>>

\* Variant of the UPDATE that stores what was asked for in place of the status.
UpdateStatus_AsAsked(q) ==
    /\ At(q, "update") /\ req[q].op \in {"dismiss", "investigate"}
    /\ complaint' = [complaint EXCEPT ![req[q].on].status = req[q].op]
    /\ Wrote(q)
    /\ Goto(q, "append")
    /\ UNCHANGED <<reviewVars, log, overlap>>

\* updateStatus: the UPDATE, whatever the row says by now.
UpdateStatus(q) ==
    /\ At(q, "update") /\ req[q].op \in {"dismiss", "investigate"}
    /\ complaint' = [complaint EXCEPT ![req[q].on].status =
                        IF req[q].op = "dismiss" THEN "dismissed" ELSE "investigating"]
    /\ Wrote(q)
    /\ Goto(q, "append")
    /\ UNCHANGED <<reviewVars, log, overlap>>

\* resolve: the UPDATE; without a row the code behind it reads a property of
\* undefined, which createErrorResponse answers with 500.
Resolve(q) ==
    /\ At(q, "update") /\ req[q].op \in {"patch", "resolve"}
    /\ IF complaint[req[q].on] = NoRow
       THEN Answer(q, 500) /\ UNCHANGED complaintVars
       ELSE /\ complaint' = [complaint EXCEPT ![req[q].on] =
                    [status |-> "resolved", action |-> req[q].verdict, by |-> req[q].who]]
            /\ Wrote(q)
            /\ Goto(q, "append")
            /\ UNCHANGED log
    /\ UNCHANGED <<reviewVars, overlap>>

\* Variant of the append that leaves out complaint.dismissed.
AppendComplaintEvent_Silent(q) ==
    /\ At(q, "append") /\ req[q].op # "review"
    /\ log' = IF req[q].op = "dismiss" THEN log
              ELSE [log EXCEPT ![req[q].on] = Append(@, q)]
    /\ Answer(q, 200)
    /\ UNCHANGED <<complaint, writes, reviewVars, overlap>>

\* appendOutbox of the complaint's event, and the response.
AppendComplaintEvent(q) ==
    /\ At(q, "append") /\ req[q].op # "review"
    /\ log' = [log EXCEPT ![req[q].on] = Append(@, q)]
    /\ Answer(q, 200)
    /\ UNCHANGED <<complaint, writes, reviewVars, overlap>>

-----------------------------------------------------------------------------
(***************************************************************************)
(* Reviews                                                                 *)
(***************************************************************************)

\* An order is completed or cancelled; the status route of the orders checks
\* and writes in two steps, so that a cancellation may also follow a completion.
OrderChanges(o) ==
    /\ order[o].status \in {"in_progress", "completed"}
    /\ \E s \in {"completed", "cancelled"} :
        /\ s # order[o].status
        /\ order' = [order EXCEPT ![o].status = s]
    /\ UNCHANGED <<complaintVars, reviews, req, pc, answer, told, overlap>>

\* POST /api/reviews.
PostReview(q) ==
    \E u \in Clients, o \in Orders : Start(q, "review", u, o, None, "order")

\* The order is read, its client and its status are checked.
FindOrder(q) ==
    /\ At(q, "order")
    /\ LET o == order[req[q].on] IN
       IF o.client # req[q].who THEN Answer(q, 403)
       ELSE IF o.status # "completed" THEN Answer(q, 400)
       ELSE Goto(q, "existing")
    /\ UNCHANGED <<complaintVars, reviewVars, overlap>>

\* findByOrderId.
FindReview(q) ==
    /\ At(q, "existing")
    /\ IF \E r \in reviews : r.order = req[q].on THEN Answer(q, 409) ELSE Goto(q, "insert")
    /\ UNCHANGED <<complaintVars, reviewVars, overlap>>

Review(q) == [order |-> req[q].on, client |-> req[q].who, req |-> q]

\* Variant of the INSERT into a table without the unique constraint.
InsertReview_NotUnique(q) ==
    /\ At(q, "insert") /\ req[q].op = "review"
    /\ reviews' = reviews \cup {Review(q)}
    /\ Goto(q, "append")
    /\ UNCHANGED <<complaintVars, order, told, overlap>>

\* create: the INSERT, which reviews_order_id_unique refuses for a second review.
InsertReview(q) ==
    /\ At(q, "insert") /\ req[q].op = "review"
    /\ IF \E r \in reviews : r.order = req[q].on
       THEN Answer(q, 500) /\ UNCHANGED reviews
       ELSE reviews' = reviews \cup {Review(q)} /\ Goto(q, "append")
    /\ UNCHANGED <<complaintVars, order, told, overlap>>

\* appendOutbox of review.created, and the response.
AppendReviewEvent(q) ==
    /\ At(q, "append") /\ req[q].op = "review"
    /\ told' = told \cup {q}
    /\ Answer(q, 201)
    /\ UNCHANGED <<complaintVars, order, reviews, overlap>>

\* The row is written and its event is not: the INSERT into the outbox fails,
\* or the process dies first.
AppendFails(q) ==
    /\ StoreFails
    /\ At(q, "append")
    /\ Answer(q, 500)
    /\ UNCHANGED <<complaintVars, reviewVars, overlap>>

-----------------------------------------------------------------------------
ComplaintStep(q) ==
    \/ PostComplaint(q) \/ PatchResolve(q) \/ AdminResolve(q)
    \/ AdminDismiss(q) \/ AdminInvestigate(q)
    \/ FindComplaint(q) \/ InsertComplaint(q) \/ UpdateStatus(q) \/ Resolve(q)
    \/ AppendComplaintEvent(q)

ReviewStep(q) ==
    \/ PostReview(q) \/ FindOrder(q) \/ FindReview(q)
    \/ InsertReview(q) \/ AppendReviewEvent(q)

Next ==
    \/ \E q \in Requests : Forbidden(q) \/ ComplaintStep(q) \/ ReviewStep(q) \/ AppendFails(q)
    \/ \E o \in Orders : OrderChanges(o)

Spec == Init /\ [][Next]_vars

-----------------------------------------------------------------------------
(***************************************************************************)
(* Properties                                                              *)
(***************************************************************************)

Rows == [status : {"none", "pending", "investigating"} \cup Closed,
         action : Verdicts \cup {None}, by : Admins \cup {None}]

Calls == [op : Ops \cup {"none"}, who : Users \cup {None},
          on : Complaints \cup Orders \cup {None}, verdict : Verdicts \cup {None}]
Labels == {"idle", "read", "update", "order", "existing", "insert", "append", "done"}

TypeOK ==
    /\ complaint \in [Complaints -> Rows]
    /\ order \in [Orders -> [status : {"in_progress", "completed", "cancelled"}, client : Clients]]
    /\ reviews \subseteq [order : Orders, client : Clients, req : Requests]
    /\ req \in [Requests -> Calls]
    /\ pc \in [Requests -> Labels]
    /\ answer \in [Requests -> {0, 200, 201, 400, 403, 404, 409, 500}]
    /\ writes \in [Complaints -> Seq(Requests)]
    /\ log \in [Complaints -> Seq(Requests)]
    /\ told \subseteq Requests
    /\ overlap \subseteq Requests \X Requests

Closes(q) == req[q].op \in {"patch", "resolve", "dismiss"}

\* The public route decides a complaint that was already decided only if the
\* two requests ran at once, or an admin put the complaint back under
\* investigation in between.
DecidedOnce ==
    \A c \in Complaints : \A i, j \in 1..Len(writes[c]) :
        (i < j /\ Closes(writes[c][i]) /\ req[writes[c][j]].op = "patch") =>
            \/ <<writes[c][i], writes[c][j]>> \in overlap
            \/ \E k \in (i + 1)..(j - 1) : req[writes[c][k]].op = "investigate"

Last(s) == s[Len(s)]

\* When nobody is at work on a complaint, the last event about it comes from
\* the request that wrote its row last, unless that request could not append
\* its event, or ran at the same time as the one whose event is last.
LastEventTellsStatus ==
    \A c \in Complaints :
        (writes[c] # <<>> /\ \A q \in Requests : req[q].on = c => ~InFlight(q)) =>
            LET q == Last(writes[c]) IN
            \/ answer[q] = 500
            \/ log[c] # <<>> /\ (Last(log[c]) = q \/ <<Last(log[c]), q>> \in overlap)

\* Every order has at most one review, by its own client.  Of the requests
\* to review it one at most is answered 201, and that is the row's; a request
\* that got as far as the INSERT and lost ran at the same time as the one that
\* won.  Events are for rows.
OneReviewPerOrder ==
    /\ \A r, s \in reviews : r.order = s.order => r = s
    /\ \A r \in reviews : r.client = order[r.order].client
    /\ \A q \in Requests : req[q].op = "review" =>
        /\ answer[q] = 201 => Review(q) \in reviews /\ q \in told
        /\ (answer[q] = 500 /\ Review(q) \notin reviews) =>
              \E r \in reviews : r.order = req[q].on /\ <<r.req, q>> \in overlap
    /\ \A q \in told : Review(q) \in reviews
=============================================================================
