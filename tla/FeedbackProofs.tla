--------------------------- MODULE FeedbackProofs ---------------------------
(***************************************************************************)
(* Proofs about Feedback, for any number of requests, users, complaints    *)
(* and orders.                                                             *)
(***************************************************************************)
EXTENDS Feedback, SequenceTheorems, TLAPS

(***************************************************************************)
(* Types, and what a request at a step is for                              *)
(***************************************************************************)

Phase(q) ==
    LET r == req[q] IN
    /\ pc[q] = "idle" <=> r.op = "none"
    /\ pc[q] = "read" => r.op \in {"patch", "dismiss", "investigate"}
    /\ pc[q] = "update" => r.op \in {"patch", "resolve", "dismiss", "investigate"}
    /\ pc[q] \in {"order", "existing"} => r.op = "review"
    /\ pc[q] = "insert" => r.op \in {"file", "review"}
    /\ InFlight(q) =>
        /\ r.op = "review" => r.on \in Orders /\ r.who \in Clients
        /\ r.op # "review" => r.on \in Complaints
        /\ r.op \in {"patch", "resolve"} => r.who \in Admins /\ r.verdict \in Verdicts

Phases == \A q \in Requests : Phase(q)

\* A request starts on a row.
Starts(q) ==
    \E op \in Ops, u \in Users, x \in Complaints \cup Orders, v \in Verdicts \cup {None},
       l \in {"read", "update", "order", "insert"} :
        /\ Start(q, op, u, x, v, l)
        /\ l = "read" => op \in {"patch", "dismiss", "investigate"}
        /\ l = "update" => op = "resolve"
        /\ l = "order" => op = "review"
        /\ l = "insert" => op = "file"
        /\ op = "review" => x \in Orders /\ u \in Clients
        /\ op # "review" => x \in Complaints
        /\ op \in {"patch", "resolve"} => u \in Admins /\ v \in Verdicts
        /\ op = "file" => complaint[x] = NoRow /\ \A p \in Requests : req[p].on # x

LEMMA StartsShape ==
    ASSUME NEW q \in Requests,
           \/ PostComplaint(q) \/ PatchResolve(q) \/ AdminResolve(q)
           \/ AdminDismiss(q) \/ AdminInvestigate(q) \/ PostReview(q)
    PROVE  Starts(q)
<1> USE DEF Users, Ops
<1>1. CASE PostComplaint(q)
  BY <1>1 DEF PostComplaint, Starts
<1>2. CASE PatchResolve(q)
  BY <1>2 DEF PatchResolve, Starts
<1>3. CASE AdminResolve(q)
  BY <1>3 DEF AdminResolve, Starts
<1>4. CASE AdminDismiss(q)
  BY <1>4 DEF AdminDismiss, Starts
<1>5. CASE AdminInvestigate(q)
  BY <1>5 DEF AdminInvestigate, Starts
<1>6. CASE PostReview(q)
  BY <1>6 DEF PostReview, Starts
<1> QED BY <1>1, <1>2, <1>3, <1>4, <1>5, <1>6

\* Every step of the system, the starts of all routes taken together.
LEMMA Steps ==
    ASSUME [Next]_vars
    PROVE  \/ \E q \in Requests :
               \/ Starts(q) \/ Forbidden(q) \/ FindComplaint(q) \/ InsertComplaint(q)
               \/ UpdateStatus(q) \/ Resolve(q) \/ AppendComplaintEvent(q)
               \/ FindOrder(q) \/ FindReview(q) \/ InsertReview(q)
               \/ AppendReviewEvent(q) \/ AppendFails(q)
           \/ \E o \in Orders : OrderChanges(o)
           \/ UNCHANGED vars
  BY StartsShape DEF Next, ComplaintStep, ReviewStep

LEMMA TypesInit == Init => TypeOK /\ Phases
  BY FeedbackAssumption DEF Init, TypeOK, Phases, Phase, Rows, NoRow, Pending, NoRequest, Calls, Labels,
        Users, InFlight, Ops

OrderRows == [status : {"in_progress", "completed", "cancelled"}, client : Clients]

LEMMA RowFields ==
    /\ \A row \in Rows, st \in {"dismissed", "investigating"} : [row EXCEPT !.status = st] \in Rows
    /\ \A v \in Verdicts, u \in Admins : [status |-> "resolved", action |-> v, by |-> u] \in Rows
    /\ \A row \in OrderRows, st \in {"completed", "cancelled"} :
          [row EXCEPT !.status = st] \in OrderRows
  BY DEF Rows, Closed, OrderRows

ReqTypes ==
    /\ req \in [Requests -> Calls]
    /\ pc \in [Requests -> Labels]
    /\ answer \in [Requests -> {0, 200, 201, 400, 403, 404, 409, 500}]

\* A request that is at work goes on to a step of its kind, or is answered.
LEMMA Moved ==
    ASSUME ReqTypes, Phases, NEW q \in Requests, InFlight(q),
           \/ \E l \in {"update", "existing", "insert", "append"} :
                /\ Goto(q, l)
                /\ l = "update" => req[q].op \in {"patch", "resolve", "dismiss", "investigate"}
                /\ l \in {"existing", "insert"} => req[q].op = "review"
           \/ \E code \in {200, 201, 400, 403, 404, 409, 500} : Answer(q, code)
    PROVE  ReqTypes' /\ Phases'
<1>1. ASSUME NEW l \in {"update", "existing", "insert", "append"}, Goto(q, l),
             l = "update" => req[q].op \in {"patch", "resolve", "dismiss", "investigate"},
             l \in {"existing", "insert"} => req[q].op = "review"
      PROVE  ReqTypes' /\ Phases'
  BY <1>1 DEF ReqTypes, Phases, Phase, InFlight, Goto, Labels
<1>2. ASSUME NEW code \in {200, 201, 400, 403, 404, 409, 500}, Answer(q, code)
      PROVE  ReqTypes' /\ Phases'
  BY <1>2 DEF ReqTypes, Phases, Phase, InFlight, Answer, Labels
<1> QED BY <1>1, <1>2

LEMMA TypesStep == TypeOK /\ Phases /\ [Next]_vars => TypeOK' /\ Phases'
<1> SUFFICES ASSUME TypeOK, Phases, [Next]_vars
             PROVE  TypeOK' /\ Phases'
  OBVIOUS
<1> USE DEF TypeOK
<1>1. ASSUME NEW q \in Requests, Starts(q) PROVE TypeOK' /\ Phases'
  BY <1>1, FeedbackAssumption
  DEF Starts, Start, Calls, Labels, Ops, Users, complaintVars, reviewVars, Phases, Phase, InFlight, At
<1>2. ASSUME NEW q \in Requests, Forbidden(q) PROVE TypeOK' /\ Phases'
  BY <1>2, FeedbackAssumption
  DEF Forbidden, Calls, Labels, Ops, Users, complaintVars, reviewVars, Phases, Phase, InFlight, At
<1>3. ASSUME NEW q \in Requests, FindComplaint(q) PROVE TypeOK' /\ Phases'
  <2>1. InFlight(q) /\ UNCHANGED <<complaintVars, reviewVars, overlap>>
        /\ (Answer(q, 404) \/ Answer(q, 400) \/ Goto(q, "update"))
        /\ req[q].op \in {"patch", "dismiss", "investigate"}
    BY <1>3 DEF FindComplaint, InFlight, At, Phases, Phase
  <2>2. ReqTypes' /\ Phases'
    BY <2>1, Moved DEF ReqTypes
  <2> QED BY <2>1, <2>2 DEF ReqTypes, complaintVars, reviewVars
<1>4. ASSUME NEW q \in Requests, InsertComplaint(q) PROVE TypeOK' /\ Phases'
  <2>1. InFlight(q) /\ req[q].on \in Complaints /\ Goto(q, "append")
    BY <1>4 DEF InsertComplaint, InFlight, At, Phases, Phase
  <2>2. complaint' \in [Complaints -> Rows]
    BY <1>4, <2>1 DEF InsertComplaint, Rows, Pending, NoRow
  <2>3. writes' \in [Complaints -> Seq(Requests)]
    BY <1>4, <2>1 DEF InsertComplaint, Wrote
  <2>4. ReqTypes' /\ Phases'
    BY <2>1, Moved DEF ReqTypes
  <2> QED BY <1>4, <2>2, <2>3, <2>4 DEF InsertComplaint, ReqTypes, reviewVars
<1>5. ASSUME NEW q \in Requests, UpdateStatus(q) PROVE TypeOK' /\ Phases'
  <2>1. InFlight(q) /\ req[q].on \in Complaints /\ Goto(q, "append")
    BY <1>5 DEF UpdateStatus, InFlight, At, Phases, Phase
  <2>2. complaint' \in [Complaints -> Rows]
    <3> DEFINE st == IF req[q].op = "dismiss" THEN "dismissed" ELSE "investigating"
    <3>1. st \in {"dismissed", "investigating"}
      OBVIOUS
    <3>2. complaint' = [complaint EXCEPT ![req[q].on].status = st]
      BY <1>5 DEF UpdateStatus
    <3>3. complaint[req[q].on] \in Rows
      BY <2>1
    <3> HIDE DEF st
    <3>4. [complaint[req[q].on] EXCEPT !.status = st] \in Rows
      BY <3>1, <3>3, RowFields
    <3> QED BY <3>2, <3>4
  <2>3. writes' \in [Complaints -> Seq(Requests)]
    BY <1>5, <2>1 DEF UpdateStatus, Wrote
  <2>4. ReqTypes' /\ Phases'
    BY <2>1, Moved DEF ReqTypes
  <2> QED BY <1>5, <2>2, <2>3, <2>4 DEF UpdateStatus, ReqTypes, reviewVars
<1>6. ASSUME NEW q \in Requests, Resolve(q) PROVE TypeOK' /\ Phases'
  <2>1. InFlight(q) /\ req[q].on \in Complaints /\ (Answer(q, 500) \/ Goto(q, "append"))
        /\ req[q].who \in Admins /\ req[q].verdict \in Verdicts
    BY <1>6 DEF Resolve, InFlight, At, Phases, Phase
  <2>2. UNCHANGED <<reviewVars, overlap, log>>
        /\ \/ UNCHANGED <<complaint, writes>>
           \/ /\ complaint' = [complaint EXCEPT ![req[q].on] =
                    [status |-> "resolved", action |-> req[q].verdict, by |-> req[q].who]]
              /\ Wrote(q)
    BY <1>6 DEF Resolve, complaintVars
  <2>3. complaint' \in [Complaints -> Rows]
    <3>1. [status |-> "resolved", action |-> req[q].verdict, by |-> req[q].who] \in Rows
      BY <2>1, RowFields
    <3>2. CASE complaint' = [complaint EXCEPT ![req[q].on] =
                    [status |-> "resolved", action |-> req[q].verdict, by |-> req[q].who]]
      BY <2>1, <3>1, <3>2
    <3> QED BY <2>2, <3>2
  <2>4. writes' \in [Complaints -> Seq(Requests)]
    <3>1. CASE Wrote(q)
      BY <2>1, <3>1 DEF Wrote
    <3> QED BY <2>2, <3>1
  <2>5. ReqTypes' /\ Phases'
    BY <2>1, Moved DEF ReqTypes
  <2> QED BY <2>2, <2>3, <2>4, <2>5 DEF ReqTypes, reviewVars
<1>7. ASSUME NEW q \in Requests, AppendComplaintEvent(q) PROVE TypeOK' /\ Phases'
  <2>1. InFlight(q) /\ req[q].on \in Complaints /\ Answer(q, 200)
    BY <1>7 DEF AppendComplaintEvent, InFlight, At, Phases, Phase
  <2>2. log' \in [Complaints -> Seq(Requests)]
    BY <1>7, <2>1 DEF AppendComplaintEvent
  <2>3. ReqTypes' /\ Phases'
    BY <2>1, Moved DEF ReqTypes
  <2> QED BY <1>7, <2>2, <2>3 DEF AppendComplaintEvent, ReqTypes, reviewVars
<1>8. ASSUME NEW q \in Requests, FindOrder(q) PROVE TypeOK' /\ Phases'
  <2>1. InFlight(q) /\ UNCHANGED <<complaintVars, reviewVars, overlap>>
        /\ req[q].op = "review"
        /\ (Answer(q, 403) \/ Answer(q, 400) \/ Goto(q, "existing"))
    BY <1>8 DEF FindOrder, InFlight, At, Phases, Phase
  <2>2. ReqTypes' /\ Phases'
    BY <2>1, Moved DEF ReqTypes
  <2> QED BY <2>1, <2>2 DEF ReqTypes, complaintVars, reviewVars
<1>9. ASSUME NEW q \in Requests, FindReview(q) PROVE TypeOK' /\ Phases'
  <2>1. InFlight(q) /\ UNCHANGED <<complaintVars, reviewVars, overlap>>
        /\ req[q].op = "review"
        /\ (Answer(q, 409) \/ Goto(q, "insert"))
    BY <1>9 DEF FindReview, InFlight, At, Phases, Phase
  <2>2. ReqTypes' /\ Phases'
    BY <2>1, Moved DEF ReqTypes
  <2> QED BY <2>1, <2>2 DEF ReqTypes, complaintVars, reviewVars
<1>10. ASSUME NEW q \in Requests, InsertReview(q) PROVE TypeOK' /\ Phases'
  <2>1. InFlight(q) /\ UNCHANGED <<complaintVars, order, told, overlap>>
        /\ (Answer(q, 500) \/ Goto(q, "append"))
        /\ reviews' \subseteq reviews \cup {Review(q)}
        /\ req[q].on \in Orders /\ req[q].who \in Clients
    BY <1>10 DEF InsertReview, InFlight, At, Phases, Phase
  <2>2. Review(q) \in [order : Orders, client : Clients, req : Requests]
    BY <2>1 DEF Review
  <2>3. ReqTypes' /\ Phases'
    BY <2>1, Moved DEF ReqTypes
  <2> QED BY <2>1, <2>2, <2>3 DEF ReqTypes, complaintVars
<1>11. ASSUME NEW q \in Requests, AppendReviewEvent(q) PROVE TypeOK' /\ Phases'
  <2>1. InFlight(q) /\ Answer(q, 201)
    BY <1>11 DEF AppendReviewEvent, InFlight, At
  <2>2. ReqTypes' /\ Phases'
    BY <2>1, Moved DEF ReqTypes
  <2> QED BY <1>11, <2>2 DEF AppendReviewEvent, ReqTypes, complaintVars
<1>12. ASSUME NEW q \in Requests, AppendFails(q) PROVE TypeOK' /\ Phases'
  <2>1. InFlight(q) /\ Answer(q, 500)
    BY <1>12 DEF AppendFails, InFlight, At
  <2>2. ReqTypes' /\ Phases'
    BY <2>1, Moved DEF ReqTypes
  <2> QED BY <1>12, <2>2 DEF AppendFails, ReqTypes, complaintVars, reviewVars
<1>13. ASSUME NEW o \in Orders, OrderChanges(o) PROVE TypeOK' /\ Phases'
  <2>1. PICK s \in {"completed", "cancelled"} : order' = [order EXCEPT ![o].status = s]
    BY <1>13 DEF OrderChanges
  <2>2. [order[o] EXCEPT !.status = s]
            \in OrderRows
    BY RowFields DEF OrderRows
  <2>3. order' \in [Orders -> [status : {"in_progress", "completed", "cancelled"}, client : Clients]]
    BY <2>1, <2>2 DEF OrderRows
  <2> QED BY <1>13, <2>3 DEF OrderChanges, complaintVars, Phases, Phase, InFlight
<1>14. CASE UNCHANGED vars
  BY <1>14 DEF vars, complaintVars, reviewVars, Phases, Phase, InFlight
<1> QED BY Steps, <1>1, <1>2, <1>3, <1>4, <1>5, <1>6, <1>7, <1>8, <1>9, <1>10, <1>11, <1>12,
           <1>13, <1>14

\* TypeOK: the rows, the requests and the histories keep their types.
THEOREM TypeCorrect == Spec => []TypeOK
<1>1. Spec => [](TypeOK /\ Phases)
  BY TypesInit, TypesStep, PTL DEF Spec
<1> QED BY <1>1, PTL

(***************************************************************************)
(* Who is at work together                                                 *)
(***************************************************************************)

Together ==
    \A p, q \in Requests :
        (p # q /\ InFlight(p) /\ InFlight(q) /\ req[p].on = req[q].on) => <<p, q>> \in overlap

Unanswered == \A q \in Requests : pc[q] # "done" => answer[q] = 0

\* A step of request q that is at work: it moves, or it is answered.
Works(q) ==
    /\ InFlight(q)
    /\ UNCHANGED <<req, overlap>>
    /\ \/ \E l \in {"update", "existing", "insert", "append"} :
            pc' = [pc EXCEPT ![q] = l] /\ answer' = answer
       \/ /\ pc' = [pc EXCEPT ![q] = "done"]
          /\ \E code \in {200, 201, 400, 403, 404, 409, 500} :
                answer' = [answer EXCEPT ![q] = code]

LEMMA WorksShape ==
    ASSUME NEW q \in Requests,
           \/ FindComplaint(q) \/ InsertComplaint(q) \/ UpdateStatus(q) \/ Resolve(q)
           \/ AppendComplaintEvent(q) \/ FindOrder(q) \/ FindReview(q) \/ InsertReview(q)
           \/ AppendReviewEvent(q) \/ AppendFails(q)
    PROVE  Works(q)
<1> USE DEF Works, InFlight, At, Answer, Goto
<1>1. CASE FindComplaint(q)
  BY <1>1 DEF FindComplaint
<1>2. CASE InsertComplaint(q)
  BY <1>2 DEF InsertComplaint
<1>3. CASE UpdateStatus(q)
  BY <1>3 DEF UpdateStatus
<1>4. CASE Resolve(q)
  BY <1>4 DEF Resolve
<1>5. CASE AppendComplaintEvent(q)
  BY <1>5 DEF AppendComplaintEvent
<1>6. CASE FindOrder(q)
  BY <1>6 DEF FindOrder
<1>7. CASE FindReview(q)
  BY <1>7 DEF FindReview
<1>8. CASE InsertReview(q)
  BY <1>8 DEF InsertReview
<1>9. CASE AppendReviewEvent(q)
  BY <1>9 DEF AppendReviewEvent
<1>10. CASE AppendFails(q)
  BY <1>10 DEF AppendFails
<1> QED BY <1>1, <1>2, <1>3, <1>4, <1>5, <1>6, <1>7, <1>8, <1>9, <1>10

LEMMA TogetherInit == Init => Together /\ Unanswered
  BY DEF Init, Together, Unanswered, InFlight

LEMMA TogetherStep ==
    TypeOK /\ Together /\ Unanswered /\ [Next]_vars => Together' /\ Unanswered'
<1> SUFFICES ASSUME TypeOK, Together, Unanswered, [Next]_vars
             PROVE  Together' /\ Unanswered'
  OBVIOUS
<1> USE DEF TypeOK, Together, Unanswered, InFlight
<1>1. ASSUME NEW q \in Requests, Starts(q) PROVE Together' /\ Unanswered'
  BY <1>1 DEF Starts, Start, At
<1>2. ASSUME NEW q \in Requests, Forbidden(q) PROVE Together' /\ Unanswered'
  BY <1>2 DEF Forbidden, At
<1>3. ASSUME NEW q \in Requests, Works(q) PROVE Together' /\ Unanswered'
  <2>1. ASSUME NEW p \in Requests, pc'[p] \notin {"idle", "done"} PROVE pc[p] \notin {"idle", "done"}
    BY <1>3, <2>1 DEF Works
  <2>2. UNCHANGED <<req, overlap>>
    BY <1>3 DEF Works
  <2>3. Together'
    BY <2>1, <2>2
  <2>4. ASSUME NEW p \in Requests, pc'[p] # "done" PROVE answer'[p] = 0
    <3>1. CASE p = q
      BY <1>3, <2>4, <3>1 DEF Works
    <3>2. CASE p # q
      BY <1>3, <2>4, <3>2 DEF Works
    <3> QED BY <3>1, <3>2
  <2> QED BY <2>3, <2>4
<1>4. ASSUME NEW o \in Orders, OrderChanges(o) PROVE Together' /\ Unanswered'
  BY <1>4 DEF OrderChanges
<1>5. CASE UNCHANGED vars
  BY <1>5 DEF vars
<1> QED BY Steps, WorksShape, <1>1, <1>2, <1>3, <1>4, <1>5

(***************************************************************************)
(* One review per order                                                    *)
(***************************************************************************)

\* Every row is that of the request that inserted it.
Made ==
    \A r \in reviews :
        /\ r = Review(r.req)
        /\ r.client = order[r.order].client
        /\ req[r.req].op = "review" /\ pc[r.req] \in {"append", "done"}

Unique == \A r, s \in reviews : r.order = s.order => r = s

\* Past the check of the order, a request is by the order's client.
Owners ==
    \A q \in Requests :
        (req[q].op = "review" /\ pc[q] \in {"existing", "insert", "append"}) =>
            order[req[q].on].client = req[q].who

\* What was not there when a request looked was inserted while it was at work.
Racing ==
    \A q \in Requests : (req[q].op = "review" /\ pc[q] = "insert") =>
        \A r \in reviews : r.order = req[q].on => <<r.req, q>> \in overlap

Appending ==
    \A q \in Requests : (req[q].op = "review" /\ pc[q] = "append") => Review(q) \in reviews

Told == \A q \in told : Review(q) \in reviews

Answered ==
    \A q \in Requests : req[q].op = "review" =>
        /\ answer[q] = 201 => Review(q) \in reviews /\ q \in told
        /\ (answer[q] = 500 /\ Review(q) \notin reviews) =>
              \E r \in reviews : r.order = req[q].on /\ <<r.req, q>> \in overlap

ReviewInv == Made /\ Unique /\ Owners /\ Racing /\ Appending /\ Told /\ Answered

LEMMA ReviewInit == Init => ReviewInv
  BY DEF Init, ReviewInv, Made, Unique, Owners, Racing, Appending, Told, Answered, NoRequest

LEMMA ReviewStart ==
    ASSUME TypeOK, Phases, Unanswered, ReviewInv, NEW q \in Requests, Starts(q) \/ Forbidden(q)
    PROVE  ReviewInv'
<1>1. /\ pc[q] = "idle" /\ pc'[q] \notin {"idle", "existing", "append"}
      /\ pc'[q] = "insert" => req'[q].op # "review"
      /\ answer'[q] \in {0, 403}
      /\ \A p \in Requests \ {q} : pc'[p] = pc[p] /\ req'[p] = req[p] /\ answer'[p] = answer[p]
      /\ UNCHANGED reviewVars
      /\ overlap \subseteq overlap'
  <2>1. CASE Starts(q)
    BY <2>1 DEF Starts, Start, At, TypeOK, Unanswered
  <2>2. CASE Forbidden(q)
    BY <2>2 DEF Forbidden, At, TypeOK
  <2> QED BY <2>1, <2>2
<1>2. \A r \in reviews : r.req \in Requests \ {q}
  <2>1. ASSUME NEW r \in reviews PROVE r.req \in Requests /\ pc[r.req] # "idle"
    <3>1. r.req \in Requests
      BY DEF TypeOK
    <3> QED BY <3>1 DEF ReviewInv, Made
  <2> QED BY <1>1, <2>1
<1>3. \A p \in told : p \in Requests \ {q}
  <2>1. ASSUME NEW p \in told PROVE p # q
    BY <1>2 DEF ReviewInv, Told, Review
  <2> QED BY <2>1 DEF TypeOK
<1>4. UNCHANGED <<reviews, told, order>>
  BY <1>1 DEF reviewVars
<1>5. \A p \in Requests \ {q} : Review(p)' = Review(p)
  BY <1>1 DEF Review
<1>6. Made'
  BY <1>1, <1>2, <1>4, <1>5 DEF ReviewInv, Made
<1>7. Unique'
  BY <1>4 DEF ReviewInv, Unique
<1>8. Owners'
  BY <1>1, <1>4 DEF ReviewInv, Owners
<1>9. Racing'
  BY <1>1, <1>4 DEF ReviewInv, Racing
<1>10. Appending'
  BY <1>1, <1>4, <1>5 DEF ReviewInv, Appending
<1>11. Told'
  BY <1>3, <1>4, <1>5 DEF ReviewInv, Told
<1>12. Answered'
  <2>1. ASSUME NEW p \in Requests, req'[p].op = "review", p # q
        PROVE /\ answer'[p] = 201 => Review(p)' \in reviews' /\ p \in told'
              /\ (answer'[p] = 500 /\ Review(p)' \notin reviews') =>
                    \E r \in reviews' : r.order = req'[p].on /\ <<r.req, p>> \in overlap'
    BY <1>1, <1>4, <1>5, <2>1 DEF ReviewInv, Answered
  <2> QED BY <1>1, <2>1 DEF Answered
<1> QED BY <1>6, <1>7, <1>8, <1>9, <1>10, <1>11, <1>12 DEF ReviewInv

\* Steps that insert no review.
LEMMA ReviewQuiet ==
    ASSUME TypeOK, Phases, ReviewInv, Unanswered, NEW q \in Requests, Works(q),
           UNCHANGED <<reviews, order>>,
           told' = told \/ (told' = told \cup {q} /\ pc[q] = "append" /\ req[q].op = "review"),
           req[q].op = "review" => /\ pc'[q] # "append"
                                   /\ pc[q] = "append" => pc'[q] = "done"
                                   /\ pc'[q] = "existing" => order[req[q].on].client = req[q].who
                                   /\ pc'[q] = "insert" =>
                                        pc[q] = "existing" /\ \A r \in reviews : r.order # req[q].on
                                   /\ answer'[q] = 201 => q \in told' /\ pc[q] = "append"
                                   /\ answer'[q] = 500 =>
                                        \/ pc[q] = "append"
                                        \/ \E r \in reviews : r.order = req[q].on /\ pc[q] = "insert"
    PROVE  ReviewInv'
<1>1. /\ pc[q] \notin {"idle", "done"} /\ pc'[q] # "idle"
      /\ \A p \in Requests \ {q} : pc'[p] = pc[p] /\ answer'[p] = answer[p]
      /\ UNCHANGED <<req, overlap>>
  BY DEF Works, TypeOK, InFlight
<1>2. \A p \in Requests : Review(p)' = Review(p)
  BY <1>1 DEF Review
<1>3. Made'
  <2>1. ASSUME NEW r \in reviews PROVE r.req \in Requests /\ pc'[r.req] \in {"append", "done"}
    <3>1. r.req \in Requests
      BY DEF TypeOK
    <3>2. req[r.req].op = "review" /\ pc[r.req] \in {"append", "done"}
      BY DEF ReviewInv, Made
    <3>3. CASE r.req = q
      BY <1>1, <3>2, <3>3
    <3>4. CASE r.req # q
      BY <1>1, <3>1, <3>2, <3>4
    <3> QED BY <3>1, <3>3, <3>4
  <2> QED BY <1>1, <1>2, <2>1 DEF ReviewInv, Made
<1>4. Unique'
  BY DEF ReviewInv, Unique
<1>5. Owners'
  BY <1>1 DEF ReviewInv, Owners
<1>6. Racing'
  BY <1>1 DEF ReviewInv, Racing
<1>7. Appending'
  BY <1>1, <1>2 DEF ReviewInv, Appending
<1>8. Told'
  BY <1>1, <1>2 DEF ReviewInv, Told, Appending, TypeOK
<1>9. Answered'
  <2>1. ASSUME NEW p \in Requests, req[p].op = "review", p # q
        PROVE /\ answer'[p] = 201 => Review(p) \in reviews /\ p \in told'
              /\ (answer'[p] = 500 /\ Review(p) \notin reviews) =>
                    \E r \in reviews : r.order = req[p].on /\ <<r.req, p>> \in overlap
    BY <1>1, <2>1 DEF ReviewInv, Answered
  <2>2. ASSUME req[q].op = "review"
        PROVE /\ answer'[q] = 201 => Review(q) \in reviews /\ q \in told'
              /\ (answer'[q] = 500 /\ Review(q) \notin reviews) =>
                    \E r \in reviews : r.order = req[q].on /\ <<r.req, q>> \in overlap
    BY <1>1, <2>2 DEF ReviewInv, Appending, Racing
  <2> QED BY <1>1, <1>2, <2>1, <2>2 DEF Answered
<1> QED BY <1>3, <1>4, <1>5, <1>6, <1>7, <1>8, <1>9 DEF ReviewInv

LEMMA ReviewInsert ==
    ASSUME TypeOK, Phases, ReviewInv, Unanswered, Together, NEW q \in Requests, InsertReview(q),
           ~ \E r \in reviews : r.order = req[q].on
    PROVE  ReviewInv'
<1>1. /\ pc[q] = "insert" /\ req[q].op = "review"
      /\ pc' = [pc EXCEPT ![q] = "append"]
      /\ UNCHANGED <<order, told, overlap, req, answer>>
      /\ reviews' = reviews \cup {Review(q)}
  BY DEF InsertReview, At, Goto
<1>2. \A p \in Requests : Review(p)' = Review(p)
  BY <1>1 DEF Review
<1>3. Made'
  <2>1. ASSUME NEW r \in reviews
        PROVE  /\ r = Review(r.req)' /\ r.client = order'[r.order].client
               /\ req'[r.req].op = "review" /\ pc'[r.req] \in {"append", "done"}
    <3>1. r.req \in Requests
      BY DEF TypeOK
    <3>2. r = Review(r.req) /\ r.client = order[r.order].client
          /\ req[r.req].op = "review" /\ pc[r.req] \in {"append", "done"}
      BY DEF ReviewInv, Made
    <3> QED BY <1>1, <1>2, <3>1, <3>2 DEF TypeOK
  <2>2. /\ Review(q).req = q /\ Review(q).order = req[q].on
        /\ Review(q).client = order[req[q].on].client
        /\ pc'[q] = "append"
    BY <1>1 DEF Review, ReviewInv, Owners, TypeOK
  <2> QED BY <1>1, <1>2, <2>1, <2>2 DEF Made
<1>4. Unique'
  BY <1>1 DEF ReviewInv, Unique, Review
<1>5. Owners'
  BY <1>1 DEF ReviewInv, Owners, TypeOK
<1>6. Racing'
  <2>1. ASSUME NEW p \in Requests, req[p].op = "review", pc'[p] = "insert",
               NEW r \in reviews', r.order = req[p].on
        PROVE  <<r.req, p>> \in overlap
    <3>1. p # q /\ pc[p] = "insert"
      BY <1>1, <2>1 DEF TypeOK
    <3>2. CASE r \in reviews
      BY <2>1, <3>1, <3>2 DEF ReviewInv, Racing
    <3>3. CASE r = Review(q)
      <4>1. r.req = q /\ req[q].on = req[p].on
        BY <2>1, <3>3 DEF Review
      <4> QED BY <1>1, <3>1, <4>1 DEF Together, InFlight
    <3> QED BY <1>1, <3>2, <3>3
  <2> QED BY <1>1, <2>1 DEF Racing
<1>7. Appending'
  BY <1>1, <1>2 DEF ReviewInv, Appending, TypeOK
<1>8. Told'
  BY <1>1, <1>2 DEF ReviewInv, Told, TypeOK
<1>9. Answered'
  <2>1. ASSUME NEW p \in Requests, req[p].op = "review"
        PROVE /\ answer[p] = 201 => Review(p) \in reviews' /\ p \in told
              /\ (answer[p] = 500 /\ Review(p) \notin reviews') =>
                    \E r \in reviews' : r.order = req[p].on /\ <<r.req, p>> \in overlap
    BY <1>1, <2>1 DEF ReviewInv, Answered
  <2> QED BY <1>1, <1>2, <2>1 DEF Answered
<1> QED BY <1>3, <1>4, <1>5, <1>6, <1>7, <1>8, <1>9 DEF ReviewInv

LEMMA ReviewStepOK ==
    TypeOK /\ Phases /\ Together /\ Unanswered /\ ReviewInv /\ [Next]_vars => ReviewInv'
<1> SUFFICES ASSUME TypeOK, Phases, Together, Unanswered, ReviewInv, [Next]_vars
             PROVE  ReviewInv'
  OBVIOUS
<1>1. ASSUME NEW q \in Requests, Starts(q) \/ Forbidden(q) PROVE ReviewInv'
  BY <1>1, ReviewStart
<1>2. ASSUME NEW q \in Requests,
             \/ FindComplaint(q) \/ InsertComplaint(q) \/ UpdateStatus(q) \/ Resolve(q)
             \/ AppendComplaintEvent(q)
      PROVE  ReviewInv'
  <2>1. Works(q)
    BY <1>2, WorksShape
  <2>2. req[q].op # "review" /\ UNCHANGED <<reviews, order, told>>
    BY <1>2 DEF FindComplaint, InsertComplaint, UpdateStatus, Resolve, AppendComplaintEvent,
                At, Phases, Phase, reviewVars
  <2> QED BY <2>1, <2>2, ReviewQuiet
<1>3. ASSUME NEW q \in Requests, FindOrder(q) PROVE ReviewInv'
  <2>1. Works(q) /\ UNCHANGED <<reviews, order, told>> /\ pc[q] = "order"
    BY <1>3, WorksShape DEF FindOrder, At, reviewVars
  <2>2. /\ pc'[q] \in {"existing", "done"}
        /\ pc'[q] = "existing" => order[req[q].on].client = req[q].who
        /\ answer'[q] \notin {201, 500}
    <3>1. answer[q] = 0
      BY <2>1 DEF Unanswered
    <3>2. \/ Answer(q, 403) \/ Answer(q, 400)
          \/ Goto(q, "existing") /\ order[req[q].on].client = req[q].who
      BY <1>3 DEF FindOrder
    <3> QED BY <3>1, <3>2 DEF Answer, Goto, TypeOK
  <2> QED BY <2>1, <2>2, ReviewQuiet
<1>4. ASSUME NEW q \in Requests, FindReview(q) PROVE ReviewInv'
  <2>1. Works(q) /\ UNCHANGED <<reviews, order, told>> /\ pc[q] = "existing"
    BY <1>4, WorksShape DEF FindReview, At, reviewVars
  <2>2. /\ pc'[q] \in {"insert", "done"}
        /\ pc'[q] = "insert" => \A r \in reviews : r.order # req[q].on
        /\ answer'[q] \notin {201, 500}
    <3>1. answer[q] = 0
      BY <2>1 DEF Unanswered
    <3>2. \/ Answer(q, 409)
          \/ Goto(q, "insert") /\ \A r \in reviews : r.order # req[q].on
      BY <1>4 DEF FindReview
    <3> QED BY <3>1, <3>2 DEF Answer, Goto, TypeOK
  <2> QED BY <2>1, <2>2, ReviewQuiet
<1>5. ASSUME NEW q \in Requests, InsertReview(q) PROVE ReviewInv'
  <2>1. CASE \E r \in reviews : r.order = req[q].on
    <3>1. Works(q) /\ UNCHANGED <<reviews, order, told>> /\ pc[q] = "insert"
      BY <1>5, <2>1, WorksShape DEF InsertReview, At
    <3>2. pc'[q] = "done" /\ answer'[q] = 500
      BY <1>5, <2>1 DEF InsertReview, Answer, TypeOK
    <3> QED BY <2>1, <3>1, <3>2, ReviewQuiet
  <2>2. CASE ~ \E r \in reviews : r.order = req[q].on
    BY <1>5, <2>2, ReviewInsert
  <2> QED BY <2>1, <2>2
<1>6. ASSUME NEW q \in Requests, AppendReviewEvent(q) PROVE ReviewInv'
  <2>1. Works(q) /\ UNCHANGED <<reviews, order>> /\ pc[q] = "append" /\ req[q].op = "review"
        /\ told' = told \cup {q}
    BY <1>6, WorksShape DEF AppendReviewEvent, At
  <2>2. pc'[q] = "done" /\ answer'[q] = 201 /\ q \in told'
    BY <1>6, <2>1 DEF AppendReviewEvent, Answer, TypeOK
  <2> QED BY <2>1, <2>2, ReviewQuiet
<1>7. ASSUME NEW q \in Requests, AppendFails(q) PROVE ReviewInv'
  <2>1. Works(q) /\ UNCHANGED <<reviews, order, told>> /\ pc[q] = "append"
    BY <1>7, WorksShape DEF AppendFails, At, reviewVars
  <2>2. pc'[q] = "done" /\ answer'[q] = 500
    BY <1>7 DEF AppendFails, Answer, TypeOK
  <2> QED BY <2>1, <2>2, ReviewQuiet
<1>8. ASSUME NEW o \in Orders, OrderChanges(o) PROVE ReviewInv'
  <2>1. /\ UNCHANGED <<reviews, req, pc, answer, told, overlap>>
        /\ \A p \in Orders : order'[p].client = order[p].client
    BY <1>8 DEF OrderChanges, TypeOK
  <2>2. \A p \in Requests : Review(p)' = Review(p)
    BY <2>1 DEF Review
  <2>3. \A r \in reviews : r.order \in Orders
    BY DEF TypeOK
  <2>4. \A r \in reviews : r.req \in Requests
    BY DEF TypeOK
  <2>5. Made'
    BY <2>1, <2>2, <2>3, <2>4 DEF ReviewInv, Made
  <2>6. Owners'
    BY <2>1 DEF ReviewInv, Owners, Phases, Phase, InFlight
  <2> QED BY <2>1, <2>2, <2>5, <2>6
          DEF ReviewInv, Unique, Racing, Appending, Told, Answered, TypeOK
<1>9. CASE UNCHANGED vars
  BY <1>9 DEF vars, reviewVars, ReviewInv, Made, Unique, Owners, Racing, Appending, Told, Answered,
              Review
<1> QED BY Steps, <1>1, <1>2, <1>3, <1>4, <1>5, <1>6, <1>7, <1>8, <1>9

\* OneReviewPerOrder: of any number of requests at once, one inserts the review
\* of an order, and the others learn that they lost.
THEOREM ReviewsAreUnique == Spec => []OneReviewPerOrder
<1>1. Spec => [](TypeOK /\ Phases /\ Together /\ Unanswered /\ ReviewInv)
  BY TypesInit, TypesStep, TogetherInit, TogetherStep, ReviewInit, ReviewStepOK, PTL DEF Spec
<1>2. ReviewInv => OneReviewPerOrder
  BY DEF ReviewInv, OneReviewPerOrder, Made, Unique, Told, Answered
<1> QED BY <1>1, <1>2, PTL

(***************************************************************************)
(* The rows of complaints, who wrote them, and what their events tell      *)
(***************************************************************************)

Writers ==
    \A c \in Complaints : \A i \in 1..Len(writes[c]) :
        LET w == writes[c][i] IN
        req[w].on = c /\ req[w].op \notin {"none", "review"} /\ pc[w] \in {"append", "done"}

\* A row is there before it is updated, and filed once.
Filed ==
    /\ \A c \in Complaints : complaint[c].status = "none" =>
            complaint[c] = NoRow /\ writes[c] = <<>>
    /\ \A q \in Requests : (pc[q] = "update" /\ req[q].op # "resolve") =>
            complaint[req[q].on].status # "none"
    /\ \A q \in Requests : (pc[q] = "insert" /\ req[q].op = "file") =>
            complaint[req[q].on] = NoRow
    /\ \A p, q \in Requests :
            (req[p].op = "file" /\ req[q].op = "file" /\ req[p].on = req[q].on) => p = q

\* After write i, the complaint c was put back under investigation.
Reopened(c, i) == \E k \in (i + 1)..Len(writes[c]) : req[writes[c][k]].op = "investigate"

OpenIsReopened ==
    \A c \in Complaints : \A i \in 1..Len(writes[c]) :
        (Closes(writes[c][i]) /\ complaint[c].status \notin Closed) => Reopened(c, i)

\* What the public route saw open was closed since by requests at work with it.
Looked ==
    \A q \in Requests : (pc[q] = "update" /\ req[q].op = "patch") =>
        \A i \in 1..Len(writes[req[q].on]) : Closes(writes[req[q].on][i]) =>
            <<writes[req[q].on][i], q>> \in overlap \/ Reopened(req[q].on, i)

\* Whoever is about to append its event wrote the row last, or together with
\* the one that did.
AppendsLate ==
    \A p \in Requests : (pc[p] = "append" /\ req[p].op # "review") =>
        /\ writes[req[p].on] # <<>>
        /\ p = Last(writes[req[p].on]) \/ <<p, Last(writes[req[p].on])>> \in overlap

LastTold ==
    \A c \in Complaints : writes[c] # <<>> =>
        LET w == Last(writes[c]) IN
        \/ pc[w] = "append"
        \/ answer[w] = 500
        \/ log[c] # <<>> /\ (Last(log[c]) = w \/ <<Last(log[c]), w>> \in overlap)

ComplaintInv ==
    /\ Writers /\ Filed /\ OpenIsReopened /\ Looked /\ DecidedOnce
    /\ AppendsLate /\ LastTold

LEMMA ComplaintInit == Init => ComplaintInv
  BY DEF Init, ComplaintInv, Writers, Filed, OpenIsReopened, Looked, DecidedOnce, AppendsLate,
         LastTold, NoRow, Pending, NoRequest

LEMMA AppendFacts ==
    ASSUME NEW s \in Seq(Requests), NEW q \in Requests
    PROVE  /\ Append(s, q) # <<>> /\ Last(Append(s, q)) = q
           /\ Len(Append(s, q)) = Len(s) + 1
           /\ Append(s, q)[Len(s) + 1] = q
           /\ \A i \in 1..Len(s) : Append(s, q)[i] = s[i]
  BY DEF Last

LEMMA WritersTyped ==
    ASSUME TypeOK, NEW c \in Complaints
    PROVE  /\ \A i \in 1..Len(writes[c]) : writes[c][i] \in Requests
           /\ Len(writes[c]) \in Nat
           /\ writes[c] # <<>> => Last(writes[c]) \in Requests /\ Len(writes[c]) \in 1..Len(writes[c])
<1>1. writes[c] \in Seq(Requests)
  BY DEF TypeOK
<1> QED BY <1>1 DEF Last

LEMMA ComplaintStart ==
    ASSUME TypeOK, Phases, Unanswered, ComplaintInv, NEW q \in Requests, Starts(q) \/ Forbidden(q)
    PROVE  ComplaintInv'
<1>1. /\ pc[q] = "idle" /\ pc'[q] \notin {"idle", "append"}
      /\ pc'[q] = "update" => req'[q].op = "resolve"
      /\ (pc'[q] = "insert" \/ req'[q].op = "file") =>
            /\ complaint[req'[q].on] = NoRow
            /\ \A p \in Requests : req[p].on # req'[q].on
      /\ \A p \in Requests \ {q} : pc'[p] = pc[p] /\ req'[p] = req[p] /\ answer'[p] = answer[p]
      /\ UNCHANGED complaintVars
      /\ overlap \subseteq overlap'
  <2>1. CASE Starts(q)
    BY <2>1 DEF Starts, Start, At, TypeOK
  <2>2. CASE Forbidden(q)
    BY <2>2 DEF Forbidden, At, TypeOK
  <2> QED BY <2>1, <2>2
<1>2. UNCHANGED <<complaint, writes, log>>
  BY <1>1 DEF complaintVars
<1>3. \A c \in Complaints : \A i \in 1..Len(writes[c]) : writes[c][i] \in Requests \ {q}
  BY <1>1, WritersTyped DEF ComplaintInv, Writers
<1>4. \A c \in Complaints : writes[c] # <<>> => Last(writes[c]) \in Requests \ {q}
  BY <1>3, WritersTyped DEF Last
<1>5. \A c \in Complaints : \A i \in 1..Len(writes[c]) : req'[writes[c][i]] = req[writes[c][i]]
  BY <1>1, <1>3
<1>6. \A c \in Complaints : \A i \in 1..Len(writes[c]) : Reopened(c, i) => Reopened(c, i)'
  BY <1>2, <1>5, WritersTyped DEF Reopened
<1>7. Writers'
  BY <1>1, <1>2, <1>3, <1>5 DEF ComplaintInv, Writers
<1>8. Filed'
  BY <1>1, <1>2 DEF ComplaintInv, Filed
<1>9. OpenIsReopened'
  BY <1>2, <1>5, <1>6 DEF ComplaintInv, OpenIsReopened, Closes
<1>10. Looked'
  <2>1. ASSUME NEW p \in Requests, pc'[p] = "update", req'[p].op = "patch"
        PROVE  p # q /\ req[p].on \in Complaints
    BY <1>1, <2>1 DEF Phases, Phase, InFlight
  <2> QED BY <1>1, <1>2, <1>5, <1>6, <2>1 DEF ComplaintInv, Looked, Closes
<1>11. DecidedOnce'
  <2>1. ASSUME NEW c \in Complaints, NEW i \in 1..Len(writes[c]), NEW j \in 1..Len(writes[c]),
               i < j, Closes(writes[c][i]), req[writes[c][j]].op = "patch"
        PROVE  \/ <<writes[c][i], writes[c][j]>> \in overlap'
               \/ \E k \in (i + 1)..(j - 1) : req'[writes[c][k]].op = "investigate"
    <3>1. CASE <<writes[c][i], writes[c][j]>> \in overlap
      BY <1>1, <3>1
    <3>2. ASSUME NEW k \in (i + 1)..(j - 1), req[writes[c][k]].op = "investigate"
          PROVE  req'[writes[c][k]].op = "investigate"
      <4>1. k \in 1..Len(writes[c])
        BY WritersTyped
      <4> QED BY <1>5, <3>2, <4>1
    <3> QED BY <2>1, <3>1, <3>2 DEF ComplaintInv, DecidedOnce
  <2>2. ASSUME NEW c \in Complaints, NEW i \in 1..Len(writes[c]), Closes(writes[c][i])'
        PROVE  Closes(writes[c][i])
    BY <1>2, <1>5, <2>2 DEF Closes
  <2> QED BY <1>2, <1>5, <2>1, <2>2 DEF DecidedOnce
<1>12. AppendsLate'
  BY <1>1, <1>2 DEF ComplaintInv, AppendsLate
<1>13. LastTold'
  BY <1>1, <1>2, <1>4 DEF ComplaintInv, LastTold
<1> QED BY <1>7, <1>8, <1>9, <1>10, <1>11, <1>12, <1>13 DEF ComplaintInv

\* Steps that write no row and append no event.
LEMMA ComplaintQuiet ==
    ASSUME TypeOK, Phases, ComplaintInv, NEW q \in Requests, Works(q),
           UNCHANGED <<complaint, writes, log>>,
           pc'[q] = "append" => req[q].op = "review",
           pc'[q] = "insert" => req[q].op # "file",
           (pc[q] = "append" /\ req[q].op # "review") => pc'[q] = "done" /\ answer'[q] = 500,
           pc'[q] = "update" =>
                /\ req[q].on \in Complaints
                /\ complaint[req[q].on].status # "none"
                /\ req[q].op = "patch" => complaint[req[q].on].status \notin Closed
    PROVE  ComplaintInv'
<1>1. /\ pc[q] \notin {"idle", "done"} /\ pc'[q] # "idle"
      /\ \A p \in Requests \ {q} : pc'[p] = pc[p] /\ answer'[p] = answer[p]
      /\ UNCHANGED <<req, overlap>>
  BY DEF Works, TypeOK, InFlight
<1>2. \A c \in Complaints : \A i \in 1..Len(writes[c]) : Reopened(c, i)' = Reopened(c, i)
  BY <1>1 DEF Reopened
<1>3. Writers'
  <2>1. ASSUME NEW c \in Complaints, NEW i \in 1..Len(writes[c])
        PROVE  /\ req[writes[c][i]].on = c /\ req[writes[c][i]].op \notin {"none", "review"}
               /\ pc'[writes[c][i]] \in {"append", "done"}
    <3>1. /\ req[writes[c][i]].on = c /\ req[writes[c][i]].op \notin {"none", "review"}
          /\ pc[writes[c][i]] \in {"append", "done"}
      BY DEF ComplaintInv, Writers
    <3>2. writes[c][i] \in Requests
      BY WritersTyped
    <3>3. CASE writes[c][i] = q
      BY <1>1, <3>1, <3>3
    <3>4. CASE writes[c][i] # q
      BY <1>1, <3>1, <3>2, <3>4
    <3> QED BY <3>1, <3>3, <3>4
  <2> QED BY <1>1, <2>1 DEF Writers
<1>4. Filed'
  BY <1>1 DEF ComplaintInv, Filed
<1>5. OpenIsReopened'
  BY <1>1, <1>2 DEF ComplaintInv, OpenIsReopened, Closes
<1>6. Looked'
  <2>1. ASSUME NEW p \in Requests, pc'[p] = "update", req[p].op = "patch",
               NEW i \in 1..Len(writes[req[p].on]), Closes(writes[req[p].on][i])
        PROVE  <<writes[req[p].on][i], p>> \in overlap \/ Reopened(req[p].on, i)
    <3>1. CASE p = q
      BY <2>1, <3>1 DEF ComplaintInv, OpenIsReopened
    <3>2. CASE p # q
      BY <1>1, <2>1, <3>2 DEF ComplaintInv, Looked
    <3> QED BY <3>1, <3>2
  <2>2. ASSUME NEW p \in Requests, pc'[p] = "update", req[p].op = "patch"
        PROVE  req[p].on \in Complaints
    <3>1. CASE p = q
      BY <2>2, <3>1
    <3>2. CASE p # q
      BY <1>1, <2>2, <3>2 DEF Phases, Phase, InFlight
    <3> QED BY <3>1, <3>2
  <2> QED BY <1>1, <1>2, <2>1, <2>2 DEF Looked, Closes
<1>7. DecidedOnce'
  BY <1>1 DEF ComplaintInv, DecidedOnce, Closes
<1>8. AppendsLate'
  BY <1>1 DEF ComplaintInv, AppendsLate
<1>9. LastTold'
  <2>1. ASSUME NEW c \in Complaints, writes[c] # <<>>
        PROVE  \/ pc'[Last(writes[c])] = "append"
               \/ answer'[Last(writes[c])] = 500
               \/ log[c] # <<>> /\ (Last(log[c]) = Last(writes[c])
                                    \/ <<Last(log[c]), Last(writes[c])>> \in overlap)
    <3> DEFINE w == Last(writes[c])
    <3>1. w \in Requests /\ req[w].op # "review" /\ pc[w] \in {"append", "done"}
      BY <2>1, WritersTyped DEF ComplaintInv, Writers, Last
    <3>2. \/ pc[w] = "append" \/ answer[w] = 500
          \/ log[c] # <<>> /\ (Last(log[c]) = w \/ <<Last(log[c]), w>> \in overlap)
      BY <2>1 DEF ComplaintInv, LastTold
    <3> HIDE DEF w
    <3>3. \/ pc'[w] = "append" \/ answer'[w] = 500
          \/ log[c] # <<>> /\ (Last(log[c]) = w \/ <<Last(log[c]), w>> \in overlap)
      BY <1>1, <3>1, <3>2
    <3> QED BY <3>3 DEF w
  <2> QED BY <1>1, <2>1 DEF LastTold
<1> QED BY <1>3, <1>4, <1>5, <1>6, <1>7, <1>8, <1>9 DEF ComplaintInv

\* A row is written by a request that ran together with all that are at work on it.
LEMMA ComplaintWrite ==
    ASSUME TypeOK, Phases, Together, ComplaintInv, NEW q \in Requests, NEW c \in Complaints,
           InFlight(q), pc[q] # "append", req[q].on = c, req[q].op \notin {"none", "review"},
           pc' = [pc EXCEPT ![q] = "append"],
           writes' = [writes EXCEPT ![c] = Append(@, q)],
           \A d \in Complaints \ {c} : complaint'[d] = complaint[d],
           complaint'[c].status # "none",
           req[q].op = "file" \/ complaint[c].status # "none",
           req[q].op = "file" => pc[q] = "insert",
           req[q].op = "patch" => pc[q] = "update",
           Closes(q) => complaint'[c].status \in Closed,
           req[q].op \in {"file", "patch", "resolve", "dismiss", "investigate"},
           UNCHANGED <<req, log, overlap, answer>>
    PROVE  ComplaintInv'
<1>1. /\ \A p \in Requests \ {q} : pc'[p] = pc[p]
      /\ pc'[q] = "append"
      /\ \A d \in Complaints \ {c} : writes'[d] = writes[d]
      /\ writes[c] \in Seq(Requests) /\ writes'[c] = Append(writes[c], q)
  BY DEF TypeOK
<1> DEFINE n == Len(writes[c])
<1>2. /\ n \in Nat /\ Len(writes'[c]) = n + 1 /\ writes'[c][n + 1] = q
      /\ writes'[c] # <<>> /\ Last(writes'[c]) = q
      /\ \A i \in 1..n : writes'[c][i] = writes[c][i]
  BY <1>1, AppendFacts
<1>3. \A d \in Complaints : \A i \in 1..Len(writes[d]) : writes[d][i] \in Requests
  BY WritersTyped
<1> HIDE DEF n
<1>4. /\ \A d \in Complaints \ {c} : \A i \in 1..Len(writes[d]) : writes[d][i] # q
      /\ \A i \in 1..n : writes[c][i] # q
  BY DEF ComplaintInv, Writers, InFlight, n
<1>5. ASSUME NEW p \in Requests \ {q}, InFlight(p), req[p].on = c PROVE <<p, q>> \in overlap /\ <<q, p>> \in overlap
  BY <1>5 DEF Together
<1>6. \A p \in Requests : (pc'[p] \in {"update", "append"} /\ req[p].op # "review") =>
          req[p].on \in Complaints
  BY <1>1 DEF Phases, Phase, InFlight
<1>7. Writers'
  <2>1. ASSUME NEW d \in Complaints \ {c}, NEW i \in 1..Len(writes[d])
        PROVE  /\ req[writes[d][i]].on = d /\ req[writes[d][i]].op \notin {"none", "review"}
               /\ pc'[writes[d][i]] \in {"append", "done"}
    BY <1>1, <1>3, <1>4 DEF ComplaintInv, Writers
  <2>2. ASSUME NEW i \in 1..n
        PROVE  /\ req[writes[c][i]].on = c /\ req[writes[c][i]].op \notin {"none", "review"}
               /\ pc'[writes[c][i]] \in {"append", "done"}
    <3>1. writes[c][i] \in Requests \ {q}
      BY <1>3, <1>4 DEF n
    <3>2. /\ req[writes[c][i]].on = c /\ req[writes[c][i]].op \notin {"none", "review"}
          /\ pc[writes[c][i]] \in {"append", "done"}
      BY DEF ComplaintInv, Writers, n
    <3> QED BY <1>1, <3>1, <3>2
  <2>3. ASSUME NEW i \in 1..Len(writes'[c])
        PROVE  /\ req[writes'[c][i]].on = c /\ req[writes'[c][i]].op \notin {"none", "review"}
               /\ pc'[writes'[c][i]] \in {"append", "done"}
    <3>1. CASE i = n + 1
      BY <1>1, <1>2, <3>1
    <3>2. CASE i \in 1..n
      BY <1>2, <2>2, <3>2
    <3> QED BY <1>2, <3>1, <3>2
  <2> QED BY <1>1, <2>1, <2>3 DEF Writers
<1>8. Filed'
  <2>1. \A d \in Complaints : complaint'[d].status = "none" => complaint'[d] = NoRow /\ writes'[d] = <<>>
    BY <1>1 DEF ComplaintInv, Filed
  <2>2. ASSUME NEW p \in Requests, pc'[p] = "update", req[p].op # "resolve"
        PROVE  complaint'[req[p].on].status # "none"
    <3>1. p # q /\ pc[p] = "update" /\ req[p].on \in Complaints
      BY <1>1, <2>2 DEF Phases, Phase, InFlight
    <3>2. complaint[req[p].on].status # "none"
      BY <2>2, <3>1 DEF ComplaintInv, Filed
    <3> QED BY <3>1, <3>2
  <2>3. ASSUME NEW p \in Requests, pc'[p] = "insert", req[p].op = "file"
        PROVE  complaint'[req[p].on] = NoRow
    <3>1. p # q /\ pc[p] = "insert" /\ req[p].on \in Complaints
      BY <1>1, <2>3 DEF Phases, Phase, InFlight
    <3>2. complaint[req[p].on] = NoRow
      BY <2>3, <3>1 DEF ComplaintInv, Filed
    <3>3. req[p].on # c
      BY <2>3, <3>1, <3>2 DEF ComplaintInv, Filed, NoRow
    <3> QED BY <3>1, <3>2, <3>3
  <2> QED BY <2>1, <2>2, <2>3 DEF ComplaintInv, Filed
<1>9. \A d \in Complaints \ {c} : \A i \in 1..Len(writes[d]) : Reopened(d, i) => Reopened(d, i)'
  BY <1>1 DEF Reopened
<1>10. ASSUME NEW i \in 1..n, Reopened(c, i) PROVE Reopened(c, i)'
  <2>1. PICK k \in (i + 1)..n : req[writes[c][k]].op = "investigate"
    BY <1>10 DEF Reopened, n
  <2>2. k \in (i + 1)..Len(writes'[c]) /\ writes'[c][k] = writes[c][k]
    BY <1>2
  <2> QED BY <2>1, <2>2 DEF Reopened
<1>11. ASSUME NEW i \in 1..n, req[q].op = "investigate" PROVE Reopened(c, i)'
  <2>1. n + 1 \in (i + 1)..Len(writes'[c]) /\ writes'[c][n + 1] = q
    BY <1>2
  <2> QED BY <1>11, <2>1 DEF Reopened
<1>12. OpenIsReopened'
  <2>1. ASSUME NEW d \in Complaints \ {c}, NEW i \in 1..Len(writes[d]), Closes(writes[d][i]),
               complaint[d].status \notin Closed
        PROVE  Reopened(d, i)'
    BY <1>9, <2>1 DEF ComplaintInv, OpenIsReopened
  <2>2. ASSUME NEW i \in 1..Len(writes'[c]), Closes(writes'[c][i]), complaint'[c].status \notin Closed
        PROVE  Reopened(c, i)'
    <3>1. req[q].op \in {"file", "investigate"}
      BY <2>2 DEF Closes
    <3>2. i # n + 1
      BY <1>2, <2>2, <3>1 DEF Closes
    <3>3. i \in 1..n
      BY <1>2, <3>2
    <3>4. CASE req[q].op = "file"
      <4>1. writes[c] = <<>>
        BY <3>4 DEF ComplaintInv, Filed, NoRow
      <4> QED BY <3>3, <4>1 DEF n
    <3> QED BY <1>11, <3>1, <3>3, <3>4
  <2> QED BY <1>1, <2>1, <2>2 DEF OpenIsReopened, Closes
<1>13. Looked'
  <2>1. ASSUME NEW p \in Requests, pc'[p] = "update", req[p].op = "patch",
               NEW i \in 1..Len(writes'[req[p].on]), Closes(writes'[req[p].on][i])
        PROVE  <<writes'[req[p].on][i], p>> \in overlap \/ Reopened(req[p].on, i)'
    <3>1. p # q /\ pc[p] = "update" /\ InFlight(p) /\ req[p].on \in Complaints
      BY <1>1, <1>6, <2>1 DEF InFlight
    <3>2. CASE req[p].on # c
      BY <1>1, <1>9, <2>1, <3>1, <3>2 DEF ComplaintInv, Looked
    <3>3. CASE req[p].on = c /\ i = n + 1
      BY <1>2, <1>5, <3>1, <3>3
    <3>4. CASE req[p].on = c /\ i \in 1..n
      <4>1. <<writes[c][i], p>> \in overlap \/ Reopened(c, i)
        <5>1. Closes(writes[c][i])
          BY <1>2, <2>1, <3>4
        <5> QED BY <2>1, <3>1, <3>4, <5>1 DEF ComplaintInv, Looked, n
      <4> QED BY <1>2, <1>10, <3>4, <4>1
    <3> QED BY <1>2, <3>2, <3>3, <3>4
  <2> QED BY <2>1 DEF Looked, Closes
<1>14. DecidedOnce'
  <2>1. ASSUME NEW d \in Complaints \ {c}, NEW i \in 1..Len(writes[d]), NEW j \in 1..Len(writes[d]),
               i < j, Closes(writes[d][i]), req[writes[d][j]].op = "patch"
        PROVE  \/ <<writes[d][i], writes[d][j]>> \in overlap
               \/ \E k \in (i + 1)..(j - 1) : req[writes[d][k]].op = "investigate"
    BY <2>1 DEF ComplaintInv, DecidedOnce
  <2>2. ASSUME NEW i \in 1..(n + 1), NEW j \in 1..(n + 1), i < j,
               Closes(writes'[c][i]), req[writes'[c][j]].op = "patch"
        PROVE  \/ <<writes'[c][i], writes'[c][j]>> \in overlap
               \/ \E k \in (i + 1)..(j - 1) : req[writes'[c][k]].op = "investigate"
    <3>1. i \in 1..n /\ writes'[c][i] = writes[c][i] /\ Closes(writes[c][i])
      BY <1>2, <2>2
    <3>2. CASE j = n + 1
      <4>1. writes'[c][j] = q /\ pc[q] = "update" /\ req[q].op = "patch"
        BY <1>2, <2>2, <3>2
      <4>2. <<writes[c][i], q>> \in overlap \/ Reopened(c, i)
        BY <3>1, <4>1 DEF ComplaintInv, Looked, n
      <4>3. ASSUME NEW k \in (i + 1)..n, req[writes[c][k]].op = "investigate"
            PROVE  k \in (i + 1)..(j - 1) /\ req[writes'[c][k]].op = "investigate"
        BY <1>2, <3>2, <4>3
      <4> QED BY <3>1, <4>1, <4>2, <4>3 DEF Reopened, n
    <3>3. CASE j \in 1..n
      <4>1. writes'[c][j] = writes[c][j]
        BY <1>2, <3>3
      <4>2. \/ <<writes[c][i], writes[c][j]>> \in overlap
            \/ \E k \in (i + 1)..(j - 1) : req[writes[c][k]].op = "investigate"
        BY <2>2, <3>1, <3>3, <4>1 DEF ComplaintInv, DecidedOnce, n
      <4>3. ASSUME NEW k \in (i + 1)..(j - 1) PROVE writes'[c][k] = writes[c][k]
        BY <1>2, <3>3
      <4> QED BY <3>1, <4>1, <4>2, <4>3
    <3> QED BY <1>2, <3>2, <3>3
  <2>3. ASSUME NEW d \in Complaints, NEW i \in 1..Len(writes'[d]), NEW j \in 1..Len(writes'[d]),
               i < j, Closes(writes[d][i])', req'[writes'[d][j]].op = "patch"
        PROVE  \/ <<writes'[d][i], writes'[d][j]>> \in overlap'
               \/ \E k \in (i + 1)..(j - 1) : req'[writes'[d][k]].op = "investigate"
    <3>1. UNCHANGED <<req, overlap>>
      OBVIOUS
    <3>2. Closes(writes'[d][i])
      BY ONLY <2>3, <3>1 DEF Closes
    <3>3. CASE d = c
      <4>1. i \in 1..(n + 1) /\ j \in 1..(n + 1)
        BY <1>2, <3>3
      <4>2. req[writes'[c][j]].op = "patch" /\ Closes(writes'[c][i])
        BY ONLY <2>3, <3>1, <3>2, <3>3
      <4>3. \/ <<writes'[c][i], writes'[c][j]>> \in overlap
            \/ \E k \in (i + 1)..(j - 1) : req[writes'[c][k]].op = "investigate"
        BY ONLY <2>2, <2>3, <4>1, <4>2
      <4> QED BY ONLY <3>1, <3>3, <4>3
    <3>4. CASE d # c
      <4>1. writes'[d] = writes[d]
        BY <1>1, <3>4
      <4>2. \/ <<writes[d][i], writes[d][j]>> \in overlap
            \/ \E k \in (i + 1)..(j - 1) : req[writes[d][k]].op = "investigate"
        <5>1. i \in 1..Len(writes[d]) /\ j \in 1..Len(writes[d]) /\ i < j
              /\ Closes(writes[d][i]) /\ req[writes[d][j]].op = "patch"
          BY ONLY <2>3, <3>1, <3>2, <4>1
        <5> QED BY <2>1, <3>4, <5>1
      <4> QED BY ONLY <3>1, <4>1, <4>2
    <3> QED BY <3>3, <3>4
  <2> QED BY ONLY <2>3 DEF DecidedOnce
<1>15. AppendsLate'
  <2>1. ASSUME NEW p \in Requests, pc'[p] = "append", req[p].op # "review"
        PROVE  /\ writes'[req[p].on] # <<>>
               /\ p = Last(writes'[req[p].on]) \/ <<p, Last(writes'[req[p].on])>> \in overlap
    <3>1. req[p].on \in Complaints
      BY <1>6, <2>1
    <3>2. CASE p = q
      BY <1>2, <3>2
    <3>3. CASE p # q /\ req[p].on = c
      BY <1>1, <1>2, <1>5, <2>1, <3>3 DEF InFlight
    <3>4. CASE p # q /\ req[p].on # c
      BY <1>1, <2>1, <3>1, <3>4 DEF ComplaintInv, AppendsLate
    <3> QED BY <3>2, <3>3, <3>4
  <2> QED BY <2>1 DEF AppendsLate
<1>16. LastTold'
  <2>1. ASSUME NEW d \in Complaints \ {c}, writes[d] # <<>>
        PROVE  Last(writes[d]) \in Requests \ {q}
    BY <1>3, <1>4, <2>1, WritersTyped DEF Last
  <2>2. ASSUME NEW d \in Complaints \ {c}, writes'[d] # <<>>
        PROVE  LET w == Last(writes'[d]) IN
               \/ pc'[w] = "append"
               \/ answer[w] = 500
               \/ log[d] # <<>> /\ (Last(log[d]) = w \/ <<Last(log[d]), w>> \in overlap)
    BY <1>1, <2>1, <2>2 DEF ComplaintInv, LastTold
  <2>3. pc'[Last(writes'[c])] = "append"
    BY <1>1, <1>2
  <2> QED BY <2>2, <2>3 DEF LastTold
<1> QED BY <1>7, <1>8, <1>12, <1>13, <1>14, <1>15, <1>16 DEF ComplaintInv

LEMMA ComplaintAppend ==
    ASSUME TypeOK, Phases, ComplaintInv, NEW q \in Requests, AppendComplaintEvent(q)
    PROVE  ComplaintInv'
<1> DEFINE c == req[q].on
<1>1. /\ c \in Complaints /\ pc[q] = "append" /\ req[q].op # "review"
      /\ pc' = [pc EXCEPT ![q] = "done"] /\ answer' = [answer EXCEPT ![q] = 200]
      /\ log' = [log EXCEPT ![c] = Append(@, q)]
      /\ UNCHANGED <<req, complaint, writes, overlap>>
  BY DEF AppendComplaintEvent, At, Answer, Phases, Phase, InFlight
<1>2. /\ pc'[q] = "done" /\ answer'[q] = 200
      /\ \A p \in Requests \ {q} : pc'[p] = pc[p] /\ answer'[p] = answer[p]
      /\ log[c] \in Seq(Requests) /\ log'[c] = Append(log[c], q)
      /\ \A d \in Complaints \ {c} : log'[d] = log[d]
  BY <1>1 DEF TypeOK
<1>3. log'[c] # <<>> /\ Last(log'[c]) = q
  BY <1>2, AppendFacts
<1> HIDE DEF c
<1>4. Writers'
  <2>1. ASSUME NEW d \in Complaints, NEW i \in 1..Len(writes[d])
        PROVE  /\ req[writes[d][i]].on = d /\ req[writes[d][i]].op \notin {"none", "review"}
               /\ pc'[writes[d][i]] \in {"append", "done"}
    BY <1>2, WritersTyped DEF ComplaintInv, Writers
  <2> QED BY <1>1, <2>1 DEF Writers
<1>5. Filed'
  BY <1>1, <1>2 DEF ComplaintInv, Filed
<1>6. OpenIsReopened'
  BY <1>1 DEF ComplaintInv, OpenIsReopened, Reopened, Closes
<1>7. UNCHANGED <<req, complaint, writes, overlap>>
  BY <1>1
<1>8. Looked'
  <2>1. \A p \in Requests : pc'[p] = "update" => pc[p] = "update"
    BY <1>2
  <2>2. Looked
    BY DEF ComplaintInv
  <2> QED BY ONLY <1>7, <2>1, <2>2 DEF Looked, Reopened, Closes
<1>9. DecidedOnce'
  <2>1. DecidedOnce
    BY DEF ComplaintInv
  <2> QED BY ONLY <1>7, <2>1 DEF DecidedOnce, Closes
<1>10. AppendsLate'
  BY <1>1, <1>2 DEF ComplaintInv, AppendsLate
<1>11. LastTold'
  <2>1. ASSUME NEW d \in Complaints, writes[d] # <<>>, NEW w, w = Last(writes[d])
        PROVE  \/ pc'[w] = "append"
               \/ answer'[w] = 500
               \/ log'[d] # <<>> /\ (Last(log'[d]) = w \/ <<Last(log'[d]), w>> \in overlap)
    <3>1. w \in Requests /\ req[w].on = d
      BY <2>1, WritersTyped DEF ComplaintInv, Writers, Last
    <3>2. CASE d = c
      <4>1. q = w \/ <<q, w>> \in overlap
        BY <1>1, <2>1, <3>2 DEF ComplaintInv, AppendsLate, c
      <4> QED BY <1>3, <3>2, <4>1
    <3>3. CASE d # c
      <4>1. w # q
        BY <3>1, <3>3 DEF c
      <4>2. \/ pc[w] = "append"
            \/ answer[w] = 500
            \/ log[d] # <<>> /\ (Last(log[d]) = w \/ <<Last(log[d]), w>> \in overlap)
        BY <2>1 DEF ComplaintInv, LastTold
      <4> QED BY <1>2, <3>1, <3>3, <4>1, <4>2
    <3> QED BY <3>2, <3>3
  <2> QED BY <1>1, <2>1 DEF LastTold
<1> QED BY <1>4, <1>5, <1>6, <1>8, <1>9, <1>10, <1>11 DEF ComplaintInv

LEMMA ComplaintStepOK ==
    TypeOK /\ Phases /\ Together /\ Unanswered /\ ComplaintInv /\ [Next]_vars => ComplaintInv'
<1> SUFFICES ASSUME TypeOK, Phases, Together, Unanswered, ComplaintInv, [Next]_vars
             PROVE  ComplaintInv'
  OBVIOUS
<1>1. ASSUME NEW q \in Requests, Starts(q) \/ Forbidden(q) PROVE ComplaintInv'
  BY <1>1, ComplaintStart
<1>2. ASSUME NEW q \in Requests, FindComplaint(q) PROVE ComplaintInv'
  <2>1. Works(q) /\ UNCHANGED <<complaint, writes, log>> /\ pc[q] = "read" /\ req[q].on \in Complaints
    BY <1>2, WorksShape DEF FindComplaint, At, complaintVars, Phases, Phase, InFlight
  <2>2. \/ Answer(q, 404) \/ Answer(q, 400)
        \/ /\ Goto(q, "update")
           /\ complaint[req[q].on].status # "none"
           /\ req[q].op = "patch" => complaint[req[q].on].status \notin Closed
    BY <1>2 DEF FindComplaint
  <2>3. /\ pc'[q] \in {"done", "update"}
        /\ pc'[q] = "update" =>
                /\ complaint[req[q].on].status # "none"
                /\ req[q].op = "patch" => complaint[req[q].on].status \notin Closed
    BY <2>2 DEF Answer, Goto, TypeOK
  <2> QED BY <2>1, <2>3, ComplaintQuiet
<1>3. ASSUME NEW q \in Requests, InsertComplaint(q) PROVE ComplaintInv'
  <2>1. InFlight(q) /\ pc[q] = "insert" /\ req[q].op = "file" /\ req[q].on \in Complaints
    BY <1>3 DEF InsertComplaint, At, Phases, Phase, InFlight
  <2>2. /\ pc' = [pc EXCEPT ![q] = "append"]
        /\ writes' = [writes EXCEPT ![req[q].on] = Append(@, q)]
        /\ complaint' = [complaint EXCEPT ![req[q].on] = Pending]
        /\ UNCHANGED <<req, log, overlap, answer>>
    BY <1>3 DEF InsertComplaint, Goto, Wrote
  <2>3. /\ \A d \in Complaints \ {req[q].on} : complaint'[d] = complaint[d]
        /\ complaint'[req[q].on].status = "pending"
    BY <2>1, <2>2 DEF TypeOK, Pending, NoRow
  <2> QED BY <2>1, <2>2, <2>3, ComplaintWrite DEF Closes
<1>4. ASSUME NEW q \in Requests, UpdateStatus(q) PROVE ComplaintInv'
  <2> DEFINE st == IF req[q].op = "dismiss" THEN "dismissed" ELSE "investigating"
  <2>1. InFlight(q) /\ pc[q] = "update" /\ req[q].op \in {"dismiss", "investigate"}
        /\ req[q].on \in Complaints /\ complaint[req[q].on].status # "none"
    BY <1>4 DEF UpdateStatus, At, Phases, Phase, InFlight, ComplaintInv, Filed
  <2>2. /\ pc' = [pc EXCEPT ![q] = "append"]
        /\ writes' = [writes EXCEPT ![req[q].on] = Append(@, q)]
        /\ complaint' = [complaint EXCEPT ![req[q].on].status = st]
        /\ UNCHANGED <<req, log, overlap, answer>>
    BY <1>4 DEF UpdateStatus, Goto, Wrote
  <2>3. st # "none" /\ (Closes(q) => st \in Closed)
    BY <2>1 DEF Closes, Closed
  <2> HIDE DEF st
  <2>4. complaint[req[q].on] \in Rows
    BY <2>1 DEF TypeOK
  <2>5. [complaint[req[q].on] EXCEPT !.status = st].status = st
    BY <2>4 DEF Rows
  <2>6. /\ \A d \in Complaints \ {req[q].on} : complaint'[d] = complaint[d]
        /\ complaint'[req[q].on].status = st
    BY <2>1, <2>2, <2>5 DEF TypeOK
  <2> QED BY <2>1, <2>2, <2>3, <2>6, ComplaintWrite
<1>5. ASSUME NEW q \in Requests, Resolve(q) PROVE ComplaintInv'
  <2>1. InFlight(q) /\ pc[q] = "update" /\ req[q].op \in {"patch", "resolve"} /\ req[q].on \in Complaints
    BY <1>5 DEF Resolve, At, Phases, Phase, InFlight
  <2>2. CASE complaint[req[q].on] = NoRow
    <3>1. Works(q) /\ UNCHANGED <<complaint, writes, log>>
      BY <1>5, <2>2, WorksShape DEF Resolve, complaintVars
    <3>2. pc'[q] = "done" /\ answer'[q] = 500
      BY <1>5, <2>2 DEF Resolve, Answer, TypeOK
    <3> QED BY <2>1, <3>1, <3>2, ComplaintQuiet
  <2>3. CASE complaint[req[q].on] # NoRow
    <3>1. /\ pc' = [pc EXCEPT ![q] = "append"]
          /\ writes' = [writes EXCEPT ![req[q].on] = Append(@, q)]
          /\ complaint' = [complaint EXCEPT ![req[q].on] =
                    [status |-> "resolved", action |-> req[q].verdict, by |-> req[q].who]]
          /\ UNCHANGED <<req, log, overlap, answer>>
      BY <1>5, <2>3 DEF Resolve, Goto, Wrote
    <3>2. /\ \A d \in Complaints \ {req[q].on} : complaint'[d] = complaint[d]
          /\ complaint'[req[q].on].status = "resolved"
      BY <2>1, <3>1 DEF TypeOK
    <3>3. complaint[req[q].on].status # "none"
      BY <2>1, <2>3 DEF ComplaintInv, Filed
    <3> QED BY <2>1, <3>1, <3>2, <3>3, ComplaintWrite DEF Closed
  <2> QED BY <2>2, <2>3
<1>6. ASSUME NEW q \in Requests, AppendComplaintEvent(q) PROVE ComplaintInv'
  BY <1>6, ComplaintAppend
<1>7. ASSUME NEW q \in Requests,
             FindOrder(q) \/ FindReview(q) \/ InsertReview(q) \/ AppendReviewEvent(q)
      PROVE  ComplaintInv'
  <2>1. Works(q) /\ req[q].op = "review" /\ UNCHANGED <<complaint, writes, log>>
    BY <1>7, WorksShape DEF FindOrder, FindReview, InsertReview, AppendReviewEvent, At, Phases, Phase,
                            complaintVars
  <2>2. pc'[q] # "update"
    BY <1>7 DEF FindOrder, FindReview, InsertReview, AppendReviewEvent, Answer, Goto, TypeOK
  <2> QED BY <2>1, <2>2, ComplaintQuiet
<1>8. ASSUME NEW q \in Requests, AppendFails(q) PROVE ComplaintInv'
  <2>1. Works(q) /\ UNCHANGED <<complaint, writes, log>>
    BY <1>8, WorksShape DEF AppendFails, complaintVars
  <2>2. pc'[q] = "done" /\ answer'[q] = 500
    BY <1>8 DEF AppendFails, Answer, TypeOK
  <2> QED BY <2>1, <2>2, ComplaintQuiet
<1>9. CASE (\E o \in Orders : OrderChanges(o)) \/ UNCHANGED vars
  <2>1. UNCHANGED <<complaint, req, pc, answer, writes, log, overlap>>
    BY <1>9 DEF OrderChanges, vars, complaintVars
  <2> QED BY <2>1 DEF ComplaintInv, Writers, Filed, OpenIsReopened, Reopened, Looked, DecidedOnce,
                      Closes, AppendsLate, LastTold
<1> QED BY Steps, <1>1, <1>2, <1>3, <1>4, <1>5, <1>6, <1>7, <1>8, <1>9

LEMMA ComplaintsInductive == Spec => [](TypeOK /\ Phases /\ ComplaintInv)
<1>1. Spec => [](TypeOK /\ Phases /\ Together /\ Unanswered /\ ComplaintInv)
  BY TypesInit, TypesStep, TogetherInit, TogetherStep, ComplaintInit, ComplaintStepOK, PTL DEF Spec
<1> QED BY <1>1, PTL

\* DecidedOnce: however many admins decide at once, a decision of the public
\* route replaces another only if the two ran together or the complaint was
\* put back under investigation.
THEOREM DecisionsAreFinal == Spec => []DecidedOnce
<1>1. ComplaintInv => DecidedOnce
  BY DEF ComplaintInv
<1> QED BY <1>1, ComplaintsInductive, PTL

\* LastEventTellsStatus: what the last event says about a complaint at rest is
\* what its row says, but for requests that failed to append or ran together.
THEOREM LastEventIsTrue == Spec => []LastEventTellsStatus
<1>1. TypeOK /\ ComplaintInv => LastEventTellsStatus
  <2> SUFFICES ASSUME TypeOK, ComplaintInv, NEW c \in Complaints, writes[c] # <<>>,
                      \A q \in Requests : req[q].on = c => ~InFlight(q),
                      NEW w, w = Last(writes[c])
               PROVE  \/ answer[w] = 500
                      \/ log[c] # <<>> /\ (Last(log[c]) = w \/ <<Last(log[c]), w>> \in overlap)
    BY DEF LastEventTellsStatus
  <2>1. w \in Requests /\ req[w].on = c
    BY WritersTyped DEF ComplaintInv, Writers, Last
  <2>2. pc[w] # "append"
    BY <2>1 DEF InFlight
  <2> QED BY <2>2 DEF ComplaintInv, LastTold
<1> QED BY <1>1, ComplaintsInductive, PTL
=============================================================================
