--------------------------- MODULE DeliveryProofs ---------------------------
(***************************************************************************)
(* Proofs about Delivery.  A mail or a webhook is asked for once: a run    *)
(* makes one call that queues a mail, its first, and a dispatch takes each *)
(* hook it queues off its list.  So each pair of a source and a target has *)
(* one job at most, and how often the target acts is bounded by what       *)
(* happens to that job.                                                    *)
(***************************************************************************)
EXTENDS Delivery, TLAPS

-----------------------------------------------------------------------------
(***************************************************************************)
(* The inductive invariant                                                 *)
(***************************************************************************)

\* The types, in three groups.
RunTypes ==
    /\ run \in [Runs -> [kind : AllKinds \cup {"none"}, craftsman : {Craftsman, NoUser}]]
    /\ step \in [Runs -> 0..5]
    /\ result \in [Runs -> {"none", "ok", "failed", "lost"}]
    /\ rows \subseteq Runs \X (1..4)
    /\ skipped \subseteq Runs

DispatchTypes ==
    /\ hook \in [Hooks -> {"none", "active", "inactive", "deleted"}]
    /\ pc \in [Dispatches -> {"idle", "adding", "ok", "failed"}]
    /\ todo \in [Dispatches -> SUBSET Hooks]

JobTypes ==
    /\ jobs \subseteq Jobs
    /\ queued \subseteq Requests /\ merged \subseteq Requests
    /\ acts \in [Sources \X Targets -> Nat]
    /\ faulted \subseteq Sources \X Targets
    /\ now \in 0..MaxNow /\ crashes \in 0..MaxCrashes

\* A pair of a source and a target has one job.
OneJob == \A j, k \in jobs : j.src = k.src /\ j.to = k.to => j = k

\* What a job still may do leaves room for what its target has done; whatever
\* it has done before the job's end, the worker saw no answer to.
Bounded ==
    \A j \in jobs :
        /\ j.state \in {"waiting", "active"} => j.tries < Attempts /\ j.stalls <= 1
        /\ j.tries + j.stalls <= Attempts + 1
        /\ acts[<<j.src, j.to>>] <= j.tries + j.stalls
        /\ acts[<<j.src, j.to>>] > 0 => <<j.src, j.to>> \in faulted

\* Behind every job is the request that became it.
Requested ==
    \A j \in jobs : \E q \in queued :
        q.src = j.src /\ q.to = j.to /\ q.kind = j.kind /\ q.at = j.at

\* Has s got a job for t, or had one that acted?
Had(s, t) == acts[<<s, t>>] > 0 \/ \E j \in jobs : j.src = s /\ j.to = t

\* A run has had its mail only after its first call, and a dispatch only for
\* hooks that are off its list.
Asked ==
    /\ \A r \in Runs, t \in Targets : Had(r, t) => step[r] >= 2
    /\ \A d \in Dispatches, t \in Targets : Had(d, t) => pc[d] # "idle" /\ t \notin todo[d]

\* Call i of run r has told whom it was to tell.
Told(r, i) ==
    LET u == Calls(r)[i].to IN
    CASE Does(r, i) = "row" -> u \in Users /\ <<r, i>> \in rows
      [] Does(r, i) \in {"email", "welcome"} ->
            r \in skipped \/ \E q \in queued \cup merged : q.src = r /\ q.to = u
      [] Does(r, i) = "bidders" -> TRUE
      [] OTHER -> FALSE

\* The calls run r has left behind have told theirs, and if it has ended well
\* it has left them all behind.
Tells(r) ==
    /\ step[r] <= Len(Calls(r)) + 1
    /\ \A i \in 1..Len(Calls(r)) : i < step[r] => Told(r, i)
    /\ result[r] = "ok" => step[r] = Len(Calls(r)) + 1
    /\ step[r] = 0 => run[r].kind = "none" /\ result[r] = "none"

Telling == \A r \in Runs : Tells(r)

IInv ==
    /\ RunTypes /\ DispatchTypes /\ JobTypes
    /\ OneJob /\ Bounded /\ Requested /\ DroppedForATwin /\ RepeatsHaveACause
    /\ Asked /\ Telling

-----------------------------------------------------------------------------
(***************************************************************************)
(* The calls of a handler                                                  *)
(***************************************************************************)

\* A handler makes four calls at most; the one that queues a mail is its first;
\* every call is for one of the two users or for nobody.
FourCalls(r) ==
    /\ Len(Calls(r)) \in 0..4
    /\ \A i \in 1..Len(Calls(r)) :
          /\ Calls(r)[i].to \in Users \cup {NoUser}
          /\ Does(r, i) \in {"email", "welcome"} => i = 1

\* The row of a run.
RunRow == [kind : AllKinds \cup {"none"}, craftsman : {Craftsman, NoUser}]

LEMMA CraftsmanCallsBounded ==
    ASSUME NEW r \in Runs, run[r] \in RunRow, run[r].kind \in CraftsmanKinds
    PROVE  FourCalls(r)
  <1>1. Calls(r) = CraftsmanCalls(run[r].kind)
    BY DEF Calls, CraftsmanKinds, OrderKinds, FeedbackKinds
  <1>2. \A i : Does(r, i) = CraftsmanConfig[Calls(r)[i].f]
    BY DEF Does, CraftsmanKinds, OrderKinds
  <1>3. CASE run[r].kind = "craftsman.registered"
    BY <1>1, <1>2, <1>3
       DEF CraftsmanCalls, CraftsmanPayload, Call, CraftsmanConfig, FourCalls, Users
  <1>4. CASE run[r].kind # "craftsman.registered"
    BY <1>1, <1>2, <1>4
       DEF CraftsmanCalls, CraftsmanPayload, Call, CraftsmanConfig, FourCalls, Users
  <1> QED
    BY <1>3, <1>4

LEMMA OrderCallsBounded ==
    ASSUME NEW r \in Runs, run[r] \in RunRow, run[r].kind \in OrderKinds
    PROVE  FourCalls(r)
  <1> DEFINE p == IF run[r].kind = "order.timed_out"
                  THEN TimeoutPayload ELSE OrderPayload(run[r].craftsman)
  <1>1. Calls(r) = OrderCalls(run[r].kind, p)
    BY DEF Calls, CraftsmanKinds, OrderKinds, FeedbackKinds
  <1>2. \A i : Does(r, i) = OrderConfig[Calls(r)[i].f]
    BY DEF Does, CraftsmanKinds, OrderKinds
  <1>3. p.clientId \in {Client, NoUser} /\ p.craftsmanId \in {Craftsman, NoUser}
    BY DEF TimeoutPayload, OrderPayload, RunRow
  <1> HIDE DEF p
  <1>4. CASE run[r].kind = "order.created"
    BY <1>1, <1>2, <1>3, <1>4 DEF OrderCalls, Call, OrderConfig, FourCalls, Users
  <1>5. CASE run[r].kind = "order.accepted"
    BY <1>1, <1>2, <1>3, <1>5 DEF OrderCalls, Call, OrderConfig, FourCalls, Users
  <1>6. CASE run[r].kind \in {"order.rejected", "order.timed_out"}
    BY <1>1, <1>2, <1>3, <1>6 DEF OrderCalls, Call, OrderConfig, FourCalls, Users
  <1>7. CASE run[r].kind = "order.in_progress"
    BY <1>1, <1>2, <1>3, <1>7 DEF OrderCalls, Call, OrderConfig, FourCalls, Users
  <1>8. CASE run[r].kind = "order.completed"
    BY <1>1, <1>2, <1>3, <1>8 DEF OrderCalls, Call, OrderConfig, FourCalls, Users
  <1>9. CASE run[r].kind = "order.cancelled"
    BY <1>1, <1>2, <1>3, <1>9 DEF OrderCalls, Call, OrderConfig, FourCalls, Users
  <1> QED
    BY <1>4, <1>5, <1>6, <1>7, <1>8, <1>9 DEF OrderKinds

LEMMA FeedbackCallsBounded ==
    ASSUME NEW r \in Runs, run[r] \in RunRow, run[r].kind \in FeedbackKinds
    PROVE  FourCalls(r)
  <1>1. Calls(r) = IF run[r].kind = "review.created" THEN ReviewCalls
                   ELSE ComplaintCalls(run[r].kind)
    BY DEF Calls, CraftsmanKinds, OrderKinds, FeedbackKinds
  <1>2. \A i : Does(r, i) = FeedbackConfig[Calls(r)[i].f]
    BY DEF Does, CraftsmanKinds, OrderKinds, FeedbackKinds
  <1>3. CASE run[r].kind = "review.created"
    BY <1>1, <1>2, <1>3
       DEF ReviewCalls, ReviewPayload, Call, FeedbackConfig, FourCalls, Users
  <1>4. CASE run[r].kind # "review.created"
    <2> DEFINE against == ComplaintPayload(run[r].kind).againstUserId
    <2>1. against \in {Craftsman, NoUser}
      BY DEF ComplaintPayload
    <2>2. CASE run[r].kind = "complaint.filed"
      <3>1. Calls(r) = <<Call("enqueueComplaintFiledEmail", against), Call("notifyUser", against),
                         Call("notifyAdmin", NoUser)>>
        BY <1>1, <2>2 DEF ComplaintCalls
      <3> HIDE DEF against
      <3> QED
        BY <3>1, <1>2, <2>1 DEF Call, FeedbackConfig, FourCalls, Users
    <2>3. CASE run[r].kind = "complaint.resolved"
      <3>1. Calls(r) = <<Call("enqueueComplaintResolvedEmail", against), Call("notifyUser", against)>>
        BY <1>1, <2>3 DEF ComplaintCalls
      <3> HIDE DEF against
      <3> QED
        BY <3>1, <1>2, <2>1 DEF Call, FeedbackConfig, FourCalls, Users
    <2>4. CASE run[r].kind \notin {"complaint.filed", "complaint.resolved"}
      <3>1. Calls(r) = <<Call("notifyUser", against)>>
        BY <1>1, <1>4, <2>4 DEF ComplaintCalls
      <3> HIDE DEF against
      <3> QED
        BY <3>1, <1>2, <2>1 DEF Call, FeedbackConfig, FourCalls, Users
    <2> QED
      BY <2>2, <2>3, <2>4
  <1> QED
    BY <1>3, <1>4

\* Whatever event a run is about.
LEMMA CallsBounded ==
    ASSUME NEW r \in Runs, run[r] \in RunRow
    PROVE  FourCalls(r)
  <1>1. CASE run[r].kind \in AllKinds
    BY <1>1, CraftsmanCallsBounded, OrderCallsBounded, FeedbackCallsBounded DEF AllKinds
  <1>2. CASE run[r].kind = "none"
    <2>1. Calls(r) = <<>>
      BY <1>2 DEF Calls, CraftsmanKinds, OrderKinds, FeedbackKinds
    <2> QED
      BY <2>1 DEF FourCalls
  <1> QED
    BY <1>1, <1>2 DEF RunRow

\* And in the next state.
LEMMA CallsBoundedNext ==
    ASSUME NEW r \in Runs
    PROVE  (run[r] \in RunRow => FourCalls(r))'
  <1>1. run[r] \in RunRow => FourCalls(r)
    BY CallsBounded
  <1> QED
    BY <1>1, PTL

\* The calls depend on the event alone.
LEMMA CallsStay ==
    ASSUME NEW r \in Runs, run'[r] = run[r]
    PROVE  Calls(r)' = Calls(r) /\ \A i : Does(r, i)' = Does(r, i)
  <1>1. Calls(r)' = Calls(r)
    BY DEF Calls
  <1> QED
    BY <1>1 DEF Does

-----------------------------------------------------------------------------
(***************************************************************************)
(* A job is asked for                                                      *)
(***************************************************************************)

\* Add makes a job of the request or finds one with the same id, of another
\* source: this source has had none for the target.
LEMMA AddCases ==
    ASSUME JobTypes, OneJob, Requested,
           NEW kind \in {"welcome", "email", "webhook"}, NEW s \in Sources, NEW t \in Targets,
           ~Had(s, t), Add(kind, s, t)
    PROVE  \E q \in Requests :
              /\ q.src = s /\ q.to = t /\ q.kind = kind /\ q.at = now
              /\ \/ /\ merged' = merged \cup {q}
                    /\ jobs' = jobs /\ queued' = queued
                    /\ \E p \in queued : p.kind = kind /\ p.to = t /\ p.at = now /\ p.src # s
                 \/ /\ merged' = merged
                    /\ jobs' = jobs \cup {Job(kind, s, t)}
                    /\ queued' = queued \cup {q}
  <1> DEFINE q == [src |-> s, to |-> t, kind |-> kind, at |-> now]
  <1>1. q \in Requests /\ q.src = s /\ q.to = t /\ q.kind = kind /\ q.at = now
    BY DEF Requests, JobTypes
  <1>2. CASE \E k \in jobs : JobId(k) = JobId(Job(kind, s, t))
    <2>1. PICK k \in jobs : JobId(k) = JobId(Job(kind, s, t))
      BY <1>2
    <2>2. k.kind = kind /\ k.to = t /\ k.at = now
      BY <2>1 DEF JobId, Job
    <2>3. k.src # s
      BY <2>2 DEF Had
    <2>4. \E p \in queued : p.kind = kind /\ p.to = t /\ p.at = now /\ p.src # s
      BY <2>2, <2>3 DEF Requested
    <2>5. merged' = merged \cup {q} /\ jobs' = jobs /\ queued' = queued
      BY <1>2 DEF Add
    <2> QED
      BY <1>1, <2>4, <2>5
  <1>3. CASE ~ \E k \in jobs : JobId(k) = JobId(Job(kind, s, t))
    <2>1. merged' = merged /\ jobs' = jobs \cup {Job(kind, s, t)} /\ queued' = queued \cup {q}
      BY <1>3 DEF Add
    <2> QED
      BY <1>1, <2>1
  <1> QED
    BY <1>2, <1>3

\* The job is new, and has not acted.
LEMMA NewJob ==
    ASSUME JobTypes, NEW kind \in {"welcome", "email", "webhook"},
           NEW s \in Sources, NEW t \in Targets
    PROVE  LET j == Job(kind, s, t) IN
           /\ j \in Jobs
           /\ j.src = s /\ j.to = t /\ j.kind = kind /\ j.at = now
           /\ j.state = "waiting" /\ j.tries = 0 /\ j.stalls = 0
  BY DeliveryAssumption DEF Job, Jobs, JobTypes

\* What Add leaves as it was.
LEMMA AddKeepsJobs ==
    ASSUME JobTypes, OneJob, Bounded, Requested, DroppedForATwin,
           NEW kind \in {"welcome", "email", "webhook"}, NEW s \in Sources, NEW t \in Targets,
           ~Had(s, t), Add(kind, s, t), UNCHANGED <<now, crashes, acts, faulted>>
    PROVE  JobTypes' /\ OneJob' /\ Bounded' /\ Requested' /\ DroppedForATwin'
  <1> DEFINE j == Job(kind, s, t)
  <1>1. PICK q \in Requests :
              /\ q.src = s /\ q.to = t /\ q.kind = kind /\ q.at = now
              /\ \/ /\ merged' = merged \cup {q}
                    /\ jobs' = jobs /\ queued' = queued
                    /\ \E p \in queued : p.kind = kind /\ p.to = t /\ p.at = now /\ p.src # s
                 \/ /\ merged' = merged
                    /\ jobs' = jobs \cup {j}
                    /\ queued' = queued \cup {q}
    BY AddCases
  <1>2. /\ j \in Jobs
        /\ j.src = s /\ j.to = t /\ j.kind = kind /\ j.at = now
        /\ j.state = "waiting" /\ j.tries = 0 /\ j.stalls = 0
    BY NewJob
  <1> HIDE DEF j
  <1>3. JobTypes'
    BY <1>1, <1>2 DEF JobTypes
  <1>4. CASE merged' = merged \cup {q} /\ jobs' = jobs /\ queued' = queued
             /\ \E p \in queued : p.kind = kind /\ p.to = t /\ p.at = now /\ p.src # s
    <2>1. OneJob' /\ Bounded' /\ Requested'
      BY <1>4 DEF OneJob, Bounded, Requested
    <2>2. DroppedForATwin'
      BY <1>4, <1>1 DEF DroppedForATwin
    <2> QED
      BY <2>1, <2>2, <1>3
  <1>5. CASE merged' = merged /\ jobs' = jobs \cup {j} /\ queued' = queued \cup {q}
    <2>1. acts[<<s, t>>] = 0 /\ \A k \in jobs : ~(k.src = s /\ k.to = t)
      BY DEF Had, JobTypes
    <2>2. OneJob'
      BY <1>5, <1>2, <2>1 DEF OneJob
    <2>3. Bounded'
      <3> SUFFICES ASSUME NEW k \in jobs'
                   PROVE  /\ k.state \in {"waiting", "active"} => k.tries < Attempts /\ k.stalls <= 1
                          /\ k.tries + k.stalls <= Attempts + 1
                          /\ acts[<<k.src, k.to>>] <= k.tries + k.stalls
                          /\ acts[<<k.src, k.to>>] > 0 => <<k.src, k.to>> \in faulted
        BY DEF Bounded
      <3>1. CASE k \in jobs
        BY <3>1 DEF Bounded
      <3>2. CASE k = j
        BY <3>2, <1>2, <2>1, DeliveryAssumption
      <3> QED
        BY <3>1, <3>2, <1>5
    <2>4. Requested'
      BY <1>5, <1>2, <1>1 DEF Requested
    <2>5. DroppedForATwin'
      BY <1>5 DEF DroppedForATwin
    <2> QED
      BY <2>2, <2>3, <2>4, <2>5, <1>3
  <1> QED
    BY <1>1, <1>4, <1>5

\* What is on record after Add.
LEMMA AddRecords ==
    ASSUME JobTypes, OneJob, Requested,
           NEW kind \in {"welcome", "email", "webhook"}, NEW s \in Sources, NEW t \in Targets,
           ~Had(s, t), Add(kind, s, t), UNCHANGED acts
    PROVE  /\ queued \subseteq queued' /\ merged \subseteq merged'
           /\ \E q \in queued' \cup merged' : q.src = s /\ q.to = t
           /\ \A x, y : Had(x, y)' => Had(x, y) \/ (x = s /\ y = t)
  <1> DEFINE j == Job(kind, s, t)
  <1>1. PICK q \in Requests :
              /\ q.src = s /\ q.to = t /\ q.kind = kind /\ q.at = now
              /\ \/ merged' = merged \cup {q} /\ jobs' = jobs /\ queued' = queued
                 \/ merged' = merged /\ jobs' = jobs \cup {j} /\ queued' = queued \cup {q}
    BY AddCases
  <1>2. j.src = s /\ j.to = t
    BY NewJob
  <1> HIDE DEF j
  <1>3. queued \subseteq queued' /\ merged \subseteq merged'
    BY <1>1
  <1>4. \E p \in queued' \cup merged' : p.src = s /\ p.to = t
    BY <1>1
  <1>5. \A x, y : Had(x, y)' => Had(x, y) \/ (x = s /\ y = t)
    BY <1>1, <1>2 DEF Had
  <1> QED
    BY <1>3, <1>4, <1>5

-----------------------------------------------------------------------------
(***************************************************************************)
(* What a step leaves as it was                                            *)
(***************************************************************************)

\* A step that touches no job and no target.
LEMMA JobsKept ==
    ASSUME JobTypes, OneJob, Bounded, Requested, DroppedForATwin, RepeatsHaveACause,
           UNCHANGED <<jobs, now, crashes, queued, merged, actVars>>
    PROVE  /\ JobTypes' /\ OneJob' /\ Bounded' /\ Requested' /\ DroppedForATwin'
           /\ RepeatsHaveACause'
  <1>1. JobTypes'
    BY DEF JobTypes, actVars
  <1>2. OneJob' /\ Bounded' /\ Requested' /\ DroppedForATwin'
    BY DEF OneJob, Bounded, Requested, DroppedForATwin, actVars
  <1>3. RepeatsHaveACause'
    BY DEF RepeatsHaveACause, actVars
  <1> QED
    BY <1>1, <1>2, <1>3

LEMMA HadKept ==
    ASSUME UNCHANGED <<jobs, acts>>
    PROVE  \A x, y : Had(x, y)' = Had(x, y)
  BY DEF Had

\* A step after which nobody has had more than before.
LEMMA AskedKept ==
    ASSUME RunTypes, DispatchTypes, RunTypes', Asked,
           \A x \in Sources, y \in Targets : Had(x, y)' => Had(x, y),
           \A r \in Runs : step'[r] >= step[r],
           UNCHANGED dispatchVars
    PROVE  Asked'
  <1>1. \A r \in Runs, t \in Targets : Had(r, t)' => step'[r] >= 2
    <2> TAKE r \in Runs, t \in Targets
    <2>1. step[r] \in 0..5 /\ step'[r] \in 0..5 /\ step'[r] >= step[r]
      BY DEF RunTypes
    <2>2. Had(r, t) => step[r] >= 2
      BY DEF Asked
    <2> QED
      BY <2>1, <2>2 DEF Sources
  <1>2. \A d \in Dispatches, t \in Targets : Had(d, t)' => pc'[d] # "idle" /\ t \notin todo'[d]
    BY DEF Asked, dispatchVars, Sources
  <1> QED
    BY <1>1, <1>2 DEF Asked

\* What a run has told stays told.
LEMMA ToldKept ==
    ASSUME NEW r \in Runs, run'[r] = run[r],
           rows \subseteq rows', skipped \subseteq skipped',
           queued \subseteq queued', merged \subseteq merged'
    PROVE  \A i : Told(r, i) => Told(r, i)'
  <1>1. Calls(r)' = Calls(r) /\ \A i : Does(r, i)' = Does(r, i)
    BY CallsStay
  <1>2. \A i : Calls(r)'[i] = Calls(r)[i]
    BY <1>1
  <1> TAKE i
  <1>3. Does(r, i)' = Does(r, i) /\ Calls(r)'[i] = Calls(r)[i]
    BY <1>1, <1>2
  <1> HAVE Told(r, i)
  <1>4. CASE Does(r, i) = "row"
    BY <1>3, <1>4 DEF Told
  <1>5. CASE Does(r, i) \in {"email", "welcome"}
    BY <1>3, <1>5 DEF Told
  <1>6. CASE Does(r, i) = "bidders"
    BY <1>3, <1>6 DEF Told
  <1>7. CASE Does(r, i) \notin {"row", "email", "welcome", "bidders"}
    BY <1>3, <1>7 DEF Told
  <1> QED
    BY <1>4, <1>5, <1>6, <1>7

\* A run that does not move, or that fails or is lost where it is.
LEMMA TellsKept ==
    ASSUME NEW r \in Runs, Tells(r), run'[r] = run[r], step'[r] = step[r],
           result'[r] = result[r] \/ (step[r] # 0 /\ result'[r] # "ok"),
           rows \subseteq rows', skipped \subseteq skipped',
           queued \subseteq queued', merged \subseteq merged'
    PROVE  Tells(r)'
  <1>1. Calls(r)' = Calls(r) /\ \A i : Told(r, i) => Told(r, i)'
    BY CallsStay, ToldKept
  <1> QED
    BY <1>1 DEF Tells

\* A run that has made a call.
LEMMA TellsOneMore ==
    ASSUME RunTypes, NEW r \in Runs, Tells(r), Running(r), Advance(r),
           NEW n \in Nat, n = step[r], Told(r, n)',
           rows \subseteq rows', skipped \subseteq skipped',
           queued \subseteq queued', merged \subseteq merged'
    PROVE  Tells(r)'
  <1>1. run'[r] = run[r] /\ result'[r] = "none" /\ step'[r] = step[r] + 1
    BY DEF Advance, RunTypes, Running
  <1>2. Calls(r)' = Calls(r) /\ \A i : Told(r, i) => Told(r, i)'
    BY <1>1, CallsStay, ToldKept
  <1>3. Len(Calls(r)) \in 0..4 /\ step[r] \in 1..Len(Calls(r))
    BY CallsBounded DEF RunTypes, RunRow, FourCalls, Running
  <1>4. \A i \in 1..Len(Calls(r)) : i < step[r] + 1 => Told(r, i)'
    <2> SUFFICES ASSUME NEW i \in 1..Len(Calls(r)), i < step[r] + 1
                 PROVE  Told(r, i)'
      OBVIOUS
    <2>1. CASE i < step[r]
      BY <2>1, <1>2 DEF Tells
    <2>2. CASE i = step[r]
      <3>1. i = n
        BY <2>2
      <3> QED
        BY <3>1
    <2> QED
      BY <2>1, <2>2, <1>3
  <1> QED
    BY <1>1, <1>2, <1>3, <1>4 DEF Tells

-----------------------------------------------------------------------------
(***************************************************************************)
(* The steps of a run                                                      *)
(***************************************************************************)

\* A run that makes a call moves one call on, and stays within its five steps.
LEMMA AdvanceTypes ==
    ASSUME RunTypes, NEW r \in Runs, Running(r), Advance(r),
           rows' \subseteq Runs \X (1..4), skipped' \subseteq Runs
    PROVE  /\ RunTypes'
           /\ \A s \in Runs \ {r} : /\ run'[s] = run[s] /\ step'[s] = step[s]
                                  /\ result'[s] = result[s]
           /\ \A s \in Runs : step'[s] >= step[s]
           /\ step'[r] = step[r] + 1
  <1>1. Len(Calls(r)) \in 0..4 /\ step[r] \in 1..Len(Calls(r))
    BY CallsBounded DEF RunTypes, RunRow, FourCalls, Running
  <1>2. step[r] \in 1..4 /\ step[r] + 1 \in 0..5
    <2> DEFINE n == Len(Calls(r))
    <2>1. n \in 0..4 /\ step[r] \in 1..n
      BY <1>1
    <2> HIDE DEF n
    <2> QED
      BY ONLY <2>1
  <1>3. step' = [step EXCEPT ![r] = step[r] + 1] /\ run' = run /\ result' = result
    BY DEF Advance
  <1>4. RunTypes'
    BY <1>2, <1>3 DEF RunTypes
  <1>5. \A s \in Runs : step'[s] = IF s = r THEN step[s] + 1 ELSE step[s]
    BY <1>3 DEF RunTypes
  <1>6. \A s \in Runs : step[s] \in Nat
    BY DEF RunTypes
  <1> QED
    BY <1>3, <1>4, <1>5, <1>6

\* The others are where they were.
LEMMA TellingAfterCall ==
    ASSUME RunTypes, Telling, NEW r \in Runs, Running(r), Advance(r),
           NEW n \in Nat, n = step[r], Told(r, n)',
           rows' \subseteq Runs \X (1..4), skipped' \subseteq Runs,
           rows \subseteq rows', skipped \subseteq skipped',
           queued \subseteq queued', merged \subseteq merged'
    PROVE  Telling'
  <1>1. \A s \in Runs \ {r} : run'[s] = run[s] /\ step'[s] = step[s] /\ result'[s] = result[s]
    BY AdvanceTypes
  <1>2. Tells(r)'
    BY TellsOneMore DEF Telling
  <1>3. \A s \in Runs \ {r} : Tells(s)'
    BY <1>1, TellsKept DEF Telling
  <1> QED
    BY <1>2, <1>3 DEF Telling

\* What call n of a run does, and for whom, once the run has moved on.
LEMMA CallAfter ==
    ASSUME NEW r \in Runs, NEW n \in Nat, n = step[r], Advance(r)
    PROVE  Does(r, n)' = Does(r, step[r]) /\ Calls(r)'[n].to = To(r)
  <1>1. Calls(r)' = Calls(r) /\ \A i : Does(r, i)' = Does(r, i)
    BY CallsStay DEF Advance
  <1> QED
    BY <1>1 DEF To

LEMMA EnqueueEmailKeeps ==
    ASSUME IInv, NEW r \in Runs, EnqueueEmail(r)
    PROVE  IInv'
  <1> DEFINE kind == Does(r, step[r])
  <1>1. /\ Running(r) /\ kind \in {"welcome", "email", "webhook"} /\ r \in Sources
        /\ To(r) \in Targets /\ Advance(r) /\ Add(kind, r, To(r))
        /\ UNCHANGED <<rows, dispatchVars, now, crashes, skipped, acts, faulted>>
    BY DEF EnqueueEmail, Sources, Targets, actVars
  <1>2. step[r] = 1
    BY CallsBounded DEF IInv, RunTypes, RunRow, FourCalls, Running, EnqueueEmail
  <1>3. ~Had(r, To(r))
    BY <1>1, <1>2 DEF IInv, Asked
  <1>4. JobTypes' /\ OneJob' /\ Bounded' /\ Requested' /\ DroppedForATwin'
    BY <1>1, <1>3, AddKeepsJobs DEF IInv
  <1>5. /\ queued \subseteq queued' /\ merged \subseteq merged'
        /\ \E q \in queued' \cup merged' : q.src = r /\ q.to = To(r)
        /\ \A x, y : Had(x, y)' => Had(x, y) \/ (x = r /\ y = To(r))
    BY <1>1, <1>3, AddRecords DEF IInv
  <1>6. RepeatsHaveACause'
    BY <1>1 DEF IInv, RepeatsHaveACause
  <1>7. /\ RunTypes' /\ step'[r] = step[r] + 1
        /\ \A s \in Runs : step'[s] >= step[s]
    BY <1>1, AdvanceTypes DEF IInv, RunTypes
  <1>8. Asked'
    <2>1. \A s \in Runs, t \in Targets : Had(s, t)' => step'[s] >= 2
      <3> SUFFICES ASSUME NEW s \in Runs, NEW t \in Targets, Had(s, t)'
                   PROVE  step'[s] >= 2
        OBVIOUS
      <3>1. CASE s = r
        BY <3>1, <1>2, <1>7
      <3>2. CASE s # r
        <4>1. step[s] >= 2
          BY <3>2, <1>5 DEF IInv, Asked
        <4>2. step[s] \in Nat /\ step'[s] \in Nat
          BY <1>7 DEF IInv, RunTypes
        <4> QED
          BY <4>1, <4>2, <1>7
      <3> QED
        BY <3>1, <3>2
    <2>2. \A d \in Dispatches, t \in Targets : Had(d, t)' => pc'[d] # "idle" /\ t \notin todo'[d]
      <3>1. \A d \in Dispatches : d # r
        BY DeliveryAssumption
      <3> QED
        BY <3>1, <1>1, <1>5 DEF IInv, Asked, dispatchVars
    <2> QED
      BY <2>1, <2>2 DEF Asked
  <1>9. Telling'
    <2>1. PICK n \in Nat : n = step[r]
      BY <1>2
    <2>2. Does(r, n)' \in {"email", "welcome"} /\ Calls(r)'[n].to = To(r)
      BY <1>1, <2>1, CallAfter DEF EnqueueEmail
    <2>3. Told(r, n)'
      BY <2>2, <1>5 DEF Told
    <2> QED
      BY <1>1, <1>5, <2>1, <2>3, TellingAfterCall DEF IInv, RunTypes
  <1>10. DispatchTypes'
    BY <1>1 DEF IInv, DispatchTypes, dispatchVars
  <1> QED
    BY <1>4, <1>6, <1>7, <1>8, <1>9, <1>10 DEF IInv

\* A call that asks for no job.
LEMMA CallKeeps ==
    ASSUME IInv, NEW r \in Runs, Running(r), Advance(r),
           NEW n \in Nat, n = step[r], Told(r, n)',
           rows' \subseteq Runs \X (1..4), skipped' \subseteq Runs,
           rows \subseteq rows', skipped \subseteq skipped',
           UNCHANGED <<jobs, dispatchVars, now, crashes, queued, merged, actVars>>
    PROVE  IInv'
  <1>1. RunTypes' /\ \A s \in Runs : step'[s] >= step[s]
    BY AdvanceTypes DEF IInv
  <1>2. /\ JobTypes' /\ OneJob' /\ Bounded' /\ Requested' /\ DroppedForATwin'
        /\ RepeatsHaveACause'
    BY JobsKept DEF IInv
  <1>3. Asked'
    BY <1>1, HadKept, AskedKept DEF IInv, actVars
  <1>4. Telling'
    BY TellingAfterCall DEF IInv
  <1>5. DispatchTypes'
    BY DEF IInv, DispatchTypes, dispatchVars
  <1> QED
    BY <1>1, <1>2, <1>3, <1>4, <1>5 DEF IInv

LEMMA SkipEmailKeeps ==
    ASSUME IInv, NEW r \in Runs, SkipEmail(r)
    PROVE  IInv'
  <1>1. /\ Running(r) /\ Advance(r) /\ skipped' = skipped \cup {r} /\ rows' = rows
        /\ UNCHANGED <<jobs, dispatchVars, now, crashes, queued, merged, actVars>>
        /\ step[r] \in Nat
    BY DEF SkipEmail, IInv, RunTypes
  <1>2. PICK n \in Nat : n = step[r]
    BY <1>1
  <1>3. Does(r, n)' \in {"email", "welcome"}
    BY <1>1, <1>2, CallAfter DEF SkipEmail
  <1>4. Told(r, n)'
    BY <1>1, <1>3 DEF Told
  <1>5. skipped' \subseteq Runs /\ rows' \subseteq Runs \X (1..4)
    BY <1>1 DEF IInv, RunTypes
  <1> QED
    BY <1>1, <1>2, <1>4, <1>5, CallKeeps

LEMMA NotifyOtherBiddersKeeps ==
    ASSUME IInv, NEW r \in Runs, NotifyOtherBidders(r)
    PROVE  IInv'
  <1>1. /\ Running(r) /\ Advance(r) /\ skipped' = skipped /\ rows' = rows
        /\ UNCHANGED <<jobs, dispatchVars, now, crashes, queued, merged, actVars>>
        /\ step[r] \in Nat
    BY DEF NotifyOtherBidders, IInv, RunTypes
  <1>2. PICK n \in Nat : n = step[r]
    BY <1>1
  <1>3. Does(r, n)' = "bidders"
    BY <1>1, <1>2, CallAfter DEF NotifyOtherBidders
  <1>4. Told(r, n)'
    BY <1>3 DEF Told
  <1>5. skipped' \subseteq Runs /\ rows' \subseteq Runs \X (1..4)
    BY <1>1 DEF IInv, RunTypes
  <1> QED
    BY <1>1, <1>2, <1>4, <1>5, CallKeeps

\* A run that ends: it has thrown, or has made all its calls.
LEMMA EndKeeps ==
    ASSUME IInv, NEW r \in Runs,
           NEW e \in {"ok", "failed"}, result' = [result EXCEPT ![r] = e],
           step[r] # 0, e = "ok" => step[r] = Len(Calls(r)) + 1,
           UNCHANGED <<run, step, rows, jobs, dispatchVars, now, crashes, queued, merged,
                       skipped, actVars>>
    PROVE  IInv'
  <1>1. RunTypes'
    BY DEF IInv, RunTypes
  <1>2. /\ JobTypes' /\ OneJob' /\ Bounded' /\ Requested' /\ DroppedForATwin'
        /\ RepeatsHaveACause'
    BY JobsKept DEF IInv
  <1>3. \A s \in Runs : step'[s] >= step[s]
    BY DEF IInv, RunTypes
  <1>4. Asked'
    BY <1>1, <1>3, HadKept, AskedKept DEF IInv, actVars
  <1>5. Telling'
    <2>1. Tells(r)'
      <3>1. CASE e = "ok"
        <4>1. Calls(r)' = Calls(r) /\ \A i : Told(r, i) => Told(r, i)'
          BY CallsStay, ToldKept
        <4> QED
          BY <3>1, <4>1 DEF IInv, Telling, Tells
      <3>2. CASE e = "failed"
        <4>1. result'[r] = "failed"
          BY <3>2 DEF IInv, RunTypes
        <4> QED
          BY <4>1, TellsKept DEF IInv, Telling
      <3> QED
        BY <3>1, <3>2
    <2>2. \A s \in Runs \ {r} : Tells(s)'
      <3>1. \A s \in Runs \ {r} : result'[s] = result[s]
        BY DEF IInv, RunTypes
      <3> QED
        BY <3>1, TellsKept DEF IInv, Telling
    <2> QED
      BY <2>1, <2>2 DEF Telling
  <1>6. DispatchTypes'
    BY DEF IInv, DispatchTypes, dispatchVars
  <1> QED
    BY <1>1, <1>2, <1>4, <1>5, <1>6 DEF IInv

LEMMA NotifyKeeps ==
    ASSUME IInv, NEW r \in Runs, Notify(r)
    PROVE  IInv'
  <1>1. /\ Running(r) /\ Does(r, step[r]) = "row" /\ skipped' = skipped
        /\ UNCHANGED <<jobs, dispatchVars, now, crashes, queued, merged, actVars>>
    BY DEF Notify
  <1>2. CASE To(r) \in Users
    <2>1. rows' = rows \cup {<<r, step[r]>>} /\ Advance(r)
      BY <1>2 DEF Notify
    <2>2. step[r] \in 1..4
      <3> DEFINE l == Len(Calls(r))
      <3>1. l \in 0..4 /\ step[r] \in 1..l
        BY <1>1, CallsBounded DEF IInv, RunTypes, RunRow, FourCalls, Running
      <3> HIDE DEF l
      <3> QED
        BY ONLY <3>1
    <2>3. PICK n \in 1..4 : n = step[r]
      BY <2>2
    <2>4. Does(r, n)' = "row" /\ Calls(r)'[n].to \in Users
      BY <1>1, <1>2, <2>1, <2>3, CallAfter
    <2>5. Told(r, n)'
      BY <2>1, <2>3, <2>4 DEF Told
    <2>6. skipped' \subseteq Runs /\ rows' \subseteq Runs \X (1..4)
      BY <1>1, <2>1, <2>2 DEF IInv, RunTypes
    <2> QED
      BY <1>1, <2>1, <2>3, <2>5, <2>6, CallKeeps
  <1>3. CASE To(r) \notin Users
    BY <1>1, <1>3, EndKeeps DEF Notify, Throw, Running
  <1> QED
    BY <1>2, <1>3

LEMMA NotifyAdminKeeps ==
    ASSUME IInv, NEW r \in Runs, NotifyAdmin(r)
    PROVE  IInv'
  <1>1. /\ result' = [result EXCEPT ![r] = "failed"] /\ step[r] # 0
        /\ UNCHANGED <<run, step, rows, jobs, dispatchVars, now, crashes, queued, merged,
                       skipped, actVars>>
    BY DEF NotifyAdmin, Throw, Running, IInv, RunTypes
  <1> QED
    BY <1>1, EndKeeps

LEMMA CallFailsKeeps ==
    ASSUME IInv, NEW r \in Runs, CallFails(r)
    PROVE  IInv'
  <1>1. /\ result' = [result EXCEPT ![r] = "failed"] /\ step[r] # 0
        /\ UNCHANGED <<run, step, rows, jobs, dispatchVars, now, crashes, queued, merged,
                       skipped, actVars>>
    BY DEF CallFails, Throw, Running, IInv, RunTypes
  <1> QED
    BY <1>1, EndKeeps

LEMMA FinishKeeps ==
    ASSUME IInv, NEW r \in Runs, Finish(r)
    PROVE  IInv'
  <1>1. step[r] # 0 /\ step[r] = Len(Calls(r)) + 1
    BY DEF Finish, IInv, RunTypes
  <1> QED
    BY <1>1, EndKeeps DEF Finish

\* A run begins with nothing told and all to tell.
LEMMA ReceiveKeeps ==
    ASSUME IInv, NEW r \in Runs, Receive(r)
    PROVE  IInv'
  <1>1. PICK k \in Kinds, c \in {Craftsman, NoUser} :
            run' = [run EXCEPT ![r] = [kind |-> k, craftsman |-> c]]
    BY DEF Receive
  <1>2. /\ step[r] = 0 /\ result[r] = "none" /\ step' = [step EXCEPT ![r] = 1]
        /\ UNCHANGED <<result, rows, jobs, dispatchVars, now, crashes, queued, merged, skipped,
                       actVars>>
    BY DEF Receive
  <1>3. RunTypes'
    <2>1. [kind |-> k, craftsman |-> c] \in RunRow
      BY DeliveryAssumption DEF RunRow
    <2> QED
      BY <1>1, <1>2, <2>1 DEF IInv, RunTypes, RunRow
  <1>4. /\ JobTypes' /\ OneJob' /\ Bounded' /\ Requested' /\ DroppedForATwin'
        /\ RepeatsHaveACause'
    BY <1>2, JobsKept DEF IInv
  <1>5. \A s \in Runs : step'[s] >= step[s]
    BY <1>2 DEF IInv, RunTypes
  <1>6. Asked'
    BY <1>2, <1>3, <1>5, HadKept, AskedKept DEF IInv, actVars
  <1>7. Telling'
    <2>1. Tells(r)'
      <3>1. run'[r] \in RunRow /\ step'[r] = 1 /\ result'[r] = "none"
        BY <1>2, <1>3 DEF IInv, RunTypes, RunRow
      <3>2. FourCalls(r)'
        BY <3>1, CallsBoundedNext
      <3> QED
        BY <3>1, <3>2 DEF Tells, FourCalls
    <2>2. \A s \in Runs \ {r} : Tells(s)'
      <3>1. \A s \in Runs \ {r} : run'[s] = run[s] /\ step'[s] = step[s]
        BY <1>1, <1>2 DEF IInv, RunTypes
      <3> QED
        BY <1>2, <3>1, TellsKept DEF IInv, Telling
    <2> QED
      BY <2>1, <2>2 DEF Telling
  <1>8. DispatchTypes'
    BY <1>2 DEF IInv, DispatchTypes, dispatchVars
  <1> QED
    BY <1>3, <1>4, <1>6, <1>7, <1>8 DEF IInv

LEMMA RunKeeps ==
    ASSUME IInv, NEW r \in Runs, RunStep(r)
    PROVE  IInv'
  BY EnqueueEmailKeeps, SkipEmailKeeps, NotifyKeeps, NotifyAdminKeeps,
     NotifyOtherBiddersKeeps, CallFailsKeeps, FinishKeeps DEF RunStep

-----------------------------------------------------------------------------
(***************************************************************************)
(* The steps of the webhooks                                               *)
(***************************************************************************)

\* A step that moves no run and touches no job.
LEMMA DispatchesMove ==
    ASSUME IInv, DispatchTypes',
           \A d \in Dispatches, t \in Targets :
                Had(d, t) => pc'[d] # "idle" /\ t \notin todo'[d],
           UNCHANGED <<handlerVars, jobs, now, crashes, queued, merged, skipped, actVars>>
    PROVE  IInv'
  <1>1. RunTypes'
    BY DEF IInv, RunTypes, handlerVars
  <1>2. /\ JobTypes' /\ OneJob' /\ Bounded' /\ Requested' /\ DroppedForATwin'
        /\ RepeatsHaveACause'
    BY JobsKept DEF IInv
  <1>3. Asked'
    BY HadKept DEF IInv, Asked, handlerVars, actVars
  <1>4. Telling'
    BY TellsKept DEF IInv, Telling, handlerVars
  <1> QED
    BY <1>1, <1>2, <1>3, <1>4 DEF IInv

LEMMA HookKeeps ==
    ASSUME IInv, NEW h \in Hooks, CreateHook(h) \/ SetHook(h) \/ DeleteHook(h)
    PROVE  IInv'
  <1>1. /\ pc' = pc /\ todo' = todo
        /\ UNCHANGED <<handlerVars, jobs, now, crashes, queued, merged, skipped, actVars>>
    BY DEF CreateHook, SetHook, DeleteHook
  <1>2. DispatchTypes'
    BY <1>1 DEF IInv, DispatchTypes, CreateHook, SetHook, DeleteHook
  <1> QED
    BY <1>1, <1>2, DispatchesMove DEF IInv, Asked

LEMMA ReadHooksKeeps ==
    ASSUME IInv, NEW d \in Dispatches, ReadHooks(d)
    PROVE  IInv'
  <1>1. DispatchTypes'
    BY DEF IInv, DispatchTypes, ReadHooks
  <1>2. \A c \in Dispatches, t \in Targets :
            Had(c, t) => pc'[c] # "idle" /\ t \notin todo'[c]
    BY DEF IInv, DispatchTypes, Asked, ReadHooks
  <1> QED
    BY <1>1, <1>2, DispatchesMove DEF ReadHooks

LEMMA DispatchEndsKeeps ==
    ASSUME IInv, NEW d \in Dispatches, EndDispatch(d) \/ DispatchFails(d)
    PROVE  IInv'
  <1>1. DispatchTypes'
    BY DEF IInv, DispatchTypes, EndDispatch, DispatchFails
  <1>2. \A c \in Dispatches, t \in Targets :
            Had(c, t) => pc'[c] # "idle" /\ t \notin todo'[c]
    BY DEF IInv, DispatchTypes, Asked, EndDispatch, DispatchFails
  <1> QED
    BY <1>1, <1>2, DispatchesMove DEF EndDispatch, DispatchFails

LEMMA AddHookJobKeeps ==
    ASSUME IInv, NEW d \in Dispatches, AddHookJob(d)
    PROVE  IInv'
  <1>1. PICK h \in todo[d] : Add("webhook", d, h) /\ todo' = [todo EXCEPT ![d] = @ \ {h}]
    BY DEF AddHookJob
  <1>2. /\ pc[d] = "adding" /\ pc' = pc /\ hook' = hook
        /\ UNCHANGED <<handlerVars, now, crashes, skipped, acts, faulted>>
    BY DEF AddHookJob, actVars
  <1>3. h \in Targets /\ d \in Sources
    BY DEF IInv, DispatchTypes, Targets, Sources
  <1>4. ~Had(d, h)
    BY <1>3 DEF IInv, Asked
  <1>5. JobTypes' /\ OneJob' /\ Bounded' /\ Requested' /\ DroppedForATwin'
    BY <1>1, <1>2, <1>3, <1>4, AddKeepsJobs DEF IInv
  <1>6. /\ queued \subseteq queued' /\ merged \subseteq merged'
        /\ \A x, y : Had(x, y)' => Had(x, y) \/ (x = d /\ y = h)
    BY <1>1, <1>2, <1>3, <1>4, AddRecords DEF IInv
  <1>7. RunTypes'
    BY <1>2 DEF IInv, RunTypes, handlerVars
  <1>8. DispatchTypes'
    BY <1>1, <1>2 DEF IInv, DispatchTypes
  <1>9. RepeatsHaveACause'
    BY <1>2 DEF IInv, RepeatsHaveACause
  <1>10. Asked'
    <2>1. \A r \in Runs, t \in Targets : Had(r, t)' => step'[r] >= 2
      <3>1. \A r \in Runs : r # d
        BY DeliveryAssumption
      <3> QED
        BY <3>1, <1>2, <1>6 DEF IInv, Asked, handlerVars
    <2>2. \A c \in Dispatches, t \in Targets : Had(c, t)' => pc'[c] # "idle" /\ t \notin todo'[c]
      <3> SUFFICES ASSUME NEW c \in Dispatches, NEW t \in Targets, Had(c, t)'
                   PROVE  pc'[c] # "idle" /\ t \notin todo'[c]
        OBVIOUS
      <3>1. todo'[c] = IF c = d THEN todo[d] \ {h} ELSE todo[c]
        BY <1>1 DEF IInv, DispatchTypes
      <3>2. CASE c = d /\ t = h
        BY <3>1, <3>2, <1>2
      <3>3. CASE Had(c, t)
        BY <3>1, <3>3, <1>2 DEF IInv, Asked
      <3> QED
        BY <3>2, <3>3, <1>6
    <2> QED
      BY <2>1, <2>2 DEF Asked
  <1>11. Telling'
    BY <1>2, <1>6, TellsKept DEF IInv, Telling, handlerVars
  <1> QED
    BY <1>5, <1>7, <1>8, <1>9, <1>10, <1>11 DEF IInv

LEMMA TickKeeps ==
    ASSUME IInv, Tick
    PROVE  IInv'
  <1>1. now' = now + 1 /\ now < MaxNow
        /\ UNCHANGED <<handlerVars, jobs, dispatchVars, crashes, queued, merged, skipped, acts, faulted>>
    BY DEF Tick, actVars
  <1>2. JobTypes'
    BY <1>1, DeliveryAssumption DEF IInv, JobTypes
  <1>3. OneJob' /\ Bounded' /\ Requested' /\ DroppedForATwin' /\ RepeatsHaveACause'
    BY <1>1 DEF IInv, OneJob, Bounded, Requested, DroppedForATwin, RepeatsHaveACause
  <1>4. RunTypes' /\ DispatchTypes'
    BY <1>1 DEF IInv, RunTypes, DispatchTypes, handlerVars, dispatchVars
  <1>5. Asked'
    BY <1>1, HadKept DEF IInv, Asked, handlerVars, dispatchVars
  <1>6. Telling'
    BY <1>1, TellsKept DEF IInv, Telling, handlerVars
  <1> QED
    BY <1>2, <1>3, <1>4, <1>5, <1>6 DEF IInv

-----------------------------------------------------------------------------
(***************************************************************************)
(* The steps of the queues' workers                                        *)
(***************************************************************************)

\* Runs and dispatches stay, and nobody has had more than before.
LEMMA JobsMove ==
    ASSUME IInv, JobTypes', OneJob', Bounded', Requested', RepeatsHaveACause',
           \A x \in Sources, y \in Targets : Had(x, y)' => Had(x, y),
           UNCHANGED <<handlerVars, dispatchVars, queued, merged, skipped>>
    PROVE  IInv'
  <1>1. RunTypes' /\ DispatchTypes'
    BY DEF IInv, RunTypes, DispatchTypes, handlerVars, dispatchVars
  <1>2. \A r \in Runs : step'[r] >= step[r]
    BY DEF IInv, RunTypes, handlerVars
  <1>3. Asked'
    BY <1>1, <1>2, AskedKept DEF IInv
  <1>4. Telling'
    BY TellsKept DEF IInv, Telling, handlerVars
  <1>5. DroppedForATwin'
    BY DEF IInv, DroppedForATwin
  <1> QED
    BY <1>1, <1>3, <1>4, <1>5 DEF IInv

\* A job takes the place of one that is about the same request.
LEMMA JobReplaced ==
    ASSUME JobTypes, OneJob, Requested, NEW j \in jobs, NEW k \in Jobs,
           k.src = j.src, k.to = j.to, k.kind = j.kind, k.at = j.at,
           jobs' = (jobs \ {j}) \cup {k}, queued' = queued
    PROVE  /\ jobs' \subseteq Jobs /\ OneJob' /\ Requested'
           /\ \A i \in jobs' : i = k \/ (i \in jobs /\ <<i.src, i.to>> # <<j.src, j.to>>)
           /\ \A x, y : (\E i \in jobs' : i.src = x /\ i.to = y)
                            => \E i \in jobs : i.src = x /\ i.to = y
  <1>1. jobs' \subseteq Jobs
    BY DEF JobTypes
  <1>2. OneJob'
    BY DEF OneJob
  <1>3. Requested'
    BY DEF Requested
  <1>4. \A i \in jobs' : i = k \/ (i \in jobs /\ <<i.src, i.to>> # <<j.src, j.to>>)
    BY DEF OneJob
  <1>5. \A x, y : (\E i \in jobs' : i.src = x /\ i.to = y)
                            => \E i \in jobs : i.src = x /\ i.to = y
    OBVIOUS
  <1> QED
    BY <1>1, <1>2, <1>3, <1>4, <1>5

LEMMA TakeKeeps ==
    ASSUME IInv, NEW j \in jobs, Take(j)
    PROVE  IInv'
  <1> DEFINE k == [j EXCEPT !.state = "active"]
  <1>1. /\ jobs' = (jobs \ {j}) \cup {k} /\ j.state = "waiting" /\ j \in Jobs
        /\ UNCHANGED <<handlerVars, dispatchVars, now, crashes, queued, merged, skipped,
                       acts, faulted>>
    BY DEF Take, IInv, JobTypes, actVars
  <1>2. /\ k \in Jobs /\ k.src = j.src /\ k.to = j.to /\ k.kind = j.kind /\ k.at = j.at
        /\ k.tries = j.tries /\ k.stalls = j.stalls /\ k.state = "active"
    BY <1>1 DEF Jobs
  <1> HIDE DEF k
  <1>3. /\ jobs' \subseteq Jobs /\ OneJob' /\ Requested'
        /\ \A i \in jobs' : i = k \/ (i \in jobs /\ <<i.src, i.to>> # <<j.src, j.to>>)
        /\ \A x, y : (\E i \in jobs' : i.src = x /\ i.to = y)
                         => \E i \in jobs : i.src = x /\ i.to = y
    BY <1>1, <1>2, JobReplaced DEF IInv
  <1>4. JobTypes'
    BY <1>1, <1>3 DEF IInv, JobTypes
  <1>5. Bounded'
    BY <1>1, <1>2, <1>3 DEF IInv, Bounded
  <1>6. RepeatsHaveACause'
    BY <1>1 DEF IInv, RepeatsHaveACause
  <1>7. \A x \in Sources, y \in Targets : Had(x, y)' => Had(x, y)
    BY <1>1, <1>3 DEF Had
  <1> QED
    BY <1>1, <1>3, <1>4, <1>5, <1>6, <1>7, JobsMove

\* What is known of a job that a worker holds.
LEMMA ActiveJob ==
    ASSUME IInv, NEW j \in jobs, j.state = "active"
    PROVE  /\ j \in Jobs /\ j.src \in Sources /\ j.to \in Targets
           /\ <<j.src, j.to>> \in Sources \X Targets
           /\ j.tries \in Nat /\ j.tries < Attempts /\ j.stalls \in {0, 1}
           /\ acts[<<j.src, j.to>>] \in Nat
           /\ acts[<<j.src, j.to>>] <= j.tries + j.stalls
           /\ acts[<<j.src, j.to>>] > 0 => <<j.src, j.to>> \in faulted
  <1>1. j \in Jobs /\ j.src \in Sources /\ j.to \in Targets
    BY DEF IInv, JobTypes, Jobs
  <1>2. j.tries \in Nat /\ j.stalls \in 0..2
    BY <1>1 DEF Jobs
  <1>3. acts[<<j.src, j.to>>] \in Nat
    BY <1>1 DEF IInv, JobTypes
  <1>4. /\ j.tries < Attempts /\ j.stalls <= 1
        /\ acts[<<j.src, j.to>>] <= j.tries + j.stalls
        /\ acts[<<j.src, j.to>>] > 0 => <<j.src, j.to>> \in faulted
    BY DEF IInv, Bounded
  <1> QED
    BY <1>1, <1>2, <1>3, <1>4

\* The job that is to be tried again, or has failed.
LEMMA RetriedJob ==
    ASSUME IInv, NEW j \in jobs, j.state = "active"
    PROVE  LET k == [j EXCEPT !.tries = @ + 1,
                              !.state = IF j.tries + 1 < Attempts THEN "waiting" ELSE "failed"]
           IN  /\ k \in Jobs /\ k.src = j.src /\ k.to = j.to /\ k.kind = j.kind /\ k.at = j.at
               /\ k.tries = j.tries + 1 /\ k.stalls = j.stalls
               /\ k.state \in {"waiting", "active"} => k.tries < Attempts
  <1>1. j \in Jobs /\ j.tries \in Nat /\ j.tries + 1 \in 0..Attempts
    <2>1. j \in Jobs /\ j.tries \in Nat /\ j.tries < Attempts
      BY ActiveJob
    <2> QED
      BY <2>1, DeliveryAssumption
  <1> DEFINE s == IF j.tries + 1 < Attempts THEN "waiting" ELSE "failed"
             n == j.tries + 1
  <1>2. /\ s \in {"waiting", "active", "failed"} /\ n \in 0..Attempts /\ n = j.tries + 1
        /\ s \in {"waiting", "active"} => n < Attempts
    BY <1>1
  <1> DEFINE k == [j EXCEPT !.tries = n, !.state = s]
  <1>3. k = [j EXCEPT !.tries = @ + 1,
                      !.state = IF j.tries + 1 < Attempts THEN "waiting" ELSE "failed"]
    OBVIOUS
  <1>4. /\ k.src = j.src /\ k.to = j.to /\ k.kind = j.kind /\ k.at = j.at
        /\ k.tries = n /\ k.stalls = j.stalls /\ k.state = s
    BY <1>1 DEF Jobs
  <1> HIDE DEF n, s
  <1>5. k \in Jobs
    BY <1>1, <1>2 DEF Jobs
  <1> QED
    BY <1>2, <1>3, <1>4, <1>5

\* The target of job j acts, or not.
ActsOnce(j) ==
    /\ acts' \in [Sources \X Targets -> Nat]
    /\ \A x \in Sources \X Targets :
          acts'[x] = IF x = <<j.src, j.to>> THEN acts[x] + 1 ELSE acts[x]

LEMMA ActEffect ==
    ASSUME IInv, NEW j \in jobs, j.state = "active", Act(j)
    PROVE  ActsOnce(j)
  <1>1. <<j.src, j.to>> \in Sources \X Targets /\ acts[<<j.src, j.to>>] \in Nat
    BY ActiveJob
  <1> QED
    BY <1>1 DEF Act, ActsOnce, IInv, JobTypes

\* The worker saw the answer: the job is gone.
LEMMA CompleteKeeps ==
    ASSUME IInv, NEW j \in jobs, j.state = "active",
           Complete(j), Act(j), UNCHANGED faulted,
           UNCHANGED <<handlerVars, dispatchVars, now, crashes, queued, merged, skipped>>
    PROVE  IInv'
  <1>1. /\ <<j.src, j.to>> \in Sources \X Targets
        /\ j.tries \in Nat /\ j.tries < Attempts /\ j.stalls \in {0, 1}
        /\ acts[<<j.src, j.to>>] \in Nat
        /\ acts[<<j.src, j.to>>] <= j.tries + j.stalls
        /\ acts[<<j.src, j.to>>] > 0 => <<j.src, j.to>> \in faulted
    BY ActiveJob
  <1>2. ActsOnce(j)
    BY ActEffect
  <1>3. \A i \in jobs' : i \in jobs /\ <<i.src, i.to>> # <<j.src, j.to>>
                        /\ <<i.src, i.to>> \in Sources \X Targets
    BY DEF Complete, IInv, OneJob, JobTypes, Jobs
  <1>4. JobTypes'
    BY <1>2 DEF ActsOnce, Complete, IInv, JobTypes
  <1>5. OneJob' /\ Requested'
    BY <1>3 DEF IInv, OneJob, Requested
  <1>6. Bounded'
    BY <1>2, <1>3 DEF ActsOnce, IInv, Bounded
  <1>7. RepeatsHaveACause'
    <2> SUFFICES ASSUME NEW x \in Sources \X Targets
                 PROVE  (acts'[x] > 1 => x \in faulted') /\ acts'[x] <= Attempts + 1
      BY DEF RepeatsHaveACause
    <2>1. CASE x = <<j.src, j.to>>
      BY <2>1, <1>1, <1>2, DeliveryAssumption DEF ActsOnce
    <2>2. CASE x # <<j.src, j.to>>
      BY <2>2, <1>2 DEF ActsOnce, IInv, RepeatsHaveACause
    <2> QED
      BY <2>1, <2>2
  <1>8. \A x \in Sources, y \in Targets : Had(x, y)' => Had(x, y)
    <2> SUFFICES ASSUME NEW x \in Sources, NEW y \in Targets, Had(x, y)'
                 PROVE  Had(x, y)
      OBVIOUS
    <2>1. CASE \E i \in jobs' : i.src = x /\ i.to = y
      BY <2>1, <1>3 DEF Had
    <2>2. CASE acts'[<<x, y>>] > 0
      <3>1. CASE <<x, y>> = <<j.src, j.to>>
        BY <3>1 DEF Had
      <3>2. CASE <<x, y>> # <<j.src, j.to>>
        BY <3>2, <2>2, <1>2 DEF Had, ActsOnce
      <3> QED
        BY <3>1, <3>2
    <2> QED
      BY <2>1, <2>2 DEF Had
  <1> QED
    BY <1>4, <1>5, <1>6, <1>7, <1>8, JobsMove

\* The worker saw none: the job is to be tried again or has failed, and its
\* target may have acted.
LEMMA RetryKeeps ==
    ASSUME IInv, NEW j \in jobs, j.state = "active", Retry(j),
           \/ UNCHANGED actVars
           \/ Act(j) /\ faulted' = faulted \cup {<<j.src, j.to>>},
           UNCHANGED <<handlerVars, dispatchVars, now, crashes, queued, merged, skipped>>
    PROVE  IInv'
  <1> DEFINE k == [j EXCEPT !.tries = @ + 1,
                            !.state = IF j.tries + 1 < Attempts THEN "waiting" ELSE "failed"]
  <1>1. /\ <<j.src, j.to>> \in Sources \X Targets
        /\ j.tries \in Nat /\ j.tries < Attempts /\ j.stalls \in {0, 1}
        /\ acts[<<j.src, j.to>>] \in Nat
        /\ acts[<<j.src, j.to>>] <= j.tries + j.stalls
        /\ acts[<<j.src, j.to>>] > 0 => <<j.src, j.to>> \in faulted
    BY ActiveJob
  <1>2. /\ k \in Jobs /\ k.src = j.src /\ k.to = j.to /\ k.kind = j.kind /\ k.at = j.at
        /\ k.tries = j.tries + 1 /\ k.stalls = j.stalls
        /\ k.state \in {"waiting", "active"} => k.tries < Attempts
    BY RetriedJob
  <1>3. jobs' = (jobs \ {j}) \cup {k}
    BY DEF Retry
  <1> HIDE DEF k
  <1>4. /\ jobs' \subseteq Jobs /\ OneJob' /\ Requested'
        /\ \A i \in jobs' : i = k \/ (i \in jobs /\ <<i.src, i.to>> # <<j.src, j.to>>)
        /\ \A x, y : (\E i \in jobs' : i.src = x /\ i.to = y)
                         => \E i \in jobs : i.src = x /\ i.to = y
    BY <1>2, <1>3, JobReplaced DEF IInv
  <1>5. /\ acts' \in [Sources \X Targets -> Nat]
        /\ \A x \in Sources \X Targets : x # <<j.src, j.to>> => acts'[x] = acts[x]
        /\ acts'[<<j.src, j.to>>] \in Nat
        /\ \/ acts'[<<j.src, j.to>>] = acts[<<j.src, j.to>>]
           \/ acts'[<<j.src, j.to>>] = acts[<<j.src, j.to>>] + 1 /\ <<j.src, j.to>> \in faulted'
        /\ faulted \subseteq faulted' /\ faulted' \subseteq Sources \X Targets
    <2>1. CASE UNCHANGED actVars
      BY <2>1, <1>1 DEF actVars, IInv, JobTypes
    <2>2. CASE Act(j) /\ faulted' = faulted \cup {<<j.src, j.to>>}
      <3>1. ActsOnce(j)
        BY <2>2, ActEffect
      <3> QED
        BY <2>2, <3>1, <1>1 DEF ActsOnce, IInv, JobTypes
    <2> QED
      BY <2>1, <2>2
  <1>6. /\ acts'[<<j.src, j.to>>] <= j.tries + j.stalls + 1
        /\ acts'[<<j.src, j.to>>] > 0 => <<j.src, j.to>> \in faulted'
    BY <1>1, <1>5
  <1>7. JobTypes'
    BY <1>4, <1>5 DEF IInv, JobTypes
  <1>8. Bounded'
    <2> SUFFICES ASSUME NEW i \in jobs'
                 PROVE  /\ i.state \in {"waiting", "active"} => i.tries < Attempts /\ i.stalls <= 1
                        /\ i.tries + i.stalls <= Attempts + 1
                        /\ acts'[<<i.src, i.to>>] <= i.tries + i.stalls
                        /\ acts'[<<i.src, i.to>>] > 0 => <<i.src, i.to>> \in faulted'
      BY DEF Bounded
    <2>1. CASE i = k
      BY <2>1, <1>1, <1>2, <1>6, DeliveryAssumption
    <2>2. CASE i \in jobs /\ <<i.src, i.to>> # <<j.src, j.to>>
      <3>1. acts'[<<i.src, i.to>>] = acts[<<i.src, i.to>>]
        BY <2>2, <1>5 DEF IInv, JobTypes, Jobs
      <3> QED
        BY <2>2, <3>1, <1>5 DEF IInv, Bounded
    <2> QED
      BY <2>1, <2>2, <1>4
  <1>9. RepeatsHaveACause'
    <2> SUFFICES ASSUME NEW x \in Sources \X Targets
                 PROVE  (acts'[x] > 1 => x \in faulted') /\ acts'[x] <= Attempts + 1
      BY DEF RepeatsHaveACause
    <2>1. CASE x = <<j.src, j.to>>
      BY <2>1, <1>1, <1>5, <1>6, DeliveryAssumption
    <2>2. CASE x # <<j.src, j.to>>
      BY <2>2, <1>5 DEF IInv, RepeatsHaveACause
    <2> QED
      BY <2>1, <2>2
  <1>10. \A x \in Sources, y \in Targets : Had(x, y)' => Had(x, y)
    <2> SUFFICES ASSUME NEW x \in Sources, NEW y \in Targets, Had(x, y)'
                 PROVE  Had(x, y)
      OBVIOUS
    <2>1. CASE <<x, y>> = <<j.src, j.to>>
      BY <2>1 DEF Had
    <2>2. CASE <<x, y>> # <<j.src, j.to>>
      BY <2>2, <1>4, <1>5 DEF Had
    <2> QED
      BY <2>1, <2>2
  <1> QED
    BY <1>4, <1>7, <1>8, <1>9, <1>10, JobsMove

LEMMA AttemptKeeps ==
    ASSUME IInv, NEW j \in jobs, Attempt(j)
    PROVE  IInv'
  BY CompleteKeeps, RetryKeeps DEF Attempt

\* A job that its worker died with.
Stalled(j) == [j EXCEPT !.stalls = @ + 1,
                        !.state = IF j.stalls = 0 THEN "waiting" ELSE "failed"]

LEMMA StalledJob ==
    ASSUME IInv, NEW j \in jobs, j.state = "active"
    PROVE  /\ Stalled(j) \in Jobs
           /\ Stalled(j).src = j.src /\ Stalled(j).to = j.to
           /\ Stalled(j).kind = j.kind /\ Stalled(j).at = j.at
           /\ Stalled(j).tries = j.tries /\ Stalled(j).stalls = j.stalls + 1
           /\ Stalled(j).state \in {"waiting", "failed"}
           /\ Stalled(j).state = "waiting" => j.stalls = 0
  <1>1. j \in Jobs /\ j.stalls \in {0, 1}
    BY ActiveJob
  <1> DEFINE n == j.stalls + 1
             s == IF j.stalls = 0 THEN "waiting" ELSE "failed"
             k == [j EXCEPT !.stalls = n, !.state = s]
  <1>2. n \in 0..2 /\ s \in {"waiting", "failed"} /\ (s = "waiting" => j.stalls = 0)
    BY <1>1
  <1>3. Stalled(j) = k
    BY DEF Stalled
  <1>4. /\ k.src = j.src /\ k.to = j.to /\ k.kind = j.kind /\ k.at = j.at
        /\ k.tries = j.tries /\ k.stalls = n /\ k.state = s
    BY <1>1 DEF Jobs
  <1>5. k \in Jobs
    <2> HIDE DEF n, s
    <2> QED
      BY <1>1, <1>2 DEF Jobs
  <1> QED
    BY <1>2, <1>3, <1>4, <1>5

\* The worker process dies: the jobs it held are put back once, and each of
\* their targets has acted or not.
LEMMA CrashKeeps ==
    ASSUME IInv, Crash
    PROVE  IInv'
  <1>1. PICK acted \in SUBSET {j \in jobs : j.state = "active"} :
            LET pairs == {<<j.src, j.to>> : j \in acted} IN
            /\ acts' = [x \in DOMAIN acts |-> IF x \in pairs THEN acts[x] + 1 ELSE acts[x]]
            /\ faulted' = faulted \cup pairs
    BY DEF Crash
  <1> DEFINE pairs == {<<j.src, j.to>> : j \in acted}
  <1>2. /\ acts' = [x \in DOMAIN acts |-> IF x \in pairs THEN acts[x] + 1 ELSE acts[x]]
        /\ faulted' = faulted \cup pairs
    BY <1>1
  <1>3. /\ crashes' = crashes + 1 /\ crashes < MaxCrashes
        /\ jobs' = {IF j.state # "active" THEN j ELSE Stalled(j) : j \in jobs}
        /\ run' = run /\ step' = step /\ rows' = rows
        /\ UNCHANGED <<dispatchVars, now, queued, merged, skipped>>
        /\ result' = [r \in Runs |-> IF result[r] = "none" /\ step[r] > 0 THEN "lost" ELSE result[r]]
    BY DEF Crash, Stalled
  <1>4. \A j \in jobs : j.state = "active" =>
            /\ Stalled(j) \in Jobs
            /\ Stalled(j).src = j.src /\ Stalled(j).to = j.to
            /\ Stalled(j).kind = j.kind /\ Stalled(j).at = j.at
            /\ Stalled(j).tries = j.tries /\ Stalled(j).stalls = j.stalls + 1
            /\ Stalled(j).state \in {"waiting", "active"} => j.stalls = 0
    BY StalledJob
  <1>5. \A x \in pairs : /\ x \in Sources \X Targets
                         /\ \E j \in jobs : j.state = "active" /\ x = <<j.src, j.to>>
    BY ActiveJob
  <1> HIDE DEF pairs
  \* Where the new jobs come from, and the counts of the targets.
  <1>6. \A i \in jobs' : \E j \in jobs :
            /\ i.src = j.src /\ i.to = j.to /\ i.kind = j.kind /\ i.at = j.at
            /\ i = IF j.state # "active" THEN j ELSE Stalled(j)
    BY <1>3, <1>4
  <1>7. /\ acts' \in [Sources \X Targets -> Nat]
        /\ \A x \in Sources \X Targets :
              acts'[x] = IF x \in pairs THEN acts[x] + 1 ELSE acts[x]
    BY <1>2 DEF IInv, JobTypes
  <1>8. JobTypes'
    <2>1. jobs' \subseteq Jobs
      BY <1>3, <1>4 DEF IInv, JobTypes
    <2>2. faulted' \subseteq Sources \X Targets
      BY <1>2, <1>5 DEF IInv, JobTypes
    <2>3. crashes' \in 0..MaxCrashes
      BY <1>3, DeliveryAssumption DEF IInv, JobTypes
    <2> QED
      BY <2>1, <2>2, <2>3, <1>3, <1>7 DEF IInv, JobTypes
  <1>9. OneJob'
    BY <1>6 DEF IInv, OneJob
  <1>10. Requested'
    BY <1>3, <1>6 DEF IInv, Requested
  <1>11. Bounded'
    <2> SUFFICES ASSUME NEW i \in jobs'
                 PROVE  /\ i.state \in {"waiting", "active"} => i.tries < Attempts /\ i.stalls <= 1
                        /\ i.tries + i.stalls <= Attempts + 1
                        /\ acts'[<<i.src, i.to>>] <= i.tries + i.stalls
                        /\ acts'[<<i.src, i.to>>] > 0 => <<i.src, i.to>> \in faulted'
      BY DEF Bounded
    <2>1. PICK j \in jobs : /\ i.src = j.src /\ i.to = j.to
                            /\ i = IF j.state # "active" THEN j ELSE Stalled(j)
      BY <1>6
    <2>2. <<j.src, j.to>> \in Sources \X Targets
      BY DEF IInv, JobTypes, Jobs
    <2>3. CASE j.state # "active"
      <3>1. <<j.src, j.to>> \notin pairs
        BY <1>5, <2>3 DEF IInv, OneJob
      <3>2. acts'[<<j.src, j.to>>] = acts[<<j.src, j.to>>]
        BY <3>1, <2>2, <1>7
      <3> QED
        BY <3>2, <2>1, <2>3, <1>2 DEF IInv, Bounded
    <2>4. CASE j.state = "active"
      <3>1. /\ j.tries \in Nat /\ j.tries < Attempts /\ j.stalls \in {0, 1}
            /\ acts[<<j.src, j.to>>] \in Nat
            /\ acts[<<j.src, j.to>>] <= j.tries + j.stalls
            /\ acts[<<j.src, j.to>>] > 0 => <<j.src, j.to>> \in faulted
        BY <2>4, ActiveJob
      <3>2. /\ i.tries = j.tries /\ i.stalls = j.stalls + 1
            /\ i.state \in {"waiting", "active"} => j.stalls = 0
        BY <2>1, <2>4, <1>4
      <3>3. acts'[<<j.src, j.to>>] = IF <<j.src, j.to>> \in pairs THEN acts[<<j.src, j.to>>] + 1
                                     ELSE acts[<<j.src, j.to>>]
        BY <2>2, <1>7
      <3>4. faulted' = faulted \cup pairs
        BY <1>2
      <3>5. acts'[<<i.src, i.to>>] = acts'[<<j.src, j.to>>]
        BY <2>1
      <3>6. acts'[<<j.src, j.to>>] <= j.tries + j.stalls + 1
        BY <3>1, <3>3
      <3>7. acts'[<<j.src, j.to>>] > 0 => <<j.src, j.to>> \in faulted'
        BY <3>1, <3>3, <3>4
      <3> QED
        BY <2>1, <3>1, <3>2, <3>5, <3>6, <3>7, DeliveryAssumption
    <2> QED
      BY <2>3, <2>4
  <1>12. RepeatsHaveACause'
    <2> SUFFICES ASSUME NEW x \in Sources \X Targets
                 PROVE  (acts'[x] > 1 => x \in faulted') /\ acts'[x] <= Attempts + 1
      BY DEF RepeatsHaveACause
    <2>1. CASE x \in pairs
      <3>1. PICK j \in jobs : j.state = "active" /\ x = <<j.src, j.to>>
        BY <2>1, <1>5
      <3>2. /\ j.tries \in Nat /\ j.tries < Attempts /\ j.stalls \in {0, 1}
            /\ acts[x] \in Nat /\ acts[x] <= j.tries + j.stalls
        BY <3>1, ActiveJob
      <3>3. acts'[x] = acts[x] + 1 /\ x \in faulted'
        BY <2>1, <1>2, <1>7
      <3> QED
        BY <3>2, <3>3, DeliveryAssumption
    <2>2. CASE x \notin pairs
      BY <2>2, <1>2, <1>7 DEF IInv, RepeatsHaveACause
    <2> QED
      BY <2>1, <2>2
  <1>13. \A x \in Sources, y \in Targets : Had(x, y)' => Had(x, y)
    <2> SUFFICES ASSUME NEW x \in Sources, NEW y \in Targets, Had(x, y)'
                 PROVE  Had(x, y)
      OBVIOUS
    <2>1. CASE \E i \in jobs' : i.src = x /\ i.to = y
      BY <2>1, <1>6 DEF Had
    <2>2. CASE <<x, y>> \in pairs
      BY <2>2, <1>5 DEF Had
    <2>3. CASE acts'[<<x, y>>] > 0 /\ <<x, y>> \notin pairs
      BY <2>3, <1>7 DEF Had
    <2> QED
      BY <2>1, <2>2, <2>3 DEF Had
  <1>14. RunTypes'
    BY <1>3 DEF IInv, RunTypes
  <1>15. DispatchTypes'
    BY <1>3 DEF IInv, DispatchTypes, dispatchVars
  <1>16. DroppedForATwin'
    BY <1>3 DEF IInv, DroppedForATwin
  <1>17. Asked'
    <2>1. \A r \in Runs : step'[r] >= step[r]
      BY <1>3 DEF IInv, RunTypes
    <2> QED
      BY <2>1, <1>3, <1>13, <1>14, AskedKept DEF IInv
  <1>18. Telling'
    <2>1. \A r \in Runs : result'[r] = result[r] \/ (step[r] # 0 /\ result'[r] # "ok")
      BY <1>3 DEF IInv, RunTypes
    <2> QED
      BY <2>1, <1>3, TellsKept DEF IInv, Telling
  <1> QED
    BY <1>8, <1>9, <1>10, <1>11, <1>12, <1>14, <1>15, <1>16, <1>17, <1>18 DEF IInv

-----------------------------------------------------------------------------
(***************************************************************************)
(* The invariant is inductive                                              *)
(***************************************************************************)

LEMMA InitIInv == Init => IInv
  <1> SUFFICES ASSUME Init PROVE IInv
    OBVIOUS
  <1>1. RunTypes
    BY DEF Init, RunTypes
  <1>2. DispatchTypes
    BY DEF Init, DispatchTypes
  <1>3. JobTypes
    BY DeliveryAssumption DEF Init, JobTypes
  <1>4. OneJob /\ Bounded /\ Requested /\ DroppedForATwin
    BY DEF Init, OneJob, Bounded, Requested, DroppedForATwin
  <1>5. RepeatsHaveACause
    BY DeliveryAssumption DEF Init, RepeatsHaveACause
  <1>6. \A x \in Sources, y \in Targets : ~Had(x, y)
    BY DEF Init, Had
  <1>7. Asked
    BY <1>6 DEF Asked, Sources
  <1>8. Telling
    <2> SUFFICES ASSUME NEW r \in Runs PROVE Tells(r)
      BY DEF Telling
    <2>1. Calls(r) = <<>> /\ step[r] = 0 /\ result[r] = "none" /\ run[r].kind = "none"
      BY DEF Init, Calls, CraftsmanKinds, OrderKinds, FeedbackKinds
    <2> QED
      BY <2>1 DEF Tells
  <1> QED
    BY <1>1, <1>2, <1>3, <1>4, <1>5, <1>7, <1>8 DEF IInv

LEMMA NextIInv == IInv /\ [Next]_vars => IInv'
  <1> SUFFICES ASSUME IInv, [Next]_vars PROVE IInv'
    OBVIOUS
  <1>1. ASSUME NEW r \in Runs, Receive(r) \/ RunStep(r) PROVE IInv'
    BY <1>1, ReceiveKeeps, RunKeeps
  <1>2. ASSUME NEW h \in Hooks, CreateHook(h) \/ SetHook(h) \/ DeleteHook(h) PROVE IInv'
    BY <1>2, HookKeeps
  <1>3. ASSUME NEW d \in Dispatches, DispatchStep(d) PROVE IInv'
    BY <1>3, ReadHooksKeeps, AddHookJobKeeps, DispatchEndsKeeps DEF DispatchStep
  <1>4. CASE JobStep
    BY <1>4, TakeKeeps, AttemptKeeps DEF JobStep, SendEmail, CallWebhook
  <1>5. CASE Crash
    BY <1>5, CrashKeeps
  <1>6. CASE Tick
    BY <1>6, TickKeeps
  <1>7. CASE UNCHANGED vars
    BY <1>7, DispatchesMove DEF vars, dispatchVars, IInv, DispatchTypes, Asked
  <1> QED
    BY <1>1, <1>2, <1>3, <1>4, <1>5, <1>6, <1>7 DEF Next

-----------------------------------------------------------------------------
(***************************************************************************)
(* The results                                                             *)
(***************************************************************************)

LEMMA Inductive == Spec => []IInv
  BY InitIInv, NextIInv, PTL DEF Spec

\* Every variable keeps its type: no handler has more than four calls to make,
\* and no job is tried more often than its attempts and its one restart.
THEOREM TypeCorrect == Spec => []TypeOK
  <1>1. IInv => TypeOK
    BY DEF IInv, RunTypes, DispatchTypes, JobTypes, TypeOK
  <1> QED
    BY <1>1, Inductive, PTL

\* A job id merges two requests only if they were made in the same millisecond
\* for the same target, whatever runs and dispatches interleave.
THEOREM AlwaysDroppedForATwin == Spec => []DroppedForATwin
  <1>1. IInv => DroppedForATwin
    BY DEF IInv
  <1> QED
    BY <1>1, Inductive, PTL

\* Nobody gets a mail or a webhook twice unless an earlier attempt had acted
\* unseen, and nobody more often than the attempts and one restart allow, for
\* any number of attempts, crashes and late answers.
THEOREM RepeatsAlwaysHaveACause == Spec => []RepeatsHaveACause
  <1>1. IInv => RepeatsHaveACause
    BY DEF IInv
  <1> QED
    BY <1>1, Inductive, PTL

\* A handler that ended normally, of whatever event, has told all it was to tell.
THEOREM HandledAlwaysMeansTold == Spec => []HandledMeansTold
  <1>1. IInv => HandledMeansTold
    <2> SUFFICES ASSUME IInv, NEW r \in Runs, result[r] = "ok",
                        NEW i \in 1..Len(Calls(r))
                 PROVE  Told(r, i)
      BY DEF HandledMeansTold, Told
    <2>1. Len(Calls(r)) \in Nat
      BY CallsBounded DEF IInv, RunTypes, RunRow, FourCalls
    <2> QED
      BY <2>1 DEF IInv, Telling, Tells
  <1> QED
    BY <1>1, Inductive, PTL

-----------------------------------------------------------------------------
(***************************************************************************)
(* The job queue                                                           *)
(***************************************************************************)

\* What request x may do in a step, as JobQueue has it.
Stays(x) == acts'[x] = acts[x] /\ (x \in faulted' <=> x \in faulted)
Acted(x) == acts[x] < Attempts + 1 /\ acts'[x] = acts[x] + 1

Rests(x) == Where(x)' = Where(x) /\ Stays(x)
IsPut(x) == Where(x) = "none" /\ Where(x)' = "queued" /\ Stays(x)
Settles(x) ==
    /\ Where(x) = "queued" /\ Where(x)' = "settled"
    /\ Acted(x) /\ (x \in faulted' <=> x \in faulted)
Falters(x) ==
    /\ Where(x) = "queued" /\ Where(x)' \in {"queued", "abandoned"}
    /\ Stays(x) \/ (Acted(x) /\ x \in faulted')

Moves(x) == Rests(x) \/ IsPut(x) \/ Settles(x) \/ Falters(x)

\* A request that a step says nothing about.
LEMMA OthersRest ==
    ASSUME NEW x, Stays(x),
           \A j : <<j.src, j.to>> = x => (j \in jobs' <=> j \in jobs)
    PROVE  Rests(x)
  <1>1. HasJob(x)' <=> HasJob(x)
    BY DEF HasJob
  <1>2. Failed(x)' <=> Failed(x)
    BY DEF Failed
  <1> QED
    BY <1>1, <1>2 DEF Rests, Stays, Where

\* A step that touches no job and no target.
LEMMA QueueStays ==
    ASSUME UNCHANGED <<jobs, acts, faulted>>
    PROVE  \A x \in Pairs : Moves(x)
  BY OthersRest DEF Moves, Stays

\* Where the request of a job is.
LEMMA WhereJob ==
    ASSUME OneJob, NEW j \in jobs
    PROVE  Where(<<j.src, j.to>>) = IF j.state = "failed" THEN "abandoned" ELSE "queued"
  BY DEF OneJob, Where, HasJob, Failed

LEMMA WhereJobNext ==
    (OneJob => \A j \in jobs :
        Where(<<j.src, j.to>>) = IF j.state = "failed" THEN "abandoned" ELSE "queued")'
  <1>1. OneJob => \A j \in jobs :
          Where(<<j.src, j.to>>) = IF j.state = "failed" THEN "abandoned" ELSE "queued"
    BY WhereJob
  <1> QED
    BY <1>1, PTL

\* A job is asked for: it is new or dropped for a twin.
LEMMA AddPuts ==
    ASSUME IInv, NEW kind \in {"welcome", "email", "webhook"},
           NEW s \in Sources, NEW t \in Targets,
           ~Had(s, t), Add(kind, s, t), UNCHANGED <<acts, faulted>>
    PROVE  \A x \in Pairs : Moves(x)
  <1> DEFINE j == Job(kind, s, t)
  <1>1. jobs' = jobs \/ jobs' = jobs \cup {j}
    BY DEF Add
  <1>2. j.src = s /\ j.to = t /\ j.state = "waiting"
    BY NewJob DEF IInv
  <1> HIDE DEF j
  <1>3. CASE jobs' = jobs
    BY <1>3, QueueStays
  <1>4. CASE jobs' = jobs \cup {j}
    <2> SUFFICES ASSUME NEW x \in Pairs PROVE Moves(x)
      OBVIOUS
    <2>1. CASE x = <<s, t>>
      <3>1. ~HasJob(x) /\ ~(acts[x] > 0)
        BY <2>1 DEF HasJob, Had
      <3>2. HasJob(x)' /\ ~Failed(x)'
        BY <1>2, <1>4, <2>1, <3>1 DEF HasJob, Failed
      <3> QED
        BY <3>1, <3>2 DEF Moves, IsPut, Stays, Where
    <2>2. CASE x # <<s, t>>
      BY <1>2, <1>4, <2>2, OthersRest DEF Moves, Stays
    <2> QED
      BY <2>1, <2>2
  <1> QED
    BY <1>1, <1>3, <1>4

LEMMA EnqueueEmailMoves ==
    ASSUME IInv, NEW r \in Runs, EnqueueEmail(r)
    PROVE  \A x \in Pairs : Moves(x)
  <1>1. /\ Running(r) /\ Does(r, step[r]) \in {"email", "welcome"} /\ To(r) \in Users
        /\ Add(Does(r, step[r]), r, To(r)) /\ UNCHANGED <<acts, faulted>>
    BY DEF EnqueueEmail, actVars
  <1>2. r \in Sources /\ To(r) \in Targets
    BY <1>1 DEF Sources, Targets
  <1>3. step[r] = 1
    BY <1>1, CallsBounded DEF IInv, RunTypes, RunRow, FourCalls, Running
  <1>4. ~Had(r, To(r))
    BY <1>2, <1>3 DEF IInv, Asked
  <1> QED
    BY <1>1, <1>2, <1>4, AddPuts

LEMMA AddHookJobMoves ==
    ASSUME IInv, NEW d \in Dispatches, AddHookJob(d)
    PROVE  \A x \in Pairs : Moves(x)
  <1>1. PICK h \in todo[d] : Add("webhook", d, h)
    BY DEF AddHookJob
  <1>2. UNCHANGED <<acts, faulted>>
    BY DEF AddHookJob, actVars
  <1>3. h \in Targets /\ d \in Sources
    BY DEF IInv, DispatchTypes, Targets, Sources
  <1>4. ~Had(d, h)
    BY <1>3 DEF IInv, Asked
  <1> QED
    BY <1>1, <1>2, <1>3, <1>4, AddPuts

\* A job takes the place of one about the same request.
LEMMA ReplacedMoves ==
    ASSUME IInv, IInv', NEW j \in jobs, NEW k, j.state # "failed",
           k.src = j.src, k.to = j.to, jobs' = (jobs \ {j}) \cup {k},
           NEW x
    PROVE  /\ x = <<j.src, j.to>> =>
                /\ Where(x) = "queued"
                /\ Where(x)' = IF k.state = "failed" THEN "abandoned" ELSE "queued"
           /\ x # <<j.src, j.to>> /\ Stays(x) => Rests(x)
  <1>1. ASSUME x = <<j.src, j.to>>
        PROVE  /\ Where(x) = "queued"
               /\ Where(x)' = IF k.state = "failed" THEN "abandoned" ELSE "queued"
    <2>1. Where(x) = "queued"
      BY <1>1, WhereJob DEF IInv
    <2>2. k \in jobs' /\ x = <<k.src, k.to>>
      BY <1>1
    <2>3. Where(<<k.src, k.to>>)' = IF k.state = "failed" THEN "abandoned" ELSE "queued"
      BY <2>2, WhereJobNext DEF IInv
    <2> QED
      BY <2>1, <2>2, <2>3
  <1>2. ASSUME x # <<j.src, j.to>>, Stays(x)
        PROVE  Rests(x)
    BY <1>2, OthersRest
  <1> QED
    BY <1>1, <1>2

LEMMA TakeMoves ==
    ASSUME IInv, IInv', NEW j \in jobs, Take(j)
    PROVE  \A x \in Pairs : Moves(x)
  <1> DEFINE k == [j EXCEPT !.state = "active"]
  <1>1. /\ jobs' = (jobs \ {j}) \cup {k} /\ j.state = "waiting" /\ j \in Jobs
        /\ UNCHANGED <<acts, faulted>>
    BY DEF Take, IInv, JobTypes, actVars
  <1>2. k.src = j.src /\ k.to = j.to /\ k.state = "active"
    BY <1>1 DEF Jobs
  <1> HIDE DEF k
  <1> SUFFICES ASSUME NEW x \in Pairs PROVE Moves(x)
    OBVIOUS
  <1>3. Stays(x)
    BY <1>1 DEF Stays
  <1>4. Rests(x)
    BY <1>1, <1>2, <1>3, ReplacedMoves DEF Rests
  <1> QED
    BY <1>4 DEF Moves

\* A processor's end.
LEMMA AttemptMoves ==
    ASSUME IInv, IInv', NEW j \in jobs, Attempt(j)
    PROVE  \A x \in Pairs : Moves(x)
  <1> DEFINE y == <<j.src, j.to>>
  <1>1. j.state = "active"
    BY DEF Attempt
  <1>2. y \in Sources \X Targets /\ acts[y] \in Nat /\ acts[y] < Attempts + 1
    BY <1>1, ActiveJob, DeliveryAssumption
  <1>3. Act(j) => /\ \A x \in Pairs : x # y => acts'[x] = acts[x]
                  /\ acts'[y] = acts[y] + 1
    BY <1>1, <1>2, ActEffect DEF ActsOnce, Pairs, Sources, Targets
  <1>4. CASE Complete(j) /\ Act(j) /\ UNCHANGED faulted
    <2> SUFFICES ASSUME NEW x \in Pairs PROVE Moves(x)
      OBVIOUS
    <2>1. CASE x = y
      <3>1. Where(x) = "queued"
        BY <1>1, <2>1, WhereJob DEF IInv
      <3>2. ~HasJob(x)'
        BY <1>4, <2>1 DEF HasJob, Complete, IInv, OneJob
      <3>3. acts'[x] > 0
        BY <1>2, <1>3, <1>4, <2>1
      <3>4. Where(x)' = "settled"
        BY <3>2, <3>3 DEF Where
      <3> QED
        BY <1>2, <1>3, <1>4, <2>1, <3>1, <3>4 DEF Moves, Settles, Acted
    <2>2. CASE x # y
      <3>1. Stays(x)
        BY <1>3, <1>4, <2>2 DEF Stays
      <3> QED
        BY <1>4, <2>2, <3>1, OthersRest DEF Moves, Complete
    <2> QED
      BY <2>1, <2>2
  <1>5. CASE Retry(j) /\ (UNCHANGED actVars \/ (Act(j) /\ faulted' = faulted \cup {y}))
    <2> DEFINE k == [j EXCEPT !.tries = @ + 1,
                              !.state = IF j.tries + 1 < Attempts THEN "waiting" ELSE "failed"]
    <2>1. k.src = j.src /\ k.to = j.to
      BY <1>1, RetriedJob
    <2>2. jobs' = (jobs \ {j}) \cup {k}
      BY <1>5 DEF Retry
    <2> HIDE DEF k
    <2> SUFFICES ASSUME NEW x \in Pairs PROVE Moves(x)
      OBVIOUS
    <2>3. CASE x = y
      <3>1. Where(x) = "queued" /\ Where(x)' \in {"queued", "abandoned"}
        BY <1>1, <2>1, <2>2, <2>3, ReplacedMoves
      <3>2. Stays(x) \/ (Acted(x) /\ x \in faulted')
        BY <1>2, <1>3, <1>5, <2>3 DEF Stays, Acted, actVars
      <3> QED
        BY <3>1, <3>2 DEF Moves, Falters
    <2>4. CASE x # y
      <3>1. Stays(x)
        BY <1>3, <1>5, <2>4 DEF Stays, actVars
      <3> QED
        BY <1>1, <2>1, <2>2, <2>4, <3>1, ReplacedMoves DEF Moves
    <2> QED
      BY <2>3, <2>4
  <1> QED
    BY <1>4, <1>5 DEF Attempt

\* The worker process dies: what it held is queued again or abandoned, whether
\* its targets had acted or not.
LEMMA CrashMoves ==
    ASSUME IInv, IInv', Crash
    PROVE  \A x \in Pairs : Moves(x)
  <1>1. PICK acted \in SUBSET {j \in jobs : j.state = "active"} :
            LET pairs == {<<j.src, j.to>> : j \in acted} IN
            /\ acts' = [x \in DOMAIN acts |-> IF x \in pairs THEN acts[x] + 1 ELSE acts[x]]
            /\ faulted' = faulted \cup pairs
    BY DEF Crash
  <1> DEFINE pairs == {<<j.src, j.to>> : j \in acted}
  <1>2. /\ acts' = [x \in DOMAIN acts |-> IF x \in pairs THEN acts[x] + 1 ELSE acts[x]]
        /\ faulted' = faulted \cup pairs
    BY <1>1
  <1>3. jobs' = {IF j.state # "active" THEN j ELSE Stalled(j) : j \in jobs}
    BY DEF Crash, Stalled
  <1>4. \A x \in pairs : \E j \in jobs : j.state = "active" /\ x = <<j.src, j.to>>
    OBVIOUS
  <1> HIDE DEF pairs
  <1>5. \A x \in Sources \X Targets :
            acts'[x] = IF x \in pairs THEN acts[x] + 1 ELSE acts[x]
    BY <1>2 DEF IInv, JobTypes
  <1> SUFFICES ASSUME NEW x \in Pairs PROVE Moves(x)
    OBVIOUS
  <1>6. x \in Sources \X Targets
    BY DEF Pairs, Sources, Targets
  <1>7. ASSUME NEW j \in jobs, j.state = "active", x = <<j.src, j.to>>
        PROVE  Falters(x)
    <2>1. acts[x] \in Nat /\ acts[x] < Attempts + 1
      BY <1>7, ActiveJob, DeliveryAssumption
    <2>2. Where(x) = "queued"
      BY <1>7, WhereJob DEF IInv
    <2>3. Stalled(j) \in jobs' /\ Stalled(j).src = j.src /\ Stalled(j).to = j.to
      BY <1>3, <1>7, StalledJob
    <2>4. Where(<<Stalled(j).src, Stalled(j).to>>)' \in {"queued", "abandoned"}
      BY <2>3, WhereJobNext DEF IInv
    <2>5. Where(x)' \in {"queued", "abandoned"}
      BY <1>7, <2>3, <2>4
    <2>6. Stays(x) \/ (Acted(x) /\ x \in faulted')
      BY <1>2, <1>5, <1>6, <2>1 DEF Stays, Acted
    <2> QED
      BY <2>2, <2>5, <2>6 DEF Falters
  <1>8. ASSUME \A j \in jobs : j.state = "active" => x # <<j.src, j.to>>
        PROVE  Rests(x)
    <2>1. x \notin pairs
      BY <1>4, <1>8
    <2>2. Stays(x)
      BY <1>2, <1>5, <1>6, <2>1 DEF Stays
    <2>3. ASSUME NEW j, <<j.src, j.to>> = x
          PROVE  j \in jobs' <=> j \in jobs
      <3>1. ASSUME j \in jobs PROVE j \in jobs'
        BY <1>3, <1>8, <2>3, <3>1
      <3>2. ASSUME j \in jobs' PROVE j \in jobs
        <4>1. PICK i \in jobs : j = IF i.state # "active" THEN i ELSE Stalled(i)
          BY <1>3, <3>2
        <4>2. CASE i.state # "active"
          BY <4>1, <4>2
        <4>3. CASE i.state = "active"
          <5>1. j.src = i.src /\ j.to = i.to
            BY <4>1, <4>3, StalledJob
          <5> QED
            BY <1>8, <2>3, <4>3, <5>1
        <4> QED
          BY <4>2, <4>3
      <3> QED
        BY <3>1, <3>2
    <2> QED
      BY <2>2, <2>3, OthersRest
  <1> QED
    BY <1>7, <1>8 DEF Moves

LEMMA NextMoves ==
    ASSUME IInv, IInv', [Next]_vars
    PROVE  \A x \in Pairs : Moves(x)
  <1>1. ASSUME NEW r \in Runs, Receive(r) \/ RunStep(r)
        PROVE  \A x \in Pairs : Moves(x)
    <2>1. CASE EnqueueEmail(r)
      BY <2>1, EnqueueEmailMoves
    <2>2. CASE ~EnqueueEmail(r)
      <3>1. UNCHANGED <<jobs, acts, faulted>>
        BY <1>1, <2>2 DEF Receive, RunStep, SkipEmail, Notify, NotifyAdmin, NotifyOtherBidders,
                          CallFails, Finish, actVars
      <3> QED
        BY <3>1, QueueStays
    <2> QED
      BY <2>1, <2>2
  <1>2. ASSUME NEW h \in Hooks, CreateHook(h) \/ SetHook(h) \/ DeleteHook(h)
        PROVE  \A x \in Pairs : Moves(x)
    BY <1>2, QueueStays DEF CreateHook, SetHook, DeleteHook, actVars
  <1>3. ASSUME NEW d \in Dispatches, DispatchStep(d)
        PROVE  \A x \in Pairs : Moves(x)
    <2>1. CASE AddHookJob(d)
      BY <2>1, AddHookJobMoves
    <2>2. CASE ~AddHookJob(d)
      BY <1>3, <2>2, QueueStays DEF DispatchStep, ReadHooks, EndDispatch, DispatchFails, actVars
    <2> QED
      BY <2>1, <2>2
  <1>4. CASE JobStep
    BY <1>4, TakeMoves, AttemptMoves DEF JobStep, SendEmail, CallWebhook
  <1>5. CASE Crash
    BY <1>5, CrashMoves
  <1>6. CASE Tick
    BY <1>6, QueueStays DEF Tick, actVars
  <1>7. CASE UNCHANGED vars
    BY <1>7, QueueStays DEF vars, actVars
  <1> QED
    BY <1>1, <1>2, <1>3, <1>4, <1>5, <1>6, <1>7 DEF Next

\* Where a request is, in words.
LEMMA PlaceTypes == Place \in [Pairs -> Queue!Places]
  BY DEF Place, Where, Queue!Places

LEMMA PlaceTypesNext == (Place \in [Pairs -> Queue!Places])'
  BY PlaceTypes, PTL

LEMMA ActsTypes ==
    JobTypes => Acts \in [Pairs -> Nat] /\ Doubt \in [Pairs -> BOOLEAN]
  BY DEF JobTypes, Acts, Doubt, Pairs, Sources, Targets

LEMMA ActsTypesNext ==
    (JobTypes => Acts \in [Pairs -> Nat] /\ Doubt \in [Pairs -> BOOLEAN])'
  BY ActsTypes, PTL

\* Every step is one of the job queue.
LEMMA MovesMap ==
    ASSUME IInv, IInv', \A x \in Pairs : Moves(x)
    PROVE  Queue!QueueNext
  <1>1. Place' \in [Pairs -> Queue!Places]
    BY PlaceTypesNext DEF Queue!Places
  <1>2. Acts' \in [Pairs -> Nat] /\ Doubt' \in [Pairs -> BOOLEAN]
    BY ActsTypesNext DEF IInv
  <1>3. ASSUME NEW x \in Pairs
        PROVE  Queue!Rest(x) \/ Queue!Put(x) \/ Queue!Settle(x) \/ Queue!Falter(x)
    <2>1. Place[x] = Where(x) /\ Acts[x] = acts[x] /\ (Doubt[x] <=> x \in faulted)
      BY DEF Place, Acts, Doubt
    <2>2. Place'[x] = Where(x)' /\ Acts'[x] = acts'[x] /\ (Doubt'[x] <=> x \in faulted')
      BY DEF Place, Acts, Doubt, Pairs
    <2>3. Doubt[x] \in BOOLEAN /\ Doubt'[x] \in BOOLEAN
      BY <1>2, ActsTypes DEF IInv
    <2>4. (x \in faulted' <=> x \in faulted) => Doubt'[x] = Doubt[x]
      BY <2>1, <2>2, <2>3
    <2>5. Moves(x)
      OBVIOUS
    <2>6. CASE Rests(x)
      BY <2>1, <2>2, <2>4, <2>6 DEF Rests, Stays, Queue!Rest, Queue!Quiet
    <2>7. CASE IsPut(x)
      BY <2>1, <2>2, <2>4, <2>7 DEF IsPut, Stays, Queue!Put, Queue!Move, Queue!Quiet
    <2>8. CASE Settles(x)
      BY <2>1, <2>2, <2>4, <2>8 DEF Settles, Acted, Queue!Settle, Queue!Move, Queue!Act
    <2>9. CASE Falters(x)
      BY <2>1, <2>2, <2>4, <2>9
         DEF Falters, Stays, Acted, Queue!Falter, Queue!Move, Queue!Quiet, Queue!Act
    <2> QED
      BY <2>5, <2>6, <2>7, <2>8, <2>9 DEF Moves
  <1> QED
    BY <1>1, <1>2, <1>3 DEF Queue!QueueNext

LEMMA InitMaps ==
    ASSUME Init
    PROVE  Queue!QueueInit
  <1>1. \A x \in Pairs : Where(x) = "none" /\ acts[x] = 0 /\ x \notin faulted
    BY DEF Init, Where, HasJob, Pairs, Sources, Targets
  <1>2. Place = [x \in Pairs |-> "none"]
    BY <1>1 DEF Place
  <1>3. Acts = [x \in Pairs |-> 0]
    BY <1>1 DEF Acts
  <1>4. Doubt = [x \in Pairs |-> FALSE]
    <2>1. \A x \in Pairs : (x \in faulted) = FALSE
      BY <1>1
    <2> QED
      BY <2>1, Zenon DEF Doubt
  <1> QED
    BY <1>2, <1>3, <1>4 DEF Queue!QueueInit

\* The e-mail queue, the webhook queue and their workers implement the job
\* queue: what became a job stays queued until it is acted upon and
\* acknowledged, or given up, for any number of attempts, crashes and late
\* answers.
THEOREM DeliveryImplementsQueue == Spec => ImplementsQueue
  <1>1. Init => Queue!QueueInit
    BY InitMaps
  <1>2. IInv /\ IInv' /\ [Next]_vars => [Queue!QueueNext]_Queue!queueVars
    BY NextMoves, MovesMap
  <1> QED
    BY <1>1, <1>2, Inductive, PTL DEF Spec, ImplementsQueue, Queue!QueueSpec
=============================================================================
