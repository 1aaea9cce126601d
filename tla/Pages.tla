-------------------------------- MODULE Pages --------------------------------
(***************************************************************************)
(* The dashboards: pages that show what the routes answer out of a query   *)
(* cache, and whose buttons call the routes that change it.                *)
(*                                                                         *)
(* The model follows one row of one kind (an order, a profile, a webhook)  *)
(* through one browser: the row as the database has it, the cache entries  *)
(* that show it, the page that is open, and the calls its buttons made.    *)
(* Other people write to the row at any time.  A row has a status and a    *)
(* version that counts the writes.                                         *)
(***************************************************************************)
EXTENDS QueryCache, FiniteSets

CONSTANTS
    Calls,   \* calls of the routes by a button
    Scopes   \* what to follow: a kind of row, the keys that show it, the calls
             \* that may be at work at once and, as a bound, the writes to the row

VARIABLES
    scope,  \* what is followed
    row,    \* the row: its status and version
    query,  \* query[k]: the cache entry of key k
    page,   \* the page that is open
    call,   \* call[c]: a mutation
    own     \* history: own[k] is the version of the last write of this browser
            \* that was answered well and that key k is to show

vars == <<scope, row, query, page, call, own>>

-----------------------------------------------------------------------------
(***************************************************************************)
(* The rows: their statuses, the keys that show them, and what other       *)
(* people and the workers do to them                                       *)
(***************************************************************************)
kind == scope.kind
MaxVer == scope.writes
keys == scope.keys

Kinds == {"client_order", "craftsman_order", "profile", "craftsman", "complaint",
          "my_complaint", "review", "webhook", "notification", "location"}

OrderStatuses == {"none", "pending", "accepted", "in_progress", "rejected", "completed", "cancelled"}
ComplaintStatuses == {"none", "pending", "investigating", "resolved", "dismissed"}

\* The row of a review is its order, as far as reviewing it goes.
StatusesOf ==
    [client_order |-> OrderStatuses, craftsman_order |-> OrderStatuses,
     profile |-> {"none", "busy", "available"},
     craftsman |-> {"pending", "approved", "rejected", "frozen"},
     complaint |-> ComplaintStatuses, my_complaint |-> ComplaintStatuses,
     review |-> {"open", "completed", "reviewed"}, webhook |-> {"none", "active", "inactive"},
     notification |-> {"none", "unread", "read"}, location |-> {"none", "saved"}]

\* The keys whose data a route answers.
OrdersOfClient == {<<"client-orders">>, <<"client-orders-all">>}
OrdersOfCraftsman == {<<"craftsman-orders">>, <<"craftsman-orders-page">>}
MyProfile == {<<"craftsman-me">>, <<"craftsman-profile">>}
CraftsmenList == {<<"admin-craftsmen">>, <<"admin-craftsmen", "tab">>}
PendingList == {<<"admin-pending">>}
ComplaintsList == {<<"admin-complaints">>}
Stats == {<<"admin-stats">>}
MyComplaints == {<<"my-complaints">>}
MyReviews == {<<"my-reviews">>, <<"reviewed-order-ids">>}
ReviewsOfCraftsman == {<<"craftsman-reviews", "id">>}
Webhooks == {<<"admin-webhooks">>}
Notifications == {<<"notifications">>}
MyLocation == {<<"my-location", "id">>}

KeysOf ==
    [client_order |-> OrdersOfClient, craftsman_order |-> OrdersOfCraftsman,
     profile |-> MyProfile, craftsman |-> CraftsmenList \cup PendingList,
     complaint |-> ComplaintsList \cup Stats, my_complaint |-> MyComplaints,
     review |-> MyReviews \cup ReviewsOfCraftsman \cup {<<"client-orders-all">>},
     webhook |-> Webhooks,
     notification |-> Notifications, location |-> MyLocation]

\* A scope follows keys that show its row.
ASSUME PagesAssumption ==
    \A s \in Scopes : /\ s.kind \in Kinds /\ s.keys \subseteq KeysOf[s.kind]
                      /\ s.calls \subseteq Calls /\ s.writes \in Nat

\* What somebody else may make of the row, by its status.
OrderMoves == {<<"none", "pending">>, <<"pending", "accepted">>, <<"pending", "rejected">>,
               <<"pending", "cancelled">>, <<"accepted", "completed">>}
ComplaintMoves == {<<"none", "pending">>, <<"pending", "investigating">>,
                   <<"pending", "resolved">>, <<"investigating", "dismissed">>}
MovesOf ==
    [client_order |-> OrderMoves, craftsman_order |-> OrderMoves,
     profile |-> {<<"busy", "busy">>, <<"available", "available">>},
     craftsman |-> {<<"pending", "approved">>, <<"pending", "rejected">>,
                    <<"approved", "frozen">>, <<"frozen", "pending">>},
     complaint |-> ComplaintMoves, my_complaint |-> ComplaintMoves,
     review |-> {<<"open", "completed">>, <<"completed", "reviewed">>},
     webhook |-> {<<"none", "active">>, <<"active", "inactive">>, <<"inactive", "none">>},
     notification |-> {<<"none", "unread">>, <<"read", "unread">>},
     location |-> {<<"none", "saved">>, <<"saved", "saved">>}]

\* What the route behind key k shows of a row with status s: some list the rows
\* of one status only, a list of reviews leaves out what has none, and a list of
\* orders does not tell whether they are reviewed.
Shown(k, s) ==
    IF \/ k \in PendingList \cup Stats /\ s # "pending"
       \/ k \in MyReviews \cup ReviewsOfCraftsman /\ s # "reviewed"
      THEN "none"
      ELSE IF k \in OrdersOfClient /\ s = "reviewed" THEN "completed" ELSE s

Answer(k) == Datum(Shown(k, row.status), row.ver, "answer")
Failed == Datum("none", 0, "error")

-----------------------------------------------------------------------------
(***************************************************************************)
(* The routes the buttons call: the statuses a route takes (on the others  *)
(* it refuses, or throws before it writes), those it writes to (it leaves  *)
(* the others as they are and still answers well), and the status it       *)
(* writes                                                                  *)
(***************************************************************************)
EveryStatus == UNION {StatusesOf[s] : s \in Kinds}
Route(takes, writes, to) == [takes |-> takes, writes |-> writes, to |-> to]

\* The route looks among the ids of profiles for the user's id that both forms
\* send, and finds nothing.
CreateOrder == Route({}, {}, "pending")
AcceptOrder == Route({"pending"}, {"pending"}, "accepted")
RejectOrder == Route({"pending"}, {"pending"}, "rejected")

\* Variant of the route that completes an order only when work has started.
CompleteOrder_Started == Route({"in_progress"}, {"in_progress"}, "completed")
CompleteOrder == Route({"accepted", "in_progress"}, {"accepted", "in_progress"}, "completed")

Onboard == Route({"none"}, {"none"}, "busy")

\* The route passes the profile's id to updateProfile, which looks among the
\* users' ids, finds nothing, and throws.
ShowAvailable == Route({}, {}, "available")
ShowBusy == Route({}, {}, "busy")

\* The administrators' routes look at no status.
Approve == Route(EveryStatus, EveryStatus, "approved")
Reject == Route(EveryStatus, EveryStatus, "rejected")
Freeze == Route(EveryStatus, EveryStatus, "frozen")
Ban == Route(EveryStatus, EveryStatus, "rejected")

\* Variant of the route that gives the lifted craftsman a status there is not.
Unfreeze_Active == Route(EveryStatus, EveryStatus, "active")
Unfreeze == Route(EveryStatus, EveryStatus, "pending")
ResolveComplaint == Route(EveryStatus, EveryStatus, "resolved")

FileComplaint == Route(EveryStatus, {"none"}, "pending")
GiveReview == Route({"completed"}, {"completed"}, "reviewed")

CreateWebhook == Route(EveryStatus, {"none"}, "active")
WebhookOn == Route(EveryStatus, {"active", "inactive"}, "active")
WebhookOff == Route(EveryStatus, {"active", "inactive"}, "inactive")
DeleteWebhook == Route(EveryStatus, {"active", "inactive"}, "none")

MarkAllRead == Route(EveryStatus, {"unread", "read"}, "read")
SaveLocation == Route(EveryStatus, EveryStatus, "saved")

-----------------------------------------------------------------------------
(***************************************************************************)
(* The pages: the keys a page shows and the buttons it has.  A button is   *)
(* offered while key `via` shows one of the statuses `on` and key `by`     *)
(* none of the statuses `off`; `blank` says that it is there before        *)
(* anything is shown, `waits` that it is disabled while the last call of   *)
(* its mutation is out, `checks` that its mutation looks at res.ok, and    *)
(* `next` where a success sends the browser.                               *)
(***************************************************************************)
Button(calls, mutation, via, on, invalidates) ==
    [calls |-> calls, mutation |-> mutation, via |-> via, on |-> on, by |-> via, off |-> {},
     invalidates |-> invalidates, blank |-> FALSE, waits |-> TRUE, checks |-> TRUE,
     next |-> "stay"]
Page(shows, buttons) == [shows |-> shows, buttons |-> buttons]

Away == Page({}, {})

ClientDashboard == Page({<<"client-orders">>}, {})

OrderForm ==
    [Button(CreateOrder, "order", <<"client-orders">>, EveryStatus, {<<"client-orders">>})
        EXCEPT !.blank = TRUE, !.next = "client_orders"]
NewOrder == Page({}, {OrderForm})
CraftsmanDetail == Page({<<"craftsman-reviews", "id">>}, {OrderForm})

ComplaintDialog ==
    [Button(FileComplaint, "complaint", <<"my-complaints">>, EveryStatus, {<<"my-complaints">>})
        EXCEPT !.blank = TRUE]

\* Variant of the dialog that forgets one of the two lists of reviews.
ReviewDialog_OneList ==
    [Button(GiveReview, "review", <<"client-orders-all">>, {"completed"}, {<<"my-reviews">>})
        EXCEPT !.by = <<"reviewed-order-ids">>, !.off = {"reviewed"}, !.waits = FALSE]
ReviewDialog ==
    [Button(GiveReview, "review", <<"client-orders-all">>, {"completed"},
            {<<"my-reviews">>, <<"reviewed-order-ids">>})
        EXCEPT !.by = <<"reviewed-order-ids">>, !.off = {"reviewed"}, !.waits = FALSE]
ClientOrders ==
    Page({<<"client-orders-all">>, <<"reviewed-order-ids">>}, {ComplaintDialog, ReviewDialog})

ClientComplaints == Page({<<"my-complaints">>}, {})
ClientReviews == Page({<<"my-reviews">>}, {})

ClientNotifications ==
    Page({<<"notifications">>},
         {[Button(MarkAllRead, "read", <<"notifications">>, {"unread"}, {<<"notifications">>})
            EXCEPT !.checks = FALSE]})

AvailabilityToggle(calls, on) ==
    [Button(calls, "toggle", <<"craftsman-me">>, on, {<<"craftsman-me">>})
        EXCEPT !.waits = FALSE]
CraftsmanDashboard ==
    Page({<<"craftsman-me">>, <<"craftsman-orders">>},
         {AvailabilityToggle(ShowAvailable, {"busy"}), AvailabilityToggle(ShowBusy, {"available"})})

CraftsmanOrders ==
    LET Act(calls, on) ==
            Button(calls, "order", <<"craftsman-orders-page">>, on, {<<"craftsman-orders-page">>}) IN
    Page({<<"craftsman-orders-page">>},
         {Act(AcceptOrder, {"pending"}), Act(RejectOrder, {"pending"}),
          Act(CompleteOrder, {"accepted", "in_progress"})})

OnboardingForm ==
    Button(Onboard, "save", <<"craftsman-profile">>, {"none"},
           {<<"craftsman-profile">>, <<"craftsman-me">>})
CraftsmanProfile ==
    Page({<<"craftsman-profile">>}, {[OnboardingForm EXCEPT !.next = "craftsman_dashboard"]})
CraftsmanOnboarding == Page({<<"craftsman-profile">>}, {OnboardingForm})

CraftsmanLocation ==
    Page({<<"my-location", "id">>},
         {Button(SaveLocation, "save", <<"my-location", "id">>, EveryStatus, {<<"my-location", "id">>})})

AdminDashboard == Page({<<"admin-pending">>, <<"admin-stats">>}, {})

Moderate(calls, via, on) == Button(calls, "act", via, on, {<<"admin-craftsmen">>})
AdminCraftsmen ==
    LET via == <<"admin-craftsmen", "tab">> IN
    Page({via},
         {Moderate(Approve, via, {"pending"}), Moderate(Reject, via, {"pending"}),
          Moderate(Freeze, via, {"approved"}), Moderate(Ban, via, {"approved"}),
          Moderate(Unfreeze, via, {"frozen"})})
AdminCraftsman ==
    LET via == <<"admin-craftsmen">> IN
    Page({via},
         {Moderate(Approve, via, {"pending", "rejected"}), Moderate(Reject, via, {"pending"}),
          Moderate(Freeze, via, {"approved"}), Moderate(Ban, via, {"approved"}),
          Moderate(Unfreeze, via, {"frozen"})})

AdminComplaints ==
    Page({<<"admin-complaints">>},
         {Button(ResolveComplaint, "act", <<"admin-complaints">>,
                 {"pending", "investigating"}, {<<"admin-complaints">>})})

AdminWebhooks ==
    LET Edit(calls, mutation, on) ==
            Button(calls, mutation, <<"admin-webhooks">>, on, {<<"admin-webhooks">>}) IN
    Page({<<"admin-webhooks">>},
         {[Edit(CreateWebhook, "create", EveryStatus) EXCEPT !.blank = TRUE],
          Edit(WebhookOn, "toggle", {"inactive"}), Edit(WebhookOff, "toggle", {"active"}),
          Edit(DeleteWebhook, "delete", {"active", "inactive"})})

PageOf ==
    [away |-> Away, client_dashboard |-> ClientDashboard, new_order |-> NewOrder,
     craftsman_detail |-> CraftsmanDetail, client_orders |-> ClientOrders,
     client_complaints |-> ClientComplaints, client_reviews |-> ClientReviews,
     client_notifications |-> ClientNotifications,
     craftsman_dashboard |-> CraftsmanDashboard, craftsman_orders |-> CraftsmanOrders,
     craftsman_profile |-> CraftsmanProfile, craftsman_onboarding |-> CraftsmanOnboarding,
     craftsman_location |-> CraftsmanLocation, admin_dashboard |-> AdminDashboard,
     admin_craftsmen |-> AdminCraftsmen, admin_craftsman |-> AdminCraftsman,
     admin_complaints |-> AdminComplaints, admin_webhooks |-> AdminWebhooks]

\* The pages that show or change the row, and no page at all.
Near == {p \in DOMAIN PageOf : \/ p = "away"
                               \/ PageOf[p].shows \cap keys # {}
                               \/ \E b \in PageOf[p].buttons : b.via \in keys}
Mounted(p, k) == k \in PageOf[p].shows

-----------------------------------------------------------------------------
(***************************************************************************)
(* The browser                                                             *)
(***************************************************************************)
Unseen == [via |-> Nothing, by |-> Nothing]
NoCall == [pc |-> "idle", button |-> OrderForm, seen |-> Unseen, live |-> FALSE,
           code |-> "none", ver |-> 0]

Init ==
    /\ scope \in Scopes
    /\ \E s \in StatusesOf[kind] : row = [status |-> s, ver |-> 0]
    /\ query = [k \in keys |-> Empty]
    /\ page = "away"
    /\ call = [c \in Calls |-> NoCall]
    /\ own = [k \in keys |-> 0]

Opened(q, p) == [k \in keys |-> IF Mounted(p, k) THEN Mount(q[k]) ELSE q[k]]

\* A page is opened, or left.  Its mutations go on, no longer watched.
Visit(p) ==
    /\ p \in Near \ {page}
    /\ page' = p
    /\ query' = Opened(query, p)
    /\ call' = [c \in Calls |-> [call[c] EXCEPT !.live = FALSE]]
    /\ UNCHANGED <<scope, row, own>>

\* refetchOnReconnect: the stale queries of the page are fetched again.
Reconnect ==
    /\ query' = Opened(query, page)
    /\ query' # query
    /\ UNCHANGED <<scope, row, page, call, own>>

\* refetchInterval of the waiting screen.
Poll(k) ==
    /\ page = "craftsman_onboarding" /\ Mounted(page, k)
    /\ query[k].data.status # "none" /\ query[k].fetch = Idle
    /\ query' = [query EXCEPT ![k].fetch = Sent]
    /\ UNCHANGED <<scope, row, page, call, own>>

\* A route reads the row for a fetch, or fails; a fetcher makes that an empty list.
Read(k) ==
    /\ query[k].fetch.pc = "sent"
    /\ \E got \in {Answer(k), Failed} :
        query' = [query EXCEPT ![k].fetch = [pc |-> "read", got |-> got]]
    /\ UNCHANGED <<scope, row, page, call, own>>

Arrive(k) ==
    /\ query[k].fetch.pc = "read"
    /\ query' = [query EXCEPT ![k] = Settled(query[k])]
    /\ UNCHANGED <<scope, row, page, call, own>>

\* The network fails, and the retries with it: what was shown stays.
Break(k) ==
    /\ query[k].fetch # Idle
    /\ query' = [query EXCEPT ![k].fetch = Idle]
    /\ UNCHANGED <<scope, row, page, call, own>>

\* staleTime is over.
Age(k) ==
    /\ query[k].data # Nothing /\ ~query[k].stale
    /\ query' = [query EXCEPT ![k].stale = TRUE]
    /\ UNCHANGED <<scope, row, page, call, own>>

\* gcTime is over for an entry no page shows.
Collect(k) ==
    /\ ~Mounted(page, k) /\ query[k].fetch = Idle /\ query[k].data # Nothing
    /\ query' = [query EXCEPT ![k] = Empty]
    /\ UNCHANGED <<scope, row, page, call, own>>

Offered(b) ==
    LET e == query[b.via] IN
    /\ b \in PageOf[page].buttons /\ b.via \in keys /\ b.by \in keys
    /\ IF e.data = Nothing THEN b.blank ELSE e.data.status \in b.on
    /\ query[b.by].data.status \notin b.off
    /\ b.waits => \A c \in Calls : ~(/\ call[c].live /\ call[c].pc # "idle"
                                     /\ call[c].button.mutation = b.mutation)

Press(c, b) ==
    /\ c \in scope.calls /\ call[c].pc = "idle"
    /\ Offered(b)
    /\ call' = [call EXCEPT ![c] =
                    [pc |-> "sent", button |-> b, live |-> TRUE, code |-> "none", ver |-> 0,
                      seen |-> [via |-> query[b.via].data, by |-> query[b.by].data]]]
    /\ UNCHANGED <<scope, row, query, page, own>>

\* The route serves the call, or fails before it writes.  Of a write that is
\* done the browser may still hear a failure, or nothing.
Serve(c) ==
    LET r == call[c].button.calls
        Answered(code, v) ==
            call' = [call EXCEPT ![c].pc = "answered", ![c].code = code, ![c].ver = v,
                                 ![c].seen = IF code = "refused" THEN @ ELSE Unseen] IN
    /\ call[c].pc = "sent"
    /\ \/ Answered("failed", 0) /\ UNCHANGED row
       \/ row.status \notin r.takes /\ Answered("refused", row.ver) /\ UNCHANGED row
       \/ row.status \in r.takes \ r.writes /\ Answered("ok", row.ver) /\ UNCHANGED row
       \/ /\ row.status \in r.takes \cap r.writes
          /\ row.ver < MaxVer
          /\ row' = [status |-> r.to, ver |-> row.ver + 1]
          /\ Answered("ok", row.ver + 1) \/ Answered("failed", 0)
    /\ UNCHANGED <<scope, query, page, own>>

\* onSuccess, or an error on the page.
Settle(c) ==
    LET b == call[c].button
        success == call[c].code = "ok" \/ ~b.checks
        dropped == [k \in keys |-> IF success /\ Matches(b.invalidates, k)
                                     THEN Invalidate(query[k], Mounted(page, k))
                                     ELSE query[k]]
        moves == success /\ b.next \in Near \ {page} IN
    /\ call[c].pc = "answered"
    /\ page' = IF moves THEN b.next ELSE page
    /\ query' = IF moves THEN Opened(dropped, b.next) ELSE dropped
    /\ call' = [d \in Calls |-> IF d = c THEN NoCall
                                ELSE [call[d] EXCEPT !.live = @ /\ ~moves]]
    /\ own' = [k \in keys |-> IF call[c].code = "ok" /\ call[c].ver > own[k]
                                THEN call[c].ver ELSE own[k]]
    /\ UNCHANGED <<scope, row>>

\* Somebody else writes to the row.
Others ==
    /\ row.ver < MaxVer
    /\ \E m \in MovesOf[kind] :
        m[1] = row.status /\ row' = [status |-> m[2], ver |-> row.ver + 1]
    /\ UNCHANGED <<scope, query, page, call, own>>

Fetches(k) == Poll(k) \/ Read(k) \/ Arrive(k) \/ Break(k) \/ Age(k) \/ Collect(k)

Next ==
    \/ \E p \in Near : Visit(p)
    \/ Reconnect
    \/ \E k \in keys : Fetches(k)
    \/ \E c \in Calls : \/ \E b \in PageOf[page].buttons : Press(c, b)
                        \/ Serve(c) \/ Settle(c)
    \/ Others

Spec == Init /\ [][Next]_vars

-----------------------------------------------------------------------------
(***************************************************************************)
(* Properties                                                              *)
(***************************************************************************)
Froms == {"nothing", "answer", "error", "overtaken"}

\* The row is always in a status its table has, whatever the buttons and the
\* others make of it, and the entries and calls are of their shapes.
TypeOK ==
    /\ kind \in Kinds /\ keys \subseteq KeysOf[kind]
    /\ row \in [status : StatusesOf[kind], ver : 0..MaxVer]
    /\ page \in Near
    /\ LET Data == [status : StatusesOf[kind] \cup {"none"}, ver : 0..MaxVer, from : Froms] IN
       /\ query \in [keys -> [data : Data, stale : BOOLEAN,
                              fetch : [pc : {"none", "sent", "read"}, got : Data]]]
       /\ \A c \in Calls : /\ call[c].pc \in {"idle", "sent", "answered"}
                           /\ call[c].code \in {"none", "ok", "refused", "failed"}
                           /\ call[c].seen \in [via : Data, by : Data] /\ call[c].ver \in 0..MaxVer
    /\ own \in [keys -> 0..MaxVer]

\* The cache takes what it has under key k for fresh.
Fresh(k) == query[k].data # Nothing /\ ~query[k].stale /\ query[k].fetch = Idle

\* The keys that show a row whose mutations never name them.
LeftBehind == {<<"client-orders-all">>, <<"craftsman-orders">>, <<"craftsman-profile">>,
               <<"admin-pending">>, <<"admin-stats">>, <<"craftsman-reviews", "id">>}

\* Who has changed something with a button, was told so, and yet is shown an older
\* state that the cache takes for fresh, is shown it for one of three reasons: no
\* mutation names the key; the route read the row before the key was invalidated
\* and its answer came in afterwards, since a first fetch and one that nobody
\* watches are not started over; or the fetch failed and was made an empty list.
\* Whatever was in flight, and on whichever page the mutation's answer finds the
\* browser, there is no fourth.
OldViewsHaveACause ==
    \A k \in keys :
        Fresh(k) /\ query[k].data.ver < own[k] =>
            k \in LeftBehind \/ query[k].data.from \in {"overtaken", "error"}

\* The project's caching document has each mutation invalidate all queries: of a
\* change the browser was told of, no key goes on showing the state before it but
\* for an answer that was already on its way, or failed.
WritesReachEveryView ==
    \A k \in keys :
        Fresh(k) /\ query[k].data.from = "answer" => query[k].data.ver >= own[k]

\* The routes that refuse every call, whatever the row is.
DeadRoutes == {CreateOrder, ShowAvailable, ShowBusy}

\* But for the routes that refuse every call, a route refuses a button's call only
\* when the page acted on what it could not know: of the one or two keys it went
\* by, one showed a state the row has left since, or nothing, or what came of an
\* error or was overtaken.  The conditions on the pages' buttons imply the guards
\* of the routes.
RefusalsHaveACause ==
    \A c \in Calls :
        call[c].code = "refused" =>
            \/ call[c].button.calls \in DeadRoutes
            \/ \E d \in {call[c].seen.via, call[c].seen.by} :
                  d.from # "answer" \/ d.ver < call[c].ver
=============================================================================
