----------------------------- MODULE PagesProofs -----------------------------
(***************************************************************************)
(* Proofs about Pages.  Three things carry them: what every button of      *)
(* every page has in common, whatever row it is for; what a cache entry is *)
(* allowed to show, which the operators of QueryCache preserve; and what a *)
(* call remembers of the answer its button was offered on.                 *)
(***************************************************************************)
EXTENDS Pages, TLAPS

-----------------------------------------------------------------------------
(***************************************************************************)
(* The inductive invariant                                                 *)
(***************************************************************************)

\* The data, entries and rows of scope s, in terms that no step changes.
DataOf(s) == [status : StatusesOf[s.kind] \cup {"none"}, ver : 0..s.writes, from : Froms]
FetchesOf(s) == [pc : {"none", "sent", "read"}, got : DataOf(s)]
EntriesOf(s) == [data : DataOf(s), stale : BOOLEAN, fetch : FetchesOf(s)]
RowsOf(s) == [status : StatusesOf[s.kind], ver : 0..s.writes]

\* The keys that may show something else than the row's status.
Filtered == PendingList \cup Stats \cup MyReviews \cup ReviewsOfCraftsman \cup OrdersOfClient

\* Datum d, under key k, is of a state that row r has been in.
Seen(d, k, r) ==
    /\ d.ver <= r.ver
    /\ d.from = "answer" /\ d.ver = r.ver => d.status = Shown(k, r.status)
    /\ d.from = "nothing" => d = Nothing

\* What an entry for key k shows or will show as fresh is no older than version v.
NoOlder(e, v) ==
    /\ ~e.stale /\ e.data.from = "answer" => e.data.ver >= v
    /\ e.fetch.pc = "read" /\ e.fetch.got.from = "answer" => e.fetch.got.ver >= v

\* Entry e is right for key k when the row is r and version v was written here.
Sound(e, k, r, v) ==
    /\ Seen(e.data, k, r) /\ Seen(e.fetch.got, k, r)
    /\ k \notin LeftBehind => NoOlder(e, v)

\* The buttons of all pages.
Buttons == UNION {PageOf[p].buttons : p \in DOMAIN PageOf}

CallsOf(s) ==
    [pc : {"idle", "sent", "answered"}, button : Buttons, seen : [via : DataOf(s), by : DataOf(s)],
     live : BOOLEAN, code : {"none", "ok", "refused", "failed"}, ver : 0..s.writes]

\* Datum d is an answer that tells the row as it is.
UpToDate(d, r) == d.from = "answer" /\ d.ver = r.ver

\* What a call that is out or answered remembers, when the row is r.
Remembers(m, r) ==
    /\ m.ver <= r.ver /\ m.seen.via.ver <= r.ver /\ m.seen.by.ver <= r.ver
    /\ m.pc \in {"sent", "answered"} => m.button.via \in keys /\ m.button.by \in keys
    /\ m.pc # "answered" => m.code = "none"
    /\ m.pc = "sent" /\ m.button.calls \notin DeadRoutes
          /\ UpToDate(m.seen.via, r) /\ UpToDate(m.seen.by, r) =>
          r.status \in m.button.calls.takes
    /\ m.code = "refused" => \/ m.button.calls \in DeadRoutes
                             \/ \E d \in {m.seen.via, m.seen.by} :
                                  d.from # "answer" \/ d.ver < m.ver

\* The shapes of the variables.
Shapes ==
    /\ scope \in Scopes
    /\ row \in RowsOf(scope)
    /\ page \in Near
    /\ query \in [keys -> EntriesOf(scope)]
    /\ call \in [Calls -> CallsOf(scope)]
    /\ own \in [keys -> 0..MaxVer]

IInv ==
    /\ Shapes
    /\ \A k \in keys : own[k] <= row.ver /\ Sound(query[k], k, row, own[k])
    /\ \A c \in Calls : Remembers(call[c], row)

-----------------------------------------------------------------------------
(***************************************************************************)
(* Keys, statuses and buttons                                              *)
(***************************************************************************)

LEMMA PrefixSelf == \A x : IsPrefix(<<x>>, <<x>>)
  BY DEF IsPrefix

LEMMA PrefixOne == \A x, y : IsPrefix(<<x>>, <<x, y>>)
  BY DEF IsPrefix

LEMMA PrefixTwo == \A x, y : IsPrefix(<<x, y>>, <<x, y>>)
  BY DEF IsPrefix

\* A key shows rows of one kind, but for the list of a client's orders, which
\* shows what can be reviewed as well.
KindOf(k) ==
    CASE k[1] = "client-orders" -> "client_order"
      [] k[1] \in {"craftsman-orders", "craftsman-orders-page"} -> "craftsman_order"
      [] k[1] \in {"craftsman-me", "craftsman-profile"} -> "profile"
      [] k[1] \in {"admin-craftsmen", "admin-pending"} -> "craftsman"
      [] k[1] \in {"admin-complaints", "admin-stats"} -> "complaint"
      [] k[1] = "my-complaints" -> "my_complaint"
      [] k[1] \in {"my-reviews", "reviewed-order-ids", "craftsman-reviews"} -> "review"
      [] k[1] = "admin-webhooks" -> "webhook"
      [] k[1] = "notifications" -> "notification"
      [] k[1] = "my-location" -> "location"

LEMMA KeyHasOneKind ==
    ASSUME NEW s \in Kinds, NEW k \in KeysOf[s], k # <<"client-orders-all">>
    PROVE  s = KindOf(k)
  <1>1. CASE s = "client_order"
    BY <1>1 DEF KeysOf, OrdersOfClient, KindOf
  <1>2. CASE s = "craftsman_order"
    BY <1>2 DEF KeysOf, OrdersOfCraftsman, KindOf
  <1>3. CASE s = "profile"
    BY <1>3 DEF KeysOf, MyProfile, KindOf
  <1>4. CASE s = "craftsman"
    BY <1>4 DEF KeysOf, CraftsmenList, PendingList, KindOf
  <1>5. CASE s = "complaint"
    BY <1>5 DEF KeysOf, ComplaintsList, Stats, KindOf
  <1>6. CASE s = "my_complaint"
    BY <1>6 DEF KeysOf, MyComplaints, KindOf
  <1>7. CASE s = "review"
    BY <1>7 DEF KeysOf, MyReviews, ReviewsOfCraftsman, KindOf
  <1>8. CASE s = "webhook"
    BY <1>8 DEF KeysOf, Webhooks, KindOf
  <1>9. CASE s = "notification"
    BY <1>9 DEF KeysOf, Notifications, KindOf
  <1>10. CASE s = "location"
    BY <1>10 DEF KeysOf, MyLocation, KindOf
  <1> QED
    BY <1>1, <1>2, <1>3, <1>4, <1>5, <1>6, <1>7, <1>8, <1>9, <1>10 DEF Kinds

\* What somebody else makes of a row is a status of its table.
LEMMA MovesStay ==
    ASSUME NEW s \in Kinds, NEW m \in MovesOf[s]
    PROVE  m[2] \in StatusesOf[s]
  <1>1. CASE s \in {"client_order", "craftsman_order"}
    BY <1>1 DEF MovesOf, StatusesOf, OrderMoves, OrderStatuses
  <1>2. CASE s \in {"complaint", "my_complaint"}
    BY <1>2 DEF MovesOf, StatusesOf, ComplaintMoves, ComplaintStatuses
  <1>3. CASE s = "profile"
    BY <1>3 DEF MovesOf, StatusesOf
  <1>4. CASE s = "craftsman"
    BY <1>4 DEF MovesOf, StatusesOf
  <1>5. CASE s = "review"
    BY <1>5 DEF MovesOf, StatusesOf
  <1>6. CASE s = "webhook"
    BY <1>6 DEF MovesOf, StatusesOf
  <1>7. CASE s = "notification"
    BY <1>7 DEF MovesOf, StatusesOf
  <1>8. CASE s = "location"
    BY <1>8 DEF MovesOf, StatusesOf
  <1> QED
    BY <1>1, <1>2, <1>3, <1>4, <1>5, <1>6, <1>7, <1>8 DEF Kinds

\* What a button is offered on implies what its route takes, if it takes anything;
\* its route writes a status of the row's table; and its mutation names every key
\* of the row but those that are left behind.
Agrees(b) ==
    /\ b.calls \notin DeadRoutes =>
          \A s \in EveryStatus :
              Shown(b.via, s) \in b.on /\ Shown(b.by, s) \notin b.off => s \in b.calls.takes
    /\ b.next \in DOMAIN PageOf \cup {"stay"}
    /\ b.waits \in BOOLEAN /\ b.checks \in BOOLEAN
    /\ \A s \in Kinds : b.via \in KeysOf[s] /\ b.by \in KeysOf[s] =>
          /\ b.calls.to \in StatusesOf[s]
          /\ \A k \in KeysOf[s] \ LeftBehind : Matches(b.invalidates, k)

LEMMA ShownAsIs ==
    ASSUME NEW k, k \notin Filtered, NEW s
    PROVE  Shown(k, s) = s
  BY DEF Shown, Filtered

\* The facts of a button that goes by one key, for the kind of that key.
LEMMA AgreesIf ==
    ASSUME NEW b, NEW s0 \in Kinds, KindOf(b.via) = s0, b.by = b.via, b.off = {},
           b.via # <<"client-orders-all">>,
           b.calls \in DeadRoutes \/ (b.on \subseteq b.calls.takes /\ b.via \notin Filtered),
           b.next \in DOMAIN PageOf \cup {"stay"},
           b.waits \in BOOLEAN, b.checks \in BOOLEAN,
           b.calls.to \in StatusesOf[s0],
           \A k \in KeysOf[s0] \ LeftBehind : Matches(b.invalidates, k)
    PROVE  Agrees(b)
  BY KeyHasOneKind, ShownAsIs DEF Agrees

LEMMA OrderFormAgrees == Agrees(OrderForm)
  <1> DEFINE b == OrderForm
  <1>1. /\ b.calls \in DeadRoutes /\ b.calls.to = "pending" /\ b.by = b.via /\ b.off = {}
        /\ b.via = <<"client-orders">> /\ b.invalidates = {<<"client-orders">>}
        /\ b.next = "client_orders" /\ b.waits = TRUE /\ b.checks = TRUE
    BY DEF OrderForm, Button, CreateOrder, Route, DeadRoutes
  <1> HIDE DEF b
  <1>2. KindOf(b.via) = "client_order" /\ b.via # <<"client-orders-all">>
    BY <1>1 DEF KindOf
  <1>3. b.calls.to \in StatusesOf["client_order"]
    BY <1>1 DEF StatusesOf, OrderStatuses
  <1>4. \A k \in KeysOf["client_order"] \ LeftBehind : Matches(b.invalidates, k)
    BY <1>1, PrefixSelf DEF KeysOf, OrdersOfClient, LeftBehind, Matches
  <1>5. b.next \in DOMAIN PageOf \cup {"stay"}
    BY <1>1 DEF PageOf
  <1> QED
    BY <1>1, <1>2, <1>3, <1>4, <1>5, AgreesIf DEF Kinds, b

LEMMA ClientOrdersComplaint ==
    ASSUME NEW b, b = ComplaintDialog
    PROVE  Agrees(b)
  <1>1. /\ b.on \subseteq b.calls.takes /\ b.calls.to \in {"pending"}
        /\ b.via = <<"my-complaints">> /\ b.invalidates = {<<"my-complaints">>}
        /\ b.next = "stay" /\ b.waits \in BOOLEAN /\ b.checks \in BOOLEAN
        /\ b.by = b.via /\ b.off = {}
    BY DEF ComplaintDialog, Button, FileComplaint, Route
  <1>2. KindOf(b.via) = "my_complaint" /\ b.via \notin Filtered
        /\ b.via # <<"client-orders-all">>
    BY <1>1 DEF KindOf, Filtered, PendingList, Stats, MyReviews, ReviewsOfCraftsman, OrdersOfClient
  <1>3. b.calls.to \in StatusesOf["my_complaint"]
    BY <1>1 DEF StatusesOf, ComplaintStatuses
  <1>4. \A k \in KeysOf["my_complaint"] \ LeftBehind : Matches(b.invalidates, k)
    BY <1>1, PrefixSelf DEF KeysOf, MyComplaints, LeftBehind, Matches
  <1>5. b.next \in DOMAIN PageOf \cup {"stay"}
    BY <1>1 DEF PageOf
  <1> QED
    BY <1>1, <1>2, <1>3, <1>4, <1>5, AgreesIf DEF Kinds

\* A review is offered by two keys, and only both together tell that it is taken.
LEMMA ClientOrdersReview ==
    ASSUME NEW b, b = ReviewDialog
    PROVE  Agrees(b)
  <1>1. /\ b.on = {"completed"} /\ b.off = {"reviewed"}
        /\ b.calls.takes = {"completed"} /\ b.calls.to = "reviewed"
        /\ b.via = <<"client-orders-all">> /\ b.by = <<"reviewed-order-ids">>
        /\ b.invalidates = {<<"my-reviews">>, <<"reviewed-order-ids">>}
        /\ b.next = "stay" /\ b.waits \in BOOLEAN /\ b.checks \in BOOLEAN
    BY DEF ReviewDialog, Button, GiveReview, Route
  <1>2. \A s \in EveryStatus :
            Shown(b.via, s) \in b.on /\ Shown(b.by, s) \notin b.off => s \in b.calls.takes
    BY <1>1 DEF Shown, PendingList, Stats, MyReviews, ReviewsOfCraftsman, OrdersOfClient
  <1>3. b.next \in DOMAIN PageOf \cup {"stay"}
    BY <1>1 DEF PageOf
  <1>4. \A s \in Kinds : b.by \in KeysOf[s] => s = "review"
    BY <1>1, KeyHasOneKind DEF KindOf
  <1>5. b.calls.to \in StatusesOf["review"]
    BY <1>1 DEF StatusesOf
  <1>6. \A k \in KeysOf["review"] \ LeftBehind : Matches(b.invalidates, k)
    BY <1>1, PrefixSelf DEF KeysOf, MyReviews, ReviewsOfCraftsman, LeftBehind, Matches
  <1> QED
    BY <1>1, <1>2, <1>3, <1>4, <1>5, <1>6 DEF Agrees

LEMMA NotificationsAgree ==
    ASSUME NEW b, b \in ClientNotifications.buttons
    PROVE  Agrees(b)
  <1>0. b = [Button(MarkAllRead, "read", <<"notifications">>, {"unread"}, {<<"notifications">>})
                 EXCEPT !.checks = FALSE]
    BY DEF ClientNotifications, Page
  <1>1. /\ b.on \subseteq b.calls.takes /\ b.calls.to \in {"read"}
        /\ b.via = <<"notifications">> /\ b.invalidates = {<<"notifications">>}
        /\ b.next = "stay" /\ b.waits \in BOOLEAN /\ b.checks \in BOOLEAN
        /\ b.by = b.via /\ b.off = {}
    BY <1>0 DEF Button, MarkAllRead, Route, EveryStatus, StatusesOf, Kinds
  <1>2. KindOf(b.via) = "notification" /\ b.via \notin Filtered
        /\ b.via # <<"client-orders-all">>
    BY <1>1 DEF KindOf, Filtered, PendingList, Stats, MyReviews, ReviewsOfCraftsman, OrdersOfClient
  <1>3. b.calls.to \in StatusesOf["notification"]
    BY <1>1 DEF StatusesOf
  <1>4. \A k \in KeysOf["notification"] \ LeftBehind : Matches(b.invalidates, k)
    BY <1>1, PrefixSelf DEF KeysOf, Notifications, LeftBehind, Matches
  <1>5. b.next \in DOMAIN PageOf \cup {"stay"}
    BY <1>1 DEF PageOf
  <1> QED
    BY <1>1, <1>2, <1>3, <1>4, <1>5, AgreesIf DEF Kinds

LEMMA DashboardAgrees ==
    ASSUME NEW b, b \in CraftsmanDashboard.buttons
    PROVE  Agrees(b)
  <1>0. \/ b = AvailabilityToggle(ShowAvailable, {"busy"})
        \/ b = AvailabilityToggle(ShowBusy, {"available"})
    BY DEF CraftsmanDashboard, Page
  <1>1. /\ b.calls \in DeadRoutes /\ b.calls.to \in {"busy", "available"}
        /\ b.via = <<"craftsman-me">> /\ b.invalidates = {<<"craftsman-me">>}
        /\ b.next = "stay" /\ b.waits \in BOOLEAN /\ b.checks \in BOOLEAN
        /\ b.by = b.via /\ b.off = {}
    <2>1. CASE b = AvailabilityToggle(ShowAvailable, {"busy"})
      BY <2>1 DEF AvailabilityToggle, Button, ShowAvailable, Route, DeadRoutes
    <2>2. CASE b = AvailabilityToggle(ShowBusy, {"available"})
      BY <2>2 DEF AvailabilityToggle, Button, ShowBusy, Route, DeadRoutes
    <2> QED
      BY <1>0, <2>1, <2>2
  <1>2. KindOf(b.via) = "profile" /\ b.via \notin Filtered
        /\ b.via # <<"client-orders-all">>
    BY <1>1 DEF KindOf, Filtered, PendingList, Stats, MyReviews, ReviewsOfCraftsman, OrdersOfClient
  <1>3. b.calls.to \in StatusesOf["profile"]
    BY <1>1 DEF StatusesOf
  <1>4. \A k \in KeysOf["profile"] \ LeftBehind : Matches(b.invalidates, k)
    BY <1>1, PrefixSelf DEF KeysOf, MyProfile, LeftBehind, Matches
  <1>5. b.next \in DOMAIN PageOf \cup {"stay"}
    BY <1>1 DEF PageOf
  <1> QED
    BY <1>1, <1>2, <1>3, <1>4, <1>5, AgreesIf DEF Kinds

LEMMA CraftsmanOrdersAgree ==
    ASSUME NEW b, b \in CraftsmanOrders.buttons
    PROVE  Agrees(b)
  <1> DEFINE Act(calls, on) == Button(calls, "order", <<"craftsman-orders-page">>, on,
                                      {<<"craftsman-orders-page">>})
  <1>0. \/ b = Act(AcceptOrder, {"pending"})
        \/ b = Act(RejectOrder, {"pending"})
        \/ b = Act(CompleteOrder, {"accepted", "in_progress"})
    BY DEF CraftsmanOrders, Page
  <1>1. /\ b.on \subseteq b.calls.takes /\ b.calls.to \in {"accepted", "rejected", "completed"}
        /\ b.via = <<"craftsman-orders-page">> /\ b.invalidates = {<<"craftsman-orders-page">>}
        /\ b.next = "stay" /\ b.waits \in BOOLEAN /\ b.checks \in BOOLEAN
        /\ b.by = b.via /\ b.off = {}
    <2>1. CASE b = Act(AcceptOrder, {"pending"})
      BY <2>1 DEF Button, AcceptOrder, Route
    <2>2. CASE b = Act(RejectOrder, {"pending"})
      BY <2>2 DEF Button, RejectOrder, Route
    <2>3. CASE b = Act(CompleteOrder, {"accepted", "in_progress"})
      BY <2>3 DEF Button, CompleteOrder, Route
    <2> QED
      BY <1>0, <2>1, <2>2, <2>3
  <1>2. KindOf(b.via) = "craftsman_order" /\ b.via \notin Filtered
        /\ b.via # <<"client-orders-all">>
    BY <1>1 DEF KindOf, Filtered, PendingList, Stats, MyReviews, ReviewsOfCraftsman, OrdersOfClient
  <1>3. b.calls.to \in StatusesOf["craftsman_order"]
    BY <1>1 DEF StatusesOf, OrderStatuses
  <1>4. \A k \in KeysOf["craftsman_order"] \ LeftBehind : Matches(b.invalidates, k)
    BY <1>1, PrefixSelf DEF KeysOf, OrdersOfCraftsman, LeftBehind, Matches
  <1>5. b.next \in DOMAIN PageOf \cup {"stay"}
    BY <1>1 DEF PageOf
  <1> QED
    BY <1>1, <1>2, <1>3, <1>4, <1>5, AgreesIf DEF Kinds

LEMMA OnboardingAgrees ==
    ASSUME NEW b, b \in CraftsmanProfile.buttons \cup CraftsmanOnboarding.buttons
    PROVE  Agrees(b)
  <1>0. \/ b = OnboardingForm
        \/ b = [OnboardingForm EXCEPT !.next = "craftsman_dashboard"]
    BY DEF CraftsmanProfile, CraftsmanOnboarding, Page
  <1>1. /\ b.on \subseteq b.calls.takes /\ b.calls.to \in {"busy"}
        /\ b.via = <<"craftsman-profile">> /\ b.invalidates = {<<"craftsman-profile">>, <<"craftsman-me">>}
        /\ b.next \in {"stay", "craftsman_dashboard"} /\ b.waits \in BOOLEAN /\ b.checks \in BOOLEAN
        /\ b.by = b.via /\ b.off = {}
    <2>1. CASE b = OnboardingForm
      BY <2>1 DEF OnboardingForm, Button, Onboard, Route
    <2>2. CASE b = [OnboardingForm EXCEPT !.next = "craftsman_dashboard"]
      BY <2>2 DEF OnboardingForm, Button, Onboard, Route
    <2> QED
      BY <1>0, <2>1, <2>2
  <1>2. KindOf(b.via) = "profile" /\ b.via \notin Filtered
        /\ b.via # <<"client-orders-all">>
    BY <1>1 DEF KindOf, Filtered, PendingList, Stats, MyReviews, ReviewsOfCraftsman, OrdersOfClient
  <1>3. b.calls.to \in StatusesOf["profile"]
    BY <1>1 DEF StatusesOf
  <1>4. \A k \in KeysOf["profile"] \ LeftBehind : Matches(b.invalidates, k)
    BY <1>1, PrefixSelf DEF KeysOf, MyProfile, LeftBehind, Matches
  <1>5. b.next \in DOMAIN PageOf \cup {"stay"}
    BY <1>1 DEF PageOf
  <1> QED
    BY <1>1, <1>2, <1>3, <1>4, <1>5, AgreesIf DEF Kinds

LEMMA LocationAgrees ==
    ASSUME NEW b, b \in CraftsmanLocation.buttons
    PROVE  Agrees(b)
  <1>0. b = Button(SaveLocation, "save", <<"my-location", "id">>, EveryStatus,
                   {<<"my-location", "id">>})
    BY DEF CraftsmanLocation, Page
  <1>1. /\ b.on \subseteq b.calls.takes /\ b.calls.to \in {"saved"}
        /\ b.via = <<"my-location", "id">> /\ b.invalidates = {<<"my-location", "id">>}
        /\ b.next = "stay" /\ b.waits \in BOOLEAN /\ b.checks \in BOOLEAN
        /\ b.by = b.via /\ b.off = {}
    BY <1>0 DEF Button, SaveLocation, Route
  <1>2. KindOf(b.via) = "location" /\ b.via \notin Filtered
        /\ b.via # <<"client-orders-all">>
    BY <1>1 DEF KindOf, Filtered, PendingList, Stats, MyReviews, ReviewsOfCraftsman, OrdersOfClient
  <1>3. b.calls.to \in StatusesOf["location"]
    BY <1>1 DEF StatusesOf
  <1>4. \A k \in KeysOf["location"] \ LeftBehind : Matches(b.invalidates, k)
    BY <1>1, PrefixTwo DEF KeysOf, MyLocation, LeftBehind, Matches
  <1>5. b.next \in DOMAIN PageOf \cup {"stay"}
    BY <1>1 DEF PageOf
  <1> QED
    BY <1>1, <1>2, <1>3, <1>4, <1>5, AgreesIf DEF Kinds

LEMMA ModerationAgrees ==
    ASSUME NEW b, b \in AdminCraftsmen.buttons \cup AdminCraftsman.buttons
    PROVE  Agrees(b)
  <1> DEFINE Lists == {<<"admin-craftsmen">>, <<"admin-craftsmen", "tab">>}
  <1>0. \/ \E v \in Lists : b = Moderate(Approve, v, {"pending"})
        \/ b = Moderate(Approve, <<"admin-craftsmen">>, {"pending", "rejected"})
        \/ \E v \in Lists : b = Moderate(Reject, v, {"pending"})
        \/ \E v \in Lists : b = Moderate(Freeze, v, {"approved"})
        \/ \E v \in Lists : b = Moderate(Ban, v, {"approved"})
        \/ \E v \in Lists : b = Moderate(Unfreeze, v, {"frozen"})
    BY DEF AdminCraftsmen, AdminCraftsman, Page
  <1>1. /\ b.on \subseteq b.calls.takes /\ b.calls.to \in StatusesOf["craftsman"]
        /\ b.via \in {<<"admin-craftsmen">>, <<"admin-craftsmen", "tab">>}
        /\ b.invalidates = {<<"admin-craftsmen">>}
        /\ b.next = "stay" /\ b.waits \in BOOLEAN /\ b.checks \in BOOLEAN
        /\ b.by = b.via /\ b.off = {}
    <2>1. CASE \E v \in Lists : b = Moderate(Approve, v, {"pending"})
      BY <2>1 DEF Moderate, Button, Approve, Route, EveryStatus, StatusesOf, Kinds
    <2>2. CASE b = Moderate(Approve, <<"admin-craftsmen">>, {"pending", "rejected"})
      BY <2>2 DEF Moderate, Button, Approve, Route, EveryStatus, StatusesOf, Kinds
    <2>3. CASE \E v \in Lists : b = Moderate(Reject, v, {"pending"})
      BY <2>3 DEF Moderate, Button, Reject, Route, EveryStatus, StatusesOf, Kinds
    <2>4. CASE \E v \in Lists : b = Moderate(Freeze, v, {"approved"})
      BY <2>4 DEF Moderate, Button, Freeze, Route, EveryStatus, StatusesOf, Kinds
    <2>5. CASE \E v \in Lists : b = Moderate(Ban, v, {"approved"})
      BY <2>5 DEF Moderate, Button, Ban, Route, EveryStatus, StatusesOf, Kinds
    <2>6. CASE \E v \in Lists : b = Moderate(Unfreeze, v, {"frozen"})
      BY <2>6 DEF Moderate, Button, Unfreeze, Route, EveryStatus, StatusesOf, Kinds
    <2> QED
      BY <1>0, <2>1, <2>2, <2>3, <2>4, <2>5, <2>6
  <1>2. KindOf(b.via) = "craftsman" /\ b.via \notin Filtered
        /\ b.via # <<"client-orders-all">>
    BY <1>1 DEF KindOf, Filtered, PendingList, Stats, MyReviews, ReviewsOfCraftsman, OrdersOfClient
  <1>3. b.calls.to \in StatusesOf["craftsman"]
    BY <1>1 DEF StatusesOf
  <1>4. \A k \in KeysOf["craftsman"] \ LeftBehind : Matches(b.invalidates, k)
    BY <1>1, PrefixSelf, PrefixOne DEF KeysOf, CraftsmenList, PendingList, LeftBehind, Matches
  <1>5. b.next \in DOMAIN PageOf \cup {"stay"}
    BY <1>1 DEF PageOf
  <1> QED
    BY <1>1, <1>2, <1>3, <1>4, <1>5, AgreesIf DEF Kinds

LEMMA ComplaintsAgree ==
    ASSUME NEW b, b \in AdminComplaints.buttons
    PROVE  Agrees(b)
  <1>0. b = Button(ResolveComplaint, "act", <<"admin-complaints">>, {"pending", "investigating"},
                   {<<"admin-complaints">>})
    BY DEF AdminComplaints, Page
  <1>1. /\ b.on \subseteq b.calls.takes /\ b.calls.to \in {"resolved"}
        /\ b.via = <<"admin-complaints">> /\ b.invalidates = {<<"admin-complaints">>}
        /\ b.next = "stay" /\ b.waits \in BOOLEAN /\ b.checks \in BOOLEAN
        /\ b.by = b.via /\ b.off = {}
    BY <1>0 DEF Button, ResolveComplaint, Route,
          EveryStatus, StatusesOf, ComplaintStatuses, Kinds
  <1>2. KindOf(b.via) = "complaint" /\ b.via \notin Filtered
        /\ b.via # <<"client-orders-all">>
    BY <1>1 DEF KindOf, Filtered, PendingList, Stats, MyReviews, ReviewsOfCraftsman, OrdersOfClient
  <1>3. b.calls.to \in StatusesOf["complaint"]
    BY <1>1 DEF StatusesOf, ComplaintStatuses
  <1>4. \A k \in KeysOf["complaint"] \ LeftBehind : Matches(b.invalidates, k)
    BY <1>1, PrefixSelf DEF KeysOf, ComplaintsList, Stats, LeftBehind, Matches
  <1>5. b.next \in DOMAIN PageOf \cup {"stay"}
    BY <1>1 DEF PageOf
  <1> QED
    BY <1>1, <1>2, <1>3, <1>4, <1>5, AgreesIf DEF Kinds

LEMMA WebhooksAgree ==
    ASSUME NEW b, b \in AdminWebhooks.buttons
    PROVE  Agrees(b)
  <1> DEFINE Edit(calls, mutation, on) == Button(calls, mutation, <<"admin-webhooks">>, on,
                                                 {<<"admin-webhooks">>})
  <1>0. \/ b = [Edit(CreateWebhook, "create", EveryStatus) EXCEPT !.blank = TRUE]
        \/ b = Edit(WebhookOn, "toggle", {"inactive"})
        \/ b = Edit(WebhookOff, "toggle", {"active"})
        \/ b = Edit(DeleteWebhook, "delete", {"active", "inactive"})
    BY DEF AdminWebhooks, Page
  <1>1. /\ b.on \subseteq b.calls.takes /\ b.calls.to \in {"none", "active", "inactive"}
        /\ b.via = <<"admin-webhooks">> /\ b.invalidates = {<<"admin-webhooks">>}
        /\ b.next = "stay" /\ b.waits \in BOOLEAN /\ b.checks \in BOOLEAN
        /\ b.by = b.via /\ b.off = {}
    <2>1. CASE b = [Edit(CreateWebhook, "create", EveryStatus) EXCEPT !.blank = TRUE]
      BY <2>1 DEF Button, CreateWebhook, Route, EveryStatus, StatusesOf, Kinds
    <2>2. CASE b = Edit(WebhookOn, "toggle", {"inactive"})
      BY <2>2 DEF Button, WebhookOn, Route, EveryStatus, StatusesOf, Kinds
    <2>3. CASE b = Edit(WebhookOff, "toggle", {"active"})
      BY <2>3 DEF Button, WebhookOff, Route, EveryStatus, StatusesOf, Kinds
    <2>4. CASE b = Edit(DeleteWebhook, "delete", {"active", "inactive"})
      BY <2>4 DEF Button, DeleteWebhook, Route, EveryStatus, StatusesOf, Kinds
    <2> QED
      BY <1>0, <2>1, <2>2, <2>3, <2>4
  <1>2. KindOf(b.via) = "webhook" /\ b.via \notin Filtered
        /\ b.via # <<"client-orders-all">>
    BY <1>1 DEF KindOf, Filtered, PendingList, Stats, MyReviews, ReviewsOfCraftsman, OrdersOfClient
  <1>3. b.calls.to \in StatusesOf["webhook"]
    BY <1>1 DEF StatusesOf
  <1>4. \A k \in KeysOf["webhook"] \ LeftBehind : Matches(b.invalidates, k)
    BY <1>1, PrefixSelf DEF KeysOf, Webhooks, LeftBehind, Matches
  <1>5. b.next \in DOMAIN PageOf \cup {"stay"}
    BY <1>1 DEF PageOf
  <1> QED
    BY <1>1, <1>2, <1>3, <1>4, <1>5, AgreesIf DEF Kinds

\* The pages by name.
LEMMA PagesByName ==
    ASSUME NEW p \in DOMAIN PageOf
    PROVE  PageOf[p] \in {Away, ClientDashboard, NewOrder, CraftsmanDetail, ClientOrders,
                          ClientComplaints, ClientReviews, ClientNotifications,
                          CraftsmanDashboard, CraftsmanOrders, CraftsmanProfile,
                          CraftsmanOnboarding, CraftsmanLocation, AdminDashboard,
                          AdminCraftsmen, AdminCraftsman, AdminComplaints, AdminWebhooks}
  BY DEF PageOf

LEMMA ButtonsAgree ==
    ASSUME NEW b \in Buttons
    PROVE  Agrees(b)
  <1>1. PICK p \in DOMAIN PageOf : b \in PageOf[p].buttons
    BY DEF Buttons
  <1>2. CASE PageOf[p] \in {Away, ClientDashboard, ClientComplaints, ClientReviews, AdminDashboard}
    BY <1>1, <1>2 DEF Away, ClientDashboard, ClientComplaints, ClientReviews, AdminDashboard, Page
  <1>3. CASE PageOf[p] \in {NewOrder, CraftsmanDetail}
    BY <1>1, <1>3, OrderFormAgrees DEF NewOrder, CraftsmanDetail, Page
  <1>4. CASE PageOf[p] = ClientOrders
    BY <1>1, <1>4, ClientOrdersComplaint, ClientOrdersReview DEF ClientOrders, Page
  <1>5. CASE PageOf[p] \in {CraftsmanProfile, CraftsmanOnboarding}
    BY <1>1, <1>5, OnboardingAgrees
  <1>6. CASE PageOf[p] \in {AdminCraftsmen, AdminCraftsman}
    BY <1>1, <1>6, ModerationAgrees
  <1>7. CASE PageOf[p] \in {ClientNotifications, CraftsmanDashboard, CraftsmanOrders,
                           CraftsmanLocation, AdminComplaints, AdminWebhooks}
    BY <1>1, <1>7, NotificationsAgree, DashboardAgrees, CraftsmanOrdersAgree, LocationAgrees,
       ComplaintsAgree, WebhooksAgree
  <1> QED
    BY <1>2, <1>3, <1>4, <1>5, <1>6, <1>7, PagesByName

-----------------------------------------------------------------------------
(***************************************************************************)
(* The cache                                                               *)
(***************************************************************************)

LEMMA NothingIsData ==
    ASSUME NEW s \in Scopes
    PROVE  /\ Nothing \in DataOf(s) /\ Nothing.ver = 0 /\ Nothing.from = "nothing"
           /\ Idle \in FetchesOf(s) /\ Idle.pc = "none" /\ Idle.got = Nothing
           /\ Sent \in FetchesOf(s) /\ Sent.pc = "sent" /\ Sent.got = Nothing
           /\ Empty \in EntriesOf(s) /\ Empty.data = Nothing /\ Empty.fetch = Idle
  <1>1. s.writes \in Nat
    BY PagesAssumption
  <1>2. Nothing \in DataOf(s) /\ Nothing.ver = 0 /\ Nothing.from = "nothing"
    BY <1>1 DEF Nothing, Datum, DataOf, Froms
  <1>3. /\ Idle \in FetchesOf(s) /\ Idle.pc = "none" /\ Idle.got = Nothing
        /\ Sent \in FetchesOf(s) /\ Sent.pc = "sent" /\ Sent.got = Nothing
    BY <1>2 DEF Idle, Sent, FetchesOf
  <1>4. Empty \in EntriesOf(s) /\ Empty.data = Nothing /\ Empty.fetch = Idle
    BY <1>2, <1>3 DEF Empty, EntriesOf
  <1> QED
    BY <1>2, <1>3, <1>4

\* An entry that is fetched again, or whose fetch is given up.
LEMMA FetchSound ==
    ASSUME NEW s \in Scopes, NEW r \in RowsOf(s), NEW k, NEW v,
           NEW e \in EntriesOf(s), Sound(e, k, r, v), NEW f \in {Sent, Idle}
    PROVE  LET n == [e EXCEPT !.fetch = f] IN
           n \in EntriesOf(s) /\ n.data = e.data /\ n.fetch = f /\ Sound(n, k, r, v)
  <1> DEFINE n == [e EXCEPT !.fetch = f]
  <1>1. f \in FetchesOf(s) /\ f.pc # "read" /\ f.got = Nothing
    BY NothingIsData
  <1>2. n \in EntriesOf(s) /\ n.data = e.data /\ n.stale = e.stale /\ n.fetch = f
    BY <1>1 DEF EntriesOf
  <1>3. Seen(Nothing, k, r)
    BY NothingIsData DEF Seen, RowsOf
  <1> HIDE DEF n
  <1>4. Sound(n, k, r, v)
    BY <1>1, <1>2, <1>3 DEF Sound, NoOlder
  <1> QED
    BY <1>2, <1>4 DEF n

LEMMA MountSound ==
    ASSUME NEW s \in Scopes, NEW r \in RowsOf(s), NEW k, NEW v,
           NEW e \in EntriesOf(s), Sound(e, k, r, v)
    PROVE  Mount(e) \in EntriesOf(s) /\ Sound(Mount(e), k, r, v)
  BY FetchSound DEF Mount

\* Nothing of the entry, as it is or as it is about to be, passes for fresh.
Dropped(e) ==
    /\ ~(~e.stale /\ e.data.from = "answer")
    /\ ~(e.fetch.pc = "read" /\ e.fetch.got.from = "answer")

LEMMA DroppedIsSound ==
    ASSUME NEW e, NEW k, NEW r, Dropped(e), Seen(e.data, k, r), Seen(e.fetch.got, k, r), NEW v
    PROVE  Sound(e, k, r, v)
  BY DEF Dropped, Sound, NoOlder

\* An answer that is overtaken is none that passes for fresh.
LEMMA OvertakenSeen ==
    ASSUME NEW s \in Scopes, NEW r \in RowsOf(s), NEW k, NEW d \in DataOf(s), Seen(d, k, r)
    PROVE  /\ Overtaken(d) \in DataOf(s) /\ Seen(Overtaken(d), k, r)
           /\ Overtaken(d).from # "answer"
  <1>1. s.writes \in Nat /\ r.ver \in Nat
    BY PagesAssumption DEF RowsOf
  <1>2. CASE d.from = "answer"
    BY <1>1, <1>2 DEF Overtaken, Datum, DataOf, Froms, Seen
  <1>3. CASE d.from # "answer"
    BY <1>3 DEF Overtaken
  <1> QED
    BY <1>2, <1>3

\* Whatever the entry was and whatever was on its way, what is invalidated is
\* dropped.
LEMMA InvalidateDrops ==
    ASSUME NEW s \in Scopes, NEW r \in RowsOf(s), NEW k, NEW v, NEW m \in BOOLEAN,
           NEW e \in EntriesOf(s), Sound(e, k, r, v)
    PROVE  LET n == Invalidate(e, m) IN
           /\ n \in EntriesOf(s) /\ Dropped(n) /\ Seen(n.data, k, r) /\ Seen(n.fetch.got, k, r)
  <1> DEFINE marked == [e EXCEPT !.stale = e.data # Nothing]
  <1>1. /\ marked \in EntriesOf(s) /\ marked.data = e.data /\ marked.fetch = e.fetch
        /\ marked.stale = (e.data # Nothing)
    BY DEF EntriesOf
  <1>2. /\ e.data.from = "answer" => marked.stale = TRUE
        /\ Nothing.from = "nothing"
    BY <1>1, NothingIsData
  <1> HIDE DEF marked
  <1>3. CASE m /\ (e.fetch.pc = "none" \/ e.data # Nothing)
    <2> DEFINE n == [marked EXCEPT !.fetch = Sent]
    <2>1. Invalidate(e, m) = n
      BY <1>3 DEF Invalidate, marked
    <2>2. /\ Sent \in FetchesOf(s) /\ Sent.pc = "sent" /\ Sent.got = Nothing
          /\ Nothing.ver = 0 /\ Nothing.from = "nothing"
      BY NothingIsData
    <2>3. n \in EntriesOf(s) /\ n.data = e.data /\ n.stale = marked.stale /\ n.fetch = Sent
      BY <1>1, <2>2 DEF EntriesOf
    <2> HIDE DEF n
    <2>4. Dropped(n)
      BY <1>2, <2>2, <2>3 DEF Dropped
    <2>5. Seen(n.data, k, r) /\ Seen(n.fetch.got, k, r)
      BY <2>2, <2>3 DEF Sound, Seen, RowsOf
    <2> QED
      BY <2>1, <2>3, <2>4, <2>5
  <1>4. CASE ~(m /\ (e.fetch.pc = "none" \/ e.data # Nothing)) /\ e.fetch.pc = "read"
    <2> DEFINE g == Overtaken(e.fetch.got)
               n == [marked EXCEPT !.fetch.got = Overtaken(@)]
    <2>1. Invalidate(e, m) = n
      BY <1>4 DEF Invalidate, marked
    <2>2. g \in DataOf(s) /\ Seen(g, k, r) /\ g.from # "answer"
      BY OvertakenSeen DEF Sound, EntriesOf, FetchesOf
    <2>3. n = [marked EXCEPT !.fetch = [e.fetch EXCEPT !.got = g]]
      BY <1>1 DEF EntriesOf, FetchesOf
    <2>4. /\ [e.fetch EXCEPT !.got = g] \in FetchesOf(s)
          /\ [e.fetch EXCEPT !.got = g].got = g
      BY <2>2 DEF EntriesOf, FetchesOf
    <2>5. /\ n \in EntriesOf(s) /\ n.data = e.data /\ n.stale = marked.stale
          /\ n.fetch.got = g
      BY <1>1, <2>3, <2>4 DEF EntriesOf
    <2> HIDE DEF n, g
    <2>6. Dropped(n)
      BY <1>2, <2>2, <2>5 DEF Dropped
    <2>7. Seen(n.data, k, r) /\ Seen(n.fetch.got, k, r)
      BY <2>2, <2>5 DEF Sound
    <2> QED
      BY <2>1, <2>5, <2>6, <2>7
  <1>5. CASE ~(m /\ (e.fetch.pc = "none" \/ e.data # Nothing)) /\ e.fetch.pc # "read"
    <2>1. Invalidate(e, m) = marked
      BY <1>5 DEF Invalidate, marked
    <2>2. Dropped(marked)
      BY <1>1, <1>2, <1>5 DEF Dropped
    <2>3. Seen(marked.data, k, r) /\ Seen(marked.fetch.got, k, r)
      BY <1>1 DEF Sound
    <2> QED
      BY <1>1, <2>1, <2>2, <2>3
  <1> QED
    BY <1>3, <1>4, <1>5

\* The row changes: everything shown is of an earlier state now.
LEMMA RowMoves ==
    ASSUME NEW s \in Scopes, NEW r \in RowsOf(s), NEW q \in RowsOf(s), q.ver = r.ver + 1
    PROVE  /\ \A d \in DataOf(s) : \A k : Seen(d, k, r) => Seen(d, k, q)
           /\ \A e \in EntriesOf(s) : \A k, v : Sound(e, k, r, v) => Sound(e, k, q, v)
           /\ \A m \in CallsOf(s) : Remembers(m, r) => Remembers(m, q)
  <1>1. r.ver \in Nat
    BY PagesAssumption DEF RowsOf
  <1>2. \A d \in DataOf(s) : d.ver \in Nat
    BY PagesAssumption DEF DataOf
  <1>3. \A d \in DataOf(s) : \A k : Seen(d, k, r) => Seen(d, k, q)
    BY <1>1, <1>2 DEF Seen
  <1>4. \A e \in EntriesOf(s) : \A k, v : Sound(e, k, r, v) => Sound(e, k, q, v)
    BY <1>3 DEF Sound, EntriesOf, FetchesOf
  <1>5. \A m \in CallsOf(s) : Remembers(m, r) => Remembers(m, q)
    <2>1. \A m \in CallsOf(s) : /\ m.seen.via \in DataOf(s) /\ m.seen.by \in DataOf(s)
                                /\ m.ver \in Nat
      BY PagesAssumption DEF CallsOf
    <2>2. \A m \in CallsOf(s) : m.seen.via.ver \in Nat /\ m.seen.by.ver \in Nat
      BY <2>1, <1>2
    <2> QED
      BY <1>1, <2>1, <2>2 DEF Remembers, UpToDate
  <1> QED
    BY <1>3, <1>4, <1>5

-----------------------------------------------------------------------------
(***************************************************************************)
(* The steps of the browser                                                *)
(***************************************************************************)

\* What is followed stays followed.
LEMMA ScopeStays ==
    ASSUME scope' = scope
    PROVE  keys' = keys /\ Near' = Near /\ MaxVer' = MaxVer /\ kind' = kind
  BY DEF keys, Near, MaxVer, kind

LEMMA RemembersStays ==
    ASSUME scope' = scope
    PROVE  \A m, r : Remembers(m, r)' <=> Remembers(m, r)
  BY ScopeStays DEF Remembers

\* A step in the cache only.
LEMMA QueryMoves ==
    ASSUME IInv, UNCHANGED <<scope, row, page, call, own>>,
           query' \in [keys -> EntriesOf(scope)],
           \A k \in keys : Sound(query'[k], k, row, own[k])
    PROVE  IInv'
  <1>1. Shapes'
    BY ScopeStays DEF IInv, Shapes
  <1>2. (\A k \in keys : own[k] <= row.ver /\ Sound(query[k], k, row, own[k]))'
    BY ScopeStays DEF IInv, Sound, Seen, NoOlder
  <1>3. (\A c \in Calls : Remembers(call[c], row))'
    BY RemembersStays DEF IInv, Remembers
  <1> QED
    BY <1>1, <1>2, <1>3 DEF IInv

\* One entry changes.
LEMMA EntryMoves ==
    ASSUME IInv, NEW k \in keys, NEW e \in EntriesOf(scope), Sound(e, k, row, own[k]),
           query' = [query EXCEPT ![k] = e], UNCHANGED <<scope, row, page, call, own>>
    PROVE  IInv'
  <1>1. query' \in [keys -> EntriesOf(scope)]
    BY DEF IInv, Shapes
  <1>2. \A j \in keys : query'[j] = IF j = k THEN e ELSE query[j]
    BY DEF IInv, Shapes
  <1>3. \A j \in keys : Sound(query'[j], j, row, own[j])
    BY <1>2 DEF IInv
  <1> QED
    BY <1>1, <1>3, QueryMoves

\* The facts of a key that the steps below start from.
LEMMA EntryFacts ==
    ASSUME IInv, NEW k \in keys
    PROVE  /\ scope \in Scopes /\ row \in RowsOf(scope)
           /\ query[k] \in EntriesOf(scope) /\ Sound(query[k], k, row, own[k])
           /\ own[k] \in Nat /\ own[k] <= row.ver /\ row.ver \in Nat
           /\ query[k].fetch \in FetchesOf(scope)
           /\ query[k].data \in DataOf(scope) /\ query[k].fetch.got \in DataOf(scope)
  <1>1. scope \in Scopes /\ row \in RowsOf(scope) /\ scope.writes \in Nat
    BY PagesAssumption DEF IInv, Shapes
  <1>2. query[k] \in EntriesOf(scope) /\ Sound(query[k], k, row, own[k]) /\ own[k] <= row.ver
    BY DEF IInv, Shapes
  <1>3. own[k] \in Nat /\ row.ver \in Nat
    BY <1>1 DEF IInv, Shapes, MaxVer, RowsOf
  <1>4. /\ query[k].fetch \in FetchesOf(scope)
        /\ query[k].data \in DataOf(scope) /\ query[k].fetch.got \in DataOf(scope)
    BY <1>2 DEF EntriesOf, FetchesOf
  <1> QED
    BY <1>1, <1>2, <1>3, <1>4

LEMMA OpenedSound ==
    ASSUME IInv, NEW p
    PROVE  /\ Opened(query, p) \in [keys -> EntriesOf(scope)]
           /\ \A k \in keys : Sound(Opened(query, p)[k], k, row, own[k])
  <1>1. \A k \in keys : /\ Mount(query[k]) \in EntriesOf(scope)
                        /\ Sound(Mount(query[k]), k, row, own[k])
    BY EntryFacts, MountSound
  <1>2. \A k \in keys : query[k] \in EntriesOf(scope) /\ Sound(query[k], k, row, own[k])
    BY EntryFacts
  <1> QED
    BY <1>1, <1>2 DEF Opened

LEMMA ReconnectKeeps ==
    ASSUME IInv, Reconnect
    PROVE  IInv'
  BY OpenedSound, QueryMoves DEF Reconnect

LEMMA PollKeeps ==
    ASSUME IInv, NEW k \in keys, Poll(k)
    PROVE  IInv'
  <1> DEFINE e == [query[k] EXCEPT !.fetch = Sent]
  <1>1. e \in EntriesOf(scope) /\ Sound(e, k, row, own[k])
    BY EntryFacts, FetchSound
  <1>2. query' = [query EXCEPT ![k] = e]
    BY DEF Poll
  <1> HIDE DEF e
  <1> QED
    BY <1>1, <1>2, EntryMoves DEF Poll

LEMMA BreakKeeps ==
    ASSUME IInv, NEW k \in keys, Break(k)
    PROVE  IInv'
  <1> DEFINE e == [query[k] EXCEPT !.fetch = Idle]
  <1>1. e \in EntriesOf(scope) /\ Sound(e, k, row, own[k])
    BY EntryFacts, FetchSound
  <1>2. query' = [query EXCEPT ![k] = e]
    BY DEF Break
  <1> HIDE DEF e
  <1> QED
    BY <1>1, <1>2, EntryMoves DEF Break

LEMMA AgeKeeps ==
    ASSUME IInv, NEW k \in keys, Age(k)
    PROVE  IInv'
  <1> DEFINE e == [query[k] EXCEPT !.stale = TRUE]
  <1>1. e \in EntriesOf(scope) /\ e.data = query[k].data /\ e.fetch = query[k].fetch /\ e.stale
    BY EntryFacts DEF EntriesOf
  <1>2. query' = [query EXCEPT ![k] = e]
    BY DEF Age
  <1> HIDE DEF e
  <1>3. Sound(e, k, row, own[k])
    BY <1>1, EntryFacts DEF Sound, NoOlder
  <1> QED
    BY <1>1, <1>2, <1>3, EntryMoves DEF Age

LEMMA EmptySound ==
    ASSUME NEW r, r.ver \in Nat, NEW k, NEW v, Scopes # {}
    PROVE  Sound(Empty, k, r, v)
  BY NothingIsData DEF Sound, Seen, NoOlder

LEMMA CollectKeeps ==
    ASSUME IInv, NEW k \in keys, Collect(k)
    PROVE  IInv'
  <1>1. Empty \in EntriesOf(scope) /\ Sound(Empty, k, row, own[k])
    BY EntryFacts, EmptySound, NothingIsData
  <1> QED
    BY <1>1, EntryMoves DEF Collect

\* What a key shows of a row is a status of its table, or that there is none.
LEMMA ShownTyped ==
    ASSUME NEW q \in Scopes, NEW k \in q.keys, NEW s \in StatusesOf[q.kind]
    PROVE  Shown(k, s) \in StatusesOf[q.kind] \cup {"none"}
  <1>1. q.kind \in Kinds
    BY PagesAssumption
  <1>2. CASE s = "reviewed"
    <2>1. q.kind = "review"
      BY <1>1, <1>2 DEF Kinds, StatusesOf, OrderStatuses, ComplaintStatuses
    <2> QED
      BY <1>2, <2>1 DEF Shown, StatusesOf
  <1>3. CASE s # "reviewed"
    BY <1>3 DEF Shown
  <1> QED
    BY <1>2, <1>3

\* The answer tells the row as it is, which is no older than what was written here.
LEMMA ReadKeeps ==
    ASSUME IInv, NEW k \in keys, Read(k)
    PROVE  IInv'
  <1>1. PICK got \in {Answer(k), Failed} :
            query' = [query EXCEPT ![k].fetch = [pc |-> "read", got |-> got]]
    BY DEF Read
  <1> DEFINE f == [pc |-> "read", got |-> got]
             e == [query[k] EXCEPT !.fetch = f]
  <1>2. /\ got \in DataOf(scope) /\ Seen(got, k, row)
        /\ got.from = "answer" => got.ver = row.ver
    <2>1. /\ row.ver \in 0..scope.writes /\ row.status \in StatusesOf[scope.kind]
          /\ scope.writes \in Nat
      BY EntryFacts, PagesAssumption DEF RowsOf
    <2>2. CASE got = Answer(k)
      <3>1. Shown(k, row.status) \in StatusesOf[scope.kind] \cup {"none"}
        BY <2>1, EntryFacts, ShownTyped DEF keys
      <3> HIDE DEF StatusesOf
      <3> QED
        BY <2>1, <2>2, <3>1 DEF Answer, Datum, DataOf, Froms, Seen
    <2>3. CASE got = Failed
      BY <2>1, <2>3 DEF Failed, Datum, DataOf, Froms, Seen
    <2> QED
      BY <2>2, <2>3
  <1>3. f \in FetchesOf(scope) /\ f.got = got
    BY <1>2 DEF FetchesOf
  <1>4. query' = [query EXCEPT ![k] = e]
    BY <1>1
  <1> HIDE DEF f
  <1>5. /\ e \in EntriesOf(scope) /\ e.data = query[k].data /\ e.fetch = f
        /\ e.stale = query[k].stale
    BY <1>3, EntryFacts DEF EntriesOf
  <1> HIDE DEF e
  <1>6. Sound(e, k, row, own[k])
    BY <1>2, <1>3, <1>5, EntryFacts DEF Sound, NoOlder
  <1> QED
    BY <1>4, <1>5, <1>6, EntryMoves DEF Read

LEMMA ArriveKeeps ==
    ASSUME IInv, NEW k \in keys, Arrive(k)
    PROVE  IInv'
  <1> DEFINE e == Settled(query[k])
  <1>1. /\ e \in EntriesOf(scope) /\ e.data = query[k].fetch.got /\ e.fetch = Idle
    BY EntryFacts, NothingIsData DEF Settled, EntriesOf
  <1>2. query' = [query EXCEPT ![k] = e] /\ query[k].fetch.pc = "read"
    BY DEF Arrive
  <1> HIDE DEF e
  <1>3. Idle.pc = "none" /\ Idle.got = Nothing /\ Seen(Nothing, k, row)
    BY NothingIsData, EntryFacts DEF Seen
  <1>4. Sound(e, k, row, own[k])
    BY <1>1, <1>2, <1>3, EntryFacts DEF Sound, NoOlder
  <1> QED
    BY <1>1, <1>2, <1>4, EntryMoves DEF Arrive

LEMMA FetchesKeep ==
    ASSUME IInv, NEW k \in keys, Fetches(k)
    PROVE  IInv'
  BY PollKeeps, ReadKeeps, ArriveKeeps, BreakKeeps, AgeKeeps, CollectKeeps DEF Fetches

-----------------------------------------------------------------------------
(***************************************************************************)
(* The steps of the calls, of the pages and of the row                     *)
(***************************************************************************)

\* The facts of a call that the steps below start from.
LEMMA CallFacts ==
    ASSUME IInv, NEW c \in Calls
    PROVE  /\ scope \in Scopes /\ row \in RowsOf(scope) /\ row.ver \in Nat
           /\ scope.writes \in Nat /\ MaxVer = scope.writes /\ row.ver \in 0..scope.writes
           /\ call[c] \in CallsOf(scope) /\ Remembers(call[c], row)
           /\ call[c].seen.via \in DataOf(scope) /\ call[c].seen.by \in DataOf(scope)
           /\ call[c].button \in Buttons
           /\ call[c].ver \in Nat /\ call[c].seen.via.ver \in Nat /\ call[c].seen.by.ver \in Nat
  <1>1. scope \in Scopes /\ row \in RowsOf(scope) /\ scope.writes \in Nat
    BY PagesAssumption DEF IInv, Shapes
  <1>2. call[c] \in CallsOf(scope) /\ Remembers(call[c], row)
    BY DEF IInv, Shapes
  <1>3. row.ver \in Nat /\ row.ver \in 0..scope.writes
    BY <1>1 DEF RowsOf
  <1>4. /\ call[c].seen.via \in DataOf(scope) /\ call[c].seen.by \in DataOf(scope)
        /\ call[c].button \in Buttons /\ call[c].ver \in Nat
    BY <1>1, <1>2 DEF CallsOf
  <1>5. call[c].seen.via.ver \in Nat /\ call[c].seen.by.ver \in Nat
    BY <1>1, <1>4 DEF DataOf
  <1> QED
    BY <1>1, <1>2, <1>3, <1>4, <1>5 DEF MaxVer

\* A call that is only watched or not watched any more.
LEMMA LiveKeeps ==
    ASSUME NEW s, NEW m \in CallsOf(s), NEW r, Remembers(m, r), NEW live \in BOOLEAN
    PROVE  LET n == [m EXCEPT !.live = live] IN n \in CallsOf(s) /\ Remembers(n, r)
  <1> DEFINE n == [m EXCEPT !.live = live]
  <1>1. /\ n \in CallsOf(s) /\ n.pc = m.pc /\ n.button = m.button /\ n.seen = m.seen
        /\ n.code = m.code /\ n.ver = m.ver
    BY DEF CallsOf
  <1> HIDE DEF n
  <1>2. Remembers(n, r)
    BY <1>1 DEF Remembers
  <1> QED
    BY <1>1, <1>2 DEF n

\* A step that leaves the row and what was written here as they were.
LEMMA BrowserMoves ==
    ASSUME IInv, scope' = scope, row' = row, own' = own, page' \in Near,
           query' \in [keys -> EntriesOf(scope)],
           \A k \in keys : Sound(query'[k], k, row, own[k]),
           call' \in [Calls -> CallsOf(scope)],
           \A c \in Calls : Remembers(call'[c], row)
    PROVE  IInv'
  <1>1. Shapes'
    BY ScopeStays DEF IInv, Shapes
  <1>2. (\A k \in keys : own[k] <= row.ver /\ Sound(query[k], k, row, own[k]))'
    BY ScopeStays DEF IInv, Sound, Seen, NoOlder
  <1>3. (\A c \in Calls : Remembers(call[c], row))'
    BY RemembersStays DEF Remembers
  <1> QED
    BY <1>1, <1>2, <1>3 DEF IInv

LEMMA VisitKeeps ==
    ASSUME IInv, NEW p \in Near, Visit(p)
    PROVE  IInv'
  <1>1. /\ page' = p /\ query' = Opened(query, p)
        /\ call' = [c \in Calls |-> [call[c] EXCEPT !.live = FALSE]]
        /\ UNCHANGED <<scope, row, own>>
    BY DEF Visit
  <1>2. /\ query' \in [keys -> EntriesOf(scope)]
        /\ \A k \in keys : Sound(query'[k], k, row, own[k])
    BY <1>1, OpenedSound
  <1>3. \A c \in Calls : LET n == [call[c] EXCEPT !.live = FALSE] IN
                         n \in CallsOf(scope) /\ Remembers(n, row)
    BY CallFacts, LiveKeeps
  <1>4. /\ call' \in [Calls -> CallsOf(scope)]
        /\ \A c \in Calls : Remembers(call'[c], row)
    BY <1>1, <1>3
  <1> QED
    BY <1>1, <1>2, <1>4, BrowserMoves

\* A button is pressed on what the page shows.
LEMMA PressKeeps ==
    ASSUME IInv, NEW c \in Calls, NEW b \in PageOf[page].buttons, Press(c, b)
    PROVE  IInv'
  <1>1. /\ b \in Buttons /\ b.via \in keys /\ b.by \in keys
        /\ query[b.via].data = Nothing \/ query[b.via].data.status \in b.on
        /\ query[b.by].data.status \notin b.off
    BY DEF Press, Offered, Buttons, IInv, Shapes, Near
  <1> DEFINE d == query[b.via].data
             e == query[b.by].data
             seen == [via |-> d, by |-> e]
             m == [pc |-> "sent", button |-> b, live |-> TRUE, code |-> "none", ver |-> 0,
                   seen |-> seen]
  <1>2. call' = [call EXCEPT ![c] = m] /\ UNCHANGED <<scope, row, query, page, own>>
    BY DEF Press
  <1>3. /\ d \in DataOf(scope) /\ Seen(d, b.via, row) /\ (d = Nothing \/ d.status \in b.on)
        /\ e \in DataOf(scope) /\ Seen(e, b.by, row) /\ e.status \notin b.off
    BY <1>1, EntryFacts DEF Sound
  <1> HIDE DEF d, e
  <1>4. seen \in [via : DataOf(scope), by : DataOf(scope)] /\ seen.via = d /\ seen.by = e
    BY <1>3
  <1> HIDE DEF seen
  <1>5. /\ m \in CallsOf(scope)
        /\ m.pc = "sent" /\ m.button = b /\ m.seen = seen /\ m.code = "none" /\ m.ver = 0
    BY <1>1, <1>4, CallFacts DEF CallsOf
  <1> HIDE DEF m
  \* If both keys tell the row as it is, the button's condition holds of the row.
  <1>6. Remembers(m, row)
    <2>1. row.status \in EveryStatus
      BY CallFacts, PagesAssumption DEF RowsOf, EveryStatus
    <2>2. ASSUME b.calls \notin DeadRoutes, UpToDate(d, row), UpToDate(e, row)
          PROVE  row.status \in b.calls.takes
      <3>1. Shown(b.via, row.status) \in b.on /\ Shown(b.by, row.status) \notin b.off
        BY <1>3, <2>2, CallFacts, NothingIsData DEF Seen, UpToDate
      <3> QED
        BY <1>1, <2>1, <2>2, <3>1, ButtonsAgree DEF Agrees
    <2>3. d.ver <= row.ver /\ e.ver <= row.ver /\ 0 <= row.ver
      BY <1>3, CallFacts DEF Seen
    <2> QED
      BY <1>1, <1>4, <1>5, <2>2, <2>3 DEF Remembers
  <1>7. /\ call' \in [Calls -> CallsOf(scope)]
        /\ \A a \in Calls : Remembers(call'[a], row)
    BY <1>2, <1>5, <1>6 DEF IInv, Shapes
  <1>8. /\ query' \in [keys -> EntriesOf(scope)] /\ page' \in Near
        /\ \A k \in keys : Sound(query'[k], k, row, own[k])
    BY <1>2 DEF IInv, Shapes
  <1> QED
    BY <1>2, <1>7, <1>8, BrowserMoves

\* The row is as it was, or has moved on.
LEMMA RowAndCallMove ==
    ASSUME IInv, scope' = scope, query' = query, page' = page, own' = own,
           row' = row \/ (row' \in RowsOf(scope) /\ row'.ver = row.ver + 1),
           call' \in [Calls -> CallsOf(scope)],
           \A c \in Calls : call'[c] = call[c] \/ Remembers(call'[c], row')
    PROVE  IInv'
  <1>1. row' \in RowsOf(scope) /\ scope \in Scopes /\ row \in RowsOf(scope) /\ row.ver \in Nat
    BY PagesAssumption DEF IInv, Shapes, RowsOf
  <1>2. Shapes'
    BY <1>1, ScopeStays DEF IInv, Shapes
  <1>3. \A k \in keys : Sound(query[k], k, row', own[k]) /\ own[k] <= row'.ver
    BY <1>1, RowMoves, EntryFacts DEF IInv
  <1>4. (\A k \in keys : own[k] <= row.ver /\ Sound(query[k], k, row, own[k]))'
    BY <1>3, ScopeStays DEF Sound, Seen, NoOlder
  <1>5. \A c \in Calls : Remembers(call'[c], row')
    BY <1>1, RowMoves, CallFacts
  <1>6. (\A c \in Calls : Remembers(call[c], row))'
    BY <1>5, ScopeStays DEF Remembers
  <1> QED
    BY <1>2, <1>4, <1>6 DEF IInv

LEMMA OthersKeep ==
    ASSUME IInv, Others
    PROVE  IInv'
  <1>1. PICK m \in MovesOf[kind] : row' = [status |-> m[2], ver |-> row.ver + 1]
    BY DEF Others
  <1>2. /\ row.ver < MaxVer /\ row.ver \in Nat /\ MaxVer \in Nat /\ MaxVer = scope.writes
        /\ kind \in Kinds /\ kind = scope.kind
    BY PagesAssumption DEF Others, IInv, Shapes, RowsOf, MaxVer, kind
  <1>3. row' \in RowsOf(scope) /\ row'.ver = row.ver + 1
    BY <1>1, <1>2, MovesStay DEF RowsOf
  <1>4. call' \in [Calls -> CallsOf(scope)] /\ call' = call
    BY DEF Others, IInv, Shapes
  <1> QED
    BY <1>3, <1>4, RowAndCallMove DEF Others

\* A button whose call is out is for the row that is followed.
LEMMA ButtonFacts ==
    ASSUME IInv, NEW c \in Calls, call[c].pc \in {"sent", "answered"}
    PROVE  LET b == call[c].button IN
           /\ b.calls.to \in StatusesOf[scope.kind]
           /\ \A k \in keys \ LeftBehind : Matches(b.invalidates, k)
  <1> DEFINE b == call[c].button
  <1>1. b.via \in keys /\ b.by \in keys /\ b \in Buttons
    BY CallFacts DEF Remembers
  <1> HIDE DEF b
  <1>2. Agrees(b)
    BY <1>1, ButtonsAgree
  <1>3. scope.kind \in Kinds /\ keys \subseteq KeysOf[scope.kind]
    BY PagesAssumption DEF IInv, Shapes, keys
  <1>4. b.via \in KeysOf[scope.kind] /\ b.by \in KeysOf[scope.kind]
    BY <1>1, <1>3
  <1>5. /\ b.calls.to \in StatusesOf[scope.kind]
        /\ \A k \in KeysOf[scope.kind] \ LeftBehind : Matches(b.invalidates, k)
    BY <1>2, <1>3, <1>4 DEF Agrees
  <1> QED
    BY <1>1, <1>3, <1>4, <1>5 DEF b

\* Serve's answers, in each of its cases.
Answers(c, code, v) ==
    call' = [call EXCEPT ![c].pc = "answered", ![c].code = code, ![c].ver = v,
                         ![c].seen = IF code = "refused" THEN @ ELSE Unseen]

LEMMA AnsweredCall ==
    ASSUME IInv, NEW c \in Calls,
           NEW code \in {"ok", "refused", "failed"}, NEW v \in 0..scope.writes,
           Answers(c, code, v)
    PROVE  /\ call' \in [Calls -> CallsOf(scope)]
           /\ \A d \in Calls \ {c} : call'[d] = call[d]
           /\ call'[c].pc = "answered" /\ call'[c].button = call[c].button
           /\ call'[c].code = code /\ call'[c].ver = v
           /\ call'[c].seen = IF code = "refused" THEN call[c].seen ELSE Unseen
  <1>1. /\ Unseen \in [via : DataOf(scope), by : DataOf(scope)] /\ call[c] \in CallsOf(scope)
        /\ call \in [Calls -> CallsOf(scope)]
    BY NothingIsData DEF IInv, Shapes, Unseen
  <1> DEFINE seen == IF code = "refused" THEN call[c].seen ELSE Unseen
             m == [call[c] EXCEPT !.pc = "answered", !.code = code, !.ver = v, !.seen = seen]
  <1>2. seen \in [via : DataOf(scope), by : DataOf(scope)]
    BY <1>1 DEF CallsOf
  <1>3. call' = [call EXCEPT ![c] = m]
    BY <1>1 DEF CallsOf, Answers
  <1> HIDE DEF seen
  <1>4. /\ m \in CallsOf(scope) /\ m.pc = "answered" /\ m.button = call[c].button
        /\ m.code = code /\ m.ver = v /\ m.seen = seen
    BY <1>1, <1>2 DEF CallsOf
  <1> HIDE DEF m
  <1>5. call' \in [Calls -> CallsOf(scope)] /\ call'[c] = m /\ \A d \in Calls \ {c} : call'[d] = call[d]
    BY <1>1, <1>3, <1>4
  <1> QED
    BY <1>4, <1>5 DEF seen

LEMMA AnswersKeep ==
    ASSUME IInv, NEW c \in Calls, call[c].pc = "sent",
           scope' = scope, query' = query, page' = page, own' = own,
           row' = row \/ (row' \in RowsOf(scope) /\ row'.ver = row.ver + 1),
           NEW code \in {"ok", "refused", "failed"}, NEW v \in 0..scope.writes, v <= row'.ver,
           Answers(c, code, v),
           code = "refused" => \/ call[c].button.calls \in DeadRoutes
                               \/ \E d \in {call[c].seen.via, call[c].seen.by} :
                                    d.from # "answer" \/ d.ver < v
    PROVE  IInv'
  <1>1. /\ scope \in Scopes /\ call \in [Calls -> CallsOf(scope)] /\ row.ver \in Nat
        /\ call[c].seen.via.ver \in Nat /\ call[c].seen.by.ver \in Nat
        /\ Remembers(call[c], row)
    BY CallFacts DEF IInv, Shapes
  <1>2. /\ call' \in [Calls -> CallsOf(scope)]
        /\ \A d \in Calls \ {c} : call'[d] = call[d]
        /\ call'[c].pc = "answered" /\ call'[c].button = call[c].button
        /\ call'[c].code = code /\ call'[c].ver = v
        /\ call'[c].seen = IF code = "refused" THEN call[c].seen ELSE Unseen
    BY AnsweredCall
  <1>3. /\ call[c].seen.via.ver <= row'.ver /\ call[c].seen.by.ver <= row'.ver
        /\ row'.ver \in Nat /\ call[c].button.via \in keys /\ call[c].button.by \in keys
    BY <1>1 DEF Remembers
  <1>4. Unseen.via.ver = 0 /\ Unseen.by.ver = 0
    BY <1>1, NothingIsData DEF Unseen
  <1> DEFINE m == call'[c]
  <1>5. /\ m.pc = "answered" /\ m.button.via \in keys /\ m.button.by \in keys
        /\ m.code = code /\ m.ver = v
        /\ m.ver <= row'.ver /\ m.seen.via.ver <= row'.ver /\ m.seen.by.ver <= row'.ver
        /\ m.code = "refused" => \/ m.button.calls \in DeadRoutes
                                 \/ \E d \in {m.seen.via, m.seen.by} :
                                      d.from # "answer" \/ d.ver < m.ver
    BY <1>2, <1>3, <1>4
  <1> HIDE DEF m
  <1>6. Remembers(m, row')
    BY <1>5 DEF Remembers
  <1>7. \A d \in Calls : call'[d] = call[d] \/ Remembers(call'[d], row')
    BY <1>2, <1>6 DEF m
  <1> QED
    BY <1>2, <1>7, RowAndCallMove

LEMMA ServeKeeps ==
    ASSUME IInv, NEW c \in Calls, Serve(c)
    PROVE  IInv'
  <1> DEFINE r == call[c].button.calls
  <1>1. call[c].pc = "sent" /\ scope' = scope /\ query' = query /\ page' = page /\ own' = own
    BY DEF Serve
  <1>2. /\ scope.writes \in Nat /\ row.ver \in 0..scope.writes /\ MaxVer = scope.writes
        /\ r.to \in StatusesOf[scope.kind]
    BY <1>1, CallFacts, ButtonFacts
  <1>3. CASE row' = row /\ Answers(c, "failed", 0)
    BY <1>1, <1>2, <1>3, AnswersKeep
  <1>4. CASE row.status \notin r.takes /\ row' = row /\ Answers(c, "refused", row.ver)
    \* The page acted on what was not the row's present state, or in vain.
    <2>1. \/ r \in DeadRoutes
          \/ ~UpToDate(call[c].seen.via, row) \/ ~UpToDate(call[c].seen.by, row)
      BY <1>1, <1>4, CallFacts DEF Remembers
    <2>2. /\ call[c].seen.via.ver <= row.ver /\ call[c].seen.via.ver \in Nat
          /\ call[c].seen.by.ver <= row.ver /\ call[c].seen.by.ver \in Nat
      BY CallFacts DEF Remembers
    <2>3. \/ r \in DeadRoutes
          \/ \E d \in {call[c].seen.via, call[c].seen.by} : d.from # "answer" \/ d.ver < row.ver
      BY <1>2, <2>1, <2>2 DEF UpToDate
    <2> QED
      BY <1>1, <1>2, <1>4, <2>3, AnswersKeep
  <1>5. CASE row' = row /\ Answers(c, "ok", row.ver)
    BY <1>1, <1>2, <1>5, AnswersKeep
  <1>6. CASE /\ row.ver < MaxVer
             /\ row' = [status |-> r.to, ver |-> row.ver + 1]
             /\ Answers(c, "ok", row.ver + 1) \/ Answers(c, "failed", 0)
    <2>1. /\ row' \in RowsOf(scope) /\ row'.ver = row.ver + 1 /\ row.ver + 1 \in 0..scope.writes
          /\ 0 \in 0..scope.writes /\ 0 <= row'.ver /\ row.ver + 1 <= row'.ver
      BY <1>2, <1>6 DEF RowsOf
    <2>2. CASE Answers(c, "ok", row.ver + 1)
      BY <1>1, <2>1, <2>2, AnswersKeep
    <2>3. CASE Answers(c, "failed", 0)
      BY <1>1, <2>1, <2>3, AnswersKeep
    <2> QED
      BY <1>6, <2>2, <2>3
  <1> QED
    BY <1>3, <1>4, <1>5, <1>6 DEF Serve, Answers

\* The answer finds the browser on whichever page.  If it is good, every entry
\* that is to show the write has been dropped before the write counts as told.
LEMMA SettleKeeps ==
    ASSUME IInv, NEW c \in Calls, Settle(c)
    PROVE  IInv'
  <1> DEFINE b == call[c].button
             success == call[c].code = "ok" \/ ~b.checks
             dropped == [k \in keys |-> IF success /\ Matches(b.invalidates, k)
                                          THEN Invalidate(query[k], Mounted(page, k))
                                          ELSE query[k]]
             moves == success /\ b.next \in Near \ {page}
             told == [k \in keys |-> IF call[c].code = "ok" /\ call[c].ver > own[k]
                                       THEN call[c].ver ELSE own[k]]
  <1>1. /\ call[c].pc = "answered" /\ scope' = scope /\ row' = row /\ own' = told
        /\ page' = IF moves THEN b.next ELSE page
        /\ query' = IF moves THEN Opened(dropped, b.next) ELSE dropped
        /\ call' = [d \in Calls |-> IF d = c THEN NoCall
                                     ELSE [call[d] EXCEPT !.live = @ /\ ~moves]]
    BY DEF Settle
  <1>2. /\ scope \in Scopes /\ row \in RowsOf(scope) /\ row.ver \in Nat
        /\ call[c].ver \in 0..MaxVer /\ call[c].ver <= row.ver
        /\ \A k \in keys \ LeftBehind : Matches(b.invalidates, k)
    BY <1>1, CallFacts, ButtonFacts DEF CallsOf, Remembers
  <1>3. page' \in Near
    BY <1>1 DEF IInv, Shapes
  <1>4. \A k \in keys : own'[k] = told[k] /\ own'[k] \in 0..MaxVer /\ own'[k] <= row.ver
    BY <1>1, <1>2 DEF IInv, Shapes
  \* What is invalidated is dropped; the rest shows what it showed.
  <1>5. \A k \in keys : dropped[k] \in EntriesOf(scope) /\ Sound(dropped[k], k, row, told[k])
    <2> SUFFICES ASSUME NEW k \in keys
                 PROVE  dropped[k] \in EntriesOf(scope) /\ Sound(dropped[k], k, row, told[k])
      OBVIOUS
    <2>1. query[k] \in EntriesOf(scope) /\ Sound(query[k], k, row, own[k])
      BY EntryFacts
    <2>2. CASE success /\ Matches(b.invalidates, k)
      <3>1. dropped[k] = Invalidate(query[k], Mounted(page, k)) /\ Mounted(page, k) \in BOOLEAN
        BY <2>2 DEF Mounted
      <3> HIDE DEF dropped, told
      <3>2. /\ dropped[k] \in EntriesOf(scope) /\ Dropped(dropped[k])
            /\ Seen(dropped[k].data, k, row) /\ Seen(dropped[k].fetch.got, k, row)
        BY <1>2, <2>1, <3>1, InvalidateDrops
      <3> QED
        BY <3>2, DroppedIsSound
    <2>3. CASE ~(success /\ Matches(b.invalidates, k))
      <3>1. dropped[k] = query[k]
        BY <2>3
      <3>2. k \in LeftBehind \/ told[k] = own[k]
        BY <1>2, <2>3
      <3> HIDE DEF dropped, told
      <3> QED
        BY <2>1, <3>1, <3>2 DEF Sound
    <2> QED
      BY <2>2, <2>3
  <1> HIDE DEF dropped, told
  <1>6. /\ query' \in [keys -> EntriesOf(scope)]
        /\ \A k \in keys : Sound(query'[k], k, row, told[k])
    <2>1. \A k \in keys : /\ Mount(dropped[k]) \in EntriesOf(scope)
                          /\ Sound(Mount(dropped[k]), k, row, told[k])
      BY <1>2, <1>5, MountSound
    <2>2. CASE moves
      <3>1. query' = [k \in keys |-> IF Mounted(b.next, k) THEN Mount(dropped[k]) ELSE dropped[k]]
        BY <1>1, <2>2 DEF Opened
      <3> QED
        BY <1>5, <2>1, <3>1
    <2>3. CASE ~moves
      <3>1. query' = dropped /\ dropped \in [keys -> EntriesOf(scope)]
        BY <1>1, <1>5, <2>3 DEF dropped
      <3> QED
        BY <1>5, <3>1
    <2> QED
      BY <2>2, <2>3
  <1>7. NoCall \in CallsOf(scope) /\ Remembers(NoCall, row)
    <2>1. OrderForm \in Buttons
      BY DEF Buttons, PageOf, NewOrder, Page
    <2>2. /\ Unseen \in [via : DataOf(scope), by : DataOf(scope)]
          /\ Unseen.via.ver = 0 /\ Unseen.by.ver = 0 /\ scope.writes \in Nat
      BY <1>2, NothingIsData, PagesAssumption DEF Unseen
    <2>3. /\ NoCall \in CallsOf(scope) /\ NoCall.pc = "idle" /\ NoCall.code = "none"
          /\ NoCall.ver = 0 /\ NoCall.seen = Unseen
      BY <2>1, <2>2 DEF NoCall, CallsOf
    <2> QED
      BY <1>2, <2>2, <2>3 DEF Remembers
  <1>8. \A d \in Calls : call'[d] \in CallsOf(scope) /\ Remembers(call'[d], row)
    <2> SUFFICES ASSUME NEW d \in Calls, d # c
                 PROVE  call'[d] \in CallsOf(scope) /\ Remembers(call'[d], row)
      BY <1>1, <1>7
    <2> DEFINE live == call[d].live /\ ~moves
    <2>1. call'[d] = [call[d] EXCEPT !.live = live] /\ live \in BOOLEAN
      BY <1>1
    <2> HIDE DEF live
    <2> QED
      BY <2>1, CallFacts, LiveKeeps
  <1>9. call' \in [Calls -> CallsOf(scope)]
    BY <1>1, <1>8
  <1>10. Shapes'
    <2>1. own' \in [keys -> 0..MaxVer]
      BY <1>1, <1>4 DEF told
    <2> QED
      BY <1>1, <1>3, <1>6, <1>9, <2>1, ScopeStays DEF IInv, Shapes
  <1>11. (\A k \in keys : own[k] <= row.ver /\ Sound(query[k], k, row, own[k]))'
    <2>1. \A k \in keys : own'[k] <= row.ver /\ Sound(query'[k], k, row, own'[k])
      BY <1>4, <1>6
    <2> QED
      BY <1>1, <2>1, ScopeStays DEF Sound, Seen, NoOlder
  <1>12. (\A d \in Calls : Remembers(call[d], row))'
    <2>1. row' = row /\ keys' = keys
      BY <1>1, ScopeStays
    <2> QED
      BY <1>8, <2>1 DEF Remembers
  <1> QED
    BY <1>10, <1>11, <1>12 DEF IInv

-----------------------------------------------------------------------------
(***************************************************************************)
(* The invariant is inductive                                              *)
(***************************************************************************)

LEMMA InitIInv == Init => IInv
  <1> SUFFICES ASSUME Init PROVE IInv
    OBVIOUS
  <1>1. /\ scope \in Scopes /\ scope.writes \in Nat /\ MaxVer = scope.writes /\ kind = scope.kind
        /\ 0 \in 0..MaxVer
    BY PagesAssumption DEF Init, MaxVer, kind
  <1>2. row \in RowsOf(scope) /\ row.ver = 0
    BY <1>1 DEF Init, RowsOf
  <1>3. Empty \in EntriesOf(scope) /\ Nothing \in DataOf(scope) /\ Nothing.ver = 0
    BY <1>1, NothingIsData
  <1>4. NoCall \in CallsOf(scope) /\ Remembers(NoCall, row)
    <2>1. OrderForm \in Buttons
      BY DEF Buttons, PageOf, NewOrder, Page
    <2>2. /\ Unseen \in [via : DataOf(scope), by : DataOf(scope)]
          /\ Unseen.via.ver = 0 /\ Unseen.by.ver = 0
      BY <1>3 DEF Unseen
    <2>3. /\ NoCall \in CallsOf(scope) /\ NoCall.pc = "idle" /\ NoCall.code = "none"
          /\ NoCall.ver = 0 /\ NoCall.seen = Unseen
      BY <1>1, <2>1, <2>2 DEF NoCall, CallsOf
    <2> QED
      BY <1>2, <2>2, <2>3 DEF Remembers
  <1>5. "away" \in Near
    BY DEF Near, PageOf
  <1>6. Shapes
    BY <1>1, <1>2, <1>3, <1>4, <1>5 DEF Init, Shapes
  <1>7. \A k \in keys : own[k] <= row.ver /\ Sound(query[k], k, row, own[k])
    BY <1>1, <1>2, EmptySound DEF Init
  <1>8. \A c \in Calls : Remembers(call[c], row)
    BY <1>4 DEF Init
  <1> QED
    BY <1>6, <1>7, <1>8 DEF IInv

LEMMA NextIInv == IInv /\ [Next]_vars => IInv'
  <1> SUFFICES ASSUME IInv, [Next]_vars PROVE IInv'
    OBVIOUS
  <1>1. ASSUME NEW p \in Near, Visit(p) PROVE IInv'
    BY <1>1, VisitKeeps
  <1>2. CASE Reconnect
    BY <1>2, ReconnectKeeps
  <1>3. ASSUME NEW k \in keys, Fetches(k) PROVE IInv'
    BY <1>3, FetchesKeep
  <1>4. ASSUME NEW c \in Calls, NEW b \in PageOf[page].buttons, Press(c, b) PROVE IInv'
    BY <1>4, PressKeeps
  <1>5. ASSUME NEW c \in Calls, Serve(c) \/ Settle(c) PROVE IInv'
    BY <1>5, ServeKeeps, SettleKeeps
  <1>6. CASE Others
    BY <1>6, OthersKeep
  <1>7. CASE UNCHANGED vars
    BY <1>7, QueryMoves DEF vars, IInv, Shapes
  <1> QED
    BY <1>1, <1>2, <1>3, <1>4, <1>5, <1>6, <1>7 DEF Next

-----------------------------------------------------------------------------
(***************************************************************************)
(* The results                                                             *)
(***************************************************************************)

LEMMA Inductive == Spec => []IInv
  BY InitIInv, NextIInv, PTL DEF Spec

\* Whatever the buttons of the pages and other people make of a row, it has a
\* status its table has; entries and calls keep their shapes.
THEOREM TypeCorrect == Spec => []TypeOK
  <1>1. IInv => TypeOK
    <2> SUFFICES ASSUME IInv PROVE TypeOK
      OBVIOUS
    <2>1. /\ kind \in Kinds /\ keys \subseteq KeysOf[kind]
      BY PagesAssumption DEF IInv, Shapes, kind, keys
    <2>2. /\ row \in [status : StatusesOf[kind], ver : 0..MaxVer] /\ page \in Near
          /\ own \in [keys -> 0..MaxVer]
      BY DEF IInv, Shapes, RowsOf, kind, MaxVer
    <2> DEFINE Data == [status : StatusesOf[kind] \cup {"none"}, ver : 0..MaxVer, from : Froms]
    <2>3. Data = DataOf(scope)
      BY DEF DataOf, kind, MaxVer
    <2>4. query \in [keys -> [data : Data, stale : BOOLEAN,
                               fetch : [pc : {"none", "sent", "read"}, got : Data]]]
      BY <2>3 DEF IInv, Shapes, EntriesOf, FetchesOf
    <2>5. \A c \in Calls : /\ call[c].pc \in {"idle", "sent", "answered"}
                           /\ call[c].code \in {"none", "ok", "refused", "failed"}
                           /\ call[c].seen \in [via : Data, by : Data]
                           /\ call[c].ver \in 0..MaxVer
      BY <2>3, CallFacts DEF CallsOf
    <2> HIDE DEF Data
    <2> QED
      BY <2>1, <2>2, <2>4, <2>5 DEF TypeOK, Data
  <1> QED
    BY <1>1, Inductive, PTL

\* For any number of calls and writes, on whichever page a mutation's answer finds
\* the browser: an older state passes for fresh, after its change was told, only
\* under a key no mutation names, from an answer the route had read before the
\* invalidation, or from a failed fetch.
THEOREM OldViewsAlwaysHaveACause == Spec => []OldViewsHaveACause
  <1>1. IInv => OldViewsHaveACause
    <2> SUFFICES ASSUME IInv, NEW k \in keys, Fresh(k), query[k].data.ver < own[k],
                        k \notin LeftBehind
                 PROVE  query[k].data.from \in {"overtaken", "error"}
      BY DEF OldViewsHaveACause
    <2>1. query[k].data.from # "answer"
      BY EntryFacts DEF Fresh, Sound, NoOlder, DataOf
    <2>2. query[k].data.from # "nothing"
      BY EntryFacts DEF Fresh, Sound, Seen
    <2>3. query[k].data.from \in Froms
      BY EntryFacts DEF DataOf
    <2> QED
      BY <2>1, <2>2, <2>3 DEF Froms
  <1> QED
    BY <1>1, Inductive, PTL

\* But for the routes that refuse every call, a route refuses only calls of buttons
\* that were offered on a state the row is no longer in, or on none: the condition
\* of every button of every page implies what its route asks.
THEOREM RefusalsAlwaysHaveACause == Spec => []RefusalsHaveACause
  <1>1. IInv => RefusalsHaveACause
    BY DEF IInv, RefusalsHaveACause, Remembers
  <1> QED
    BY <1>1, Inductive, PTL
=============================================================================
