------------------------------ MODULE WsProofs ------------------------------
(***************************************************************************)
(* Proofs about WsSystem, the browser and the WebSocket server together.   *)
(* What the server says of itself rests on what the browser does: it sends *)
(* its login once, and first, over every socket.                           *)
(***************************************************************************)
EXTENDS WsSystem, TLAPS

-----------------------------------------------------------------------------
(***************************************************************************)
(* The inductive invariant                                                 *)
(***************************************************************************)

\* onclose runs for closed sockets only, and a socket the browser holds open
\* has been connected and is not one of those.
Hearing ==
    \A s \in Sockets :
        /\ s \in heard => link[s] = "closed"
        /\ s \in open => s \notin heard /\ link[s] \in {"open", "closed"}

\* Over a socket whose onopen has not run yet, nothing has been sent.
Unopened ==
    \A s \in Sockets :
        link[s] \in {"none", "connecting"} \/ (link[s] = "open" /\ s \notin open) =>
            up[s] = <<>> /\ s \notin verifying /\ entry[s] = None

\* A socket logs in once, with its first frame: when the login awaits its token
\* or has come through there is none on its way any more.
OneLogin ==
    \A s \in Sockets :
        /\ \A n \in 2..Len(up[s]) : up[s][n] # LoginFrame
        /\ s \in verifying => entry[s] = None
        /\ (s \in verifying \/ entry[s] # None) /\ up[s] # <<>> => up[s][1] # LoginFrame

\* The two records of who is in which room, room by room.
Agree ==
    /\ \A s \in Sockets, r \in Rooms :
          s \in members[r] <=> entry[s] # None /\ r \in entry[s].rooms
    /\ finds = "clients" => \A s \in Sockets : entry[s] = None

\* A heartbeat that kept the entry of a closed socket has pinged it in vain, and
\* only entries are counted.
Pinged ==
    \A s \in Sockets :
        /\ entry[s] = None => overdue[s] = 0
        /\ overdue[s] > 0 => link[s] = "closed" /\ ~entry[s].alive
        /\ overdue[s] < 2

\* A component that did not know its user at the first render does nothing.
Idle == ~userRef => fetching = 0 /\ \A s \in Sockets : link[s] = "none"

\* The types, with the connections' frames as a function of the sockets.
ServerTypes ==
    /\ link \in [Sockets -> {"none", "connecting", "open", "closed"}]
    /\ up \in [Sockets -> Seq(Frames)]
    /\ \A s \in Sockets : Len(up[s]) <= MaxFrames
    /\ entry \in [Sockets -> Entries \cup {None}]
    /\ members \in [Rooms -> SUBSET Sockets]
    /\ verifying \subseteq Sockets /\ serverHeard \subseteq Sockets
    /\ finds \in {"clients", "sockets"}
    /\ overdue \in [Sockets -> 0..2]

BrowserTypes ==
    /\ signedIn \in BOOLEAN /\ userRef \in BOOLEAN /\ timer \in BOOLEAN
    /\ isConnected \in BOOLEAN /\ refused \in BOOLEAN
    /\ wsRef \in Sockets \cup {None}
    /\ fetching \in 0..MaxFetches
    /\ open \subseteq Sockets /\ heard \subseteq Sockets

\* ConnectionIsBacked, with the names of this module.
Connection ==
    /\ isConnected => open # {}
    /\ (userRef /\ signedIn) =>
          \/ wsRef \in Sockets \ heard
          \/ fetching > 0 \/ timer \/ refused
    /\ ~userRef => \A s \in Sockets : link[s] = "none"

IInv ==
    /\ ServerTypes /\ BrowserTypes
    /\ Hearing /\ Unopened /\ OneLogin
    /\ Agree /\ Pinged
    /\ Idle /\ Connection

-----------------------------------------------------------------------------
(***************************************************************************)
(* The invariant and the properties                                        *)
(***************************************************************************)

\* What the code justifies of the constants.
Given ==
    /\ MaxFrames \in Nat \ {0} /\ MaxFetches \in Nat \ {0}
    /\ None \notin Sockets /\ None \notin Entries
    /\ Role \in {"client", "craftsman", "admin", "super_admin"}

LEMMA GivenHolds == Given
  BY LinkAssumption, ServerAssumption, SystemAssumption DEF Given

LEMMA InvImpliesTypes == IInv => TypeOK
  <1>1. BrowserTypes => Provider!ProviderTypeOK
    BY DEF BrowserTypes, Provider!ProviderTypeOK
  <1>2. ServerTypes => ServerTypeOK
    BY DEF ServerTypes, ServerTypeOK
  <1>3. ServerTypes => /\ link \in [Sockets -> {"none", "connecting", "open", "closed"}]
                       /\ \A s \in Sockets : up[s] \in Seq(Frames) /\ Len(up[s]) <= MaxFrames
    BY DEF ServerTypes
  <1> QED
    BY <1>1, <1>2, <1>3 DEF IInv, TypeOK

LEMMA InvImpliesConnection == IInv => ConnectionIsBacked
  BY DEF IInv, ConnectionIsBacked, Provider!ConnectionIsBacked, Connection

LEMMA InvImpliesRooms == IInv => RoomsAgree
  <1> SUFFICES ASSUME IInv
               PROVE  RoomsAgree
    OBVIOUS
  <1>1. ASSUME NEW s \in Sockets, entry[s] = None
        PROVE  {r \in Rooms : s \in members[r]} = {}
    BY <1>1 DEF IInv, Agree
  <1>2. ASSUME NEW s \in Sockets, entry[s] # None
        PROVE  {r \in Rooms : s \in members[r]} = entry[s].rooms
    <2>1. entry[s].rooms \subseteq Rooms
      BY <1>2 DEF IInv, ServerTypes, Entries
    <2>2. \A r \in Rooms : s \in members[r] <=> r \in entry[s].rooms
      BY <1>2 DEF IInv, Agree
    <2> QED
      BY <2>1, <2>2
  <1>3. finds = "clients" => Clients = {}
    BY DEF IInv, Agree, Clients
  <1> QED
    BY <1>1, <1>2, <1>3 DEF RoomsAgree

LEMMA InvImpliesForgotten == IInv => ClosedSocketIsForgotten
  BY DEF IInv, Pinged, ServerTypes, ClosedSocketIsForgotten, Clients

-----------------------------------------------------------------------------
(***************************************************************************)
(* Frames and rooms                                                        *)
(***************************************************************************)

\* Once the first frame is read, no login is left.
LEMMA TailHasNoLogin ==
    ASSUME NEW q \in Seq(Frames), q # <<>>, \A n \in 2..Len(q) : q[n] # LoginFrame
    PROVE  /\ Tail(q) \in Seq(Frames) /\ Len(Tail(q)) <= Len(q)
           /\ \A n \in 1..Len(Tail(q)) : Tail(q)[n] # LoginFrame
  <1>1. Len(q) \in Nat \ {0}
    OBVIOUS
  <1>2. /\ Tail(q) \in Seq(Frames) /\ Len(Tail(q)) = Len(q) - 1
        /\ \A n \in 1..Len(Tail(q)) : Tail(q)[n] = q[n + 1]
    OBVIOUS
  <1>3. \A n \in 1..Len(Tail(q)) : n + 1 \in 2..Len(q)
    BY <1>1, <1>2
  <1> QED
    BY <1>1, <1>2, <1>3

\* The frames of a socket are those it had, or all but the first of them.
FramesRead ==
    \A s \in Sockets : up'[s] = up[s] \/ (up[s] # <<>> /\ up'[s] = Tail(up[s]))

LEMMA ReceivedReads ==
    ASSUME Given, IInv, NEW s \in Sockets, Received(s)
    PROVE  /\ FramesRead /\ up' \in [Sockets -> Seq(Frames)]
           /\ \A t \in Sockets : Len(up'[t]) <= MaxFrames
           /\ link' = link
  <1>1. /\ up' = [up EXCEPT ![s] = Tail(up[s])] /\ up[s] # <<>> /\ link' = link
        /\ up \in [Sockets -> Seq(Frames)]
        /\ \A t \in Sockets : Len(up[t]) <= MaxFrames
        /\ \A n \in 2..Len(up[s]) : up[s][n] # LoginFrame
    BY DEF Received, IInv, ServerTypes, OneLogin
  <1>2. Tail(up[s]) \in Seq(Frames) /\ Len(Tail(up[s])) <= Len(up[s])
    BY <1>1, TailHasNoLogin
  <1>3. Len(up[s]) \in Nat /\ Len(Tail(up[s])) \in Nat /\ MaxFrames \in Nat
    BY <1>1, <1>2 DEF Given
  <1> QED
    BY <1>1, <1>2, <1>3 DEF FramesRead

LEMMA OneLoginRead ==
    ASSUME IInv, FramesRead,
           \A s \in Sockets : s \in verifying' => entry'[s] = None,
           \A s \in Sockets : (s \in verifying' \/ entry'[s] # None)
               /\ ~(s \in verifying \/ entry[s] # None) => up'[s] = Tail(up[s]) /\ up[s] # <<>>
    PROVE  OneLogin'
  <1> SUFFICES ASSUME NEW s \in Sockets
               PROVE  /\ \A n \in 2..Len(up'[s]) : up'[s][n] # LoginFrame
                      /\ (s \in verifying' \/ entry'[s] # None) /\ up'[s] # <<>>
                            => up'[s][1] # LoginFrame
    BY DEF OneLogin
  <1>1. up[s] \in Seq(Frames) /\ \A n \in 2..Len(up[s]) : up[s][n] # LoginFrame
    BY DEF IInv, ServerTypes, OneLogin
  <1>2. CASE up[s] # <<>> /\ up'[s] = Tail(up[s])
    <2>1. \A n \in 1..Len(up'[s]) : up'[s][n] # LoginFrame
      BY <1>1, <1>2, TailHasNoLogin
    <2>2. up'[s] \in Seq(Frames)
      BY <1>1, <1>2, TailHasNoLogin
    <2>3. up'[s] # <<>> => 1 \in 1..Len(up'[s])
      BY <2>2
    <2>4. \A n \in 2..Len(up'[s]) : n \in 1..Len(up'[s])
      BY <2>2
    <2> QED
      BY <2>1, <2>3, <2>4
  <1>3. CASE up'[s] = up[s] /\ ~(up[s] # <<>> /\ up'[s] = Tail(up[s]))
    BY <1>1, <1>3 DEF IInv, OneLogin
  <1> QED
    BY <1>2, <1>3 DEF FramesRead

\* A step that changes the rooms of the entries, and nothing else of them.
LEMMA RoomsOnly ==
    ASSUME Given, IInv, ServerTypes', FramesRead, Agree',
           UNCHANGED <<link, verifying, finds, overdue>>, UNCHANGED browserVars,
           \A s \in Sockets : entry'[s] = None <=> entry[s] = None,
           \A s \in Sockets : entry[s] # None => entry'[s].alive = entry[s].alive
    PROVE  IInv'
  <1>1. BrowserTypes' /\ Hearing' /\ Idle' /\ Connection'
    BY DEF IInv, browserVars, BrowserTypes, Hearing, Idle, Connection
  <1>2. Unopened'
    BY DEF IInv, Unopened, FramesRead, browserVars
  <1>3. OneLogin'
    BY OneLoginRead DEF IInv, OneLogin
  <1>4. Pinged'
    BY DEF IInv, Pinged, ServerTypes
  <1> QED
    BY <1>1, <1>2, <1>3, <1>4 DEF IInv

\* Leaving a room keeps the two records in agreement and every entry in place.
LEMMA LeaveRoomEffect ==
    ASSUME Given, IInv, NEW room \in Rooms, NEW socks \in SUBSET Sockets, LeaveRoom(room, socks)
    PROVE  /\ entry' \in [Sockets -> Entries \cup {None}]
           /\ members' \in [Rooms -> SUBSET Sockets]
           /\ \A s \in Sockets : entry'[s] = None <=> entry[s] = None
           /\ \A s \in Sockets : entry[s] # None => entry'[s].alive = entry[s].alive
           /\ \A s \in Sockets, r \in Rooms :
                 s \in members'[r] <=> entry'[s] # None /\ r \in entry'[s].rooms
  <1>1. /\ entry \in [Sockets -> Entries \cup {None}] /\ members \in [Rooms -> SUBSET Sockets]
        /\ \A s \in Sockets, r \in Rooms :
              s \in members[r] <=> entry[s] # None /\ r \in entry[s].rooms
    BY DEF IInv, ServerTypes, Agree
  <1>2. /\ members' = [members EXCEPT ![room] = @ \ socks]
        /\ \A s \in Sockets : entry'[s] = IF s \in socks /\ entry[s] # None
                                          THEN [entry[s] EXCEPT !.rooms = @ \ {room}]
                                          ELSE entry[s]
    BY DEF LeaveRoom
  <1>3. ASSUME NEW e \in Entries
        PROVE  LET x == [e EXCEPT !.rooms = @ \ {room}] IN
               x \in Entries /\ x # None /\ x.alive = e.alive /\ x.rooms = e.rooms \ {room}
    BY DEF Entries, Given
  <1>4. ASSUME NEW s \in Sockets, entry[s] # None
        PROVE  /\ entry'[s] \in Entries /\ entry'[s] # None /\ entry'[s].alive = entry[s].alive
               /\ entry'[s].rooms = IF s \in socks THEN entry[s].rooms \ {room} ELSE entry[s].rooms
    <2>1. entry[s] \in Entries
      BY <1>1, <1>4
    <2> QED
      BY <1>2, <1>3, <1>4, <2>1
  <1>5. \A s \in Sockets : entry[s] = None => entry'[s] = None
    BY <1>2
  <1>6. entry' \in [Sockets -> Entries \cup {None}]
    BY <1>4, <1>5 DEF LeaveRoom
  <1>7. members' \in [Rooms -> SUBSET Sockets]
    BY <1>1, <1>2
  <1>8. ASSUME NEW s \in Sockets, NEW r \in Rooms
        PROVE  s \in members'[r] <=> entry'[s] # None /\ r \in entry'[s].rooms
    <2>1. members'[r] = IF r = room THEN members[r] \ socks ELSE members[r]
      BY <1>1, <1>2
    <2>2. s \in members[r] <=> entry[s] # None /\ r \in entry[s].rooms
      BY <1>1
    <2>3. CASE entry[s] = None
      BY <1>5, <2>1, <2>2, <2>3
    <2>4. CASE entry[s] # None
      <3>1. entry'[s] # None
        BY <1>4, <2>4
      <3>2. entry'[s].rooms = IF s \in socks THEN entry[s].rooms \ {room} ELSE entry[s].rooms
        BY <1>4, <2>4
      <3> QED
        BY <2>1, <2>2, <2>4, <3>1, <3>2
    <2> QED
      BY <2>3, <2>4
  <1> QED
    BY <1>4, <1>5, <1>6, <1>7, <1>8

\* Being taken off the list means being in no room.
LEMMA RemoveEffect ==
    ASSUME Given, IInv, NEW socks \in SUBSET Sockets, RemoveClients(socks)
    PROVE  /\ entry' \in [Sockets -> Entries \cup {None}]
           /\ members' \in [Rooms -> SUBSET Sockets]
           /\ \A s \in Sockets : entry'[s] = IF s \in socks THEN None ELSE entry[s]
           /\ \A s \in Sockets, r \in Rooms :
                 s \in members'[r] <=> entry'[s] # None /\ r \in entry'[s].rooms
  BY DEF RemoveClients, IInv, ServerTypes, Agree

-----------------------------------------------------------------------------
(***************************************************************************)
(* The steps of the server                                                 *)
(***************************************************************************)

LEMMA AcceptStep ==
    ASSUME Given, IInv, NEW s \in Sockets, Accept(s), UNCHANGED browserVars
    PROVE  IInv'
  <1> USE DEF Accept, serverVars, browserVars
  <1>1. ServerTypes' /\ BrowserTypes'
    BY DEF IInv, ServerTypes, BrowserTypes
  <1>2. \A t \in Sockets : link'[t] = IF t = s THEN "open" ELSE link[t]
    BY DEF IInv, ServerTypes
  <1>3. Hearing'
    BY <1>2 DEF IInv, Hearing
  <1>4. Unopened'
    BY <1>2 DEF IInv, Unopened
  <1>5. OneLogin' /\ Agree'
    BY DEF IInv, OneLogin, Agree
  <1>6. Pinged'
    BY <1>2 DEF IInv, Pinged, ServerTypes
  <1>7. Idle' /\ Connection'
    BY <1>2 DEF IInv, Idle, Connection
  <1> QED
    BY <1>1, <1>3, <1>4, <1>5, <1>6, <1>7 DEF IInv

LEMMA HandleAuthStep ==
    ASSUME Given, IInv, NEW s \in Sockets, HandleAuth(s), UNCHANGED browserVars
    PROVE  IInv'
  <1> USE DEF HandleAuth, browserVars
  <1>1. /\ FramesRead /\ up' \in [Sockets -> Seq(Frames)]
        /\ \A t \in Sockets : Len(up'[t]) <= MaxFrames
        /\ link' = link
    BY ReceivedReads
  <1>2. up[s] # <<>> /\ up'[s] = Tail(up[s])
    BY DEF Received, IInv, ServerTypes
  <1>3. verifying' \in {verifying, verifying \cup {s}} /\ entry[s] = None
    OBVIOUS
  <1>4. ServerTypes' /\ BrowserTypes'
    BY <1>1, <1>3 DEF IInv, ServerTypes, BrowserTypes
  <1>5. Unopened'
    <2>1. ~(link[s] \in {"none", "connecting"} \/ (link[s] = "open" /\ s \notin open))
      BY <1>2 DEF IInv, Unopened
    <2> QED
      BY <1>1, <1>3, <2>1 DEF IInv, Unopened, FramesRead
  <1>6. OneLogin'
    BY <1>1, <1>2, <1>3, OneLoginRead DEF IInv, OneLogin
  <1>7. Hearing' /\ Agree' /\ Pinged' /\ Idle' /\ Connection'
    BY <1>1 DEF IInv, Hearing, Agree, Pinged, Idle, Connection
  <1> QED
    BY <1>4, <1>5, <1>6, <1>7 DEF IInv

LEMMA HandleOrderSubscribeStep ==
    ASSUME Given, IInv, NEW s \in Sockets, HandleOrderSubscribe(s), UNCHANGED browserVars
    PROVE  IInv'
  <1> DEFINE room == OrderRoom(Head(up[s]).order)
  <1>1. /\ FramesRead /\ up' \in [Sockets -> Seq(Frames)]
        /\ \A t \in Sockets : Len(up'[t]) <= MaxFrames
        /\ link' = link
    BY ReceivedReads DEF HandleOrderSubscribe, ClientFrame
  <1>2. room \in Rooms
    <2>1. Head(up[s]) \in Frames
      BY DEF HandleOrderSubscribe, ClientFrame, IInv, ServerTypes
    <2>2. Head(up[s]).type = "order:subscribe"
      BY DEF HandleOrderSubscribe, ClientFrame
    <2>3. Head(up[s]).order \in Orders
      BY <2>1, <2>2 DEF Frames, LoginFrame
    <2> QED
      BY <2>3 DEF Rooms
  <1>3. /\ entry \in [Sockets -> Entries \cup {None}] /\ members \in [Rooms -> SUBSET Sockets]
        /\ entry[s] \in Entries /\ entry[s] # None
    BY DEF HandleOrderSubscribe, ClientFrame, IInv, ServerTypes
  <1>4. /\ members' = [members EXCEPT ![room] = @ \cup {s}]
        /\ entry' = [entry EXCEPT ![s].rooms = @ \cup {room}]
        /\ UNCHANGED <<verifying, serverHeard, finds, overdue>>
    BY DEF HandleOrderSubscribe, JoinRoom
  <1> HIDE DEF room
  <1>5. LET x == [entry[s] EXCEPT !.rooms = @ \cup {room}] IN
        x \in Entries /\ x # None /\ x.alive = entry[s].alive /\ x.rooms = entry[s].rooms \cup {room}
    BY <1>2, <1>3 DEF Entries, Given
  <1>6. /\ entry'[s] \in Entries /\ entry'[s] # None
        /\ entry'[s].alive = entry[s].alive /\ entry'[s].rooms = entry[s].rooms \cup {room}
        /\ \A t \in Sockets : t # s => entry'[t] = entry[t]
        /\ entry' \in [Sockets -> Entries \cup {None}]
    BY <1>3, <1>4, <1>5
  <1>7. /\ members' \in [Rooms -> SUBSET Sockets]
        /\ \A r \in Rooms : members'[r] = IF r = room THEN members[r] \cup {s} ELSE members[r]
    BY <1>2, <1>3, <1>4
  <1>8. ServerTypes'
    BY <1>1, <1>4, <1>6, <1>7 DEF IInv, ServerTypes
  <1>9. Agree'
    BY <1>3, <1>4, <1>6, <1>7 DEF IInv, Agree
  <1> QED
    BY <1>1, <1>3, <1>4, <1>6, <1>8, <1>9, RoomsOnly

LEMMA HandleOrderUnsubscribeStep ==
    ASSUME Given, IInv, NEW s \in Sockets, HandleOrderUnsubscribe(s), UNCHANGED browserVars
    PROVE  IInv'
  <1> DEFINE room == OrderRoom(Head(up[s]).order)
  <1>1. /\ FramesRead /\ up' \in [Sockets -> Seq(Frames)]
        /\ \A t \in Sockets : Len(up'[t]) <= MaxFrames
        /\ link' = link
    BY ReceivedReads DEF HandleOrderUnsubscribe, ClientFrame
  <1>2. room \in Rooms
    <2>1. Head(up[s]) \in Frames
      BY DEF HandleOrderUnsubscribe, ClientFrame, IInv, ServerTypes
    <2>2. Head(up[s]).type = "order:unsubscribe"
      BY DEF HandleOrderUnsubscribe, ClientFrame
    <2>3. Head(up[s]).order \in Orders
      BY <2>1, <2>2 DEF Frames, LoginFrame
    <2> QED
      BY <2>3 DEF Rooms
  <1>3. LeaveRoom(room, {s}) /\ UNCHANGED <<verifying, serverHeard, finds, overdue>>
    BY DEF HandleOrderUnsubscribe
  <1> HIDE DEF room
  <1>4. /\ entry' \in [Sockets -> Entries \cup {None}]
        /\ members' \in [Rooms -> SUBSET Sockets]
        /\ \A t \in Sockets : entry'[t] = None <=> entry[t] = None
        /\ \A t \in Sockets : entry[t] # None => entry'[t].alive = entry[t].alive
        /\ \A t \in Sockets, r \in Rooms :
              t \in members'[r] <=> entry'[t] # None /\ r \in entry'[t].rooms
    BY <1>2, <1>3, LeaveRoomEffect
  <1>5. ServerTypes' /\ Agree'
    BY <1>1, <1>3, <1>4 DEF IInv, ServerTypes, Agree
  <1> QED
    BY <1>1, <1>3, <1>4, <1>5, RoomsOnly

\* A broadcast to a room, whatever it was read from.
LEMMA BroadcastStep ==
    ASSUME Given, IInv, NEW room \in Rooms, BroadcastToRoom(room), FramesRead,
           up' \in [Sockets -> Seq(Frames)], \A t \in Sockets : Len(up'[t]) <= MaxFrames,
           UNCHANGED <<link, verifying, serverHeard, finds, overdue>>, UNCHANGED browserVars
    PROVE  IInv'
  <1> DEFINE socks == {s \in members[room] : entry[s] = None \/ link[s] # "open"}
  <1>1. LeaveRoom(room, socks)
    BY DEF BroadcastToRoom
  <1>2. socks \in SUBSET Sockets
    BY DEF IInv, ServerTypes
  <1> HIDE DEF socks
  <1>3. /\ entry' \in [Sockets -> Entries \cup {None}]
        /\ members' \in [Rooms -> SUBSET Sockets]
        /\ \A t \in Sockets : entry'[t] = None <=> entry[t] = None
        /\ \A t \in Sockets : entry[t] # None => entry'[t].alive = entry[t].alive
        /\ \A t \in Sockets, r \in Rooms :
              t \in members'[r] <=> entry'[t] # None /\ r \in entry'[t].rooms
    BY <1>1, <1>2, LeaveRoomEffect
  <1>4. ServerTypes' /\ Agree'
    BY <1>3 DEF IInv, ServerTypes, Agree
  <1> QED
    BY <1>3, <1>4, RoomsOnly

LEMMA HandleLocationUpdateStep ==
    ASSUME Given, IInv, NEW s \in Sockets, HandleLocationUpdate(s), UNCHANGED browserVars
    PROVE  IInv'
  <1>1. /\ FramesRead /\ up' \in [Sockets -> Seq(Frames)]
        /\ \A t \in Sockets : Len(up'[t]) <= MaxFrames
        /\ link' = link
    BY ReceivedReads DEF HandleLocationUpdate, ClientFrame
  <1>2. UNCHANGED serverVars
    BY DEF HandleLocationUpdate
  <1>3. ServerTypes' /\ Agree'
    BY <1>1, <1>2 DEF IInv, ServerTypes, Agree, serverVars
  <1> QED
    BY <1>1, <1>2, <1>3, RoomsOnly DEF serverVars

LEMMA HandleToggleAvailabilityStep ==
    ASSUME Given, IInv, NEW s \in Sockets, HandleToggleAvailability(s), UNCHANGED browserVars
    PROVE  IInv'
  <1>1. /\ FramesRead /\ up' \in [Sockets -> Seq(Frames)]
        /\ \A t \in Sockets : Len(up'[t]) <= MaxFrames
        /\ link' = link
    BY ReceivedReads DEF HandleToggleAvailability, ClientFrame
  <1>2. UNCHANGED <<verifying, serverHeard, finds, overdue>>
    BY DEF HandleToggleAvailability
  <1>3. CASE Role = "craftsman"
    <2>1. CraftsmanRoom(Me) \in Rooms /\ BroadcastToRoom(CraftsmanRoom(Me))
      BY <1>3 DEF Rooms, HandleToggleAvailability
    <2> QED
      BY <1>1, <1>2, <2>1, BroadcastStep
  <1>4. CASE Role # "craftsman"
    <2>1. UNCHANGED <<entry, members>>
      BY <1>4 DEF HandleToggleAvailability
    <2>2. ServerTypes' /\ Agree'
      BY <1>1, <1>2, <2>1 DEF IInv, ServerTypes, Agree
    <2> QED
      BY <1>1, <1>2, <2>1, <2>2, RoomsOnly
  <1> QED
    BY <1>3, <1>4

LEMMA HandleValkeyMessageStep ==
    ASSUME Given, IInv, NEW room \in Rooms, HandleValkeyMessage(room), UNCHANGED browserVars
    PROVE  IInv'
  <1>1. /\ BroadcastToRoom(room)
        /\ UNCHANGED <<link, up, verifying, serverHeard, finds, overdue>>
    BY DEF HandleValkeyMessage, linkVars
  <1>2. FramesRead /\ up' \in [Sockets -> Seq(Frames)] /\ \A t \in Sockets : Len(up'[t]) <= MaxFrames
    BY <1>1 DEF FramesRead, IInv, ServerTypes
  <1> QED
    BY <1>1, <1>2, BroadcastStep

LEMMA VerifiedStep ==
    ASSUME Given, IInv, NEW s \in Sockets, Verified(s), UNCHANGED browserVars
    PROVE  IInv'
  <1>1. /\ s \in verifying /\ verifying' = verifying \ {s}
        /\ UNCHANGED <<link, up, serverHeard, finds, overdue>>
    BY DEF Verified, linkVars
  <1>2. FramesRead
    BY <1>1 DEF FramesRead
  <1>3. entry[s] = None
    BY <1>1 DEF IInv, OneLogin
  <1>4. ~(link[s] \in {"none", "connecting"} \/ (link[s] = "open" /\ s \notin open))
    BY <1>1 DEF IInv, Unopened
  <1>5. BrowserTypes' /\ Hearing' /\ Idle' /\ Connection'
    BY <1>1 DEF IInv, browserVars, BrowserTypes, Hearing, Idle, Connection
  <1>6. CASE UNCHANGED <<entry, members>>
    <2>1. ServerTypes' /\ Agree' /\ Pinged'
      BY <1>1, <1>6 DEF IInv, ServerTypes, Agree, Pinged
    <2>2. Unopened'
      BY <1>1, <1>6 DEF IInv, Unopened, browserVars
    <2>3. OneLogin'
      BY <1>1, <1>6 DEF IInv, OneLogin
    <2> QED
      BY <1>5, <2>1, <2>2, <2>3 DEF IInv
  <1>7. CASE /\ GetWsById(s)
             /\ entry' = [entry EXCEPT ![s] = [rooms |-> AutoRooms, alive |-> TRUE]]
             /\ members' = [r \in Rooms |-> IF r \in AutoRooms THEN members[r] \cup {s}
                                                               ELSE members[r]]
    <2> DEFINE e == [rooms |-> AutoRooms, alive |-> TRUE]
    <2>1. AutoRooms \subseteq Rooms
      BY DEF AutoRooms, Rooms
    <2>2. e \in Entries /\ e # None /\ e.rooms = AutoRooms /\ e.alive = TRUE
      <3>1. AutoRooms \in SUBSET Rooms
        BY <2>1
      <3>2. e \in Entries
        BY ONLY <3>1 DEF Entries, e
      <3>3. e # None
        BY <3>2 DEF Given
      <3> QED
        BY <3>2, <3>3
    <2>3. entry' = [entry EXCEPT ![s] = e]
      BY <1>7
    <2> HIDE DEF e
    <2>4. /\ entry' \in [Sockets -> Entries \cup {None}] /\ entry'[s] = e
          /\ \A t \in Sockets : t # s => entry'[t] = entry[t]
      BY <2>2, <2>3 DEF IInv, ServerTypes
    <2>5. members' \in [Rooms -> SUBSET Sockets]
      BY <1>7 DEF IInv, ServerTypes
    <2>6. ServerTypes'
      BY <1>1, <2>4, <2>5 DEF IInv, ServerTypes
    <2>7. finds # "clients"
      BY <1>3, <1>7 DEF GetWsById
    <2>8. Agree'
      <3>1. ASSUME NEW t \in Sockets, NEW r \in Rooms
            PROVE  t \in members'[r] <=> entry'[t] # None /\ r \in entry'[t].rooms
        <4>1. t \in members[r] <=> entry[t] # None /\ r \in entry[t].rooms
          BY DEF IInv, Agree
        <4>2. CASE t = s
          BY <1>3, <1>7, <2>2, <2>4, <4>1, <4>2
        <4>3. CASE t # s
          BY <1>7, <2>4, <4>1, <4>3
        <4> QED
          BY <4>2, <4>3
      <3> QED
        BY <1>1, <2>7, <3>1 DEF Agree
    <2>9. Unopened'
      BY <1>1, <1>4, <2>4 DEF IInv, Unopened, browserVars
    <2>10. OneLogin'
      BY <1>1, <2>4 DEF IInv, OneLogin
    <2>11. Pinged'
      <3>1. overdue[s] = 0
        BY <1>3 DEF IInv, Pinged
      <3> QED
        BY <1>1, <2>2, <2>4, <3>1 DEF IInv, Pinged
    <2> QED
      BY <1>5, <2>6, <2>8, <2>9, <2>10, <2>11 DEF IInv
  <1> QED
    BY <1>6, <1>7 DEF Verified

LEMMA HandleCloseStep ==
    ASSUME Given, IInv, NEW s \in Sockets, HandleClose(s), UNCHANGED browserVars
    PROVE  IInv'
  <1>1. /\ UNCHANGED <<link, up, verifying, finds>> /\ RemoveClients({s})
        /\ serverHeard' = serverHeard \cup {s} /\ overdue' = [overdue EXCEPT ![s] = 0]
    BY DEF HandleClose, linkVars
  <1>2. /\ entry' \in [Sockets -> Entries \cup {None}]
        /\ members' \in [Rooms -> SUBSET Sockets]
        /\ \A t \in Sockets : entry'[t] = IF t \in {s} THEN None ELSE entry[t]
        /\ \A t \in Sockets, r \in Rooms :
              t \in members'[r] <=> entry'[t] # None /\ r \in entry'[t].rooms
    BY <1>1, RemoveEffect
  <1>3. BrowserTypes' /\ Hearing' /\ Idle' /\ Connection'
    BY <1>1 DEF IInv, browserVars, BrowserTypes, Hearing, Idle, Connection
  <1>4. ServerTypes'
    <2>1. serverHeard' \subseteq Sockets /\ overdue' \in [Sockets -> 0..2]
      BY <1>1 DEF IInv, ServerTypes
    <2> QED
      BY <1>1, <1>2, <2>1 DEF IInv, ServerTypes
  <1>5. Unopened' /\ OneLogin'
    BY <1>1, <1>2 DEF IInv, Unopened, OneLogin, browserVars
  <1>6. Agree'
    BY <1>1, <1>2 DEF IInv, Agree
  <1>7. Pinged'
    BY <1>1, <1>2 DEF IInv, Pinged, ServerTypes
  <1> QED
    BY <1>3, <1>4, <1>5, <1>6, <1>7 DEF IInv

LEMMA PongStep ==
    ASSUME Given, IInv, NEW s \in Sockets, Pong(s), UNCHANGED browserVars
    PROVE  IInv'
  <1>1. /\ link[s] = "open" /\ entry[s] # None /\ entry' = [entry EXCEPT ![s].alive = TRUE]
        /\ UNCHANGED <<link, up, members, verifying, serverHeard, finds, overdue>>
    BY DEF Pong, linkVars
  <1>2. entry[s] \in Entries /\ entry \in [Sockets -> Entries \cup {None}]
    BY <1>1 DEF IInv, ServerTypes
  <1>3. LET x == [entry[s] EXCEPT !.alive = TRUE] IN
        x \in Entries /\ x # None /\ x.rooms = entry[s].rooms
    BY <1>2 DEF Entries, Given
  <1>4. /\ entry' \in [Sockets -> Entries \cup {None}] /\ entry'[s] # None
        /\ entry'[s].rooms = entry[s].rooms
        /\ \A t \in Sockets : t # s => entry'[t] = entry[t]
    BY <1>1, <1>2, <1>3
  <1>5. BrowserTypes' /\ Hearing' /\ Idle' /\ Connection'
    BY <1>1 DEF IInv, browserVars, BrowserTypes, Hearing, Idle, Connection
  <1>6. ServerTypes'
    BY <1>1, <1>4 DEF IInv, ServerTypes
  <1>7. Unopened' /\ OneLogin'
    BY <1>1, <1>4 DEF IInv, Unopened, OneLogin, browserVars
  <1>8. Agree'
    BY <1>1, <1>4 DEF IInv, Agree
  <1>9. Pinged'
    <2>1. ~(overdue[s] > 0)
      BY <1>1 DEF IInv, Pinged
    <2>2. overdue[s] \in 0..2
      BY DEF IInv, ServerTypes
    <2>3. overdue[s] = 0
      BY <2>1, <2>2
    <2> QED
      BY <1>1, <1>4, <2>3 DEF IInv, Pinged
  <1> QED
    BY <1>5, <1>6, <1>7, <1>8, <1>9 DEF IInv

LEMMA RestartStep ==
    ASSUME Given, IInv, Restart, UNCHANGED browserVars
    PROVE  IInv'
  <1>1. \A s \in Sockets : /\ link'[s] = IF Live(s) THEN "closed" ELSE link[s]
                           /\ up'[s] = <<>> /\ entry'[s] = None /\ overdue'[s] = 0
    BY DEF Restart
  <1>2. verifying' = {} /\ finds' = finds /\ \A r \in Rooms : members'[r] = {}
    BY DEF Restart
  <1>3. /\ link' \in [Sockets -> {"none", "connecting", "open", "closed"}]
        /\ up' \in [Sockets -> Seq(Frames)] /\ entry' \in [Sockets -> Entries \cup {None}]
        /\ members' \in [Rooms -> SUBSET Sockets]
        /\ serverHeard' \subseteq Sockets /\ overdue' \in [Sockets -> 0..2]
    BY DEF Restart, IInv, ServerTypes, Live
  <1>4. ServerTypes'
    BY <1>1, <1>2, <1>3 DEF IInv, ServerTypes, Given
  <1>5. BrowserTypes'
    BY DEF IInv, BrowserTypes, browserVars
  <1>6. Hearing'
    BY <1>1 DEF IInv, Hearing, Live, browserVars
  <1>7. Unopened' /\ OneLogin'
    BY <1>1, <1>2 DEF Unopened, OneLogin
  <1>8. Agree' /\ Pinged'
    BY <1>1, <1>2 DEF Agree, Pinged
  <1>9. Idle' /\ Connection'
    BY <1>1 DEF IInv, Idle, Connection, Live, browserVars
  <1> QED
    BY <1>4, <1>5, <1>6, <1>7, <1>8, <1>9 DEF IInv

LEMMA HeartbeatStep ==
    ASSUME Given, IInv, Heartbeat, UNCHANGED browserVars
    PROVE  IInv'
  <1> DEFINE dead == {s \in Clients : ~entry[s].alive}
  <1>1. /\ link' = [s \in Sockets |-> IF s \in dead THEN "closed" ELSE link[s]]
        /\ members' = [r \in Rooms |-> members[r] \ {s \in dead : r \in entry[s].rooms}]
        /\ entry' = [s \in Sockets |-> IF s \in dead THEN None
                                       ELSE IF s \in Clients THEN [entry[s] EXCEPT !.alive = FALSE]
                                       ELSE None]
        /\ overdue' = Overdue(Clients \ dead)
        /\ UNCHANGED <<up, verifying, serverHeard, finds>>
    BY DEF Heartbeat
  <1>2. \A s \in Sockets : s \in Clients <=> entry[s] # None
    BY DEF Clients
  <1>3. \A s \in dead : s \in Sockets /\ entry[s] # None /\ ~entry[s].alive
    BY <1>2 DEF Clients
  <1>4. \A s \in Sockets : s \in dead <=> entry[s] # None /\ ~entry[s].alive
    BY <1>2
  <1> HIDE DEF dead
  <1>5. ASSUME NEW s \in Sockets, entry[s] # None, s \notin dead
        PROVE  /\ entry'[s] \in Entries /\ entry'[s] # None
               /\ entry'[s].rooms = entry[s].rooms /\ ~entry'[s].alive
    <2>1. entry[s] \in Entries
      BY <1>5 DEF IInv, ServerTypes
    <2>2. LET x == [entry[s] EXCEPT !.alive = FALSE] IN
          x \in Entries /\ x # None /\ x.rooms = entry[s].rooms /\ x.alive = FALSE
      BY <2>1 DEF Entries, Given
    <2>3. entry'[s] = [entry[s] EXCEPT !.alive = FALSE]
      BY <1>1, <1>2, <1>5
    <2> QED
      BY <2>2, <2>3
  <1>6. \A s \in Sockets : (entry[s] = None \/ s \in dead) <=> entry'[s] = None
    BY <1>1, <1>2, <1>5
  <1>7. /\ \A s \in Sockets : link'[s] = IF s \in dead THEN "closed" ELSE link[s]
        /\ link' \in [Sockets -> {"none", "connecting", "open", "closed"}]
    BY <1>1 DEF IInv, ServerTypes
  <1>8. \A s \in Sockets : entry[s] # None =>
            link[s] \in {"open", "closed"} /\ (link[s] = "open" => s \in open)
    BY DEF IInv, Unopened, ServerTypes
  <1>9. /\ entry' \in [Sockets -> Entries \cup {None}] /\ members' \in [Rooms -> SUBSET Sockets]
    <2>1. \A s \in Sockets : entry'[s] \in Entries \cup {None}
      BY <1>5, <1>6
    <2>2. members' \in [Rooms -> SUBSET Sockets]
      BY <1>1 DEF IInv, ServerTypes
    <2> QED
      BY <1>1, <2>1, <2>2
  <1>10. ASSUME NEW s \in Sockets
         PROVE  /\ entry'[s] = None => overdue'[s] = 0
                /\ overdue'[s] > 0 => link'[s] = "closed" /\ ~entry'[s].alive
                /\ overdue'[s] < 2 /\ overdue'[s] \in 0..2
    <2>1. overdue'[s] = IF s \in Clients \ dead /\ link[s] = "closed"
                        THEN IF overdue[s] < 2 THEN overdue[s] + 1 ELSE 2 ELSE 0
      BY <1>1 DEF Overdue
    <2>2. CASE s \in Clients \ dead /\ link[s] = "closed"
      <3>1. entry[s] # None /\ entry[s].alive /\ s \notin dead
        BY <1>2, <1>4, <2>2
      <3>2. ~(overdue[s] > 0)
        BY <3>1 DEF IInv, Pinged
      <3>3. overdue[s] \in 0..2
        BY DEF IInv, ServerTypes
      <3>4. overdue'[s] = 1
        BY <2>1, <2>2, <3>2, <3>3
      <3>5. entry'[s] # None /\ ~entry'[s].alive
        BY <1>5, <3>1
      <3>6. link'[s] = "closed"
        BY <1>7, <2>2
      <3> QED
        BY <3>4, <3>5, <3>6
    <2>3. CASE ~(s \in Clients \ dead /\ link[s] = "closed")
      <3>1. overdue'[s] = 0
        BY <2>1, <2>3
      <3> QED
        BY <3>1
    <2> QED
      BY <2>2, <2>3
  <1>11. ServerTypes'
    <2>1. overdue' \in [Sockets -> 0..2]
      BY <1>1, <1>10 DEF Overdue
    <2> QED
      BY <1>1, <1>7, <1>9, <2>1 DEF IInv, ServerTypes
  <1>12. Pinged'
    BY <1>10 DEF Pinged
  <1>13. BrowserTypes'
    BY DEF IInv, BrowserTypes, browserVars
  <1>14. Hearing'
    BY <1>3, <1>7 DEF IInv, Hearing, browserVars
  <1>15. Unopened' /\ OneLogin'
    BY <1>1, <1>6, <1>7 DEF IInv, Unopened, OneLogin, browserVars
  <1>16. Agree'
    <2>1. ASSUME NEW s \in Sockets, NEW r \in Rooms
          PROVE  s \in members'[r] <=> entry'[s] # None /\ r \in entry'[s].rooms
      <3>1. s \in members'[r] <=> s \in members[r] /\ ~(s \in dead /\ r \in entry[s].rooms)
        BY <1>1
      <3>2. s \in members[r] <=> entry[s] # None /\ r \in entry[s].rooms
        BY DEF IInv, Agree
      <3>3. CASE entry[s] # None /\ s \notin dead
        <4>1. entry'[s] # None /\ entry'[s].rooms = entry[s].rooms
          BY <1>5, <3>3
        <4> QED
          BY <3>1, <3>2, <3>3, <4>1
      <3>4. CASE entry[s] = None \/ s \in dead
        BY <1>3, <1>6, <3>1, <3>2, <3>4
      <3> QED
        BY <3>3, <3>4
    <2>2. finds' = "clients" => \A s \in Sockets : entry'[s] = None
      BY <1>1, <1>6 DEF IInv, Agree
    <2> QED
      BY <2>1, <2>2 DEF Agree
  <1>17. Idle' /\ Connection'
    <2>1. \A s \in Sockets : link[s] = "none" <=> link'[s] = "none"
      BY <1>3, <1>7, <1>8
    <2> QED
      BY <2>1 DEF IInv, Idle, Connection, browserVars
  <1> QED
    BY <1>11, <1>12, <1>13, <1>14, <1>15, <1>16, <1>17 DEF IInv

-----------------------------------------------------------------------------
(***************************************************************************)
(* The steps of the browser and of the network                             *)
(***************************************************************************)

\* A step of the browser that sends nothing and opens nothing.
LEMMA BrowserQuiet ==
    ASSUME Given, IInv, UNCHANGED <<up, serverVars>>, BrowserTypes',
           link' \in [Sockets -> {"none", "connecting", "open", "closed"}],
           \A s \in Sockets : \/ link'[s] = link[s] /\ (s \in open' <=> s \in open)
                              \/ link[s] = "none" /\ link'[s] = "connecting" /\ s \notin open'
                              \/ link'[s] = "closed" /\ link[s] # "none"
                              \/ link'[s] = link[s] /\ link[s] \in {"none", "closed"} /\ s \notin open',
           open' \subseteq open
    PROVE  ServerTypes' /\ Unopened' /\ OneLogin' /\ Agree' /\ Pinged'
  <1>1. ServerTypes'
    BY DEF IInv, ServerTypes, serverVars
  <1>2. Unopened'
    BY DEF IInv, Unopened, serverVars
  <1>3. OneLogin' /\ Agree'
    BY DEF IInv, OneLogin, Agree, serverVars
  <1>4. Pinged'
    BY DEF IInv, Pinged, serverVars
  <1> QED
    BY <1>1, <1>2, <1>3, <1>4

\* disconnect: the socket in wsRef is closed and no longer held open.
LEMMA DisconnectEffect ==
    ASSUME Given, IInv, Provider!Disconnect
    PROVE  /\ timer' = FALSE /\ isConnected' = FALSE /\ wsRef' = None
           /\ open' \subseteq open
           /\ link' \in [Sockets -> {"none", "connecting", "open", "closed"}]
           /\ \A s \in Sockets :
                 \/ link'[s] = link[s] /\ (s \in open' <=> s \in open)
                 \/ link'[s] = "closed" /\ link[s] # "none" /\ s \notin open'
                 \/ link'[s] = link[s] /\ link[s] \in {"none", "closed"} /\ s \notin open'
  <1>1. /\ timer' = FALSE /\ isConnected' = FALSE /\ wsRef' = None /\ open' = open \ {wsRef}
        /\ link' = IF wsRef # None /\ link[wsRef] \in {"connecting", "open"}
                   THEN [link EXCEPT ![wsRef] = "closed"] ELSE link
    BY DEF Provider!Disconnect, Provider!Live
  <1>2. /\ link \in [Sockets -> {"none", "connecting", "open", "closed"}]
        /\ wsRef \in Sockets \cup {None} /\ open \subseteq Sockets /\ None \notin Sockets
    BY DEF IInv, ServerTypes, BrowserTypes, Given
  <1>3. CASE wsRef = None
    BY <1>1, <1>2, <1>3
  <1>4. CASE wsRef \in Sockets
    BY <1>1, <1>2, <1>4
  <1> QED
    BY <1>1, <1>2, <1>3, <1>4

LEMMA SignOutStep ==
    ASSUME Given, IInv, Provider!SignOut, UNCHANGED serverVars
    PROVE  IInv'
  <1>1. /\ timer' = FALSE /\ isConnected' = FALSE /\ wsRef' = None
        /\ open' \subseteq open
        /\ link' \in [Sockets -> {"none", "connecting", "open", "closed"}]
        /\ \A s \in Sockets :
              \/ link'[s] = link[s] /\ (s \in open' <=> s \in open)
              \/ link'[s] = "closed" /\ link[s] # "none" /\ s \notin open'
              \/ link'[s] = link[s] /\ link[s] \in {"none", "closed"} /\ s \notin open'
    BY DisconnectEffect DEF Provider!SignOut
  <1>2. signedIn' = FALSE /\ UNCHANGED <<up, userRef, fetching, heard, refused>>
    BY DEF Provider!SignOut
  <1>3. BrowserTypes'
    BY <1>1, <1>2 DEF IInv, BrowserTypes
  <1>4. ServerTypes' /\ Unopened' /\ OneLogin' /\ Agree' /\ Pinged'
    BY <1>1, <1>2, <1>3, BrowserQuiet
  <1>5. Hearing'
    BY <1>1, <1>2 DEF IInv, Hearing
  <1>6. Idle' /\ Connection'
    BY <1>1, <1>2 DEF IInv, Idle, Connection
  <1> QED
    BY <1>3, <1>4, <1>5, <1>6 DEF IInv

LEMMA SignInStep ==
    ASSUME Given, IInv, Provider!SignIn, UNCHANGED serverVars
    PROVE  IInv'
  <1>1. /\ timer' = FALSE /\ isConnected' = FALSE /\ wsRef' = None
        /\ open' \subseteq open
        /\ link' \in [Sockets -> {"none", "connecting", "open", "closed"}]
        /\ \A s \in Sockets :
              \/ link'[s] = link[s] /\ (s \in open' <=> s \in open)
              \/ link'[s] = "closed" /\ link[s] # "none" /\ s \notin open'
              \/ link'[s] = link[s] /\ link[s] \in {"none", "closed"} /\ s \notin open'
    BY DisconnectEffect DEF Provider!SignIn
  <1>2. signedIn' = TRUE /\ UNCHANGED <<up, userRef, heard>> /\ Provider!Connect(None)
    BY DEF Provider!SignIn
  <1>3. /\ userRef => fetching < MaxFetches /\ fetching' = fetching + 1 /\ refused' = FALSE
        /\ ~userRef => fetching' = fetching /\ refused' = refused
    BY <1>2 DEF Provider!Connect, Provider!Connects, IInv, BrowserTypes, Given
  <1>4. fetching \in 0..MaxFetches /\ MaxFetches \in Nat
    BY DEF IInv, BrowserTypes, Given
  <1>5. fetching' \in 0..MaxFetches /\ (userRef => fetching' > 0)
    BY <1>3, <1>4 DEF IInv, BrowserTypes
  <1>6. refused' \in BOOLEAN
    BY <1>3 DEF IInv, BrowserTypes
  <1>7. BrowserTypes'
    BY <1>1, <1>2, <1>5, <1>6 DEF IInv, BrowserTypes
  <1>8. ServerTypes' /\ Unopened' /\ OneLogin' /\ Agree' /\ Pinged'
    BY <1>1, <1>2, <1>7, BrowserQuiet
  <1>9. Hearing'
    BY <1>1, <1>2 DEF IInv, Hearing
  <1>10. Idle' /\ Connection'
    BY <1>1, <1>2, <1>3, <1>5 DEF IInv, Idle, Connection
  <1> QED
    BY <1>7, <1>8, <1>9, <1>10 DEF IInv

LEMMA TokenArrivesStep ==
    ASSUME Given, IInv, NEW s \in Sockets, Provider!TokenArrives(s), UNCHANGED serverVars
    PROVE  IInv'
  <1>1. /\ fetching > 0 /\ link[s] = "none" /\ fetching' = fetching - 1
        /\ link' = [link EXCEPT ![s] = "connecting"] /\ wsRef' = s
        /\ UNCHANGED <<up, signedIn, userRef, timer, isConnected, open, heard, refused>>
    BY DEF Provider!TokenArrives
  <1>2. fetching \in 0..MaxFetches /\ MaxFetches \in Nat
    BY DEF IInv, BrowserTypes, Given
  <1>3. fetching' \in 0..MaxFetches /\ userRef
    BY <1>1, <1>2 DEF IInv, Idle
  <1>4. BrowserTypes'
    BY <1>1, <1>3 DEF IInv, BrowserTypes
  <1>5. s \notin open /\ s \notin heard
    BY <1>1 DEF IInv, Hearing
  <1>6. /\ link' \in [Sockets -> {"none", "connecting", "open", "closed"}]
        /\ \A t \in Sockets : link'[t] = IF t = s THEN "connecting" ELSE link[t]
    BY <1>1 DEF IInv, ServerTypes
  <1>7. ServerTypes' /\ Unopened' /\ OneLogin' /\ Agree' /\ Pinged'
    BY <1>1, <1>4, <1>5, <1>6, BrowserQuiet
  <1>8. Hearing'
    BY <1>1, <1>5, <1>6 DEF IInv, Hearing
  <1>9. Idle' /\ Connection'
    BY <1>1, <1>3, <1>5, <1>6 DEF IInv, Idle, Connection
  <1> QED
    BY <1>4, <1>7, <1>8, <1>9 DEF IInv

LEMMA NoTokenStep ==
    ASSUME Given, IInv, Provider!NoToken, UNCHANGED serverVars
    PROVE  IInv'
  <1>1. /\ fetching > 0 /\ fetching' = fetching - 1 /\ refused' = TRUE
        /\ UNCHANGED <<link, up, signedIn, userRef, wsRef, timer, isConnected, open, heard>>
    BY DEF Provider!NoToken, Provider!linkVars
  <1>2. fetching \in 0..MaxFetches /\ MaxFetches \in Nat
    BY DEF IInv, BrowserTypes, Given
  <1>3. fetching' \in 0..MaxFetches /\ userRef
    BY <1>1, <1>2 DEF IInv, Idle
  <1>4. BrowserTypes'
    BY <1>1, <1>3 DEF IInv, BrowserTypes
  <1>5. ServerTypes' /\ Unopened' /\ OneLogin' /\ Agree' /\ Pinged'
    BY <1>1, <1>4, BrowserQuiet DEF IInv, ServerTypes
  <1>6. Hearing' /\ Idle' /\ Connection'
    BY <1>1, <1>3 DEF IInv, Hearing, Idle, Connection
  <1> QED
    BY <1>4, <1>5, <1>6 DEF IInv

LEMMA OnOpenStep ==
    ASSUME Given, IInv, NEW s \in Sockets, Provider!OnOpen(s), UNCHANGED serverVars
    PROVE  IInv'
  <1>1. /\ link[s] = "open" /\ s \notin open /\ open' = open \cup {s} /\ isConnected' = TRUE
        /\ Len(up[s]) < MaxFrames /\ up' = [up EXCEPT ![s] = Append(up[s], LoginFrame)]
        /\ UNCHANGED <<link, signedIn, userRef, wsRef, fetching, timer, heard, refused>>
    BY DEF Provider!OnOpen, Provider!Transmit
  <1>2. up[s] = <<>> /\ s \notin verifying /\ entry[s] = None
    BY <1>1 DEF IInv, Unopened
  <1>3. LoginFrame \in Frames
    BY DEF Frames
  <1>4. up \in [Sockets -> Seq(Frames)] /\ MaxFrames \in Nat \ {0}
    BY DEF IInv, ServerTypes, Given
  <1>5. /\ up' \in [Sockets -> Seq(Frames)] /\ up'[s] = <<LoginFrame>> /\ Len(up'[s]) = 1
        /\ \A t \in Sockets : t # s => up'[t] = up[t]
    BY <1>1, <1>2, <1>3, <1>4
  <1>6. BrowserTypes'
    BY <1>1 DEF IInv, BrowserTypes
  <1>7. \A t \in Sockets : Len(up'[t]) <= MaxFrames
    <2>1. 1 <= MaxFrames
      BY <1>4
    <2>2. \A t \in Sockets : Len(up[t]) <= MaxFrames
      BY DEF IInv, ServerTypes
    <2> QED
      BY <1>5, <2>1, <2>2
  <1>8. ServerTypes'
    BY <1>1, <1>5, <1>7 DEF IInv, ServerTypes, serverVars
  <1>9. Hearing'
    BY <1>1 DEF IInv, Hearing
  <1>10. Unopened'
    BY <1>1, <1>5 DEF IInv, Unopened, serverVars
  <1>11. OneLogin'
    <2>1. ASSUME NEW t \in Sockets
          PROVE  /\ \A n \in 2..Len(up'[t]) : up'[t][n] # LoginFrame
                 /\ t \in verifying => entry[t] = None
                 /\ (t \in verifying \/ entry[t] # None) /\ up'[t] # <<>> => up'[t][1] # LoginFrame
      <3>1. CASE t = s
        <4>1. \A n \in 2..Len(up'[t]) : FALSE
          <5>1. Len(up'[t]) = 1
            BY <1>5, <3>1
          <5>2. 2..1 = {}
            OBVIOUS
          <5> QED
            BY <5>1, <5>2
        <4> QED
          BY <1>2, <3>1, <4>1
      <3>2. CASE t # s
        BY <1>5, <3>2 DEF IInv, OneLogin
      <3> QED
        BY <3>1, <3>2
    <2> QED
      BY <2>1 DEF OneLogin, serverVars
  <1>12. Agree' /\ Pinged'
    BY <1>1 DEF IInv, Agree, Pinged, serverVars
  <1>13. Idle' /\ Connection'
    BY <1>1 DEF IInv, Idle, Connection
  <1> QED
    BY <1>6, <1>8, <1>9, <1>10, <1>11, <1>12, <1>13 DEF IInv

LEMMA OnCloseStep ==
    ASSUME Given, IInv, NEW s \in Sockets, Provider!OnClose(s), UNCHANGED serverVars
    PROVE  IInv'
  <1>1. /\ link[s] = "closed" /\ s \notin heard /\ heard' = heard \cup {s} /\ open' = open \ {s}
        /\ isConnected' = FALSE /\ timer' = (timer \/ userRef)
        /\ UNCHANGED <<link, up, signedIn, userRef, wsRef, fetching, refused>>
    BY DEF Provider!OnClose, Provider!linkVars
  <1>2. timer' \in BOOLEAN
    BY <1>1
  <1>3. BrowserTypes'
    BY <1>1, <1>2 DEF IInv, BrowserTypes
  <1>4. ServerTypes' /\ Unopened' /\ OneLogin' /\ Agree' /\ Pinged'
    BY <1>1, <1>3, BrowserQuiet DEF IInv, ServerTypes
  <1>5. Hearing'
    BY <1>1 DEF IInv, Hearing
  <1>6. userRef => timer'
    BY <1>1
  <1>7. Idle' /\ Connection'
    BY <1>1, <1>6 DEF IInv, Idle, Connection
  <1> QED
    BY <1>3, <1>4, <1>5, <1>7 DEF IInv

LEMMA ReconnectStep ==
    ASSUME Given, IInv, Provider!Reconnect, UNCHANGED serverVars
    PROVE  IInv'
  <1>1. /\ timer' = FALSE /\ Provider!Connect(wsRef)
        /\ UNCHANGED <<link, up, signedIn, userRef, wsRef, isConnected, open, heard>>
    BY DEF Provider!Reconnect, Provider!linkVars
  <1>2. /\ userRef /\ wsRef \notin open =>
              fetching < MaxFetches /\ fetching' = fetching + 1 /\ refused' = FALSE
        /\ ~(userRef /\ wsRef \notin open) => fetching' = fetching /\ refused' = refused
    BY <1>1 DEF Provider!Connect, Provider!Connects
  <1>3. fetching \in 0..MaxFetches /\ MaxFetches \in Nat
    BY DEF IInv, BrowserTypes, Given
  <1>4. fetching' \in 0..MaxFetches /\ (userRef /\ wsRef \notin open => fetching' > 0)
    BY <1>2, <1>3
  <1>5. refused' \in BOOLEAN
    BY <1>2 DEF IInv, BrowserTypes
  <1>6. BrowserTypes'
    BY <1>1, <1>4, <1>5 DEF IInv, BrowserTypes
  <1>7. ServerTypes' /\ Unopened' /\ OneLogin' /\ Agree' /\ Pinged'
    BY <1>1, <1>6, BrowserQuiet DEF IInv, ServerTypes
  <1>8. Hearing' /\ Idle'
    BY <1>1, <1>2 DEF IInv, Hearing, Idle
  <1>9. wsRef \in open => wsRef \in Sockets \ heard /\ link[wsRef] # "none"
    BY DEF IInv, Hearing, BrowserTypes
  <1>10. Connection'
    BY <1>1, <1>2, <1>4, <1>9 DEF IInv, Connection
  <1> QED
    BY <1>6, <1>7, <1>8, <1>10 DEF IInv

LEMMA SendStep ==
    ASSUME Given, IInv, NEW frame \in Frames \ {LoginFrame}, Provider!Send(frame),
           UNCHANGED serverVars
    PROVE  IInv'
  <1>1. /\ wsRef \in open /\ Len(up[wsRef]) < MaxFrames
        /\ up' = [up EXCEPT ![wsRef] = Append(up[wsRef], frame)]
        /\ UNCHANGED link /\ UNCHANGED browserVars
    BY DEF Provider!Send, Provider!Transmit, Provider!providerVars, browserVars
  <1>2. wsRef \in Sockets /\ link[wsRef] \in {"open", "closed"}
    BY <1>1 DEF IInv, BrowserTypes, Hearing
  <1>3. up \in [Sockets -> Seq(Frames)] /\ MaxFrames \in Nat
    BY DEF IInv, ServerTypes, Given
  <1> DEFINE q == up[wsRef]
  <1>4. q \in Seq(Frames) /\ Len(q) \in Nat /\ Len(q) < MaxFrames
    BY <1>1, <1>2, <1>3
  <1>5. /\ Append(q, frame) \in Seq(Frames) /\ Len(Append(q, frame)) = Len(q) + 1
        /\ \A n \in 1..Len(q) : Append(q, frame)[n] = q[n]
        /\ Append(q, frame)[Len(q) + 1] = frame
    BY <1>4
  <1>6. /\ up' \in [Sockets -> Seq(Frames)] /\ up'[wsRef] = Append(q, frame)
        /\ \A t \in Sockets : t # wsRef => up'[t] = up[t]
    BY <1>1, <1>2, <1>3, <1>5
  <1>7. \A t \in Sockets : Len(up'[t]) <= MaxFrames
    <2>1. Len(up'[wsRef]) <= MaxFrames
      BY <1>3, <1>4, <1>5, <1>6
    <2>2. \A t \in Sockets : Len(up[t]) <= MaxFrames
      BY DEF IInv, ServerTypes
    <2> QED
      BY <1>6, <2>1, <2>2
  <1>8. ServerTypes'
    BY <1>1, <1>6, <1>7 DEF IInv, ServerTypes, serverVars
  <1>9. BrowserTypes' /\ Hearing' /\ Agree' /\ Pinged' /\ Idle' /\ Connection'
    BY <1>1 DEF IInv, BrowserTypes, Hearing, Agree, Pinged, Idle, Connection, browserVars, serverVars
  <1>10. Unopened'
    <2>1. \A t \in Sockets :
             link[t] \in {"none", "connecting"} \/ (link[t] = "open" /\ t \notin open) => t # wsRef
      BY <1>1, <1>2
    <2> QED
      BY <1>1, <1>6, <2>1 DEF IInv, Unopened, browserVars, serverVars
  <1>11. OneLogin'
    <2>1. ASSUME NEW t \in Sockets
          PROVE  /\ \A n \in 2..Len(up'[t]) : up'[t][n] # LoginFrame
                 /\ t \in verifying => entry[t] = None
                 /\ (t \in verifying \/ entry[t] # None) /\ up'[t] # <<>> => up'[t][1] # LoginFrame
      <3>1. CASE t = wsRef
        <4>1. /\ \A n \in 2..Len(q) : q[n] # LoginFrame
              /\ t \in verifying => entry[t] = None
              /\ (t \in verifying \/ entry[t] # None) /\ q # <<>> => q[1] # LoginFrame
          BY <3>1 DEF IInv, OneLogin
        <4>2. frame # LoginFrame
          OBVIOUS
        <4>3. \A n \in 2..Len(up'[t]) : up'[t][n] # LoginFrame
          <5> SUFFICES ASSUME NEW n \in 2..(Len(q) + 1)
                       PROVE  Append(q, frame)[n] # LoginFrame
            BY <1>5, <1>6, <3>1
          <5>1. CASE n = Len(q) + 1
            BY <1>5, <4>2, <5>1
          <5>2. CASE n # Len(q) + 1
            <6>1. n \in 1..Len(q) /\ n \in 2..Len(q)
              BY <1>4, <5>2
            <6> QED
              BY <1>5, <4>1, <6>1
          <5> QED
            BY <5>1, <5>2
        <4>4. ASSUME t \in verifying \/ entry[t] # None
              PROVE  up'[t][1] # LoginFrame
          <5>1. CASE q = <<>>
            <6>1. Len(q) + 1 = 1
              BY <5>1
            <6> QED
              BY <1>5, <1>6, <3>1, <4>2, <6>1
          <5>2. CASE q # <<>>
            <6>1. 1 \in 1..Len(q)
              BY <1>4, <5>2
            <6>2. q[1] # LoginFrame
              BY <4>1, <4>4, <5>2
            <6> QED
              BY <1>5, <1>6, <3>1, <6>1, <6>2
          <5> QED
            BY <5>1, <5>2
        <4> QED
          BY <4>1, <4>3, <4>4
      <3>2. CASE t # wsRef
        BY <1>6, <3>2 DEF IInv, OneLogin
      <3> QED
        BY <3>1, <3>2
    <2> QED
      BY <2>1 DEF OneLogin, serverVars
  <1> QED
    BY <1>8, <1>9, <1>10, <1>11 DEF IInv

LEMMA DropStep ==
    ASSUME Given, IInv, NEW s \in Sockets, Drop(s), UNCHANGED <<serverVars, browserVars>>
    PROVE  IInv'
  <1>1. /\ link[s] \in {"connecting", "open"} /\ up' = up
        /\ link' \in [Sockets -> {"none", "connecting", "open", "closed"}]
        /\ \A t \in Sockets : link'[t] = IF t = s THEN "closed" ELSE link[t]
    BY DEF Drop, Live, IInv, ServerTypes
  <1>2. BrowserTypes'
    BY DEF IInv, BrowserTypes, browserVars
  <1>3. ServerTypes' /\ Unopened' /\ OneLogin' /\ Agree' /\ Pinged'
    BY <1>1, <1>2, BrowserQuiet DEF browserVars
  <1>4. Hearing' /\ Idle' /\ Connection'
    BY <1>1 DEF IInv, Hearing, Idle, Connection, browserVars
  <1> QED
    BY <1>2, <1>3, <1>4 DEF IInv

-----------------------------------------------------------------------------
(***************************************************************************)
(* The invariant and what follows from it                                  *)
(***************************************************************************)

LEMMA InitEstablishes == Given /\ Init => IInv
  <1> SUFFICES ASSUME Given, Init
               PROVE  IInv
    OBVIOUS
  <1> USE DEF Init, LinkInit, ServerInit
  <1>1. ServerTypes
    <2>1. <<>> \in Seq(Frames) /\ Len(<<>>) <= MaxFrames
      BY DEF Given
    <2> QED
      BY <2>1 DEF ServerTypes
  <1>2. /\ signedIn \in BOOLEAN /\ userRef = signedIn /\ wsRef = None
        /\ fetching = IF signedIn THEN 1 ELSE 0
        /\ timer = FALSE /\ isConnected = FALSE /\ open = {} /\ heard = {} /\ refused = FALSE
    BY DEF Provider!ProviderInit
  <1>3. fetching \in 0..MaxFetches
    BY <1>2 DEF Given
  <1>4. BrowserTypes
    BY <1>2, <1>3 DEF BrowserTypes
  <1>5. Hearing /\ Unopened
    BY <1>2 DEF Hearing, Unopened
  <1>6. OneLogin /\ Pinged
    BY DEF OneLogin, Pinged
  <1>7. Agree
    BY DEF Agree
  <1>8. Idle /\ Connection
    BY <1>2 DEF Idle, Connection
  <1> QED
    BY <1>1, <1>4, <1>5, <1>6, <1>7, <1>8 DEF IInv

LEMMA StutterStep ==
    ASSUME IInv, UNCHANGED vars
    PROVE  IInv'
  <1>1. UNCHANGED linkVars /\ UNCHANGED serverVars /\ UNCHANGED browserVars
    BY DEF vars
  <1>2. ServerTypes' /\ BrowserTypes' /\ Hearing'
    BY <1>1 DEF IInv, linkVars, serverVars, browserVars, ServerTypes, BrowserTypes, Hearing
  <1>3. Unopened' /\ OneLogin' /\ Agree' /\ Pinged' /\ Idle' /\ Connection'
    BY <1>1 DEF IInv, linkVars, serverVars, browserVars, Unopened, OneLogin, Agree, Pinged, Idle,
                Connection
  <1> QED
    BY <1>2, <1>3 DEF IInv

LEMMA NextPreserves == Given /\ IInv /\ [Next]_vars => IInv'
  <1> SUFFICES ASSUME Given, IInv, [Next]_vars
               PROVE  IInv'
    OBVIOUS
  <1>1. CASE ServerStep /\ UNCHANGED browserVars
    <2>1. ASSUME NEW s \in Sockets, HandleMessage(s)
          PROVE  IInv'
      BY <1>1, <2>1, HandleAuthStep, HandleOrderSubscribeStep, HandleOrderUnsubscribeStep,
         HandleLocationUpdateStep, HandleToggleAvailabilityStep DEF HandleMessage
    <2>2. ASSUME NEW s \in Sockets, Accept(s) \/ Verified(s) \/ HandleClose(s) \/ Pong(s)
          PROVE  IInv'
      BY <1>1, <2>2, AcceptStep, VerifiedStep, HandleCloseStep, PongStep
    <2>3. ASSUME NEW r \in Rooms, HandleValkeyMessage(r)
          PROVE  IInv'
      BY <1>1, <2>3, HandleValkeyMessageStep
    <2>4. CASE Heartbeat \/ Restart
      BY <1>1, <2>4, HeartbeatStep, RestartStep
    <2> QED
      BY <1>1, <2>1, <2>2, <2>3, <2>4 DEF ServerStep
  <1>2. CASE Provider!ProviderStep /\ UNCHANGED serverVars
    <2>1. ASSUME NEW s \in Sockets,
                 Provider!TokenArrives(s) \/ Provider!OnOpen(s) \/ Provider!OnClose(s)
          PROVE  IInv'
      BY <1>2, <2>1, TokenArrivesStep, OnOpenStep, OnCloseStep
    <2>2. CASE Provider!SignIn \/ Provider!SignOut \/ Provider!NoToken \/ Provider!Reconnect
      BY <1>2, <2>2, SignInStep, SignOutStep, NoTokenStep, ReconnectStep
    <2>3. ASSUME NEW frame \in Frames \ {LoginFrame}, Provider!Send(frame)
          PROVE  IInv'
      BY <1>2, <2>3, SendStep
    <2> QED
      BY <1>2, <2>1, <2>2, <2>3 DEF Provider!ProviderStep
  <1>3. CASE \E s \in Sockets : Drop(s) /\ UNCHANGED <<serverVars, browserVars>>
    BY <1>3, DropStep
  <1>4. CASE UNCHANGED vars
    BY <1>4, StutterStep
  <1> QED
    BY <1>1, <1>2, <1>3, <1>4 DEF Next

LEMMA Invariance == Spec => []IInv
  <1>1. Init => IInv
    BY GivenHolds, InitEstablishes
  <1>2. IInv /\ [Next]_vars => IInv'
    BY GivenHolds, NextPreserves
  <1> QED
    BY <1>1, <1>2, PTL DEF Spec

\* The types of both programs and of the connections between them, for every
\* number of sockets and frames under way.
THEOREM TypeCorrect == Spec => []TypeOK
  BY Invariance, InvImpliesTypes, PTL

\* For any number of sockets, the server's two records of who is in which room
\* never part: a socket that is gone from the clients is in no room.  And as
\* handleAuth looks the socket up, there never is a client.
THEOREM RoomsAlwaysAgree == Spec => []RoomsAgree
  BY Invariance, InvImpliesRooms, PTL

\* The pages are told of a connection only while there is one, and a user whom
\* the component knew at its first render is not left without one for want of
\* anybody trying; a user it did not know never gets one.
THEOREM ConnectionAlwaysBacked == Spec => []ConnectionIsBacked
  BY Invariance, InvImpliesConnection, PTL

\* The entry of a closed socket survives one heartbeat at most, also when it
\* was made after the socket had closed.
THEOREM ClosedSocketAlwaysForgotten == Spec => []ClosedSocketIsForgotten
  BY Invariance, InvImpliesForgotten, PTL
=============================================================================
