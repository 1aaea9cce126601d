------------------------------ MODULE WsServer ------------------------------
(***************************************************************************)
(* apps/web/src/ws/server.ts: HarfinoWebSocketServer, the process that     *)
(* lets browsers log in over a socket, keeps them in rooms and forwards to *)
(* the rooms what comes over Valkey's pub/sub.                             *)
(*                                                                         *)
(* handleAuth looks for the socket that logs in among the clients          *)
(* (getWsById), where it is entered only afterwards.  So nobody is ever    *)
(* entered, and everything behind the login is dead code.  The variable    *)
(* `finds' is "clients" for the server as it is; "sockets" is the same     *)
(* server with that one lookup repaired, under which the rest of the code  *)
(* comes alive as it is written.                                           *)
(*                                                                         *)
(* What the server sends to the browsers is left out: no property reads it.*)
(***************************************************************************)
EXTENDS WsLink

CONSTANTS
    Orders,    \* ids of orders somebody may subscribe to
    Me,        \* the user whose sockets these are
    Role,      \* the user's role
    None       \* an absent value

VARIABLES
    entry,       \* entry[s]: clients.get(s): its rooms and isAlive, or None
    members,     \* members[r]: the sockets in room r
    verifying,   \* sockets whose login awaits verifyToken
    serverHeard, \* sockets whose close event the server has handled
    finds,       \* where getWsById looks: "clients" (the code) or "sockets"
    \* History, read by properties only
    overdue      \* overdue[s]: heartbeats that kept the entry of a closed socket, at most 2

serverVars == <<entry, members, verifying, serverHeard, finds, overdue>>

UserRoom(u) == <<"user", u>>
CraftsmanRoom(u) == <<"craftsman", u>>
OrderRoom(o) == <<"order", o>>
AdminRoom == <<"admin">>

Rooms == {UserRoom(Me), CraftsmanRoom(Me), AdminRoom} \cup {OrderRoom(o) : o \in Orders}

Entries == [rooms : SUBSET Rooms, alive : BOOLEAN]

ASSUME ServerAssumption ==
    /\ Role \in {"client", "craftsman", "admin", "super_admin"}
    /\ None \notin Sockets \cup Entries

LoginFrame == [type |-> "auth:login", order |-> None]

Frames == {LoginFrame}
    \cup {[type |-> t, order |-> None] : t \in {"location:update", "craftsman:toggle_availability"}}
    \cup [type : {"order:subscribe", "order:unsubscribe"}, order : Orders]

ServerInit ==
    /\ entry = [s \in Sockets |-> None]
    /\ members = [r \in Rooms |-> {}]
    /\ verifying = {}
    /\ serverHeard = {}
    /\ finds \in {"clients", "sockets"}
    /\ overdue = [s \in Sockets |-> 0]

-----------------------------------------------------------------------------
(***************************************************************************)
(* Rooms                                                                   *)
(***************************************************************************)

\* Variant of the rooms a client joins with a misspelt name of the user's own.
AutoRooms_Misspelt ==
    {<<"users", Me>>}
        \cup (IF Role = "craftsman" THEN {CraftsmanRoom(Me)} ELSE {})
        \cup (IF Role \in {"admin", "super_admin"} THEN {AdminRoom} ELSE {})

\* The rooms a client is put in when it logs in.
AutoRooms ==
    {UserRoom(Me)}
        \cup (IF Role = "craftsman" THEN {CraftsmanRoom(Me)} ELSE {})
        \cup (IF Role \in {"admin", "super_admin"} THEN {AdminRoom} ELSE {})

JoinRoom(s, room) ==
    /\ members' = [members EXCEPT ![room] = @ \cup {s}]
    /\ entry' = [entry EXCEPT ![s].rooms = @ \cup {room}]

\* leaveRoom, for each of the sockets: from the room and, if it is a client,
\* from the client's own list.
LeaveRoom(room, socks) ==
    /\ members' = [members EXCEPT ![room] = @ \ socks]
    /\ entry' = [s \in Sockets |-> IF s \in socks /\ entry[s] # None
                                   THEN [entry[s] EXCEPT !.rooms = @ \ {room}]
                                   ELSE entry[s]]

\* Variant of removeClient that forgets the rooms.
RemoveClients_KeepRooms(socks) ==
    /\ entry' = [s \in Sockets |-> IF s \in socks THEN None ELSE entry[s]]
    /\ UNCHANGED members

\* removeClient, for each of the sockets: it leaves the rooms on its own list.
RemoveClients(socks) ==
    /\ members' = [r \in Rooms |->
          members[r] \ {s \in socks : entry[s] # None /\ r \in entry[s].rooms}]
    /\ entry' = [s \in Sockets |-> IF s \in socks THEN None ELSE entry[s]]

\* broadcastToRoom: the members that cannot be sent to are taken out.
BroadcastToRoom(room) ==
    LeaveRoom(room, {s \in members[room] : entry[s] = None \/ link[s] # "open"})

-----------------------------------------------------------------------------
(***************************************************************************)
(* Connections and logging in                                              *)
(***************************************************************************)

\* The handshake succeeds, and handleConnection installs the handlers.
Accept(s) ==
    /\ link[s] = "connecting"
    /\ link' = [link EXCEPT ![s] = "open"]
    /\ UNCHANGED <<up, serverVars>>

\* The next frame of s is read.  Those sent before a close are read before it.
Received(s) ==
    /\ up[s] # <<>> /\ s \notin serverHeard
    /\ up' = [up EXCEPT ![s] = Tail(@)]
    /\ UNCHANGED link

\* handleAuth up to its await: a socket that is not a client has to log in.
\* The answers to anything else go to nobody, and nothing is closed: they too
\* look the socket up among the clients.
HandleAuth(s) ==
    /\ Received(s)
    /\ entry[s] = None
    /\ verifying' = IF Head(up[s]) = LoginFrame THEN verifying \cup {s} ELSE verifying
    /\ UNCHANGED <<entry, members, serverHeard, finds, overdue>>

\* Does getWsById find the socket of s?
GetWsById(s) == IF finds = "clients" THEN entry[s] # None ELSE TRUE

\* verifyToken has answered; a token that does not decode is told to nobody.
\* The client is entered and joins its rooms whatever became of its socket.
Verified(s) ==
    /\ s \in verifying
    /\ verifying' = verifying \ {s}
    /\ \/ GetWsById(s)
          /\ entry' = [entry EXCEPT ![s] = [rooms |-> AutoRooms, alive |-> TRUE]]
          /\ members' = [r \in Rooms |-> IF r \in AutoRooms THEN members[r] \cup {s}
                                                            ELSE members[r]]
       \/ UNCHANGED <<entry, members>>
    /\ UNCHANGED <<linkVars, serverHeard, finds, overdue>>

\* The close event of s.
HandleClose(s) ==
    /\ link[s] = "closed" /\ up[s] = <<>> /\ s \notin serverHeard
    /\ serverHeard' = serverHeard \cup {s}
    /\ RemoveClients({s})
    /\ overdue' = [overdue EXCEPT ![s] = 0]
    /\ UNCHANGED <<linkVars, verifying, finds>>

-----------------------------------------------------------------------------
(***************************************************************************)
(* Messages of clients                                                     *)
(***************************************************************************)

ClientFrame(s, type) ==
    /\ up[s] # <<>> /\ Head(up[s]).type = type
    /\ entry[s] # None
    /\ Received(s)

\* handleOrderSubscribe: whoever asks is let in.
HandleOrderSubscribe(s) ==
    /\ ClientFrame(s, "order:subscribe")
    /\ JoinRoom(s, OrderRoom(Head(up[s]).order))
    /\ UNCHANGED <<verifying, serverHeard, finds, overdue>>

HandleOrderUnsubscribe(s) ==
    /\ ClientFrame(s, "order:unsubscribe")
    /\ LeaveRoom(OrderRoom(Head(up[s]).order), {s})
    /\ UNCHANGED <<verifying, serverHeard, finds, overdue>>

\* handleLocationUpdate caches and publishes the position of a craftsman; the
\* message has no payload, and handleValkeyMessage skips it when it reads one.
HandleLocationUpdate(s) ==
    /\ ClientFrame(s, "location:update")
    /\ UNCHANGED serverVars

\* handleToggleAvailability: refused unless the client is a craftsman.
HandleToggleAvailability(s) ==
    /\ ClientFrame(s, "craftsman:toggle_availability")
    /\ IF Role = "craftsman"
       THEN BroadcastToRoom(CraftsmanRoom(Me))
       ELSE UNCHANGED <<entry, members>>
    /\ UNCHANGED <<verifying, serverHeard, finds, overdue>>

-----------------------------------------------------------------------------
(***************************************************************************)
(* Valkey, the heartbeat and restarts                                      *)
(***************************************************************************)

\* handleValkeyMessage: a message for a room comes over a channel, which it may
\* at any time: the accept route publishes for orders, servers for craftsmen.
HandleValkeyMessage(room) ==
    /\ BroadcastToRoom(room)
    /\ UNCHANGED <<linkVars, verifying, serverHeard, finds, overdue>>

\* An answer to the heartbeat's ping.
Pong(s) ==
    /\ link[s] = "open" /\ entry[s] # None
    /\ entry' = [entry EXCEPT ![s].alive = TRUE]
    /\ UNCHANGED <<linkVars, members, verifying, serverHeard, finds, overdue>>

Clients == {s \in Sockets : entry[s] # None}

\* A heartbeat keeps the entries of these sockets.
Overdue(kept) ==
    [s \in Sockets |-> IF s \in kept /\ link[s] = "closed"
                       THEN IF overdue[s] < 2 THEN overdue[s] + 1 ELSE 2
                       ELSE 0]

\* Variant of the heartbeat that never expects an answer.
Heartbeat_NoPing ==
    /\ Clients # {}
    /\ LET dead == {s \in Clients : ~entry[s].alive} IN
        /\ link' = [s \in Sockets |-> IF s \in dead THEN "closed" ELSE link[s]]
        /\ RemoveClients(dead)
        /\ overdue' = Overdue(Clients \ dead)
    /\ UNCHANGED <<up, verifying, serverHeard, finds>>

\* Clients that have not answered since the last one are terminated and removed,
\* the others are pinged.
Heartbeat ==
    /\ Clients # {}
    /\ LET dead == {s \in Clients : ~entry[s].alive} IN
        /\ link' = [s \in Sockets |-> IF s \in dead THEN "closed" ELSE link[s]]
        /\ members' = [r \in Rooms |-> members[r] \ {s \in dead : r \in entry[s].rooms}]
        /\ entry' = [s \in Sockets |-> IF s \in dead THEN None
                                       ELSE IF s \in Clients THEN [entry[s] EXCEPT !.alive = FALSE]
                                       ELSE None]
        /\ overdue' = Overdue(Clients \ dead)
    /\ UNCHANGED <<up, verifying, serverHeard, finds>>

\* The process ends, gracefulShutdown closing nothing first, and starts again.
Restart ==
    /\ link' = [s \in Sockets |-> IF Live(s) THEN "closed" ELSE link[s]]
    /\ up' = [s \in Sockets |-> <<>>]
    /\ entry' = [s \in Sockets |-> None]
    /\ members' = [r \in Rooms |-> {}]
    /\ verifying' = {}
    /\ serverHeard' = {s \in Sockets : link[s] # "none"}
    /\ overdue' = [s \in Sockets |-> 0]
    /\ UNCHANGED finds

\* handleMessage: one frame.
HandleMessage(s) ==
    \/ HandleAuth(s)
    \/ HandleOrderSubscribe(s) \/ HandleOrderUnsubscribe(s)
    \/ HandleLocationUpdate(s) \/ HandleToggleAvailability(s)

ServerStep ==
    \/ \E s \in Sockets :
        Accept(s) \/ HandleMessage(s) \/ Verified(s) \/ HandleClose(s) \/ Pong(s)
    \/ \E r \in Rooms : HandleValkeyMessage(r)
    \/ Heartbeat \/ Restart

-----------------------------------------------------------------------------
ServerTypeOK ==
    /\ entry \in [Sockets -> Entries \cup {None}]
    /\ members \in [Rooms -> SUBSET Sockets]
    /\ verifying \subseteq Sockets
    /\ serverHeard \subseteq Sockets
    /\ finds \in {"clients", "sockets"}
    /\ overdue \in [Sockets -> 0..2]

\* The two records of who is in which room agree, so that a socket that is
\* gone from the clients is in no room; and with the lookup as it is, there
\* never is a client.
RoomsAgree ==
    /\ \A s \in Sockets : {r \in Rooms : s \in members[r]} =
                              IF entry[s] = None THEN {} ELSE entry[s].rooms
    /\ finds = "clients" => Clients = {}

\* The entry of a closed socket, of one entered only after it had closed too,
\* survives one heartbeat at most.
ClosedSocketIsForgotten ==
    \A s \in Clients : link[s] = "closed" => overdue[s] <= 1
=============================================================================
