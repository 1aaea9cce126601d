----------------------------- MODULE WsProvider -----------------------------
(***************************************************************************)
(* apps/web/src/components/providers/ws-provider.tsx: the component that   *)
(* keeps a browser connected to the WebSocket server while its user is     *)
(* signed in.                                                              *)
(*                                                                         *)
(* The callbacks of a browser run one at a time, so a step is one callback *)
(* as far as its next await.  What the component shows of the messages it  *)
(* gets is left out.                                                       *)
(***************************************************************************)
EXTENDS WsLink

CONSTANTS
    None,        \* an absent value
    LoginFrame,  \* the frame that logs in
    PageFrames,  \* the frames that pages send
    MaxFetches   \* bound: token fetches in flight

VARIABLES
    signedIn,    \* the userId property is set
    userRef,     \* userIdRef.current: userId at the first render, never updated
    wsRef,       \* wsRef.current: the socket last created, or None
    fetching,    \* number of fetchToken calls in flight
    timer,       \* reconnectRef.current is set: a reconnect is scheduled
    isConnected, \* what the component tells the pages
    open,        \* sockets whose readyState is OPEN
    heard,       \* sockets whose onclose has run
    refused      \* no token came of the last fetch, and nothing tries again

providerVars ==
    <<signedIn, userRef, wsRef, fetching, timer, isConnected, open, heard, refused>>

\* Is there something for connect to do?
Connects(ref) == userRef /\ ref \notin open

\* The effect runs at the first render too.  In the app the session is still
\* loading then, so that userRef is FALSE for good and connect always returns.
ProviderInit ==
    /\ signedIn \in BOOLEAN
    /\ userRef = signedIn
    /\ wsRef = None
    /\ fetching = IF signedIn THEN 1 ELSE 0
    /\ timer = FALSE
    /\ isConnected = FALSE
    /\ open = {} /\ heard = {}
    /\ refused = FALSE

-----------------------------------------------------------------------------
\* connect, up to the await of the token; ref is what wsRef.current is by then.
Connect(ref) ==
    IF Connects(ref)
    THEN fetching < MaxFetches /\ fetching' = fetching + 1 /\ refused' = FALSE
    ELSE UNCHANGED <<fetching, refused>>

\* disconnect: of the sockets it closes the one in wsRef.  It does not stop a
\* fetch in flight, nor the reconnect that the closed socket's onclose schedules.
Disconnect ==
    /\ timer' = FALSE
    /\ wsRef' = None
    /\ open' = open \ {wsRef}
    /\ link' = IF wsRef # None /\ Live(wsRef) THEN [link EXCEPT ![wsRef] = "closed"] ELSE link
    /\ isConnected' = FALSE

\* The effect when userId is set: the cleanup of the last effect, then connect.
SignIn ==
    /\ ~signedIn
    /\ signedIn' = TRUE
    /\ Disconnect
    /\ Connect(None)
    /\ UNCHANGED <<up, userRef, heard>>

\* The cleanup when userId goes.
SignOut ==
    /\ signedIn
    /\ signedIn' = FALSE
    /\ Disconnect
    /\ UNCHANGED <<up, userRef, fetching, heard, refused>>

\* fetchToken answers with a token: a socket is created, and takes the place
\* of the one in wsRef, which nobody closes.
TokenArrives(s) ==
    /\ fetching > 0 /\ link[s] = "none"
    /\ fetching' = fetching - 1
    /\ link' = [link EXCEPT ![s] = "connecting"]
    /\ wsRef' = s
    /\ UNCHANGED <<up, signedIn, userRef, timer, isConnected, open, heard, refused>>

\* fetchToken answers null: no session, no token, or no network.
NoToken ==
    /\ fetching > 0
    /\ fetching' = fetching - 1
    /\ refused' = TRUE
    /\ UNCHANGED <<linkVars, signedIn, userRef, wsRef, timer, isConnected, open, heard>>

\* onopen: the login is the first frame.
OnOpen(s) ==
    /\ link[s] = "open" /\ s \notin open
    /\ open' = open \cup {s}
    /\ isConnected' = TRUE
    /\ Transmit(s, LoginFrame)
    /\ UNCHANGED <<link, signedIn, userRef, wsRef, fetching, timer, heard, refused>>

\* Variant of onclose that asks whether the page is connected before it has
\* told it that it is not.
OnClose_StaleState(s) ==
    /\ link[s] = "closed" /\ s \notin heard
    /\ heard' = heard \cup {s}
    /\ open' = open \ {s}
    /\ isConnected' = FALSE
    /\ timer' = (timer \/ (userRef /\ ~isConnected))
    /\ UNCHANGED <<linkVars, signedIn, userRef, wsRef, fetching, refused>>

\* onclose, of any socket: a reconnect is scheduled unless one is, whether or
\* not another socket is open and whether or not the user is still signed in.
OnClose(s) ==
    /\ link[s] = "closed" /\ s \notin heard
    /\ heard' = heard \cup {s}
    /\ open' = open \ {s}
    /\ isConnected' = FALSE
    /\ timer' = (timer \/ userRef)
    /\ UNCHANGED <<linkVars, signedIn, userRef, wsRef, fetching, refused>>

\* The reconnect's three seconds are over.
Reconnect ==
    /\ timer
    /\ timer' = FALSE
    /\ Connect(wsRef)
    /\ UNCHANGED <<linkVars, signedIn, userRef, wsRef, isConnected, open, heard>>

\* send: a page's message goes to the socket in wsRef, or nowhere.
Send(frame) ==
    /\ wsRef \in open
    /\ Transmit(wsRef, frame)
    /\ UNCHANGED <<link, providerVars>>

ProviderStep ==
    \/ \E s \in Sockets : TokenArrives(s) \/ OnOpen(s) \/ OnClose(s)
    \/ SignIn \/ SignOut \/ NoToken \/ Reconnect
    \/ \E frame \in PageFrames : Send(frame)

-----------------------------------------------------------------------------
ProviderTypeOK ==
    /\ {signedIn, userRef, timer, isConnected, refused} \subseteq BOOLEAN
    /\ wsRef \in Sockets \cup {None}
    /\ fetching \in 0..MaxFetches
    /\ open \cup heard \subseteq Sockets

\* The pages are told of a connection only while the browser has an open
\* socket.  A user whom the component knows of and who is signed in is not left
\* without one: the socket his pages send through has not been heard to close,
\* or a token is fetched, or a reconnect is scheduled, unless no token was to be
\* had.  A user who signed in after the first render, the only kind the app has,
\* never gets a socket.  (What the pages are told may be worse than what they
\* have: see ToldOfConnection.)
ConnectionIsBacked ==
    /\ isConnected => open # {}
    /\ (userRef /\ signedIn) =>
          \/ wsRef \in Sockets \ heard
          \/ fetching > 0 \/ timer \/ refused
    /\ ~userRef => \A s \in Sockets : link[s] = "none"

\* Not so in the code, and checked nowhere: onclose of a socket that has been
\* replaced tells the pages that they are disconnected while the one they send
\* through is open; connect then finds it open and returns, so that they are
\* told so until that socket closes too.
ToldOfConnection == (userRef /\ signedIn /\ wsRef \in open) => isConnected
=============================================================================
