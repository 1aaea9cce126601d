------------------------------ MODULE WsSystem ------------------------------
(***************************************************************************)
(* A browser and the WebSocket server, with the network between them.      *)
(***************************************************************************)
EXTENDS WsServer

CONSTANT MaxFetches

ASSUME SystemAssumption == MaxFetches \in Nat \ {0}

VARIABLES signedIn, userRef, wsRef, fetching, timer, isConnected, open, heard, refused

Provider == INSTANCE WsProvider WITH PageFrames <- Frames \ {LoginFrame}

browserVars ==
    <<signedIn, userRef, wsRef, fetching, timer, isConnected, open, heard, refused>>

vars == <<linkVars, serverVars, browserVars>>

Init == LinkInit /\ ServerInit /\ Provider!ProviderInit

Next ==
    \/ ServerStep /\ UNCHANGED browserVars
    \/ Provider!ProviderStep /\ UNCHANGED serverVars
    \/ \E s \in Sockets : Drop(s) /\ UNCHANGED <<serverVars, browserVars>>

Spec == Init /\ [][Next]_vars

\* The types of the two programs and of the connections between them.
TypeOK ==
    /\ link \in [Sockets -> {"none", "connecting", "open", "closed"}]
    /\ \A s \in Sockets : up[s] \in Seq(Frames) /\ Len(up[s]) <= MaxFrames
    /\ ServerTypeOK
    /\ Provider!ProviderTypeOK

\* What the browser shows of its connection is so; stated in WsProvider.
ConnectionIsBacked == Provider!ConnectionIsBacked
=============================================================================
