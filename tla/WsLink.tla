------------------------------- MODULE WsLink -------------------------------
(***************************************************************************)
(* The connections between a browser and the WebSocket server, as both     *)
(* ends share them: what the ws library and the browser do about a socket  *)
(* before either program hears of it.                                      *)
(***************************************************************************)
EXTENDS Naturals, Sequences

CONSTANTS
    Sockets,   \* every socket the browser may create, used once each
    MaxFrames  \* bound: frames of a socket on their way to the server

ASSUME LinkAssumption == MaxFrames \in Nat \ {0}

VARIABLES
    link,      \* link[s]: "none" before it exists, "connecting", "open", "closed"
    up         \* up[s]: the frames on their way from the browser to the server

linkVars == <<link, up>>

LinkInit ==
    /\ link = [s \in Sockets |-> "none"]
    /\ up = [s \in Sockets |-> <<>>]

Live(s) == link[s] \in {"connecting", "open"}

\* A frame is handed to the socket.
Transmit(s, frame) ==
    /\ Len(up[s]) < MaxFrames
    /\ up' = [up EXCEPT ![s] = Append(@, frame)]

\* The network loses a connection, or does not let it come about.
Drop(s) ==
    /\ Live(s)
    /\ link' = [link EXCEPT ![s] = "closed"]
    /\ UNCHANGED up
=============================================================================
