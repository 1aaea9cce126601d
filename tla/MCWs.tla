-------------------------------- MODULE MCWs --------------------------------
(***************************************************************************)
(* Small instances of WsSystem.                                            *)
(***************************************************************************)
EXTENDS WsSystem, TLC

WsSymmetry == Permutations(Sockets)
=============================================================================
