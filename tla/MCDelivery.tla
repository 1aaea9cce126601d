----------------------------- MODULE MCDelivery -----------------------------
(***************************************************************************)
(* Small instances of Delivery.                                            *)
(***************************************************************************)
EXTENDS Delivery, TLC

DeliverySymmetry == Permutations(Runs) \cup Permutations(Dispatches)
=============================================================================
