------------------------------ MODULE MCOrders ------------------------------
(***************************************************************************)
(* Small instances of Orders.  One or two clients and craftsmen are enough *)
(* to tell the owner from a stranger; one order is enough because handlers *)
(* of different orders share no row.                                       *)
(***************************************************************************)
EXTENDS Orders, TLC

CONSTANTS cl1, cl2, cr1, cr2, ad1

\* The profile ids under which POST /api/orders succeeds: ids are text the
\* caller may supply, and a profile that shares its user's id satisfies both
\* the lookup and the foreign key.
SameIds == [c \in Craftsmen |-> c]

\* The profile ids $defaultFn generates: none is a user's id.
CONSTANTS pid1, pid2
GeneratedIds == (cr1 :> pid1) @@ (cr2 :> pid2)

\* Requests, clients and craftsmen start out alike.
OrderSymmetry ==
    Permutations(Requests) \cup Permutations(Clients) \cup Permutations(Craftsmen)
=============================================================================
