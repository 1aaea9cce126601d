------------------------------ MODULE MCPages ------------------------------
(***************************************************************************)
(* Small instances of Pages.                                               *)
(***************************************************************************)
EXTENDS Pages

CONSTANTS c1, c2

Scope(s, ks, cs, n) == [kind |-> s, keys |-> ks, calls |-> cs, writes |-> n]

\* Every key of every kind by itself, with one call at a time.
Alone == UNION {{Scope(s, {k}, {c1}, 2) : k \in KeysOf[s]} : s \in Kinds}

\* The rows that are shown under two keys and whose buttons name both or go by
\* both.
Pairs == {Scope("profile", KeysOf["profile"], {c1}, 1),
          Scope("review", {<<"client-orders-all">>, <<"reviewed-order-ids">>}, {c1}, 1)}

\* Two calls at work at once.
Busy == {Scope("craftsman_order", {<<"craftsman-orders-page">>}, {c1, c2}, 2)}

DashboardScopes == Alone \cup Pairs \cup Busy
=============================================================================
