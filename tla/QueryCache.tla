----------------------------- MODULE QueryCache -----------------------------
(***************************************************************************)
(* What the pages use of TanStack Query, which is not part of this         *)
(* repository: a browser's cache of answers, one entry to a query key.     *)
(* A key is a sequence, and a filter names every key it is a prefix of.    *)
(*                                                                         *)
(* A datum is what an entry shows of the one row the model follows: the    *)
(* status and the version of the row it was read from, and where it is     *)
(* from: "answer", "error" (an answer that was not ok, which the fetchers  *)
(* turn into an empty list), "overtaken" (an answer that was on its way    *)
(* when the entry was invalidated) or "nothing".  Where a datum is from is *)
(* history: the cache and the pages take an overtaken answer and an empty  *)
(* list for what they take any other answer for.                           *)
(***************************************************************************)
EXTENDS Naturals, SequencesExt

Datum(status, ver, from) == [status |-> status, ver |-> ver, from |-> from]
Nothing == Datum("none", 0, "nothing")

Idle == [pc |-> "none", got |-> Nothing]
Sent == [pc |-> "sent", got |-> Nothing]
Empty == [data |-> Nothing, stale |-> FALSE, fetch |-> Idle]

Overtaken(d) == IF d.from = "answer" THEN [d EXCEPT !.from = "overtaken"] ELSE d

Matches(filters, k) == \E f \in filters : IsPrefix(f, k)

\* A page with this query is opened, or the browser is back online.
Mount(e) ==
    IF e.fetch.pc = "none" /\ (e.data = Nothing \/ e.stale)
      THEN [e EXCEPT !.fetch = Sent]
      ELSE e

\* invalidateQueries: the entry is stale, and on the page it is fetched again.
\* A fetch in flight is started over only when there is data to show meanwhile
\* and somebody to show it to; otherwise the answer on its way is awaited.
Invalidate(e, mounted) ==
    LET marked == [e EXCEPT !.stale = e.data # Nothing] IN
    IF mounted /\ (e.fetch.pc = "none" \/ e.data # Nothing)
      THEN [marked EXCEPT !.fetch = Sent]
      ELSE IF e.fetch.pc = "read" THEN [marked EXCEPT !.fetch.got = Overtaken(@)]
                                  ELSE marked

\* The answer of the fetch in flight comes in; it makes the entry fresh.
Settled(e) == [data |-> e.fetch.got, stale |-> FALSE, fetch |-> Idle]
=============================================================================
