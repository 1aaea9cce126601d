---------------------------- MODULE OutboxProofs ----------------------------
(***************************************************************************)
(* Theorems about Outbox for any workers, events, batch limit and faults.  *)
(***************************************************************************)
EXTENDS Outbox, FiniteSetTheorems, TLAPS

(***************************************************************************)
(* The inductive invariant                                                 *)
(***************************************************************************)

\* Event d no longer holds up the events behind it.
Passed(d) == d \in Announced \/ row[d] = "failed"

\* Worker w has tried to publish e, the current event of its batch.
AtHand(w, e) == at[w] \in {"complete", "fail"} /\ Current(w, e)

\* Rows are inserted in order.
PrefixInv == \A d, e \in Events : d < e /\ row[e] # "none" => row[d] # "none"

\* Whatever is being marked, or has been marked, completed was announced.
CompletedInv ==
    /\ \A e \in Events : row[e] = "completed" => e \in Announced
    /\ \A w \in Workers : \A e \in batch[w] :
           at[w] = "complete" /\ Current(w, e) => e \in Announced

\* A batch skips no event, and none was skipped by what was announced.
OrderInv ==
    /\ \A w \in Workers : \A e \in batch[w] : \A d \in Events :
           d < e => d \in batch[w] \/ Passed(d)
    /\ \A e \in Announced, d \in Events : d < e => Passed(d)

\* A worker may publish e again only if its last attempt was cut short.
RepeatInv ==
    \A w \in Workers, e \in Events :
        /\ pubs[w][e] <= 1 + aborts[w] + crashes[w]
        /\ (row[e] \in {"none", "pending"} \/ e \in batch[w]) /\ ~AtHand(w, e)
               => pubs[w][e] <= aborts[w] + crashes[w]

\* What a worker received, or handled, another one published.
ReceivedInv ==
    \A v \in Workers, e \in Events :
        e \in inbox[v] \/ <<v, e>> \in handled =>
            \E w \in Workers \ {v} : pubs[w][e] > 0

IInv ==
    /\ TypeOK
    /\ PrefixInv
    /\ CompletedInv
    /\ OrderInv
    /\ RepeatInv
    /\ ReceivedInv

-----------------------------------------------------------------------------
(***************************************************************************)
(* Facts about the batch                                                   *)
(***************************************************************************)

\* The current event is unique.
LEMMA CurrentUnique ==
    ASSUME TypeOK, NEW w \in Workers, NEW d, NEW e, Current(w, d), Current(w, e)
    PROVE  d = e
BY DEF TypeOK, Current, Events

\* getPending leaves out no row that is due and older than one it returns.
LEMMA PendingIsPrefix ==
    ASSUME OutboxAssumption, NEW e \in GetPending, NEW d \in Due, d < e
    PROVE  d \in GetPending
<1> DEFINE Upto(n) == {x \in Due : x <= n}
<1>1. Upto(d) \subseteq Upto(e)
    BY DEF GetPending, Due, Events
<1>2. IsFiniteSet(Upto(e))
  <2>1. IsFiniteSet(1..MaxEvents)
    BY FS_Interval DEF OutboxAssumption
  <2>2. Upto(e) \subseteq 1..MaxEvents
    BY DEF Due, Events
  <2>3. QED
    BY <2>1, <2>2, FS_Subset
<1>3. /\ IsFiniteSet(Upto(d))
      /\ Cardinality(Upto(d)) <= Cardinality(Upto(e))
    BY <1>1, <1>2, FS_Subset
<1>4. Cardinality(Upto(d)) \in Nat /\ Cardinality(Upto(e)) \in Nat
    BY <1>2, <1>3, FS_CardinalityType
<1>5. Cardinality(Upto(e)) <= BatchLimit
    BY DEF GetPending
<1>6. QED
    BY <1>3, <1>4, <1>5 DEF GetPending, OutboxAssumption
-----------------------------------------------------------------------------
(***************************************************************************)
(* Every action preserves the invariant                                    *)
(***************************************************************************)

LEMMA AppendStep == ASSUME OutboxAssumption, IInv, NEW e \in Events, Append(e)
                    PROVE  IInv'
<1> USE DEF procVars, historyVars
<1>1. /\ row[e] = "none"
      /\ \A d \in Events : d < e => row[d] # "none"
      /\ row' = [row EXCEPT ![e] = "pending"]
      /\ UNCHANGED <<aged, at, batch, running, channels, inbox, consumers, pubs,
                     handled, aborts, crashes>>
    BY DEF Append
<1>2. TypeOK'
    BY <1>1 DEF IInv, TypeOK, RowStates
<1>3. \A w \in Workers : \A b \in batch[w] : b \in Events /\ row[b] # "none"
    BY DEF IInv, TypeOK
<1>4. PrefixInv'
    BY <1>1 DEF IInv, TypeOK, PrefixInv, Events
<1>5. CompletedInv' /\ ReceivedInv'
    BY <1>1 DEF IInv, TypeOK, CompletedInv, ReceivedInv, Announced, Current
<1>6. OrderInv'
    BY <1>1 DEF IInv, TypeOK, OrderInv, Passed, Announced
<1>7. RepeatInv'
    BY <1>1 DEF IInv, TypeOK, RepeatInv, AtHand, Current
<1>8. QED
    BY <1>2, <1>4, <1>5, <1>6, <1>7 DEF IInv

LEMMA AgeStep == ASSUME OutboxAssumption, IInv, Age
                 PROVE  IInv'
<1> USE DEF procVars, historyVars
<1>1. /\ aged' = aged + 1 /\ aged < MaxEvents
      /\ UNCHANGED <<row, at, batch, running, channels, inbox, consumers, pubs,
                     handled, aborts, crashes>>
    BY DEF Age
<1>2. TypeOK'
  <2>1. aged' \in 0..MaxEvents /\ aged <= aged'
    BY <1>1 DEF IInv, TypeOK, OutboxAssumption
  <2>2. batch' \in [Workers -> SUBSET {e \in Events : row'[e] # "none" /\ e <= aged'}]
    BY <1>1, <2>1 DEF IInv, TypeOK, Events
  <2>3. QED
    BY <1>1, <2>1, <2>2 DEF IInv, TypeOK
<1>3. PrefixInv' /\ CompletedInv' /\ OrderInv' /\ RepeatInv' /\ ReceivedInv'
    BY <1>1 DEF IInv, PrefixInv, CompletedInv, OrderInv, RepeatInv, ReceivedInv,
           Passed, Announced, AtHand, Current
<1>4. QED
    BY <1>2, <1>3 DEF IInv

LEMMA BootStep == ASSUME OutboxAssumption, IInv, NEW w \in Workers, Boot(w)
                  PROVE  IInv'
<1> USE DEF historyVars
<1>1. /\ at[w] = "down"
      /\ \E cs \in SUBSET Names : channels' = [channels EXCEPT ![w] = cs]
      /\ at' = [at EXCEPT ![w] = "loop"]
      /\ running' = [running EXCEPT ![w] = TRUE]
      /\ consumers' = [consumers EXCEPT ![w] = {"email", "webhook"}]
      /\ UNCHANGED <<row, aged, batch, inbox, pubs, handled, aborts, crashes>>
    BY DEF Boot
<1>2. TypeOK'
    BY <1>1 DEF IInv, TypeOK, Labels, Queues
<1>3. PrefixInv' /\ OrderInv' /\ ReceivedInv'
    BY <1>1 DEF IInv, PrefixInv, OrderInv, ReceivedInv, Passed, Announced
<1>4. CompletedInv'
    BY <1>1 DEF IInv, TypeOK, CompletedInv, Announced, Current
<1>5. RepeatInv'
    BY <1>1 DEF IInv, TypeOK, RepeatInv, AtHand, Current
<1>6. QED
    BY <1>2, <1>3, <1>4, <1>5 DEF IInv

LEMMA PollStep == ASSUME OutboxAssumption, IInv, NEW w \in Workers, Poll(w)
                  PROVE  IInv'
<1> USE DEF historyVars
<1>1. /\ at[w] = "loop" /\ batch[w] = {}
      /\ UNCHANGED <<row, aged, running, channels, inbox, pubs, handled, aborts, crashes>>
    BY DEF Poll
<1>2. CASE running[w]
  <2>1. /\ batch' = [batch EXCEPT ![w] = GetPending]
        /\ UNCHANGED <<at, consumers>>
    BY <1>2 DEF Poll
  <2>2. /\ GetPending \subseteq Due
        /\ \A e \in GetPending : e \in Events /\ row[e] = "pending" /\ e <= aged
    BY DEF GetPending, Due
  <2>3. TypeOK'
    BY <1>1, <2>1, <2>2 DEF IInv, TypeOK
  <2>4. PrefixInv' /\ CompletedInv' /\ ReceivedInv'
    BY <1>1, <2>1 DEF IInv, TypeOK, PrefixInv, CompletedInv, ReceivedInv,
           Announced, Current
  <2>5. \A e \in GetPending, d \in Events : d < e => d \in GetPending \/ Passed(d)
    <3> SUFFICES ASSUME NEW e \in GetPending, NEW d \in Events, d < e, ~Passed(d)
                 PROVE  d \in GetPending
      OBVIOUS
    <3>1. row[d] = "pending"
      BY <2>2 DEF IInv, TypeOK, PrefixInv, CompletedInv, Passed, RowStates
    <3>2. d \in Due
      BY <2>2, <3>1 DEF Due, IInv, TypeOK, Events
    <3>3. QED
      BY <3>2, PendingIsPrefix
  <2>6. OrderInv'
    <3>1. /\ Announced' = Announced
          /\ \A d \in Events : Passed(d)' <=> Passed(d)
      BY <1>1 DEF Passed, Announced
    <3>2. /\ batch'[w] = GetPending
          /\ \A v \in Workers : v # w => batch'[v] = batch[v]
      BY <2>1 DEF IInv, TypeOK
    <3>3. \A v \in Workers : \A e \in batch'[v] : \A d \in Events :
              d < e => d \in batch'[v] \/ Passed(d)
      <4> SUFFICES ASSUME NEW v \in Workers, NEW e \in batch'[v], NEW d \in Events, d < e
                   PROVE  d \in batch'[v] \/ Passed(d)
        OBVIOUS
      <4>1. CASE v = w
        BY <2>5, <3>2, <4>1
      <4>2. CASE v # w
        BY <3>2, <4>2 DEF IInv, OrderInv
      <4>3. QED
        BY <4>1, <4>2
    <3>4. QED
      BY <3>1, <3>3 DEF IInv, OrderInv
  <2>7. RepeatInv'
    BY <1>1, <2>1, <2>2 DEF IInv, TypeOK, RepeatInv, AtHand, Current
  <2>8. QED
    BY <2>3, <2>4, <2>6, <2>7 DEF IInv
<1>3. CASE ~running[w]
  <2>1. /\ at' = [at EXCEPT ![w] = "ready"]
        /\ consumers' = [consumers EXCEPT ![w] = @ \cup {"order-timeout"}]
        /\ UNCHANGED batch
    BY <1>3 DEF Poll
  <2>2. TypeOK'
    BY <1>1, <2>1 DEF IInv, TypeOK, Labels, Queues
  <2>3. PrefixInv' /\ OrderInv' /\ ReceivedInv'
    BY <1>1, <2>1 DEF IInv, PrefixInv, OrderInv, ReceivedInv, Passed, Announced
  <2>4. CompletedInv'
    BY <1>1, <2>1 DEF IInv, TypeOK, CompletedInv, Announced, Current
  <2>5. RepeatInv'
    BY <1>1, <2>1 DEF IInv, TypeOK, RepeatInv, AtHand, Current
  <2>6. QED
    BY <2>2, <2>3, <2>4, <2>5 DEF IInv
<1>4. QED
    BY <1>2, <1>3

\* What the server's running a PUBLISH changes.
LEMMA DeliverEffect ==
    ASSUME OutboxAssumption, IInv, NEW w \in Workers, NEW e \in batch[w],
           channels[w] = {}, Current(w, e), Deliver(w, e)
    PROVE  /\ e \in Events
           /\ pubs' \in [Workers -> [Events -> Nat]]
           /\ pubs'[w][e] = pubs[w][e] + 1
           /\ \A v \in Workers, d \in Events : pubs[v][d] <= pubs'[v][d]
           /\ \A v \in Workers, d \in Events :
                  ~(v = w /\ d = e) => pubs'[v][d] = pubs[v][d]
           /\ Announced' = Announced \cup {e}
           /\ inbox' \in [Workers -> SUBSET Events]
           /\ \A v \in Workers : inbox'[v] \subseteq inbox[v] \cup {e}
           /\ inbox'[w] = inbox[w]
           /\ \A v \in Workers : channels[v] = {} => inbox'[v] = inbox[v]
<1>1. e \in Events /\ TypeOK
    BY DEF IInv, TypeOK
<1>2. pubs' = [pubs EXCEPT ![w][e] = @ + 1]
    BY DEF Deliver
<1>3. /\ pubs' \in [Workers -> [Events -> Nat]]
      /\ pubs'[w][e] = pubs[w][e] + 1
      /\ \A v \in Workers, d \in Events :
             ~(v = w /\ d = e) => pubs'[v][d] = pubs[v][d]
    BY <1>1, <1>2 DEF TypeOK
<1>4. \A v \in Workers, d \in Events : pubs[v][d] \in Nat
    BY <1>1 DEF TypeOK
<1>5. \A v \in Workers, d \in Events : pubs[v][d] <= pubs'[v][d]
    BY <1>1, <1>3, <1>4
<1>6. Announced' = Announced \cup {e}
    BY <1>1, <1>3, <1>4, <1>5 DEF Announced
<1>7. PICK receivers \in SUBSET {v \in Workers : NameOf[e] \in channels[v]} :
          inbox' = [v \in Workers |->
               IF v \in receivers THEN inbox[v] \cup {e} ELSE inbox[v]]
    BY DEF Deliver
<1>8. /\ inbox' \in [Workers -> SUBSET Events]
      /\ \A v \in Workers : inbox'[v] \subseteq inbox[v] \cup {e}
      /\ inbox'[w] = inbox[w]
      /\ \A v \in Workers : channels[v] = {} => inbox'[v] = inbox[v]
    BY <1>1, <1>7 DEF TypeOK
<1>9. QED
    BY <1>1, <1>3, <1>5, <1>6, <1>8

\* A PUBLISH that the server runs, whatever the worker learns of it.
LEMMA PublishedStep ==
    ASSUME OutboxAssumption, IInv, NEW w \in Workers, at[w] = "loop",
           channels[w] = {}, NEW e \in batch[w], Current(w, e), Deliver(w, e),
           NEW label \in {"complete", "fail"},
           at' = [at EXCEPT ![w] = label],
           UNCHANGED <<row, aged, batch, running, channels, consumers,
                       handled, aborts, crashes>>
    PROVE  IInv'
<1>1. /\ e \in Events
      /\ pubs' \in [Workers -> [Events -> Nat]]
      /\ pubs'[w][e] = pubs[w][e] + 1
      /\ \A v \in Workers, d \in Events : pubs[v][d] <= pubs'[v][d]
      /\ \A v \in Workers, d \in Events :
             ~(v = w /\ d = e) => pubs'[v][d] = pubs[v][d]
      /\ Announced' = Announced \cup {e}
      /\ inbox' \in [Workers -> SUBSET Events]
      /\ \A v \in Workers : inbox'[v] \subseteq inbox[v] \cup {e}
      /\ inbox'[w] = inbox[w]
      /\ \A v \in Workers : channels[v] = {} => inbox'[v] = inbox[v]
    BY DeliverEffect
<1>2. TypeOK
    BY DEF IInv
<1>3. \A d \in batch[w] : Current(w, d) => d = e
    BY <1>2, CurrentUnique
<1>4. TypeOK'
    BY <1>1, <1>2 DEF TypeOK, Labels
<1>5. PrefixInv'
    BY DEF IInv, PrefixInv
<1>6. CompletedInv'
  <2>1. \A d \in Events : row'[d] = "completed" => d \in Announced'
    BY <1>1 DEF IInv, CompletedInv
  <2>2. ASSUME NEW v \in Workers, NEW d \in batch'[v],
               at'[v] = "complete", Current(v, d)'
        PROVE  d \in Announced'
    BY <1>1, <1>2, <1>3, <2>2 DEF IInv, CompletedInv, TypeOK, Current
  <2>3. QED
    BY <2>1, <2>2 DEF CompletedInv
<1>7. OrderInv'
  <2>1. \A d \in Events : Passed(d) => Passed(d)'
    BY <1>1 DEF Passed
  <2>2. \A d \in Events : d < e => Passed(d)
    BY <1>1, <1>2 DEF IInv, OrderInv, Current, TypeOK, Events
  <2>3. \A v \in Workers : \A b \in batch[v] : \A d \in Events :
           d < b => d \in batch[v] \/ Passed(d)'
    BY <2>1 DEF IInv, OrderInv
  <2>4. \A b \in Announced', d \in Events : d < b => Passed(d)'
    BY <1>1, <2>1, <2>2 DEF IInv, OrderInv
  <2>5. QED
    BY <2>3, <2>4 DEF OrderInv
<1>8. RepeatInv'
  <2> SUFFICES ASSUME NEW v \in Workers, NEW d \in Events
               PROVE  /\ pubs'[v][d] <= 1 + aborts[v] + crashes[v]
                      /\ (row[d] \in {"none", "pending"} \/ d \in batch[v])
                            /\ ~AtHand(v, d)' => pubs'[v][d] <= aborts[v] + crashes[v]
    BY DEF RepeatInv
  <2>1. /\ pubs[v][d] \in Nat /\ pubs'[v][d] \in Nat
        /\ aborts[v] \in Nat /\ crashes[v] \in Nat
    BY <1>1, <1>2 DEF TypeOK
  <2>2. CASE v = w /\ d = e
    <3>1. ~AtHand(w, e)
      BY DEF AtHand
    <3>2. pubs[w][e] <= aborts[w] + crashes[w]
      BY <1>1, <3>1 DEF IInv, RepeatInv
    <3>3. AtHand(w, e)'
      BY <1>2 DEF AtHand, Current, TypeOK
    <3>4. QED
      BY <1>1, <2>1, <2>2, <3>2, <3>3
  <2>3. CASE ~(v = w /\ d = e)
    <3>1. ~AtHand(v, d)' => ~AtHand(v, d)
      BY <1>2 DEF AtHand, Current, TypeOK
    <3>2. QED
      BY <1>1, <2>3, <3>1 DEF IInv, RepeatInv
  <2>4. QED
    BY <2>2, <2>3
<1>9. ReceivedInv'
  <2> SUFFICES ASSUME NEW v \in Workers, NEW d \in Events,
                      d \in inbox'[v] \/ <<v, d>> \in handled
               PROVE  \E u \in Workers \ {v} : pubs'[u][d] > 0
    BY DEF ReceivedInv
  <2>1. CASE d \in inbox[v] \/ <<v, d>> \in handled
    <3>1. PICK u \in Workers \ {v} : pubs[u][d] > 0
      BY <2>1 DEF IInv, ReceivedInv
    <3>2. pubs'[u][d] > 0
      BY <1>1, <1>2, <3>1 DEF TypeOK
    <3>3. QED
      BY <3>1, <3>2
  <2>2. CASE d \notin inbox[v] /\ d \in inbox'[v]
    <3>1. v # w /\ d = e
      BY <1>1, <2>2
    <3>2. pubs'[w][e] > 0
      BY <1>1, <1>2 DEF TypeOK
    <3>3. QED
      BY <3>1, <3>2
  <2>3. QED
    BY <2>1, <2>2
<1>10. QED
    BY <1>4, <1>5, <1>6, <1>7, <1>8, <1>9 DEF IInv
LEMMA PublishStep == ASSUME OutboxAssumption, IInv, NEW w \in Workers, Publish(w)
                     PROVE  IInv'
<1>1. PICK e \in batch[w] : Current(w, e) /\ Deliver(w, e)
    BY DEF Publish
<1>2. QED
    BY <1>1, PublishedStep DEF Publish, Goto

LEMMA PublishRejectedStep ==
    ASSUME OutboxAssumption, IInv, NEW w \in Workers, PublishRejected(w)
    PROVE  IInv'
<1>1. /\ at[w] = "loop" /\ batch[w] # {}
      /\ at' = [at EXCEPT ![w] = "fail"]
      /\ UNCHANGED <<row, aged, batch, running, channels, consumers,
                     handled, aborts, crashes>>
    BY DEF PublishRejected, Goto
<1>2. CASE UNCHANGED <<pubs, inbox>>
  <2>1. TypeOK'
    BY <1>1, <1>2 DEF IInv, TypeOK, Labels
  <2>2. PrefixInv' /\ OrderInv' /\ ReceivedInv'
    BY <1>1, <1>2 DEF IInv, PrefixInv, OrderInv, ReceivedInv, Passed, Announced
  <2>3. CompletedInv'
    BY <1>1, <1>2 DEF IInv, TypeOK, CompletedInv, Announced, Current
  <2>4. RepeatInv'
    BY <1>1, <1>2 DEF IInv, TypeOK, RepeatInv, AtHand, Current
  <2>5. QED
    BY <2>1, <2>2, <2>3, <2>4 DEF IInv
<1>3. CASE ~UNCHANGED <<pubs, inbox>>
  <2>1. PICK e \in batch[w] : Current(w, e) /\ Deliver(w, e)
    BY <1>3 DEF PublishRejected
  <2>2. channels[w] = {}
    BY <1>3 DEF PublishRejected
  <2>3. QED
    BY <1>1, <2>1, <2>2, PublishedStep
<1>4. QED
    BY <1>2, <1>3

\* A row is marked, and the worker drops it from its batch, keeps it for the
\* catch block, or drops the batch.
LEMMA MarkStep ==
    ASSUME OutboxAssumption, IInv, NEW w \in Workers, NEW e \in batch[w],
           at[w] \in {"complete", "fail"}, Current(w, e),
           NEW mark \in {"completed", "failed"},
           mark = "completed" => at[w] = "complete",
           NEW rest \in SUBSET batch[w], NEW label \in {"loop", "fail"},
           \/ label = "loop" /\ rest = batch[w] \ {e} /\ row' = [row EXCEPT ![e] = mark]
           \/ label = "loop" /\ rest = {} /\ aborts'[w] = aborts[w] + 1
           \/ label = "fail" /\ rest = batch[w],
           row' \in {row, [row EXCEPT ![e] = mark]},
           at' = [at EXCEPT ![w] = label],
           batch' = [batch EXCEPT ![w] = rest],
           aborts' \in [Workers -> Nat],
           \A v \in Workers : aborts[v] <= aborts'[v],
           UNCHANGED <<aged, running, channels, inbox, consumers, pubs, handled, crashes>>
    PROVE  IInv'
<1>1. TypeOK /\ e \in Events /\ row[e] # "none"
    BY DEF IInv, TypeOK
<1>2. \A d \in batch[w] : Current(w, d) => d = e
    BY <1>1, CurrentUnique
<1>3. /\ \A d \in Events : d # e => row'[d] = row[d]
      /\ row'[e] \in {row[e], mark}
      /\ \A d \in Events : row'[d] = "none" <=> row[d] = "none"
      /\ \A d \in Events : row'[d] = "pending" => row[d] = "pending"
      /\ row' \in [Events -> RowStates]
    BY <1>1 DEF TypeOK, RowStates
<1>4. /\ batch'[w] = rest /\ rest \subseteq batch[w]
      /\ \A v \in Workers : v # w => batch'[v] = batch[v] /\ at'[v] = at[v]
      /\ at'[w] = label
      /\ \A v \in Workers : batch'[v] \subseteq batch[v]
    BY <1>1 DEF TypeOK
<1>5. TypeOK'
  <2>1. batch' \in [Workers -> SUBSET {d \in Events : row'[d] # "none" /\ d <= aged}]
    BY <1>1, <1>3 DEF TypeOK
  <2>2. at' \in [Workers -> Labels]
    BY <1>1 DEF TypeOK, Labels
  <2>3. ASSUME NEW v \in Workers
        PROVE  /\ at'[v] = "down" => batch'[v] = {} /\ channels[v] = {} /\ inbox[v] = {}
               /\ at'[v] \in {"complete", "fail"} => batch'[v] # {}
    BY <1>1, <1>4 DEF TypeOK
  <2>4. QED
    BY <1>1, <1>3, <2>1, <2>2, <2>3 DEF TypeOK
<1>6. PrefixInv' /\ ReceivedInv'
    BY <1>3 DEF IInv, PrefixInv, ReceivedInv
<1>7. Announced' = Announced /\ (mark = "completed" => e \in Announced)
    BY DEF IInv, CompletedInv, Announced
<1>8. CompletedInv'
  <2>1. \A d \in Events : row'[d] = "completed" => d \in Announced'
    BY <1>3, <1>7 DEF IInv, CompletedInv
  <2>2. ASSUME NEW v \in Workers, NEW d \in batch'[v],
               at'[v] = "complete", Current(v, d)'
        PROVE  d \in Announced'
    BY <1>4, <1>7, <2>2 DEF IInv, CompletedInv, Current
  <2>3. QED
    BY <2>1, <2>2 DEF CompletedInv
<1>9. OrderInv'
  <2>1. \A d \in Events : Passed(d) => Passed(d)'
    BY <1>3, <1>7 DEF Passed
  <2>2. row'[e] = mark => Passed(e)'
    BY <1>7 DEF Passed
  <2>3. ASSUME NEW v \in Workers, NEW b \in batch'[v], NEW d \in Events, d < b
        PROVE  d \in batch'[v] \/ Passed(d)'
    <3>1. d \in batch[v] \/ Passed(d)
      BY <1>4, <2>3 DEF IInv, OrderInv
    <3>2. CASE v # w
      BY <1>4, <2>1, <3>1, <3>2
    <3>3. CASE v = w /\ label = "loop" /\ rest = batch[w] \ {e} /\ row' = [row EXCEPT ![e] = mark]
      BY <1>1, <1>4, <2>1, <2>2, <3>1, <3>3 DEF TypeOK
    <3>4. CASE v = w /\ rest = {}
      BY <1>4, <2>3, <3>4
    <3>5. CASE v = w /\ rest = batch[w]
      BY <1>4, <2>1, <3>1, <3>5
    <3>6. QED
      BY <3>2, <3>3, <3>4, <3>5
  <2>4. \A b \in Announced', d \in Events : d < b => Passed(d)'
    BY <1>7, <2>1 DEF IInv, OrderInv
  <2>5. QED
    BY <2>3, <2>4 DEF OrderInv
<1>10. RepeatInv'
  <2> SUFFICES ASSUME NEW v \in Workers, NEW d \in Events
               PROVE  /\ pubs[v][d] <= 1 + aborts'[v] + crashes[v]
                      /\ (row'[d] \in {"none", "pending"} \/ d \in batch'[v])
                            /\ ~AtHand(v, d)' => pubs[v][d] <= aborts'[v] + crashes[v]
    BY DEF RepeatInv
  <2>1. /\ pubs[v][d] \in Nat /\ aborts[v] \in Nat /\ crashes[v] \in Nat
        /\ aborts'[v] \in Nat /\ aborts[v] <= aborts'[v]
    BY <1>1 DEF TypeOK
  <2>2. /\ pubs[v][d] <= 1 + aborts[v] + crashes[v]
        /\ (row[d] \in {"none", "pending"} \/ d \in batch[v]) /\ ~AtHand(v, d)
               => pubs[v][d] <= aborts[v] + crashes[v]
    BY DEF IInv, RepeatInv
  <2>3. CASE v = w /\ aborts'[w] = aborts[w] + 1
    BY <2>1, <2>2, <2>3
  <2>4. CASE v # w \/ d # e
    <3>1. AtHand(v, d) => v # w
      BY <1>2, <2>4 DEF AtHand, Current
    <3>2. v # w => (AtHand(v, d)' <=> AtHand(v, d))
      BY <1>4 DEF AtHand, Current
    <3>3. row'[d] \in {"none", "pending"} => row[d] \in {"none", "pending"}
      BY <1>1, <1>3
    <3>4. d \in batch'[v] => d \in batch[v]
      BY <1>4
    <3>5. QED
      BY <2>1, <2>2, <2>4, <3>1, <3>2, <3>3, <3>4
  <2>5. CASE v = w /\ d = e /\ label = "loop" /\ rest = batch[w] \ {e}
                   /\ row' = [row EXCEPT ![e] = mark]
    <3>1. row'[e] \notin {"none", "pending"} /\ e \notin batch'[w]
      BY <1>1, <1>4, <2>5 DEF TypeOK
    <3>2. QED
      BY <2>1, <2>2, <2>5, <3>1
  <2>6. CASE v = w /\ d = e /\ label = "fail" /\ rest = batch[w]
    <3>1. AtHand(w, e)'
      BY <1>4, <2>6 DEF AtHand, Current
    <3>2. QED
      BY <2>1, <2>2, <2>6, <3>1
  <2>7. QED
    BY <2>3, <2>4, <2>5, <2>6
<1>11. QED
    BY <1>5, <1>6, <1>8, <1>9, <1>10 DEF IInv

LEMMA MarkingStep ==
    ASSUME OutboxAssumption, IInv, NEW w \in Workers,
           MarkCompleted(w) \/ MarkCompletedThrows(w) \/ MarkFailed(w) \/ MarkFailedThrows(w)
    PROVE  IInv'
<1> USE DEF historyVars
<1>0. aborts \in [Workers -> Nat] /\ batch \in [Workers -> SUBSET Events]
    BY DEF IInv, TypeOK
<1>1. \A v \in Workers : aborts[v] <= aborts[v]
    BY <1>0
<1>2. ASSUME NEW mark \in {"completed", "failed"}, Settle(w, mark),
             at[w] \in {"complete", "fail"}, mark = "completed" => at[w] = "complete"
      PROVE  IInv'
  <2>1. PICK e \in batch[w] : /\ Current(w, e)
                              /\ row' = [row EXCEPT ![e] = mark]
                              /\ batch' = [batch EXCEPT ![w] = batch[w] \ {e}]
    BY <1>2 DEF Settle
  <2> DEFINE rest == batch[w] \ {e}
             label == "loop"
  <2>2. /\ rest \in SUBSET batch[w] /\ label \in {"loop", "fail"}
        /\ label = "loop" /\ rest = batch[w] \ {e}
        /\ at' = [at EXCEPT ![w] = label]
        /\ batch' = [batch EXCEPT ![w] = rest]
        /\ UNCHANGED <<aged, running, channels, inbox, consumers, pubs, handled,
                       crashes, aborts>>
    BY <1>2, <2>1 DEF Settle, Goto
  <2> HIDE DEF rest, label
  <2>3. QED
    BY <1>0, <1>1, <1>2, <2>1, <2>2, MarkStep
<1>3. CASE MarkCompleted(w)
    BY <1>2, <1>3 DEF MarkCompleted
<1>4. CASE MarkFailed(w)
    BY <1>2, <1>4 DEF MarkFailed
<1>5. CASE MarkCompletedThrows(w)
  <2>1. PICK e \in batch[w] : Current(w, e) /\ row' \in {row, [row EXCEPT ![e] = "completed"]}
    BY <1>5 DEF MarkCompletedThrows
  <2> DEFINE rest == batch[w]
             label == "fail"
             mark == "completed"
  <2>2. /\ rest \in SUBSET batch[w] /\ label \in {"loop", "fail"}
        /\ label = "fail" /\ rest = batch[w]
        /\ mark \in {"completed", "failed"}
        /\ row' \in {row, [row EXCEPT ![e] = mark]}
        /\ at[w] = "complete"
        /\ at' = [at EXCEPT ![w] = label]
        /\ batch' = [batch EXCEPT ![w] = rest]
        /\ UNCHANGED <<aged, running, channels, inbox, consumers, pubs, handled,
                       crashes, aborts>>
    BY <1>0, <1>5, <2>1 DEF MarkCompletedThrows, Goto
  <2> HIDE DEF rest, label, mark
  <2>3. QED
    BY <1>0, <1>1, <2>1, <2>2, MarkStep
<1>6. CASE MarkFailedThrows(w)
  <2>1. PICK e \in batch[w] : Current(w, e) /\ row' \in {row, [row EXCEPT ![e] = "failed"]}
    BY <1>6 DEF MarkFailedThrows
  <2> DEFINE rest == {}
             label == "loop"
             mark == "failed"
  <2>2. /\ rest \in SUBSET batch[w] /\ label \in {"loop", "fail"}
        /\ label = "loop" /\ rest = {}
        /\ mark \in {"completed", "failed"} /\ mark # "completed"
        /\ row' \in {row, [row EXCEPT ![e] = mark]}
        /\ at[w] = "fail"
        /\ at' = [at EXCEPT ![w] = label]
        /\ batch' = [batch EXCEPT ![w] = rest]
        /\ aborts' = [aborts EXCEPT ![w] = aborts[w] + 1]
        /\ UNCHANGED <<aged, running, channels, inbox, consumers, pubs, handled, crashes>>
    BY <1>6, <2>1 DEF MarkFailedThrows, Goto
  <2> HIDE DEF rest, label, mark
  <2>3. /\ aborts' \in [Workers -> Nat] /\ aborts'[w] = aborts[w] + 1
        /\ \A v \in Workers : aborts[v] <= aborts'[v]
    BY <1>0, <2>2
  <2>4. QED
    BY <2>1, <2>2, <2>3, MarkStep
<1>7. QED
    BY <1>3, <1>4, <1>5, <1>6

LEMMA HandleStep ==
    ASSUME OutboxAssumption, IInv, NEW w \in Workers, NEW e \in Events, Handle(w, e)
    PROVE  IInv'
<1>1. /\ e \in inbox[w]
      /\ inbox' = [inbox EXCEPT ![w] = @ \ {e}]
      /\ handled' \subseteq handled \cup {<<w, e>>}
      /\ UNCHANGED <<row, aged, at, batch, running, channels, consumers, pubs,
                     aborts, crashes>>
    BY DEF Handle
<1>2. TypeOK'
    BY <1>1 DEF IInv, TypeOK
<1>3. PrefixInv' /\ CompletedInv' /\ OrderInv' /\ RepeatInv'
    BY <1>1 DEF IInv, PrefixInv, CompletedInv, OrderInv, RepeatInv, Passed,
           Announced, AtHand, Current
<1>4. ReceivedInv'
    BY <1>1 DEF IInv, TypeOK, ReceivedInv
<1>5. QED
    BY <1>2, <1>3, <1>4 DEF IInv

LEMMA CrashStep == ASSUME OutboxAssumption, IInv, NEW w \in Workers, Crash(w)
                   PROVE  IInv'
<1>1. /\ at' = [at EXCEPT ![w] = "down"]
      /\ batch' = [batch EXCEPT ![w] = {}]
      /\ running' = [running EXCEPT ![w] = FALSE]
      /\ channels' = [channels EXCEPT ![w] = {}]
      /\ inbox' = [inbox EXCEPT ![w] = {}]
      /\ consumers' = [consumers EXCEPT ![w] = {}]
      /\ crashes' = [crashes EXCEPT ![w] = @ + 1]
      /\ UNCHANGED <<row, aged, pubs, handled, aborts>>
    BY DEF Crash, Goto
<1>2. TypeOK'
    BY <1>1 DEF IInv, TypeOK, Labels
<1>3. PrefixInv' /\ OrderInv'
    BY <1>1 DEF IInv, TypeOK, PrefixInv, OrderInv, Passed, Announced
<1>4. CompletedInv'
    BY <1>1 DEF IInv, TypeOK, CompletedInv, Announced, Current
<1>5. RepeatInv'
    BY <1>1 DEF IInv, TypeOK, RepeatInv, AtHand, Current
<1>6. ReceivedInv'
    BY <1>1 DEF IInv, TypeOK, ReceivedInv
<1>7. QED
    BY <1>2, <1>3, <1>4, <1>5, <1>6 DEF IInv
-----------------------------------------------------------------------------
(***************************************************************************)
(* The theorems                                                            *)
(***************************************************************************)

LEMMA InitEstablishes == OutboxAssumption /\ Init => IInv
<1> SUFFICES ASSUME OutboxAssumption, Init
             PROVE  IInv
    OBVIOUS
<1>1. TypeOK
    BY DEF Init, TypeOK, RowStates, Labels, OutboxAssumption
<1>2. PrefixInv /\ CompletedInv /\ OrderInv /\ ReceivedInv
    BY DEF Init, PrefixInv, CompletedInv, OrderInv, ReceivedInv, Announced
<1>3. RepeatInv
    BY DEF Init, RepeatInv
<1>4. QED
    BY <1>1, <1>2, <1>3 DEF IInv

LEMMA NextPreserves == OutboxAssumption /\ IInv /\ [Next]_vars => IInv'
<1> SUFFICES ASSUME OutboxAssumption, IInv, [Next]_vars
             PROVE  IInv'
    OBVIOUS
<1>1. ASSUME NEW e \in Events, Append(e)
      PROVE  IInv'
    BY <1>1, AppendStep
<1>2. CASE Age
    BY <1>2, AgeStep
<1>3. ASSUME NEW w \in Workers, Boot(w) \/ Loop(w) \/ MarkFailedThrows(w) \/ Crash(w)
      PROVE  IInv'
    BY <1>3, BootStep, PollStep, PublishStep, PublishRejectedStep, MarkingStep,
       CrashStep DEF Loop
<1>4. ASSUME NEW w \in Workers, NEW e \in Events, Handle(w, e)
      PROVE  IInv'
    BY <1>4, HandleStep
<1>5. CASE UNCHANGED vars
    BY <1>5 DEF vars, procVars, historyVars, IInv, TypeOK, PrefixInv, CompletedInv,
           OrderInv, RepeatInv, ReceivedInv, Passed, Announced, AtHand, Current
<1>6. QED
    BY <1>1, <1>2, <1>3, <1>4, <1>5 DEF Next

LEMMA Invariance == Spec => []IInv
<1>1. Init => IInv
    BY OutboxAssumption, InitEstablishes
<1>2. IInv /\ [Next]_vars => IInv'
    BY OutboxAssumption, NextPreserves
<1>3. QED
    BY <1>1, <1>2, PTL DEF Spec

\* The table and the processes keep values of their types; what a worker holds
\* exists, is old enough, and dies with it.
THEOREM TypeCorrect == Spec => []TypeOK
<1>1. IInv => TypeOK
    BY DEF IInv
<1>2. QED
    BY <1>1, Invariance, PTL

\* For any number of workers, a worker repeats an announcement only after a
\* markFailed of its own threw or after it died: overlapping batches of other
\* workers never make it repeat.
THEOREM RepeatsAlwaysHaveACause == Spec => []RepeatsHaveACause
<1>1. IInv => RepeatsHaveACause
    BY DEF IInv, RepeatInv, RepeatsHaveACause
<1>2. QED
    BY <1>1, Invariance, PTL

\* What the deployment of docker-compose.prod.yml makes of it: where one
\* worker process runs, no handler of any event ever runs.
THEOREM LoneWorkerHandlesNothing ==
    ASSUME NEW lone, Workers = {lone}
    PROVE  Spec => [](handled = {})
<1>1. IInv => handled = {}
    BY DEF IInv, TypeOK, ReceivedInv
<1>2. QED
    BY <1>1, Invariance, PTL

-----------------------------------------------------------------------------
SettledStep ==
    \A e \in Events :
        row[e] \in {"completed", "failed"} /\ (\A w \in Workers : e \notin batch[w]) =>
            row'[e] = row[e] /\ (\A w \in Workers : e \notin batch'[w])

\* A step of Loop or a thrown markFailed leaves alone what no batch holds.
LEMMA LoopLeavesSettled ==
    ASSUME IInv, NEW w \in Workers, Loop(w) \/ MarkFailedThrows(w)
    PROVE  SettledStep
<1> SUFFICES ASSUME NEW e \in Events, row[e] \in {"completed", "failed"},
                    \A v \in Workers : e \notin batch[v]
             PROVE  row'[e] = row[e] /\ (\A v \in Workers : e \notin batch'[v])
    BY DEF SettledStep
<1>0. TypeOK
    BY DEF IInv
<1>1. CASE Poll(w)
  <2>1. e \notin GetPending
    BY DEF GetPending, Due
  <2>2. QED
    BY <1>0, <1>1, <2>1 DEF Poll, TypeOK
<1>2. CASE Publish(w) \/ PublishRejected(w)
    BY <1>2 DEF Publish, PublishRejected
<1>3. ASSUME NEW s, Settle(w, s)
      PROVE  row'[e] = row[e] /\ (\A v \in Workers : e \notin batch'[v])
    BY <1>0, <1>3 DEF Settle, TypeOK
<1>4. CASE MarkCompletedThrows(w) \/ MarkFailedThrows(w)
  <2>1. PICK d \in batch[w], s \in {"completed", "failed"} :
            row' \in {row, [row EXCEPT ![d] = s]}
    BY <1>4 DEF MarkCompletedThrows, MarkFailedThrows
  <2>2. row'[e] = row[e]
    BY <1>0, <2>1 DEF TypeOK
  <2>3. \A v \in Workers : batch'[v] \subseteq batch[v]
    BY <1>0, <1>4 DEF MarkCompletedThrows, MarkFailedThrows, TypeOK
  <2>4. QED
    BY <2>2, <2>3
<1>5. QED
    BY <1>1, <1>2, <1>3, <1>4 DEF Loop, MarkCompleted, MarkFailed

\* A row that was settled and that no worker holds any more is never touched
\* again, whatever workers start, die or poll afterwards.
THEOREM SettledRowAlwaysFinal == Spec => SettledRowIsFinal
<1>1. IInv /\ [Next]_vars => [SettledStep]_vars
  <2> SUFFICES ASSUME IInv, Next
               PROVE  SettledStep
    OBVIOUS
  <2>0. TypeOK
    BY DEF IInv
  <2>1. ASSUME NEW e \in Events, Append(e)
        PROVE  SettledStep
    BY <2>0, <2>1 DEF Append, SettledStep, procVars, TypeOK
  <2>2. CASE Age
    BY <2>2 DEF Age, SettledStep, procVars
  <2>3. ASSUME NEW w \in Workers, Boot(w) \/ Crash(w)
        PROVE  SettledStep
    BY <2>0, <2>3 DEF Boot, Crash, SettledStep, TypeOK
  <2>4. ASSUME NEW w \in Workers, NEW e \in Events, Handle(w, e)
        PROVE  SettledStep
    BY <2>4 DEF Handle, SettledStep
  <2>5. QED
    BY <2>1, <2>2, <2>3, <2>4, LoopLeavesSettled DEF Next
<1>2. QED
    BY <1>1, Invariance, PTL DEF Spec, SettledRowIsFinal, SettledStep

-----------------------------------------------------------------------------
(***************************************************************************)
(* Refinement: the outbox implements the relay                             *)
(***************************************************************************)

LEMMA RelayInitially == OutboxAssumption /\ Init => Relay!RelayInit
<1> SUFFICES ASSUME Init
             PROVE  Relay!RelayInit
    OBVIOUS
<1>1. Announced = {}
    BY DEF Init, Announced
<1>2. QED
    BY <1>1 DEF Init, Relay!RelayInit, Relay!Events, Events

\* An executed PUBLISH announces an event that nothing before it held up.
LEMMA DeliverAnnounces ==
    ASSUME OutboxAssumption, IInv, NEW w \in Workers, NEW e \in batch[w],
           channels[w] = {}, Current(w, e), Deliver(w, e), UNCHANGED row
    PROVE  Relay!RelayNext
<1>1. e \in Events /\ row[e] # "none" /\ Announced' = Announced \cup {e}
    BY DeliverEffect DEF IInv, TypeOK
<1>2. \A d \in Events : d < e => Passed(d)
    BY <1>1 DEF IInv, OrderInv, Current, TypeOK, Events
<1>3. Relay!Announce(e)
    BY <1>1, <1>2 DEF Relay!Announce, Relay!Events, Events, Passed
<1>4. QED
    BY <1>1, <1>3 DEF Relay!RelayNext, Relay!Events, Events

\* A mark, if it is written, finishes an announced event or gives one up.
LEMMA MarkSettles ==
    ASSUME IInv, NEW w \in Workers, NEW e \in batch[w], Current(w, e),
           NEW mark \in {"completed", "failed"},
           mark = "completed" => at[w] = "complete",
           row' = [row EXCEPT ![e] = mark], UNCHANGED pubs
    PROVE  Relay!RelayNext
<1>1. e \in Events /\ row[e] # "none" /\ Announced' = Announced
    BY DEF IInv, TypeOK, Announced
<1>2. mark = "completed" => e \in Announced
    BY DEF IInv, CompletedInv
<1>3. Relay!Finish(e) \/ Relay!GiveUp(e)
    BY <1>1, <1>2 DEF Relay!Finish, Relay!GiveUp, Relay!Become
<1>4. QED
    BY <1>1, <1>3 DEF Relay!RelayNext, Relay!Events, Events

LEMMA LoopInRelay ==
    ASSUME OutboxAssumption, IInv, NEW w \in Workers, Loop(w) \/ MarkFailedThrows(w)
    PROVE  Relay!RelayNext \/ UNCHANGED <<row, pubs>>
<1> USE DEF historyVars
<1>1. CASE Poll(w)
    BY <1>1 DEF Poll
<1>2. CASE Publish(w)
    BY <1>2, DeliverAnnounces DEF Publish
<1>3. CASE PublishRejected(w)
    BY <1>3, DeliverAnnounces DEF PublishRejected
<1>4. CASE MarkCompleted(w)
  <2>1. PICK e \in batch[w] : Current(w, e) /\ row' = [row EXCEPT ![e] = "completed"]
    BY <1>4 DEF MarkCompleted, Settle
  <2>2. QED
    BY <1>4, <2>1, MarkSettles DEF MarkCompleted, Settle
<1>5. CASE MarkFailed(w)
  <2>1. PICK e \in batch[w] : Current(w, e) /\ row' = [row EXCEPT ![e] = "failed"]
    BY <1>5 DEF MarkFailed, Settle
  <2>2. QED
    BY <1>5, <2>1, MarkSettles DEF MarkFailed, Settle
<1>6. CASE MarkCompletedThrows(w)
    BY <1>6, MarkSettles DEF MarkCompletedThrows
<1>7. CASE MarkFailedThrows(w)
    BY <1>7, MarkSettles DEF MarkFailedThrows
<1>8. QED
    BY <1>1, <1>2, <1>3, <1>4, <1>5, <1>6, <1>7 DEF Loop

\* Whatever the workers and the faults do, completed events were announced,
\* and announcements come in the order of the rows, failed rows excepted.
THEOREM OutboxImplementsRelay == Spec => ImplementsRelay
<1>1. Init => Relay!RelayInit
    BY OutboxAssumption, RelayInitially
<1>2. IInv /\ [Next]_vars => [Relay!RelayNext]_(Relay!relayVars)
  <2>1. ASSUME IInv, [Next]_vars
        PROVE  Relay!RelayNext \/ UNCHANGED <<row, pubs>>
    <3> USE DEF procVars, historyVars
    <3>1. ASSUME NEW e \in Events, Append(e)
          PROVE  Relay!RelayNext
      <4>1. Relay!Take(e)
        BY <3>1 DEF Append, Relay!Take, Relay!Become, Announced
      <4>2. QED
        BY <4>1 DEF Relay!RelayNext, Relay!Events, Events
    <3>2. ASSUME NEW w \in Workers,
                 Boot(w) \/ Crash(w) \/ \E e \in Events : Handle(w, e)
          PROVE  UNCHANGED <<row, pubs>>
      BY <3>2 DEF Boot, Crash, Handle
    <3>3. CASE Age \/ UNCHANGED vars
      BY <3>3 DEF Age, vars
    <3>4. QED
      BY <2>1, <3>1, <3>2, <3>3, LoopInRelay, OutboxAssumption DEF Next
  <2>2. UNCHANGED <<row, pubs>> => UNCHANGED Relay!relayVars
    BY DEF Relay!relayVars, Announced
  <2>3. QED
    BY <2>1, <2>2
<1>3. QED
    BY <1>1, <1>2, Invariance, PTL DEF Spec, ImplementsRelay, Relay!RelaySpec
=============================================================================
