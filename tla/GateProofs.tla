----------------------------- MODULE GateProofs -----------------------------
(***************************************************************************)
(* Proofs about Gate.  The limiter reads and writes its counter in two     *)
(* commands, and takes the time to live of the second before Valkey runs   *)
(* it, so what bounds the pages of an address is not a guard but an        *)
(* argument over several requests: what a request that had the counter to  *)
(* itself wrote is below the count of everybody who reads after it, as     *)
(* long as anybody is admitted in its window.                              *)
(***************************************************************************)
EXTENDS Gate, FiniteSetTheorems, TLAPS

-----------------------------------------------------------------------------
(***************************************************************************)
(* The inductive invariant                                                 *)
(***************************************************************************)

\* What the place of a request in its handler says of its other fields.
Phase(r, t) ==
    /\ r.pc \in {"idle", "counted", "sent"} => r.answer = "none"
    /\ r.pc \in {"idle", "counted"} => ~r.ran
    /\ r.pc \in {"counted", "sent", "lost"} \/ r.ran => r.count \in 1..Max /\ r.ip \in Ips
    /\ r.pc \in {"sent", "lost"} \/ r.ran => r.readAt <= r.setAt /\ r.setAt <= t
    /\ r.ran => Ttl(r.setAt) > 0 /\ r.setAt <= r.ranAt /\ r.ranAt <= t
    /\ r.answer = "next" => r.pc = "done" /\ r.ran
    /\ r.answer = "429" => r.count = Max + 1 /\ r.ip \in Ips
    /\ r.answer = "500" => r.setAt % Window > Window - Second
    /\ r.readAt <= t

Phases == \A q \in Requests : Phase(req[q], now)

\* Two requests of one address at work know of each other.
Together ==
    \A p, q \in Requests :
        (p # q /\ Working(p) /\ Working(q) /\ req[p].ip = req[q].ip) => <<p, q>> \in overlap

\* Request p raised the counter of its address and had it to itself.
Settled(p) == req[p].ran /\ Lone(p)

\* Whoever is at work on that counter read it after p's last write.
After ==
    \A p, q \in Requests :
        (p # q /\ Settled(p) /\ Working(q) /\ req[p].ip = req[q].ip) =>
            req[p].ranAt <= req[q].readAt

\* The clock that request q takes its time to live from.
Clock(q) == IF req[q].pc = "counted" THEN now ELSE req[q].setAt

\* He carries a higher count than p, if he is admitted in p's window at all.
Climbing ==
    \A p, q \in Requests :
        (/\ p # q /\ Settled(p) /\ Working(q) /\ req[p].ip = req[q].ip
         /\ WindowOf(req[p].setAt) = WindowOf(Clock(q)) /\ Ttl(Clock(q)) > 0) =>
            req[p].count < req[q].count

\* The counter is not below p's count, and it does not expire, before nobody is
\* admitted in p's window any more.
Lasting ==
    \A p \in Requests :
        (Settled(p) /\ WindowOf(req[p].setAt) = WindowOf(now) /\ Ttl(now) > 0) =>
            /\ req[p].count <= counter[req[p].ip].value
            /\ \A t \in Nat :
                  (now <= t /\ WindowOf(t) = WindowOf(now) /\ Ttl(t) > 0) =>
                      t < counter[req[p].ip].expires

\* Two such requests of one window carry different counts.
Distinct ==
    \A p, q \in Requests :
        (/\ p # q /\ Settled(p) /\ Settled(q) /\ req[p].ip = req[q].ip
         /\ WindowOf(req[p].setAt) = WindowOf(req[q].setAt)) =>
            req[p].count # req[q].count

\* A counter that has not expired was written by somebody.
Source ==
    \A i \in Ips : now < counter[i].expires =>
        \E p \in Requests :
            /\ req[p].ran /\ req[p].ip = i
            /\ req[p].count = counter[i].value
            /\ counter[i].expires <= req[p].ranAt + Ttl(req[p].setAt) * Second

\* Address i raised the counter n times in window w, or a late write carried a
\* count into the window.
Enough(i, w, n) == Cardinality(Counted(i, w)) >= n \/ CarriedOver(i, w)

\* That much stands behind the count of every request.
Backed ==
    \A q \in Requests :
        /\ Working(q) \/ req[q].answer = "429" =>
              Enough(req[q].ip, WindowOf(req[q].readAt), req[q].count - 1)
        /\ req[q].ran => Enough(req[q].ip, WindowOf(req[q].readAt), req[q].count)

IInv == /\ TypeOK /\ Phases /\ Together /\ After /\ Climbing /\ Lasting /\ Distinct
        /\ Source /\ Backed

-----------------------------------------------------------------------------
(***************************************************************************)
(* Windows and whole seconds                                               *)
(***************************************************************************)

\* The place of a moment in its window, and whole seconds in what is left.
LEMMA Division ==
    ASSUME NEW t \in Nat, NEW w \in Nat \ {0}
    PROVE  /\ t \div w \in Nat /\ t % w \in Nat /\ t % w < w
           /\ w * (t \div w) <= t /\ t < w * (t \div w) + w
  <1>1. t \div w \in Nat
    OBVIOUS
  <1>2. t % w \in Nat /\ t % w < w
    OBVIOUS
  <1>3. w * (t \div w) <= t
    OBVIOUS
  <1>4. t < w * (t \div w) + w
    OBVIOUS
  <1> QED
    BY <1>1, <1>2, <1>3, <1>4

\* A later moment is in no earlier window.
LEMMA LaterWindow ==
    ASSUME NEW s \in Nat, NEW t \in Nat, NEW w \in Nat \ {0}, s <= t
    PROVE  s \div w <= t \div w
  OBVIOUS

\* What is left of its window belongs to it.
LEMMA RestOfWindow ==
    ASSUME NEW t \in Nat, NEW w \in Nat \ {0}, NEW u \in Nat, t <= u, u < t + w - (t % w)
    PROVE  u \div w = t \div w
  OBVIOUS

\* Two moments of one window are as far apart as their places in it.
LEMMA SameWindow ==
    ASSUME NEW t \in Nat, NEW w \in Nat \ {0}, NEW u \in Nat, t <= u, u \div w = t \div w
    PROVE  u % w = (t % w) + u - t
  OBVIOUS

\* The time to live in seconds is the rest of the window rounded down.
LEMMA TtlBounds ==
    ASSUME GateAssumption, NEW t \in Nat
    PROVE  /\ Ttl(t) \in Nat /\ Ttl(t) * Second \in Nat
           /\ Ttl(t) * Second <= Window - (t % Window)
           /\ Window - (t % Window) < Ttl(t) * Second + Second
           /\ Ttl(t) > 0 <=> Second <= Window - (t % Window)
  <1> DEFINE rest == Window - (t % Window)
  <1>1. Window \in Nat \ {0} /\ Second \in Nat \ {0}
    BY DEF GateAssumption
  <1>2. rest \in Nat
    BY <1>1, Division
  <1> HIDE DEF rest
  <1>3. /\ rest \div Second \in Nat
        /\ Second * (rest \div Second) <= rest
        /\ rest < Second * (rest \div Second) + Second
    BY <1>1, <1>2, Division
  <1> DEFINE n == rest \div Second
  <1>4. n \in Nat /\ Second * n <= rest /\ rest < Second * n + Second
    BY <1>3
  <1> HIDE DEF n
  <1>5. Second * n = n * Second /\ n * Second \in Nat
    BY <1>1, <1>4
  <1>6. n > 0 => Second <= Second * n
    BY <1>1, <1>4
  <1>7. n = 0 => Second * n = 0
    BY <1>1, <1>4
  <1>8. n > 0 <=> Second <= rest
    BY <1>1, <1>2, <1>4, <1>5, <1>6, <1>7
  <1>9. Ttl(t) = n /\ rest = Window - (t % Window)
    BY DEF Ttl, n, rest
  <1> QED
    BY <1>2, <1>4, <1>5, <1>8, <1>9

\* A counter written at t lives on in the window of t as long as anybody is
\* admitted in it, and no longer than the window.
LEMMA LifeOfCounter ==
    ASSUME GateAssumption, NEW t \in Nat, NEW u \in Nat, t <= u
    PROVE  /\ (WindowOf(u) = WindowOf(t) /\ Ttl(u) > 0 /\ Ttl(t) > 0)
                 => u < t + Ttl(t) * Second
           /\ u < t + Ttl(t) * Second => WindowOf(u) = WindowOf(t)
  <1>1. Window \in Nat \ {0} /\ Second \in Nat \ {0}
    BY DEF GateAssumption
  <1>2. t % Window \in Nat /\ t % Window < Window /\ u % Window \in Nat
    BY <1>1, Division
  <1> DEFINE life == Ttl(t) * Second
  <1>3. life \in Nat /\ life <= Window - (t % Window) /\ Window - (t % Window) < life + Second
    BY TtlBounds
  <1>4. Ttl(u) > 0 => Second <= Window - (u % Window)
    BY TtlBounds
  <1> HIDE DEF life
  <1>5. ASSUME WindowOf(u) = WindowOf(t), Ttl(u) > 0
        PROVE  u < t + life
    <2>1. u % Window = (t % Window) + u - t
      BY <1>1, <1>5, SameWindow DEF WindowOf
    <2> QED
      BY <1>1, <1>2, <1>3, <1>4, <1>5, <2>1
  <1>6. ASSUME u < t + life
        PROVE  WindowOf(u) = WindowOf(t)
    <2>1. u < t + Window - (t % Window)
      BY <1>1, <1>2, <1>3, <1>6
    <2> QED
      BY <1>1, <2>1, RestOfWindow DEF WindowOf
  <1> QED
    BY <1>5, <1>6 DEF life

-----------------------------------------------------------------------------
(***************************************************************************)
(* What a step does to a request                                           *)
(***************************************************************************)

Rows == [ip : Ips \cup {"none"}, session : Sessions, path : Paths,
         pc : {"idle", "counted", "sent", "lost", "done"},
         count : 0..(Max + 1), readAt : 0..MaxNow, setAt : 0..MaxNow,
         ran : BOOLEAN, ranAt : 0..MaxNow, answer : Answers]

\* The assumption on the constants, with the types and phases.
Types == GateAssumption /\ TypeOK /\ Phases

\* The types the proofs below speak of.
LEMMA Typing ==
    ASSUME GateAssumption, TypeOK
    PROVE  /\ Max \in Nat \ {0} /\ MaxNow \in Nat /\ Window \in Nat \ {0} /\ Second \in Nat \ {0}
           /\ now \in 0..MaxNow /\ now \in Nat /\ req \in [Requests -> Rows]
           /\ counter \in [Ips -> [value : 0..Max, expires : Nat]]
           /\ overlap \subseteq Requests \X Requests
           /\ \A q \in Requests :
                /\ req[q].count \in Nat /\ req[q].readAt \in Nat /\ req[q].setAt \in Nat
                /\ req[q].ranAt \in Nat /\ req[q].ran \in BOOLEAN
  <1>1. /\ Max \in Nat \ {0} /\ MaxNow \in Nat /\ Window \in Nat \ {0} /\ Second \in Nat \ {0}
        /\ now \in 0..MaxNow /\ req \in [Requests -> Rows]
        /\ counter \in [Ips -> [value : 0..Max, expires : Nat]]
        /\ overlap \subseteq Requests \X Requests
    BY DEF GateAssumption, TypeOK, Rows
  <1>2. ASSUME NEW q \in Requests
        PROVE  /\ req[q].count \in Nat /\ req[q].readAt \in Nat /\ req[q].setAt \in Nat
               /\ req[q].ranAt \in Nat /\ req[q].ran \in BOOLEAN
    BY <1>1 DEF Rows
  <1> QED
    BY <1>1, <1>2

\* What a request is when its handler starts.
LEMMA Blank ==
    ASSUME GateAssumption
    PROVE  /\ NoRequest \in Rows
           /\ NoRequest.setAt = 0 /\ ~NoRequest.ran /\ NoRequest.ranAt = 0
           /\ NoRequest.pc = "idle" /\ NoRequest.answer = "none" /\ NoRequest.readAt = 0
  BY DEF NoRequest, Rows, NoSession, Sessions, Paths, Answers, GateAssumption

\* A request that starts is read from, and is let on to its write or refused.
LEMMA Received ==
    ASSUME GateAssumption, TypeOK, NEW q \in Requests, NEW i \in Ips, NEW v \in Visits,
           Receive(q, i, v)
    PROVE  /\ req' \in [Requests -> Rows]
           /\ req[q].pc = "idle"
           /\ req'[q].ip = i /\ req'[q].count = Current(i) + 1 /\ req'[q].readAt = now
           /\ req'[q].setAt = 0 /\ ~req'[q].ran /\ req'[q].ranAt = 0
           /\ Current(i) \in 0..Max
           /\ \/ Current(i) + 1 > Max /\ req'[q].pc = "done" /\ req'[q].answer = "429"
                 /\ overlap' = overlap
              \/ Current(i) + 1 <= Max /\ req'[q].pc = "counted" /\ req'[q].answer = "none"
                 /\ overlap' = overlap \cup AtWork(q, i)
           /\ now' = now /\ counter' = counter
           /\ \A p \in Requests : p # q => req'[p] = req[p]
  <1>1. Current(i) \in 0..Max
    BY DEF TypeOK, Current, GateAssumption
  <1>2. v[1] \in Sessions /\ v[2] \in Paths
    BY DEF GateAssumption
  <1>3. now \in 0..MaxNow
    BY DEF TypeOK
  <1> DEFINE refused == Current(i) + 1 > Max
             row == [NoRequest EXCEPT
                        !.ip = i, !.session = v[1], !.path = v[2],
                        !.pc = IF refused THEN "done" ELSE "counted",
                        !.count = Current(i) + 1, !.readAt = now,
                        !.answer = IF refused THEN "429" ELSE "none"]
  <1>4. row \in Rows
    <2> DEFINE pc == IF refused THEN "done" ELSE "counted"
               answer == IF refused THEN "429" ELSE "none"
               count == Current(i) + 1
    <2>1. pc \in {"counted", "done"} /\ answer \in Answers
      BY DEF Answers
    <2>2. count \in 0..(Max + 1)
      BY <1>1 DEF GateAssumption
    <2> HIDE DEF pc, answer, count
    <2>3. [NoRequest EXCEPT !.ip = i, !.session = v[1], !.path = v[2], !.pc = pc,
                            !.count = count, !.readAt = now, !.answer = answer] \in Rows
      BY <1>2, <1>3, <2>1, <2>2, Blank DEF Rows
    <2> QED
      BY <2>3 DEF pc, answer, count
  <1>5. req' = [req EXCEPT ![q] = row] /\ req \in [Requests -> Rows]
    BY DEF Receive, TypeOK, Rows
  <1>6. /\ row.ip = i /\ row.count = Current(i) + 1 /\ row.readAt = now
        /\ row.setAt = 0 /\ ~row.ran /\ row.ranAt = 0
        /\ refused => row.pc = "done" /\ row.answer = "429"
        /\ ~refused => row.pc = "counted" /\ row.answer = "none"
    BY Blank DEF Rows
  <1>7. /\ req[q].pc = "idle" /\ now' = now /\ counter' = counter
        /\ refused => overlap' = overlap
        /\ ~refused => overlap' = overlap \cup AtWork(q, i)
    BY DEF Receive
  <1> HIDE DEF row
  <1>8. req' \in [Requests -> Rows] /\ req'[q] = row
        /\ \A p \in Requests : p # q => req'[p] = req[p]
    BY <1>4, <1>5
  <1>9. refused \/ Current(i) + 1 <= Max
    BY <1>1 DEF GateAssumption
  <1> QED
    BY <1>1, <1>6, <1>7, <1>8, <1>9

\* A request whose read fails is over.
LEMMA Unread ==
    ASSUME GateAssumption, TypeOK, NEW q \in Requests, NEW i \in Ips, NEW v \in Visits,
           ReadFails(q, i, v)
    PROVE  /\ req' \in [Requests -> Rows]
           /\ req[q].pc = "idle" /\ req'[q].pc = "done" /\ req'[q].answer = "fault"
           /\ ~req'[q].ran /\ req'[q].readAt = 0
           /\ now' = now /\ counter' = counter /\ overlap' = overlap
           /\ \A p \in Requests : p # q => req'[p] = req[p]
  <1>1. v[1] \in Sessions /\ v[2] \in Paths
    BY DEF GateAssumption
  <1> DEFINE row == [NoRequest EXCEPT !.ip = i, !.session = v[1], !.path = v[2],
                                      !.pc = "done", !.answer = "fault"]
  <1>2. row \in Rows
    BY <1>1, Blank DEF Rows, Answers
  <1>3. req' = [req EXCEPT ![q] = row] /\ req \in [Requests -> Rows]
    BY DEF ReadFails, TypeOK, Rows
  <1>4. row.pc = "done" /\ row.answer = "fault" /\ ~row.ran /\ row.readAt = 0
    BY Blank DEF Rows
  <1>5. req[q].pc = "idle" /\ now' = now /\ counter' = counter /\ overlap' = overlap
    BY DEF ReadFails
  <1> HIDE DEF row
  <1>6. req' \in [Requests -> Rows] /\ req'[q] = row
        /\ \A p \in Requests : p # q => req'[p] = req[p]
    BY <1>2, <1>3
  <1> QED
    BY <1>4, <1>5, <1>6

\* The steps of a request that leave the counter alone.
Moves(q) == Send(q) \/ InvalidExpire(q) \/ Admit(q) \/ StoreFailure(q) \/ Drop(q)

LEMMA Moved ==
    ASSUME GateAssumption, TypeOK, NEW q \in Requests, Moves(q)
    PROVE  /\ req' \in [Requests -> Rows]
           /\ req'[q].ip = req[q].ip /\ req'[q].count = req[q].count
           /\ req'[q].readAt = req[q].readAt /\ req'[q].ran = req[q].ran
           /\ req'[q].ranAt = req[q].ranAt
           /\ \/ /\ req[q].pc = "counted" /\ req'[q].pc = "sent" /\ req'[q].setAt = now
                 /\ req'[q].answer = req[q].answer
              \/ /\ req[q].pc = "sent" /\ req'[q].pc = "done" /\ req'[q].setAt = req[q].setAt
                 /\ \/ req'[q].answer = "500" /\ Ttl(req[q].setAt) = 0
                    \/ req'[q].answer = "next" /\ req[q].ran
              \/ /\ req[q].pc = "sent" /\ req'[q].pc = "lost" /\ req'[q].setAt = req[q].setAt
                 /\ req'[q].answer = "fault"
              \/ /\ req[q].pc = "lost" /\ req'[q].pc = "done" /\ req'[q].setAt = req[q].setAt
                 /\ req'[q].answer = req[q].answer
           /\ now' = now /\ counter' = counter /\ overlap' = overlap
           /\ \A p \in Requests : p # q => req'[p] = req[p]
  <1>1. req \in [Requests -> Rows] /\ now \in 0..MaxNow /\ req[q] \in Rows
    BY DEF TypeOK, Rows
  <1>2. {"next", "500", "fault"} \subseteq Answers
    BY DEF Answers
  <1>3. CASE Send(q)
    <2>1. req' = [req EXCEPT ![q] = [req[q] EXCEPT !.pc = "sent", !.setAt = now]]
      BY <1>1, <1>3 DEF Send
    <2>2. [req[q] EXCEPT !.pc = "sent", !.setAt = now] \in Rows
      BY <1>1 DEF Rows
    <2> QED
      BY <1>1, <1>3, <2>1, <2>2 DEF Send, Rows
  <1>4. CASE InvalidExpire(q)
    <2>1. req' = [req EXCEPT ![q] = [req[q] EXCEPT !.pc = "done", !.answer = "500"]]
      BY <1>1, <1>4 DEF InvalidExpire
    <2>2. [req[q] EXCEPT !.pc = "done", !.answer = "500"] \in Rows
      BY <1>1, <1>2 DEF Rows
    <2> QED
      BY <1>1, <1>4, <2>1, <2>2 DEF InvalidExpire, Rows
  <1>5. CASE Admit(q)
    <2>1. req' = [req EXCEPT ![q] = [req[q] EXCEPT !.pc = "done", !.answer = "next"]]
      BY <1>1, <1>5 DEF Admit, Proxy
    <2>2. [req[q] EXCEPT !.pc = "done", !.answer = "next"] \in Rows
      BY <1>1, <1>2 DEF Rows
    <2>3. /\ req[q].pc = "sent" /\ req[q].ran
          /\ now' = now /\ counter' = counter /\ overlap' = overlap
      BY <1>5 DEF Admit
    <2> QED
      BY <1>1, <2>1, <2>2, <2>3 DEF Rows
  <1>6. CASE StoreFailure(q)
    <2>1. req' = [req EXCEPT ![q] = [req[q] EXCEPT !.pc = "lost", !.answer = "fault"]]
      BY <1>1, <1>6 DEF StoreFailure
    <2>2. [req[q] EXCEPT !.pc = "lost", !.answer = "fault"] \in Rows
      BY <1>1, <1>2 DEF Rows
    <2> QED
      BY <1>1, <1>6, <2>1, <2>2 DEF StoreFailure, Rows
  <1>7. CASE Drop(q)
    <2>1. req' = [req EXCEPT ![q] = [req[q] EXCEPT !.pc = "done"]]
      BY <1>1, <1>7 DEF Drop
    <2>2. [req[q] EXCEPT !.pc = "done"] \in Rows
      BY <1>1 DEF Rows
    <2> QED
      BY <1>1, <1>7, <2>1, <2>2 DEF Drop, Rows
  <1> QED
    BY <1>3, <1>4, <1>5, <1>6, <1>7 DEF Moves

\* SETEX sets the counter and nothing else but the record that it ran.
LEMMA Executed ==
    ASSUME GateAssumption, TypeOK, Phases, NEW q \in Requests, Execute(q)
    PROVE  /\ req' \in [Requests -> Rows]
           /\ req[q].pc \in {"sent", "lost"} /\ Ttl(req[q].setAt) > 0
           /\ req'[q].ip = req[q].ip /\ req'[q].count = req[q].count
           /\ req'[q].readAt = req[q].readAt /\ req'[q].setAt = req[q].setAt
           /\ req'[q].pc = req[q].pc /\ req'[q].answer = req[q].answer
           /\ req'[q].ran = TRUE /\ req'[q].ranAt = now
           /\ req[q].ip \in Ips /\ req[q].count \in 1..Max
           /\ counter'[req[q].ip] = [value |-> req[q].count,
                                     expires |-> now + Ttl(req[q].setAt) * Second]
           /\ \A i \in Ips : i # req[q].ip => counter'[i] = counter[i]
           /\ counter' \in [Ips -> [value : 0..Max, expires : Nat]]
           /\ now' = now /\ overlap' = overlap
           /\ \A p \in Requests : p # q => req'[p] = req[p]
  <1>1. req \in [Requests -> Rows] /\ now \in 0..MaxNow /\ req[q] \in Rows
        /\ Max \in Nat \ {0} /\ Second \in Nat \ {0} /\ now \in Nat /\ req[q].setAt \in Nat
        /\ counter \in [Ips -> [value : 0..Max, expires : Nat]]
    BY Typing
  <1>2. /\ req[q].pc \in {"sent", "lost"} /\ Ttl(req[q].setAt) > 0
        /\ now' = now /\ overlap' = overlap
        /\ counter' = [counter EXCEPT ![req[q].ip] =
                          [value |-> req[q].count, expires |-> now + Ttl(req[q].setAt) * Second]]
    BY DEF Execute
  <1>3. req[q].ip \in Ips /\ req[q].count \in 1..Max
    BY <1>2 DEF Phases, Phase
  <1>4. Ttl(req[q].setAt) * Second \in Nat
    BY <1>1, TtlBounds
  <1>5. [value |-> req[q].count, expires |-> now + Ttl(req[q].setAt) * Second]
            \in [value : 0..Max, expires : Nat]
    BY <1>1, <1>3, <1>4
  <1>6. req' = [req EXCEPT ![q] = [req[q] EXCEPT !.ran = TRUE, !.ranAt = now]]
    BY <1>1 DEF Execute
  <1>7. [req[q] EXCEPT !.ran = TRUE, !.ranAt = now] \in Rows
    BY <1>1 DEF Rows
  <1>8. /\ req' \in [Requests -> Rows]
        /\ req'[q] = [req[q] EXCEPT !.ran = TRUE, !.ranAt = now]
        /\ \A p \in Requests : p # q => req'[p] = req[p]
    BY <1>1, <1>6, <1>7
  <1>9. /\ counter' \in [Ips -> [value : 0..Max, expires : Nat]]
        /\ counter'[req[q].ip] = [value |-> req[q].count,
                                  expires |-> now + Ttl(req[q].setAt) * Second]
        /\ \A i \in Ips : i # req[q].ip => counter'[i] = counter[i]
    BY <1>1, <1>2, <1>3, <1>5
  <1> QED
    BY <1>1, <1>2, <1>3, <1>8, <1>9 DEF Rows

-----------------------------------------------------------------------------
(***************************************************************************)
(* Types and phases                                                        *)
(***************************************************************************)

LEMMA TypesInit == GateAssumption /\ Init => TypeOK /\ Phases
  <1> SUFFICES ASSUME GateAssumption, Init
               PROVE  TypeOK /\ Phases
    OBVIOUS
  <1>1. Max \in Nat \ {0} /\ MaxNow \in Nat
    BY DEF GateAssumption
  <1>2. TypeOK
    BY <1>1, Blank DEF Init, TypeOK, Rows
  <1>3. Phases
    BY <1>1, Blank DEF Init, Phases, Phase
  <1> QED
    BY <1>2, <1>3

LEMMA TypesStep ==
    GateAssumption /\ TypeOK /\ Phases /\ [Next]_vars => TypeOK' /\ Phases'
  <1> SUFFICES ASSUME GateAssumption, TypeOK, Phases, [Next]_vars
               PROVE  TypeOK' /\ Phases'
    OBVIOUS
  <1>1. /\ Max \in Nat \ {0} /\ MaxNow \in Nat /\ Window \in Nat \ {0} /\ Second \in Nat \ {0}
        /\ now \in 0..MaxNow /\ now \in Nat /\ req \in [Requests -> Rows]
        /\ counter \in [Ips -> [value : 0..Max, expires : Nat]]
        /\ overlap \subseteq Requests \X Requests
        /\ \A q \in Requests :
             /\ req[q].count \in Nat /\ req[q].readAt \in Nat /\ req[q].setAt \in Nat
             /\ req[q].ranAt \in Nat /\ req[q].ran \in BOOLEAN
    BY Typing
  <1>2. \A p \in Requests : Phase(req[p], now)
    BY DEF Phases
  <1>3. ASSUME NEW q \in Requests, NEW i \in Ips, NEW v \in Visits, Receive(q, i, v)
        PROVE  TypeOK' /\ Phases'
    <2>1. /\ req' \in [Requests -> Rows] /\ now' = now /\ counter' = counter
          /\ overlap' = overlap \/ overlap' = overlap \cup AtWork(q, i)
          /\ \A p \in Requests : p # q => req'[p] = req[p]
      BY <1>3, Received
    <2>2. AtWork(q, i) \subseteq Requests \X Requests
      BY DEF AtWork
    <2>3. Phase(req'[q], now)
      <3>1. /\ req'[q].ip = i /\ req'[q].count = Current(i) + 1 /\ req'[q].readAt = now
            /\ req'[q].setAt = 0 /\ ~req'[q].ran
            /\ Current(i) \in 0..Max
            /\ \/ Current(i) + 1 > Max /\ req'[q].pc = "done" /\ req'[q].answer = "429"
               \/ Current(i) + 1 <= Max /\ req'[q].pc = "counted" /\ req'[q].answer = "none"
        BY <1>3, Received
      <3>2. CASE req'[q].pc = "done" /\ req'[q].answer = "429"
        <4>1. req'[q].count = Max + 1 /\ i \in Ips
          BY <1>1, <3>1, <3>2
        <4> QED
          BY <1>1, <3>1, <3>2, <4>1 DEF Phase
      <3>3. CASE req'[q].pc = "counted" /\ req'[q].answer = "none"
        <4>1. req'[q].count \in 1..Max /\ i \in Ips
          BY <1>1, <3>1, <3>3
        <4> QED
          BY <1>1, <3>1, <3>3, <4>1 DEF Phase
      <3> QED
        BY <3>1, <3>2, <3>3
    <2> QED
      BY <1>1, <1>2, <2>1, <2>2, <2>3 DEF TypeOK, Phases, Rows
  <1>4. ASSUME NEW q \in Requests, NEW i \in Ips, NEW v \in Visits, ReadFails(q, i, v)
        PROVE  TypeOK' /\ Phases'
    <2>1. /\ req' \in [Requests -> Rows] /\ now' = now /\ counter' = counter
          /\ overlap' = overlap
          /\ \A p \in Requests : p # q => req'[p] = req[p]
          /\ req'[q].pc = "done" /\ req'[q].answer = "fault"
          /\ ~req'[q].ran /\ req'[q].readAt = 0
      BY <1>4, Unread
    <2>2. Phase(req'[q], now)
      BY <1>1, <2>1 DEF Phase
    <2> QED
      BY <1>1, <1>2, <2>1, <2>2 DEF TypeOK, Phases, Rows
  <1>5. ASSUME NEW q \in Requests, Moves(q)
        PROVE  TypeOK' /\ Phases'
    <2>1. /\ req' \in [Requests -> Rows] /\ now' = now /\ counter' = counter
          /\ overlap' = overlap
          /\ \A p \in Requests : p # q => req'[p] = req[p]
          /\ req'[q].ip = req[q].ip /\ req'[q].count = req[q].count
          /\ req'[q].readAt = req[q].readAt /\ req'[q].ran = req[q].ran
          /\ req'[q].ranAt = req[q].ranAt
          /\ \/ /\ req[q].pc = "counted" /\ req'[q].pc = "sent" /\ req'[q].setAt = now
                /\ req'[q].answer = req[q].answer
             \/ /\ req[q].pc = "sent" /\ req'[q].pc = "done" /\ req'[q].setAt = req[q].setAt
                /\ \/ req'[q].answer = "500" /\ Ttl(req[q].setAt) = 0
                   \/ req'[q].answer = "next" /\ req[q].ran
             \/ /\ req[q].pc = "sent" /\ req'[q].pc = "lost" /\ req'[q].setAt = req[q].setAt
                /\ req'[q].answer = "fault"
             \/ /\ req[q].pc = "lost" /\ req'[q].pc = "done" /\ req'[q].setAt = req[q].setAt
                /\ req'[q].answer = req[q].answer
      BY <1>5, Moved
    <2>2. Ttl(req[q].setAt) = 0 => req[q].setAt % Window > Window - Second
      <3>1. Ttl(req[q].setAt) = 0 => ~(Second <= Window - (req[q].setAt % Window))
        BY <1>1, TtlBounds
      <3>2. req[q].setAt % Window \in Nat
        BY <1>1, Division
      <3> QED
        BY <1>1, <3>1, <3>2
    <2>3. Phase(req[q], now)
      BY <1>2
    <2>4. Phase(req'[q], now)
      BY <1>1, <2>1, <2>2, <2>3 DEF Phase
    <2> QED
      BY <1>1, <1>2, <2>1, <2>4 DEF TypeOK, Phases, Rows
  <1>6. ASSUME NEW q \in Requests, Execute(q)
        PROVE  TypeOK' /\ Phases'
    <2>1. /\ req' \in [Requests -> Rows] /\ now' = now
          /\ counter' \in [Ips -> [value : 0..Max, expires : Nat]]
          /\ overlap' = overlap
          /\ \A p \in Requests : p # q => req'[p] = req[p]
      BY <1>6, Executed
    <2>2. /\ req[q].pc \in {"sent", "lost"} /\ Ttl(req[q].setAt) > 0
          /\ req'[q].ip = req[q].ip /\ req'[q].count = req[q].count
          /\ req'[q].readAt = req[q].readAt /\ req'[q].setAt = req[q].setAt
          /\ req'[q].pc = req[q].pc /\ req'[q].answer = req[q].answer
          /\ req'[q].ran = TRUE /\ req'[q].ranAt = now
          /\ req[q].ip \in Ips /\ req[q].count \in 1..Max
      BY <1>6, Executed
    <2>3. Phase(req[q], now)
      BY <1>2
    <2>4. Phase(req'[q], now)
      BY <1>1, <2>2, <2>3 DEF Phase
    <2> QED
      BY <1>1, <1>2, <2>1, <2>4 DEF TypeOK, Phases, Rows
  <1>7. CASE Tick
    <2>1. /\ now' = now + 1 /\ now' \in 0..MaxNow
          /\ counter' = counter /\ req' = req /\ overlap' = overlap
      BY <1>1, <1>7 DEF Tick
    <2>2. ASSUME NEW p \in Requests
          PROVE  Phase(req[p], now')
      <3>1. Phase(req[p], now)
        BY <1>2
      <3> QED
        BY <1>1, <2>1, <3>1 DEF Phase
    <2> QED
      BY <1>1, <2>1, <2>2 DEF TypeOK, Phases, Rows
  <1>8. CASE UNCHANGED vars
    BY <1>1, <1>2, <1>8 DEF vars, TypeOK, Phases, Rows
  <1> QED
    BY <1>3, <1>4, <1>5, <1>6, <1>7, <1>8 DEF Next, Moves

\* Every field of every request has its type in every state: no page is
\* answered by anything but a page, a redirect, a refusal or a failure.
THEOREM TypeCorrect == Spec => []TypeOK
  <1>1. GateAssumption
    BY GateAssumption
  <1>2. Init => TypeOK /\ Phases
    BY <1>1, TypesInit
  <1>3. TypeOK /\ Phases /\ [Next]_vars => (TypeOK /\ Phases)'
    BY <1>1, TypesStep
  <1> QED
    BY <1>2, <1>3, PTL DEF Spec

-----------------------------------------------------------------------------
(***************************************************************************)
(* The three kinds of step                                                 *)
(***************************************************************************)

\* A request that is at work, or has raised the counter, keeps what it read and
\* the time to live it took; a pair that overlapped has overlapped.
LEMMA Frame ==
    ASSUME Types, [Next]_vars
    PROVE  /\ overlap \subseteq overlap'
           /\ now' = now \/ now' = now + 1
           /\ \A p \in Requests :
                req[p].ran =>
                  /\ req'[p].ran /\ req'[p].ip = req[p].ip /\ req'[p].count = req[p].count
                  /\ req'[p].readAt = req[p].readAt /\ req'[p].setAt = req[p].setAt
                  /\ req[p].ranAt <= req'[p].ranAt
  <1>1. /\ now \in Nat
        /\ \A p \in Requests :
             /\ req[p].ranAt \in Nat
             /\ req[p].ran => req[p].pc \notin {"idle", "counted"} /\ req[p].ranAt <= now
    BY Typing DEF Types, Phases, Phase
  <1>2. ASSUME NEW q \in Requests, NEW i \in Ips, NEW v \in Visits,
               Receive(q, i, v) \/ ReadFails(q, i, v)
        PROVE  /\ overlap \subseteq overlap' /\ now' = now /\ req[q].pc = "idle"
               /\ \A p \in Requests : p # q => req'[p] = req[p]
    BY <1>2, Received, Unread DEF Types
  <1>3. ASSUME NEW q \in Requests, Moves(q)
        PROVE  /\ overlap \subseteq overlap' /\ now' = now
               /\ \A p \in Requests : p # q => req'[p] = req[p]
               /\ req'[q].ip = req[q].ip /\ req'[q].count = req[q].count
               /\ req'[q].readAt = req[q].readAt /\ req'[q].ran = req[q].ran
               /\ req'[q].ranAt = req[q].ranAt
               /\ req[q].pc = "counted" \/ req'[q].setAt = req[q].setAt
    BY <1>3, Moved DEF Types
  <1>4. ASSUME NEW q \in Requests, Execute(q)
        PROVE  /\ overlap \subseteq overlap' /\ now' = now
               /\ \A p \in Requests : p # q => req'[p] = req[p]
               /\ req'[q].ip = req[q].ip /\ req'[q].count = req[q].count
               /\ req'[q].readAt = req[q].readAt /\ req'[q].setAt = req[q].setAt
               /\ req'[q].ran /\ req'[q].ranAt = now
    BY <1>4, Executed DEF Types
  <1>5. ASSUME Tick \/ UNCHANGED vars
        PROVE  overlap' = overlap /\ req' = req /\ (now' = now \/ now' = now + 1)
    BY <1>5 DEF Tick, vars
  <1>6. CASE \E q \in Requests, i \in Ips, v \in Visits : Receive(q, i, v) \/ ReadFails(q, i, v)
    BY <1>1, <1>2, <1>6
  <1>7. CASE \E q \in Requests : Moves(q)
    BY <1>1, <1>3, <1>7
  <1>8. CASE \E q \in Requests : Execute(q)
    BY <1>1, <1>4, <1>8
  <1>9. CASE Tick \/ UNCHANGED vars
    BY <1>1, <1>5, <1>9
  <1> QED
    BY <1>6, <1>7, <1>8, <1>9 DEF Next, Moves

\* Every other step than a read that is let through and a SETEX that runs
\* leaves who is at work, with what count and what clock, and the counters.
Quiet ==
    /\ counter' = counter /\ overlap' = overlap
    /\ \A p \in Requests :
         Working(p)' =>
            /\ Working(p) /\ req'[p].ip = req[p].ip /\ req'[p].count = req[p].count
            /\ req'[p].readAt = req[p].readAt
            /\ Clock(p)' = Clock(p) \/ (Clock(p) = now /\ Clock(p)' = now + 1)
    /\ \A p \in Requests :
         req'[p].ran =>
            /\ req[p].ran /\ req'[p].ip = req[p].ip /\ req'[p].count = req[p].count
            /\ req'[p].setAt = req[p].setAt /\ req'[p].ranAt = req[p].ranAt

LEMMA Kinds ==
    ASSUME Types, [Next]_vars
    PROVE  \/ Quiet
           \/ \E q \in Requests, i \in Ips, v \in Visits : Receive(q, i, v) /\ Working(q)'
           \/ \E q \in Requests : Execute(q)
  <1>1. \A p \in Requests : req[p].ran => req[p].pc \notin {"idle", "counted"}
    BY DEF Types, Phases, Phase
  <1>2. ASSUME NEW q \in Requests, NEW i \in Ips, NEW v \in Visits,
               ReadFails(q, i, v) \/ (Receive(q, i, v) /\ ~Working(q)')
        PROVE  Quiet
    <2>1. /\ req[q].pc = "idle" /\ req'[q].pc = "done" /\ ~req'[q].ran
          /\ now' = now /\ counter' = counter /\ overlap' = overlap
          /\ \A p \in Requests : p # q => req'[p] = req[p]
      <3>1. CASE ReadFails(q, i, v)
        BY <3>1, Unread DEF Types
      <3>2. CASE Receive(q, i, v) /\ ~Working(q)'
        BY <3>2, Received DEF Types, Working
      <3> QED
        BY <1>2, <3>1, <3>2
    <2> QED
      BY <2>1 DEF Quiet, Working, Clock
  <1>3. ASSUME NEW q \in Requests, Moves(q)
        PROVE  Quiet
    <2>1. /\ req'[q].ip = req[q].ip /\ req'[q].count = req[q].count
          /\ req'[q].readAt = req[q].readAt /\ req'[q].ran = req[q].ran
          /\ req'[q].ranAt = req[q].ranAt
          /\ \/ req[q].pc = "counted" /\ req'[q].pc = "sent" /\ req'[q].setAt = now
             \/ req[q].pc = "sent" /\ req'[q].pc \in {"done", "lost"}
                /\ req'[q].setAt = req[q].setAt
             \/ req[q].pc = "lost" /\ req'[q].pc = "done" /\ req'[q].setAt = req[q].setAt
          /\ now' = now /\ counter' = counter /\ overlap' = overlap
          /\ \A p \in Requests : p # q => req'[p] = req[p]
      BY <1>3, Moved DEF Types
    <2> QED
      BY <1>1, <2>1 DEF Quiet, Working, Clock
  <1>4. ASSUME Tick \/ UNCHANGED vars
        PROVE  Quiet
    <2>1. req' = req /\ counter' = counter /\ overlap' = overlap
          /\ (now' = now \/ now' = now + 1)
      BY <1>4 DEF Tick, vars
    <2> QED
      BY <2>1 DEF Quiet, Working, Clock
  <1> QED
    BY <1>2, <1>3, <1>4 DEF Next, Moves

-----------------------------------------------------------------------------
(***************************************************************************)
(* Who overlaps whom                                                       *)
(***************************************************************************)

\* A request that is let on overlaps whoever of its address is at work.
LEMMA Meets ==
    ASSUME NEW q \in Requests, NEW i \in Ips, NEW p \in Requests, Working(p), req[p].ip = i,
           overlap' = overlap \cup AtWork(q, i)
    PROVE  <<p, q>> \in overlap' /\ <<q, p>> \in overlap'
  <1>1. {<<p, q>>, <<q, p>>} \subseteq AtWork(q, i)
    BY DEF AtWork
  <1> QED
    BY <1>1

\* Nobody gets the counter to itself after it has shared it.
LEMMA StaysAlone ==
    ASSUME Types, [Next]_vars, NEW p \in Requests, Lone(p)'
    PROVE  Lone(p)
  BY Frame DEF Lone

LEMMA TogetherStep == Types /\ Together /\ [Next]_vars => Together'
  <1> SUFFICES ASSUME Types, Together, [Next]_vars,
                      NEW p \in Requests, NEW q \in Requests,
                      p # q, Working(p)', Working(q)', req'[p].ip = req'[q].ip
               PROVE  <<p, q>> \in overlap'
    BY DEF Together
  <1>1. CASE Quiet
    <2>1. Working(p) /\ Working(q) /\ req[p].ip = req[q].ip /\ overlap' = overlap
      BY <1>1 DEF Quiet
    <2> QED
      BY <2>1 DEF Together
  <1>2. ASSUME NEW r \in Requests, NEW i \in Ips, NEW v \in Visits,
               Receive(r, i, v), Working(r)'
        PROVE  <<p, q>> \in overlap'
    <2>1. /\ req'[r].ip = i /\ overlap' = overlap \cup AtWork(r, i)
          /\ \A x \in Requests : x # r => req'[x] = req[x]
      BY <1>2, Received DEF Types, Working
    <2>2. CASE p = r
      <3>1. Working(q) /\ req[q].ip = i
        BY <2>1, <2>2 DEF Working
      <3> QED
        BY <2>1, <2>2, <3>1, Meets
    <2>3. CASE q = r
      <3>1. Working(p) /\ req[p].ip = i
        BY <2>1, <2>3 DEF Working
      <3> QED
        BY <2>1, <2>3, <3>1, Meets
    <2>4. CASE p # r /\ q # r
      BY <2>1, <2>4 DEF Together, Working
    <2> QED
      BY <2>2, <2>3, <2>4
  <1>3. ASSUME NEW r \in Requests, Execute(r)
        PROVE  <<p, q>> \in overlap'
    <2>1. /\ overlap' = overlap /\ req'[r].pc = req[r].pc /\ req'[r].ip = req[r].ip
          /\ \A x \in Requests : x # r => req'[x] = req[x]
      BY <1>3, Executed DEF Types
    <2>2. Working(p) /\ Working(q) /\ req[p].ip = req[q].ip
      BY <2>1 DEF Working
    <2> QED
      BY <2>1, <2>2 DEF Together
  <1> QED
    BY <1>1, <1>2, <1>3, Kinds

\* Whoever runs its SETEX while another is at work does not have the counter
\* to itself.
LEMMA NotAlone ==
    ASSUME Together, NEW p \in Requests, NEW q \in Requests, p # q,
           Working(p), Working(q), req[p].ip = req[q].ip
    PROVE  ~Lone(p)
  BY DEF Together, Lone

LEMMA AfterStep == Types /\ Together /\ After /\ [Next]_vars => After'
  <1> SUFFICES ASSUME Types, Together, After, [Next]_vars,
                      NEW p \in Requests, NEW q \in Requests,
                      p # q, Settled(p)', Working(q)', req'[p].ip = req'[q].ip
               PROVE  req'[p].ranAt <= req'[q].readAt
    BY DEF After
  <1>1. Lone(p)
    BY StaysAlone DEF Settled
  <1>2. CASE Quiet
    <2>1. /\ Working(q) /\ req'[q].readAt = req[q].readAt /\ req'[q].ip = req[q].ip
          /\ req[p].ran /\ req'[p].ranAt = req[p].ranAt /\ req'[p].ip = req[p].ip
      BY <1>2 DEF Quiet, Settled
    <2> QED
      BY <1>1, <2>1 DEF After, Settled
  <1>3. ASSUME NEW r \in Requests, NEW i \in Ips, NEW v \in Visits,
               Receive(r, i, v), Working(r)'
        PROVE  req'[p].ranAt <= req'[q].readAt
    <2>1. /\ req'[r].ip = i /\ req'[r].readAt = now /\ ~req'[r].ran
          /\ overlap' = overlap \cup AtWork(r, i)
          /\ \A x \in Requests : x # r => req'[x] = req[x]
      BY <1>3, Received DEF Types, Working
    <2>2. p # r /\ req'[p] = req[p]
      BY <2>1 DEF Settled
    <2>3. CASE q = r
      <3>1. req[p].ranAt <= now
        BY <2>2 DEF Settled, Types, Phases, Phase
      <3> QED
        BY <2>1, <2>2, <2>3, <3>1
    <2>4. CASE q # r
      BY <1>1, <2>1, <2>2, <2>4 DEF After, Settled, Working
    <2> QED
      BY <2>3, <2>4
  <1>4. ASSUME NEW r \in Requests, Execute(r)
        PROVE  req'[p].ranAt <= req'[q].readAt
    <2>1. /\ req'[r].pc = req[r].pc /\ req'[r].ip = req[r].ip /\ req'[r].readAt = req[r].readAt
          /\ req[r].pc \in {"sent", "lost"}
          /\ \A x \in Requests : x # r => req'[x] = req[x]
      BY <1>4, Executed DEF Types
    <2>2. Working(r) /\ Working(q) /\ req[p].ip = req[q].ip /\ req'[q].readAt = req[q].readAt
      BY <2>1 DEF Working
    <2>3. p # r
      BY <1>1, <2>2, NotAlone
    <2> QED
      BY <1>1, <2>1, <2>2, <2>3 DEF After, Settled
  <1> QED
    BY <1>2, <1>3, <1>4, Kinds

-----------------------------------------------------------------------------
(***************************************************************************)
(* Counts and counters                                                     *)
(***************************************************************************)

\* Nobody admitted in the next moment is admitted in this one of the window.
LEMMA TtlRunsOut ==
    ASSUME GateAssumption, NEW t \in Nat, WindowOf(t + 1) = WindowOf(t), Ttl(t + 1) > 0
    PROVE  Ttl(t) > 0
  <1>1. Window \in Nat \ {0} /\ Second \in Nat \ {0}
    BY DEF GateAssumption
  <1> DEFINE u == t + 1
  <1>2. u \in Nat /\ t <= u /\ u \div Window = t \div Window
    BY DEF WindowOf
  <1> HIDE DEF u
  <1>3. u % Window = (t % Window) + u - t
    BY <1>1, <1>2, SameWindow
  <1>4. (t + 1) % Window = (t % Window) + 1
    BY <1>1, <1>3, Division DEF u
  <1>5. Second <= Window - ((t + 1) % Window)
    BY TtlBounds
  <1>6. t % Window \in Nat
    BY <1>1, Division
  <1>7. Second <= Window - (t % Window)
    BY <1>1, <1>4, <1>5, <1>6
  <1> QED
    BY <1>7, TtlBounds

\* The window of a later moment of somebody's handling is his, if the first
\* and the last of three moments are in one.
LEMMA BetweenWindows ==
    ASSUME GateAssumption, NEW s \in Nat, NEW t \in Nat, NEW u \in Nat,
           s <= t, t <= u, WindowOf(s) = WindowOf(u)
    PROVE  WindowOf(t) = WindowOf(u)
  <1>1. /\ WindowOf(s) <= WindowOf(t) /\ WindowOf(t) <= WindowOf(u)
        /\ WindowOf(s) \in Nat /\ WindowOf(t) \in Nat /\ WindowOf(u) \in Nat
    BY LaterWindow, Division DEF WindowOf, GateAssumption
  <1> QED
    BY <1>1

\* What a request that is let on reads is not below what a settled one wrote.
LEMMA ReadsHigher ==
    ASSUME Types, Lasting, NEW p \in Requests, Settled(p),
           WindowOf(req[p].setAt) = WindowOf(now), Ttl(now) > 0
    PROVE  req[p].count <= Current(req[p].ip)
  <1>1. now \in Nat
    BY Typing DEF Types
  <1>2. now < counter[req[p].ip].expires /\ req[p].count <= counter[req[p].ip].value
    BY <1>1 DEF Lasting
  <1> QED
    BY <1>2 DEF Current

LEMMA ClimbingStep ==
    Types /\ Together /\ Climbing /\ Lasting /\ [Next]_vars => Climbing'
  <1> SUFFICES ASSUME Types, Together, Climbing, Lasting, [Next]_vars,
                      NEW p \in Requests, NEW q \in Requests,
                      p # q, Settled(p)', Working(q)', req'[p].ip = req'[q].ip,
                      WindowOf(req'[p].setAt) = WindowOf(Clock(q)'), Ttl(Clock(q)') > 0
               PROVE  req'[p].count < req'[q].count
    BY DEF Climbing, WindowOf, Ttl
  <1>1. Lone(p)
    BY StaysAlone DEF Settled
  <1>2. GateAssumption /\ now \in Nat /\ req[p].setAt \in Nat /\ req[q].setAt \in Nat
        /\ req[p].count \in Nat /\ req[q].count \in Nat
    BY Typing DEF Types
  <1>3. CASE Quiet
    <2>1. /\ Working(q) /\ req'[q].ip = req[q].ip /\ req'[q].count = req[q].count
          /\ Clock(q)' = Clock(q) \/ (Clock(q) = now /\ Clock(q)' = now + 1)
          /\ req[p].ran /\ req'[p].ip = req[p].ip /\ req'[p].count = req[p].count
          /\ req'[p].setAt = req[p].setAt
      BY <1>3 DEF Quiet, Settled
    <2>2. WindowOf(req[p].setAt) = WindowOf(Clock(q)) /\ Ttl(Clock(q)) > 0
      <3>1. CASE Clock(q)' = Clock(q)
        BY <2>1, <3>1
      <3>2. CASE Clock(q) = now /\ Clock(q)' = now + 1
        <4>1. req[p].setAt <= now
          BY <2>1 DEF Types, Phases, Phase
        <4>2. now + 1 \in Nat /\ now <= now + 1 /\ WindowOf(req[p].setAt) = WindowOf(now + 1)
          BY <1>2, <2>1, <3>2
        <4>3. WindowOf(now + 1) = WindowOf(now) /\ WindowOf(now) = WindowOf(req[p].setAt)
          BY <1>2, <4>1, <4>2, BetweenWindows
        <4> QED
          BY <1>2, <3>2, <4>3, TtlRunsOut
      <3> QED
        BY <2>1, <3>1, <3>2
    <2> QED
      BY <1>1, <2>1, <2>2 DEF Climbing, Settled
  <1>4. ASSUME NEW r \in Requests, NEW i \in Ips, NEW v \in Visits,
               Receive(r, i, v), Working(r)'
        PROVE  req'[p].count < req'[q].count
    <2>1. /\ req'[r].ip = i /\ req'[r].count = Current(i) + 1 /\ ~req'[r].ran
          /\ req'[r].pc = "counted" /\ Current(i) \in 0..Max /\ now' = now
          /\ \A x \in Requests : x # r => req'[x] = req[x]
      BY <1>4, Received DEF Types, Working
    <2>2. p # r /\ req'[p] = req[p]
      BY <2>1 DEF Settled
    <2>3. CASE q = r
      <3>1. Clock(q)' = now
        BY <2>1, <2>3 DEF Clock
      <3>2. Settled(p) /\ WindowOf(req[p].setAt) = WindowOf(now) /\ Ttl(now) > 0
        BY <1>1, <2>2, <3>1 DEF Settled
      <3>3. req[p].count <= Current(i)
        BY <2>1, <2>2, <2>3, <3>2, ReadsHigher
      <3>4. Current(i) \in Nat
        BY <2>1, Typing DEF Types
      <3> QED
        BY <1>2, <2>1, <2>2, <2>3, <3>3, <3>4
    <2>4. CASE q # r
      <3>1. req'[q] = req[q] /\ Working(q) /\ Clock(q)' = Clock(q)
        BY <2>1, <2>4 DEF Working, Clock
      <3> QED
        BY <1>1, <2>2, <3>1 DEF Climbing, Settled
    <2> QED
      BY <2>3, <2>4
  <1>5. ASSUME NEW r \in Requests, Execute(r)
        PROVE  req'[p].count < req'[q].count
    <2>1. /\ req'[r].pc = req[r].pc /\ req'[r].ip = req[r].ip /\ req'[r].count = req[r].count
          /\ req[r].pc \in {"sent", "lost"} /\ req'[r].setAt = req[r].setAt /\ now' = now
          /\ \A x \in Requests : x # r => req'[x] = req[x]
      BY <1>5, Executed DEF Types
    <2>2. /\ Working(r) /\ Working(q) /\ req[p].ip = req[q].ip /\ Clock(q)' = Clock(q)
          /\ req'[q].count = req[q].count
      BY <2>1 DEF Working, Clock
    <2>3. p # r
      BY <1>1, <2>2, NotAlone
    <2> QED
      BY <1>1, <2>1, <2>2, <2>3 DEF Climbing, Settled
  <1> QED
    BY <1>3, <1>4, <1>5, Kinds

\* A request that raises the counter carries more than the settled ones of the
\* window it took its time to live in.
LEMMA RaisesHigher ==
    ASSUME Types, Climbing, NEW q \in Requests, Execute(q),
           NEW p \in Requests, p # q, Settled(p), req[p].ip = req[q].ip,
           WindowOf(req[p].setAt) = WindowOf(req[q].setAt)
    PROVE  req[p].count < req[q].count
  <1>1. req[q].pc \in {"sent", "lost"} /\ Ttl(req[q].setAt) > 0
    BY Executed DEF Types
  <1>2. Working(q) /\ Clock(q) = req[q].setAt
    BY <1>1 DEF Working, Clock
  <1> QED
    BY <1>1, <1>2 DEF Climbing

LEMMA LastingStep ==
    Types /\ After /\ Climbing /\ Lasting /\ [Next]_vars => Lasting'
  <1> SUFFICES ASSUME Types, After, Climbing, Lasting, [Next]_vars,
                      NEW p \in Requests, Settled(p)',
                      WindowOf(req'[p].setAt) = WindowOf(now'), Ttl(now') > 0
               PROVE  /\ req'[p].count <= counter'[req'[p].ip].value
                      /\ \A t \in Nat :
                           (now' <= t /\ WindowOf(t) = WindowOf(now') /\ Ttl(t) > 0) =>
                              t < counter'[req'[p].ip].expires
    BY DEF Lasting, WindowOf, Ttl
  <1>1. Lone(p)
    BY StaysAlone DEF Settled
  <1>2. /\ GateAssumption /\ now \in Nat /\ Second \in Nat
        /\ \A x \in Requests :
             /\ req[x].count \in Nat /\ req[x].readAt \in Nat /\ req[x].setAt \in Nat
             /\ req[x].ranAt \in Nat
    BY Typing DEF Types
  <1>3. ASSUME NEW r \in Requests, Execute(r)
        PROVE  /\ req'[p].count <= counter'[req'[p].ip].value
               /\ \A t \in Nat :
                    (now' <= t /\ WindowOf(t) = WindowOf(now') /\ Ttl(t) > 0) =>
                       t < counter'[req'[p].ip].expires
    <2>1. /\ req'[r].pc = req[r].pc /\ req'[r].ip = req[r].ip /\ req'[r].count = req[r].count
          /\ req[r].pc \in {"sent", "lost"} /\ req'[r].setAt = req[r].setAt /\ now' = now
          /\ Ttl(req[r].setAt) > 0
          /\ \A x \in Requests : x # r => req'[x] = req[x]
          /\ req[r].ip \in Ips
          /\ \A i \in Ips : i # req[r].ip => counter'[i] = counter[i]
      BY <1>3, Executed DEF Types
    <2>2. /\ counter'[req[r].ip].value = req[r].count
          /\ counter'[req[r].ip].expires = now + Ttl(req[r].setAt) * Second
      <3>1. counter'[req[r].ip] = [value |-> req[r].count,
                                   expires |-> now + Ttl(req[r].setAt) * Second]
        BY <1>3, Executed DEF Types
      <3> QED
        BY <3>1
    <2>3. Working(r)
      BY <2>1 DEF Working
    <2>4. CASE p = r \/ req'[p].ip = req[r].ip
      <3>1. req'[p].setAt = req[p].setAt /\ req'[p].count = req[p].count
            /\ req'[p].ip = req[r].ip
        BY <2>1, <2>4
      <3>2. req[p].count <= req[r].count /\ WindowOf(req[r].setAt) = WindowOf(now)
            /\ req[r].setAt <= now
        <4>1. CASE p = r
          BY <1>2, <2>1, <3>1, <4>1 DEF Types, Phases, Phase
        <4>2. CASE p # r
          <5>1. Settled(p) /\ req[p].ip = req[r].ip
            BY <1>1, <2>1, <3>1, <4>2 DEF Settled
          <5>2. req[p].ranAt <= req[r].readAt
            BY <2>3, <4>2, <5>1 DEF After
          <5>3. req[p].setAt <= req[p].ranAt /\ req[r].readAt <= req[r].setAt
                /\ req[r].setAt <= now
            BY <2>1, <5>1 DEF Settled, Types, Phases, Phase
          <5>4. req[p].setAt <= req[r].setAt
            BY <1>2, <5>2, <5>3
          <5>5. WindowOf(req[r].setAt) = WindowOf(now)
            BY <1>2, <2>1, <3>1, <5>3, <5>4, BetweenWindows
          <5>6. req[p].count < req[r].count
            BY <1>3, <2>1, <3>1, <4>2, <5>1, <5>5, RaisesHigher
          <5> QED
            BY <1>2, <5>3, <5>5, <5>6
        <4> QED
          BY <4>1, <4>2
      <3>3. ASSUME NEW t \in Nat, now <= t, WindowOf(t) = WindowOf(now), Ttl(t) > 0
            PROVE  t < now + Ttl(req[r].setAt) * Second
        <4>1. t < req[r].setAt + Ttl(req[r].setAt) * Second
          <5>1. req[r].setAt <= t /\ req[r].setAt \in Nat
            BY <1>2, <3>2, <3>3
          <5> QED
            BY <1>2, <2>1, <3>2, <3>3, <5>1, LifeOfCounter
        <4>2. Ttl(req[r].setAt) * Second \in Nat
          BY <1>2, TtlBounds
        <4> QED
          BY <1>2, <3>2, <4>1, <4>2
      <3> QED
        BY <2>1, <2>2, <3>1, <3>2, <3>3
    <2>5. CASE p # r /\ req'[p].ip # req[r].ip
      <3>1. Settled(p) /\ req'[p] = req[p]
        BY <1>1, <2>1, <2>5 DEF Settled
      <3>2. req[p].ip \in Ips
        BY <3>1 DEF Settled, Types, Phases, Phase
      <3>3. counter'[req[p].ip] = counter[req[p].ip]
        BY <2>1, <2>5, <3>1, <3>2
      <3> QED
        BY <2>1, <3>1, <3>3 DEF Lasting
    <2> QED
      BY <2>4, <2>5
  <1>4. ASSUME counter' = counter, req[p].ran,
               req'[p].ip = req[p].ip, req'[p].count = req[p].count,
               req'[p].setAt = req[p].setAt
        PROVE  /\ req'[p].count <= counter'[req'[p].ip].value
               /\ \A t \in Nat :
                    (now' <= t /\ WindowOf(t) = WindowOf(now') /\ Ttl(t) > 0) =>
                       t < counter'[req'[p].ip].expires
    <2>1. CASE now' = now
      BY <1>1, <1>4, <2>1 DEF Lasting, Settled
    <2>2. CASE now' = now + 1
      <3>1. req[p].setAt <= now
        BY <1>4 DEF Types, Phases, Phase
      <3>2. WindowOf(now) = WindowOf(now + 1) /\ WindowOf(req[p].setAt) = WindowOf(now)
        <4>1. now + 1 \in Nat /\ now <= now + 1 /\ WindowOf(req[p].setAt) = WindowOf(now + 1)
          BY <1>2, <1>4, <2>2
        <4> QED
          BY <1>2, <3>1, <4>1, BetweenWindows
      <3>3. Ttl(now) > 0
        BY <1>2, <2>2, <3>2, TtlRunsOut
      <3>4. /\ req[p].count <= counter[req[p].ip].value
            /\ \A t \in Nat : (now <= t /\ WindowOf(t) = WindowOf(now) /\ Ttl(t) > 0) =>
                                t < counter[req[p].ip].expires
        BY <1>1, <1>4, <3>2, <3>3 DEF Lasting, Settled
      <3>5. \A t \in Nat : now' <= t => now <= t
        BY <1>2, <2>2
      <3> QED
        BY <1>4, <2>2, <3>2, <3>4, <3>5
    <2> QED
      BY <2>1, <2>2, Frame
  <1>5. CASE Quiet
    BY <1>4, <1>5 DEF Quiet, Settled
  <1>6. ASSUME NEW r \in Requests, NEW i \in Ips, NEW v \in Visits, Receive(r, i, v)
        PROVE  /\ req'[p].count <= counter'[req'[p].ip].value
               /\ \A t \in Nat :
                    (now' <= t /\ WindowOf(t) = WindowOf(now') /\ Ttl(t) > 0) =>
                       t < counter'[req'[p].ip].expires
    <2>1. ~req'[r].ran /\ counter' = counter /\ \A x \in Requests : x # r => req'[x] = req[x]
      BY <1>6, Received DEF Types
    <2>2. p # r /\ req'[p] = req[p]
      BY <2>1 DEF Settled
    <2> QED
      BY <1>4, <2>1, <2>2 DEF Settled
  <1> QED
    BY <1>3, <1>5, <1>6, Kinds

LEMMA DistinctStep ==
    Types /\ Climbing /\ Distinct /\ [Next]_vars => Distinct'
  <1> SUFFICES ASSUME Types, Climbing, Distinct, [Next]_vars,
                      NEW p \in Requests, NEW q \in Requests, p # q,
                      Settled(p)', Settled(q)', req'[p].ip = req'[q].ip,
                      WindowOf(req'[p].setAt) = WindowOf(req'[q].setAt)
               PROVE  req'[p].count # req'[q].count
    BY DEF Distinct, WindowOf
  <1>1. Lone(p) /\ Lone(q)
    BY StaysAlone DEF Settled
  <1>2. req[p].count \in Nat /\ req[q].count \in Nat
    BY Typing DEF Types
  <1>3. CASE req[p].ran /\ req[q].ran
    <2>1. /\ req'[p].ip = req[p].ip /\ req'[p].count = req[p].count
          /\ req'[p].setAt = req[p].setAt
          /\ req'[q].ip = req[q].ip /\ req'[q].count = req[q].count
          /\ req'[q].setAt = req[q].setAt
      BY <1>3, Frame
    <2> QED
      BY <1>1, <1>3, <2>1 DEF Distinct, Settled
  <1>4. CASE \E r \in Requests : Execute(r)
    <2>1. PICK r \in Requests : Execute(r)
      BY <1>4
    <2>2. /\ req'[r].ip = req[r].ip /\ req'[r].count = req[r].count
          /\ req'[r].setAt = req[r].setAt
          /\ \A x \in Requests : x # r => req'[x] = req[x]
      BY <2>1, Executed DEF Types
    <2>3. CASE p = r
      <3>1. Settled(q) /\ req'[q] = req[q]
        BY <1>1, <2>2, <2>3 DEF Settled
      <3>2. req[q].count < req[p].count
        BY <2>1, <2>2, <2>3, <3>1, RaisesHigher
      <3> QED
        BY <1>2, <2>2, <2>3, <3>1, <3>2
    <2>4. CASE q = r
      <3>1. Settled(p) /\ req'[p] = req[p]
        BY <1>1, <2>2, <2>4 DEF Settled
      <3>2. req[p].count < req[q].count
        BY <2>1, <2>2, <2>4, <3>1, RaisesHigher
      <3> QED
        BY <1>2, <2>2, <2>4, <3>1, <3>2
    <2>5. CASE p # r /\ q # r
      BY <1>3, <2>2, <2>5 DEF Settled
    <2> QED
      BY <2>3, <2>4, <2>5
  <1>5. CASE Quiet
    BY <1>3, <1>5 DEF Quiet, Settled
  <1>6. ASSUME NEW r \in Requests, NEW i \in Ips, NEW v \in Visits, Receive(r, i, v)
        PROVE  req'[p].count # req'[q].count
    <2>1. ~req'[r].ran /\ \A x \in Requests : x # r => req'[x] = req[x]
      BY <1>6, Received DEF Types
    <2> QED
      BY <1>3, <2>1 DEF Settled
  <1> QED
    BY <1>4, <1>5, <1>6, Kinds

-----------------------------------------------------------------------------
(***************************************************************************)
(* What stands behind a count                                              *)
(***************************************************************************)

LEMMA CountedIsFinite ==
    ASSUME Types, NEW i, NEW w
    PROVE  IsFiniteSet(Counted(i, w)) /\ Cardinality(Counted(i, w)) \in Nat
  <1>1. Counted(i, w) \in SUBSET Requests /\ IsFiniteSet(Requests)
    BY DEF Counted, Types, GateAssumption
  <1>2. IsFiniteSet(Counted(i, w))
    BY ONLY <1>1, FS_Subset
  <1> QED
    BY <1>2, FS_CardinalityType

LEMMA SourceStep == Types /\ Source /\ [Next]_vars => Source'
  <1> SUFFICES ASSUME Types, Source, [Next]_vars, NEW i \in Ips, now' < counter'[i].expires
               PROVE  \E p \in Requests :
                         /\ req'[p].ran /\ req'[p].ip = i
                         /\ req'[p].count = counter'[i].value
                         /\ counter'[i].expires <= req'[p].ranAt + Ttl(req'[p].setAt) * Second
    BY DEF Source, Ttl
  <1>1. /\ GateAssumption /\ now \in Nat /\ Second \in Nat
        /\ \A x \in Requests : req[x].setAt \in Nat /\ req[x].ranAt \in Nat
        /\ counter[i].expires \in Nat
    BY Typing DEF Types
  <1>2. \A x \in Requests : req'[x].ranAt \in Nat
    <2>1. GateAssumption /\ TypeOK'
      BY TypesStep DEF Types
    <2>2. req' \in [Requests -> Rows]
      BY <2>1 DEF TypeOK, Rows
    <2> QED
      BY <1>1, <2>2 DEF Rows, GateAssumption
  <1>3. ASSUME counter'[i] = counter[i]
        PROVE  \E p \in Requests :
                  /\ req'[p].ran /\ req'[p].ip = i
                  /\ req'[p].count = counter'[i].value
                  /\ counter'[i].expires <= req'[p].ranAt + Ttl(req'[p].setAt) * Second
    <2>1. now < counter[i].expires
      BY <1>1, <1>3, Frame
    <2>2. PICK p \in Requests :
             /\ req[p].ran /\ req[p].ip = i
             /\ req[p].count = counter[i].value
             /\ counter[i].expires <= req[p].ranAt + Ttl(req[p].setAt) * Second
      BY <2>1 DEF Source
    <2>3. /\ req'[p].ran /\ req'[p].ip = i /\ req'[p].count = req[p].count
          /\ req'[p].setAt = req[p].setAt /\ req[p].ranAt <= req'[p].ranAt
      BY <2>2, Frame
    <2>4. Ttl(req[p].setAt) * Second \in Nat
      BY <1>1, TtlBounds
    <2>5. counter[i].expires <= req'[p].ranAt + Ttl(req[p].setAt) * Second
      BY <1>1, <1>2, <2>2, <2>3, <2>4
    <2> QED
      BY <1>3, <2>2, <2>3, <2>5
  <1>4. ASSUME NEW r \in Requests, Execute(r)
        PROVE  \E p \in Requests :
                  /\ req'[p].ran /\ req'[p].ip = i
                  /\ req'[p].count = counter'[i].value
                  /\ counter'[i].expires <= req'[p].ranAt + Ttl(req'[p].setAt) * Second
    <2>1. /\ req'[r].ran /\ req'[r].ip = req[r].ip /\ req'[r].count = req[r].count
          /\ req'[r].setAt = req[r].setAt /\ req'[r].ranAt = now
          /\ counter'[req[r].ip] = [value |-> req[r].count,
                                    expires |-> now + Ttl(req[r].setAt) * Second]
          /\ i # req[r].ip => counter'[i] = counter[i]
      BY <1>4, Executed DEF Types
    <2>2. CASE i = req[r].ip
      <3>1. counter'[i].value = req[r].count
            /\ counter'[i].expires = now + Ttl(req[r].setAt) * Second
        BY <2>1, <2>2
      <3>2. now + Ttl(req[r].setAt) * Second \in Nat
        BY <1>1, TtlBounds
      <3>3. counter'[i].expires <= now + Ttl(req[r].setAt) * Second
        BY <3>1, <3>2
      <3> QED
        BY <2>1, <2>2, <3>1, <3>3
    <2> QED
      BY <1>3, <2>1, <2>2
  <1>5. CASE Quiet
    BY <1>3, <1>5 DEF Quiet
  <1>6. CASE \E q \in Requests, j \in Ips, v \in Visits : Receive(q, j, v)
    BY <1>3, <1>6, Received DEF Types
  <1> QED
    BY <1>4, <1>5, <1>6, Kinds

\* What was carried into a window has been.
LEMMA CarriedStays ==
    ASSUME Types, [Next]_vars, NEW i, NEW w \in Nat, CarriedOver(i, w)
    PROVE  CarriedOver(i, w)'
  <1>1. /\ GateAssumption /\ Second \in Nat /\ Window \in Nat
        /\ \A x \in Requests : req[x].setAt \in Nat /\ req[x].ranAt \in Nat
    BY Typing DEF Types
  <1>2. \A x \in Requests : req'[x].ranAt \in Nat
    <2>1. GateAssumption /\ TypeOK'
      BY TypesStep DEF Types
    <2>2. req' \in [Requests -> Rows]
      BY <2>1 DEF TypeOK, Rows
    <2> QED
      BY <1>1, <2>2 DEF Rows, GateAssumption
  <1>3. PICK p \in Requests :
           /\ req[p].ran /\ req[p].ip = i
           /\ WindowOf(req[p].readAt) < w
           /\ req[p].ranAt + Ttl(req[p].setAt) * Second > w * Window
           /\ WindowOf(req[p].setAt) > WindowOf(req[p].readAt) \/ req[p].ranAt > req[p].setAt
    BY DEF CarriedOver
  <1>4. /\ req'[p].ran /\ req'[p].ip = i /\ req'[p].readAt = req[p].readAt
        /\ req'[p].setAt = req[p].setAt /\ req[p].ranAt <= req'[p].ranAt
    BY <1>3, Frame
  <1>5. Ttl(req[p].setAt) * Second \in Nat /\ w * Window \in Nat
    BY <1>1, TtlBounds
  <1>6. req'[p].ranAt + Ttl(req[p].setAt) * Second > w * Window
    BY <1>1, <1>2, <1>3, <1>4, <1>5
  <1>7. WindowOf(req[p].setAt) > WindowOf(req[p].readAt) \/ req'[p].ranAt > req'[p].setAt
    BY <1>1, <1>2, <1>3, <1>4
  <1> QED
    BY <1>3, <1>4, <1>6, <1>7 DEF CarriedOver, WindowOf, Ttl

\* What stood behind a count still does.
LEMMA EnoughStays ==
    ASSUME Types, [Next]_vars, NEW i, NEW w \in Nat, NEW n \in Int, Enough(i, w, n)
    PROVE  Enough(i, w, n)'
  <1>1. CASE CarriedOver(i, w)
    BY <1>1, CarriedStays DEF Enough
  <1>2. CASE Cardinality(Counted(i, w)) >= n
    <2>1. Counted(i, w) \subseteq Counted(i, w)'
      BY Frame DEF Counted, WindowOf
    <2>2. Types'
      BY TypesStep DEF Types, GateAssumption
    <2>3. Counted(i, w)' \in SUBSET Requests /\ IsFiniteSet(Requests)
      BY DEF Counted, Types, GateAssumption
    <2>4. IsFiniteSet(Counted(i, w)')
      BY ONLY <2>3, FS_Subset
    <2>5. /\ Cardinality(Counted(i, w)) <= Cardinality(Counted(i, w)')
          /\ Cardinality(Counted(i, w)') \in Nat
      BY ONLY <2>1, <2>4, FS_Subset, FS_CardinalityType
    <2>6. Cardinality(Counted(i, w)) \in Nat
      BY CountedIsFinite
    <2> QED
      BY <1>2, <2>5, <2>6 DEF Enough
  <1> QED
    BY <1>1, <1>2 DEF Enough

\* A counter that has not expired is backed by requests of this window, or was
\* carried into it.
LEMMA CounterBacked ==
    ASSUME Types, Source, Backed, NEW i \in Ips
    PROVE  Enough(i, WindowOf(now), Current(i))
  <1>1. /\ GateAssumption /\ now \in Nat /\ Second \in Nat /\ Window \in Nat \ {0}
        /\ \A x \in Requests :
             req[x].setAt \in Nat /\ req[x].ranAt \in Nat /\ req[x].readAt \in Nat
        /\ counter[i].expires \in Nat
    BY Typing DEF Types
  <1>2. CASE ~(now < counter[i].expires)
    <2>1. Current(i) = 0 /\ Cardinality(Counted(i, WindowOf(now))) \in Nat
      BY <1>2, CountedIsFinite DEF Current
    <2> QED
      BY <2>1 DEF Enough
  <1>3. CASE now < counter[i].expires
    <2>1. PICK p \in Requests :
             /\ req[p].ran /\ req[p].ip = i
             /\ req[p].count = counter[i].value
             /\ counter[i].expires <= req[p].ranAt + Ttl(req[p].setAt) * Second
      BY <1>3 DEF Source
    <2>2. Current(i) = req[p].count
      BY <1>3, <2>1 DEF Current
    <2>3. /\ req[p].readAt <= req[p].setAt /\ req[p].setAt <= req[p].ranAt
          /\ req[p].setAt <= now /\ req[p].readAt <= now
      BY <2>1 DEF Types, Phases, Phase
    <2> DEFINE life == Ttl(req[p].setAt) * Second
    <2>4. life \in Nat
      BY <1>1, TtlBounds
    <2>5. req[p].setAt \in Nat /\ (now < req[p].setAt + life =>
                                     WindowOf(now) = WindowOf(req[p].setAt))
      BY <1>1, <2>3, LifeOfCounter
    <2>6. now < req[p].ranAt + life
      <3>1. counter[i].expires <= req[p].ranAt + life
        BY <2>1
      <3> HIDE DEF life
      <3> QED
        BY <1>1, <1>3, <2>4, <3>1
    <2>7. CASE WindowOf(req[p].readAt) = WindowOf(now)
      <3>1. Enough(i, WindowOf(now), req[p].count)
        BY <2>1, <2>7 DEF Backed
      <3> QED
        BY <2>2, <3>1
    <2>8. CASE WindowOf(req[p].readAt) # WindowOf(now)
      <3>1. /\ WindowOf(req[p].readAt) <= WindowOf(now)
            /\ WindowOf(req[p].readAt) <= WindowOf(req[p].setAt)
            /\ WindowOf(req[p].readAt) \in Nat /\ WindowOf(now) \in Nat
            /\ WindowOf(req[p].setAt) \in Nat
        BY <1>1, <2>3, LaterWindow, Division DEF WindowOf
      <3>2. WindowOf(now) * Window <= now /\ WindowOf(now) * Window \in Nat
        <4>1. Window * (now \div Window) <= now /\ now \div Window \in Nat
          BY <1>1, Division
        <4> DEFINE d == now \div Window
        <4>2. d \in Nat /\ Window * d <= now
          BY <4>1
        <4> HIDE DEF d
        <4>3. d * Window <= now /\ d * Window \in Nat
          BY <1>1, <4>2
        <4> QED
          BY <4>3 DEF d, WindowOf
      <3>3. WindowOf(req[p].setAt) > WindowOf(req[p].readAt) \/ req[p].ranAt > req[p].setAt
        <4>1. SUFFICES ASSUME ~(WindowOf(req[p].setAt) > WindowOf(req[p].readAt)),
                              ~(req[p].ranAt > req[p].setAt)
                       PROVE  FALSE
          OBVIOUS
        <4>2. WindowOf(req[p].setAt) = WindowOf(req[p].readAt) /\ req[p].ranAt = req[p].setAt
          BY <1>1, <2>3, <3>1, <4>1
        <4>3. WindowOf(now) = WindowOf(req[p].setAt)
          BY <2>5, <2>6, <4>2
        <4> QED
          BY <2>8, <4>2, <4>3
      <3>4. req[p].ranAt + life > WindowOf(now) * Window
        <4> HIDE DEF life
        <4> QED
          BY <1>1, <2>4, <2>6, <3>2
      <3>5. WindowOf(req[p].readAt) < WindowOf(now)
        BY <2>8, <3>1
      <3> QED
        BY <2>1, <3>3, <3>4, <3>5 DEF CarriedOver, Enough
    <2> QED
      BY <2>7, <2>8
  <1> QED
    BY <1>2, <1>3

LEMMA BackedStep ==
    Types /\ Source /\ Backed /\ [Next]_vars => Backed'
  <1> SUFFICES ASSUME Types, Source, Backed, [Next]_vars
               PROVE  Backed'
    OBVIOUS
  <1>1. /\ GateAssumption /\ now \in Nat /\ Max \in Nat /\ Window \in Nat \ {0}
        /\ \A x \in Requests : req[x].readAt \in Nat /\ req[x].count \in Nat
    BY Typing DEF Types
  <1>2. /\ WindowOf(now) \in Nat
        /\ \A x \in Requests : WindowOf(req[x].readAt) \in Nat
    BY <1>1, Division DEF WindowOf
  <1>3. ASSUME NEW q \in Requests, NEW i, NEW w, NEW n,
               i = req'[q].ip, w = WindowOf(req'[q].readAt), n = req'[q].count
        PROVE  /\ Working(q)' \/ req'[q].answer = "429" => Enough(i, w, n - 1)'
               /\ req'[q].ran => Enough(i, w, n)'
    <2>1. ASSUME req'[q].ip = req[q].ip, req'[q].readAt = req[q].readAt,
                 req'[q].count = req[q].count
          PROVE  /\ w \in Nat /\ n \in Nat
                 /\ Working(q) \/ req[q].answer = "429" => Enough(i, w, n - 1) /\ Enough(i, w, n - 1)'
                 /\ req[q].ran => Enough(i, w, n)'
      <3>1. w \in Nat /\ n \in Nat /\ n \in Int /\ n - 1 \in Int
        BY <1>1, <1>2, <1>3, <2>1
      <3>2. /\ Working(q) \/ req[q].answer = "429" => Enough(i, w, n - 1)
            /\ req[q].ran => Enough(i, w, n)
        BY <1>3, <2>1 DEF Backed
      <3> QED
        BY <3>1, <3>2, EnoughStays
    <2>2. CASE req'[q] = req[q]
      BY <2>1, <2>2 DEF Working
    <2>3. ASSUME NEW j \in Ips, NEW v \in Visits, Receive(q, j, v)
          PROVE  Enough(i, w, n - 1)' /\ ~req'[q].ran
      <3>1. /\ req'[q].ip = j /\ req'[q].count = Current(j) + 1 /\ req'[q].readAt = now
            /\ Current(j) \in 0..Max /\ ~req'[q].ran
        BY <2>3, Received DEF Types
      <3>2. i = j /\ w = WindowOf(now) /\ w \in Nat /\ n - 1 = Current(j) /\ n - 1 \in Int
        BY <1>1, <1>2, <1>3, <3>1
      <3>3. Enough(i, w, n - 1)
        BY <3>2, CounterBacked
      <3> QED
        BY <3>1, <3>2, <3>3, EnoughStays
    <2>4. ASSUME NEW j \in Ips, NEW v \in Visits, ReadFails(q, j, v)
          PROVE  ~Working(q)' /\ req'[q].answer # "429" /\ ~req'[q].ran
      BY <2>4, Unread DEF Types, Working
    <2>5. CASE Moves(q)
      <3>1. /\ req'[q].ip = req[q].ip /\ req'[q].count = req[q].count
            /\ req'[q].readAt = req[q].readAt /\ req'[q].ran = req[q].ran
            /\ Working(q)' => Working(q)
            /\ req'[q].answer = "429" => Working(q) \/ req[q].answer = "429"
        BY <2>5, Moved DEF Types, Working
      <3> QED
        BY <2>1, <3>1
    <2>6. ASSUME Execute(q)
          PROVE  Enough(i, w, n - 1)' /\ Enough(i, w, n)'
      <3>1. /\ req'[q].ip = req[q].ip /\ req'[q].count = req[q].count
            /\ req'[q].readAt = req[q].readAt /\ req'[q].ran
            /\ req[q].pc \in {"sent", "lost"}
            /\ \A x \in Requests : x # q => req'[x] = req[x]
        BY <2>6, Executed DEF Types
      <3>2. Enough(i, w, n - 1) /\ Enough(i, w, n - 1)' /\ w \in Nat /\ n \in Nat
        BY <2>1, <3>1 DEF Working
      <3>3. CASE req[q].ran
        BY <2>1, <3>1, <3>2, <3>3
      <3>4. CASE ~req[q].ran
        <4>1. Counted(i, w)' = Counted(i, w) \cup {q} /\ q \notin Counted(i, w)
          BY <1>3, <3>1, <3>4 DEF Counted, WindowOf
        <4>2. IsFiniteSet(Counted(i, w)) /\ Cardinality(Counted(i, w)) \in Nat
          BY CountedIsFinite
        <4>3. Cardinality(Counted(i, w) \cup {q}) = Cardinality(Counted(i, w)) + 1
          BY <4>1, <4>2, FS_AddElement
        <4>4. CASE Cardinality(Counted(i, w)) >= n - 1
          <5>1. Cardinality(Counted(i, w)') >= n
            BY <3>2, <4>1, <4>2, <4>3, <4>4
          <5> QED
            BY <3>2, <5>1 DEF Enough
        <4>5. CASE CarriedOver(i, w)
          <5>1. CarriedOver(i, w)'
            BY <3>2, <4>5, CarriedStays
          <5> QED
            BY <3>2, <5>1 DEF Enough
        <4> QED
          BY <3>2, <4>4, <4>5 DEF Enough
      <3> QED
        BY <3>3, <3>4
    <2>7. CASE req'[q] # req[q]
      <3>1. \/ \E j \in Ips, v \in Visits : Receive(q, j, v) \/ ReadFails(q, j, v)
            \/ Moves(q) \/ Execute(q)
        <4>1. ASSUME NEW r \in Requests, NEW j \in Ips, NEW v \in Visits,
                     Receive(r, j, v) \/ ReadFails(r, j, v)
              PROVE  r = q
          BY <2>7, <4>1, Received, Unread DEF Types
        <4>2. ASSUME NEW r \in Requests, Moves(r) \/ Execute(r)
              PROVE  r = q
          BY <2>7, <4>2, Moved, Executed DEF Types
        <4>3. ~(Tick \/ UNCHANGED vars)
          BY <2>7 DEF Tick, vars
        <4> QED
          BY <4>1, <4>2, <4>3 DEF Next, Moves
      <3> QED
        BY <2>3, <2>4, <2>5, <2>6, <3>1
    <2> QED
      BY <2>2, <2>7
  <1>4. \A q \in Requests :
           /\ Working(q)' \/ req'[q].answer = "429" =>
                 Enough(req[q].ip, WindowOf(req[q].readAt), req[q].count - 1)'
           /\ req'[q].ran => Enough(req[q].ip, WindowOf(req[q].readAt), req[q].count)'
    BY <1>3 DEF Enough, WindowOf
  <1> QED
    BY <1>4 DEF Backed

-----------------------------------------------------------------------------
(***************************************************************************)
(* The invariant and what follows from it                                  *)
(***************************************************************************)

LEMMA InitEstablishes == GateAssumption /\ Init => IInv
  <1> SUFFICES ASSUME GateAssumption, Init
               PROVE  IInv
    OBVIOUS
  <1>1. TypeOK /\ Phases
    BY TypesInit
  <1>2. \A q \in Requests : ~Working(q) /\ ~req[q].ran /\ req[q].answer = "none"
    BY Blank DEF Init, Working
  <1>3. \A q \in Requests : ~Settled(q)
    BY <1>2 DEF Settled
  <1>4. Together /\ After /\ Climbing /\ Lasting /\ Distinct /\ Backed
    BY <1>2, <1>3 DEF Together, After, Climbing, Lasting, Distinct, Backed
  <1>5. Source
    BY DEF Init, Source
  <1> QED
    BY <1>1, <1>4, <1>5 DEF IInv

LEMMA NextPreserves == GateAssumption /\ IInv /\ [Next]_vars => IInv'
  BY TypesStep, TogetherStep, AfterStep, ClimbingStep, LastingStep, DistinctStep, SourceStep,
     BackedStep DEF IInv, Types

LEMMA Invariance == Spec => []IInv
  <1>1. GateAssumption
    BY GateAssumption
  <1>2. Init => IInv
    BY <1>1, InitEstablishes
  <1>3. IInv /\ [Next]_vars => IInv'
    BY <1>1, NextPreserves
  <1> QED
    BY <1>2, <1>3, PTL DEF Spec

\* As many requests as have different counts between 1 and Max are Max at most.
LEMMA CountsBound ==
    ASSUME Types, NEW S \in SUBSET Requests,
           \A p \in S : req[p].count \in 1..Max,
           \A p, q \in S : p # q => req[p].count # req[q].count
    PROVE  Cardinality(S) <= Max
  <1> DEFINE f == [p \in S |-> req[p].count]
  <1>1. Max \in Nat
    BY DEF Types, GateAssumption
  <1>2. IsFiniteSet(1..Max) /\ Cardinality(1..Max) = Max
    BY <1>1, FS_Interval
  <1>3. f \in Injection(S, 1..Max)
    BY DEF Injection, IsInjective
  <1> HIDE DEF f
  <1>4. Cardinality(S) <= Cardinality(1..Max)
    BY ONLY <1>2, <1>3, FS_Injection
  <1> QED
    BY <1>2, <1>4

\* For any number of addresses and requests, any window and any maximum: of the
\* requests that overlap no other an address gets no more than Max in a window,
\* however late their SETEX runs, however often it is repeated, and whatever
\* overlapping ones are admitted besides.
THEOREM LimitAlwaysHolds == Spec => []LimitHolds
  <1>1. GateAssumption
    BY GateAssumption
  <1>2. ASSUME IInv
        PROVE  LimitHolds
    <2> SUFFICES ASSUME NEW i \in Ips, NEW w \in Windows
                 PROVE  Cardinality({p \in Admitted(i, w) : Lone(p)}) <= Max
      BY DEF LimitHolds
    <2> DEFINE S == {p \in Admitted(i, w) : Lone(p)}
    <2>1. S \in SUBSET Requests /\ Types
      BY <1>1, <1>2 DEF Admitted, IInv, Types
    <2>2. ASSUME NEW p \in S
          PROVE  /\ p \in Requests /\ Settled(p) /\ req[p].count \in 1..Max
                 /\ req[p].ip = i /\ WindowOf(req[p].setAt) = w
      <3>1. /\ p \in Requests /\ Lone(p) /\ req[p].answer = "next"
            /\ req[p].ip = i /\ WindowOf(req[p].setAt) = w
        BY DEF Admitted
      <3>2. req[p].ran /\ req[p].count \in 1..Max
        BY <1>2, <3>1 DEF IInv, Phases, Phase
      <3> QED
        BY <3>1, <3>2 DEF Settled
    <2>3. ASSUME NEW p \in S, NEW q \in S, p # q
          PROVE  req[p].count # req[q].count
      BY <1>2, <2>2, <2>3 DEF IInv, Distinct
    <2> HIDE DEF S
    <2>4. Cardinality(S) <= Max
      BY <2>1, <2>2, <2>3, CountsBound
    <2> QED
      BY <2>4 DEF S
  <1> QED
    BY <1>2, Invariance, PTL

\* Whoever the limiter turns away finds that Max requests of his address have
\* read and raised the counter in this window, or that a late write carried a
\* count of an earlier one into it; and the only moment whose time to live
\* Valkey refuses is the last second of a window.
THEOREM TurnedAwayAlwaysForCause == Spec => []TurnedAwayForCause
  <1>1. GateAssumption
    BY GateAssumption
  <1>2. ASSUME IInv
        PROVE  TurnedAwayForCause
    <2> SUFFICES ASSUME NEW q \in Requests, NEW i, NEW w,
                        i = req[q].ip, w = WindowOf(req[q].readAt)
                 PROVE  /\ req[q].answer = "429" =>
                              Cardinality(Counted(i, w)) >= Max \/ CarriedOver(i, w)
                        /\ req[q].answer = "500" => req[q].setAt % Window > Window - Second
      BY DEF TurnedAwayForCause
    <2>1. req[q].answer = "500" => req[q].setAt % Window > Window - Second
      BY <1>2 DEF IInv, Phases, Phase
    <2>2. ASSUME req[q].answer = "429"
          PROVE  Enough(i, w, Max)
      <3>1. req[q].count = Max + 1
        BY <1>2, <2>2 DEF IInv, Phases, Phase
      <3>2. Enough(i, w, req[q].count - 1)
        BY <1>2, <2>2 DEF IInv, Backed
      <3>3. req[q].count - 1 = Max
        BY <1>1, <3>1 DEF GateAssumption
      <3> QED
        BY <3>2, <3>3
    <2> QED
      BY <2>1, <2>2 DEF Enough
  <1> QED
    BY <1>2, Invariance, PTL
=============================================================================
