-------------------------- MODULE ModerationProofs --------------------------
(***************************************************************************)
(* Theorems about Moderation for any craftsmen, sessions and threshold and *)
(* any finite set of requests.                                             *)
(***************************************************************************)
EXTENDS Moderation, FiniteSetTheorems, TLAPS

(***************************************************************************)
(* The inductive invariant                                                 *)
(***************************************************************************)

\* A write in the log is about its request's craftsman, and the request has
\* left the await before that write.
LogInv ==
    \A w \in log :
        /\ w.craftsman = req[w.by].craftsman
        /\ pc[w.by] \notin {"idle", "insert", "freeze"}

AfterWrite == {"flag", "append", "user", "cascade", "webhook"}

\* A suspended handler is about a craftsman, belongs to the kinds that have
\* such an await, and has committed its status write if that comes earlier.
PcOK(r) ==
    /\ pc[r] = "idle" => req[r].kind = "none"
    /\ pc[r] \in {"insert", "freeze"} \cup AfterWrite => req[r].craftsman \in Craftsmen
    /\ pc[r] = "flag" => req[r].kind \in {"approve", "reject"}
    /\ pc[r] = "freeze" => req[r].kind = "freeze"
    /\ pc[r] = "insert" => req[r].kind \in {"onboard", "create"}
    /\ pc[r] = "append" => req[r].kind \notin {"none", "choose", "create"}
    /\ pc[r] \in {"cascade", "webhook"} => Bans(r)
    /\ pc[r] \in AfterWrite /\ req[r].kind = "freeze" =>
           r \in Freezes(req[r].craftsman)

PcInv == \A r \in Requests : PcOK(r)

\* No counter, and no count a freeze has computed, exceeds the freezes that
\* were committed, the one about to be committed included.
CountInv ==
    /\ \A c \in Craftsmen : strikes[c] <= Cardinality(Freezes(c))
    /\ \A r \in Requests :
           pc[r] = "freeze" => req[r].count <= Cardinality(Freezes(req[r].craftsman)) + 1
    /\ \A c \in Craftsmen : \A r \in Freezes(c) : req[r].count <= Cardinality(Freezes(c))

\* A handler past the INSERT of a ban's event has inserted it.
BannedEvent(c) == \E e \in outbox : e.craftsman = c /\ e.name = "banned"
CascadeInv ==
    /\ \A r \in Requests : pc[r] \in {"cascade", "webhook"} => BannedEvent(req[r].craftsman)
    /\ \A r \in Requests : pc[r] = "webhook" => deleted[req[r].craftsman]
    /\ \A r \in webhooks : pc[r] = "ok"

\* Whoever is about to set the flag has seen, or made, an acceptance.
EarnInv ==
    /\ \A c \in Craftsmen : Accepted(c) => WasAccepted(c)
    /\ \A r \in Requests : pc[r] = "flag" /\ req[r].kind = "approve" =>
           WasAccepted(req[r].craftsman)
    /\ \A s \in Sessions : sync[s] = "write" /\ seen[s].accepted => WasAccepted(Holder[s])

IInv ==
    /\ TypeOK /\ LogInv /\ PcInv /\ CountInv /\ CascadeInv /\ EarnInv
    /\ StrikeOutBans /\ BanIsDeserved /\ BanIsAnnounced /\ FlagWasEarned

-----------------------------------------------------------------------------
(***************************************************************************)
(* Facts about the history                                                 *)
(***************************************************************************)

\* A step of request r changes only r's place among the freezes.
LEMMA OthersKeepFreezes ==
    ASSUME NEW r \in Requests,
           \A q \in Requests \ {r} : req'[q] = req[q],
           log \subseteq log',
           \A w \in log' : w \in log \/ w.by = r
    PROVE  \A c \in Craftsmen, q \in Requests \ {r} : q \in Freezes(c)' <=> q \in Freezes(c)
BY DEF Freezes

\* The number of freezes is a number.
LEMMA FreezesAreFinite ==
    ASSUME ModerationAssumption
    PROVE  \A c : IsFiniteSet(Freezes(c)) /\ Cardinality(Freezes(c)) \in Nat
<1>1. \A c : Freezes(c) \subseteq Requests
    BY DEF Freezes
<1>2. QED
    BY <1>1, FS_Subset, FS_CardinalityType DEF ModerationAssumption

-----------------------------------------------------------------------------
(***************************************************************************)
(* Every action preserves the invariant                                    *)
(***************************************************************************)

\* What a step of a running handler keeps when it writes no status.
LEMMA QuietStep ==
    ASSUME ModerationAssumption, IInv, NEW r \in Requests, NEW label,
           pc[r] \in InFlight, label # "idle",
           label \notin {"insert", "freeze", "flag"},
           label = "append" => pc[r] = "flag",
           label \in AfterWrite => pc[r] \in AfterWrite,
           label \in {"cascade", "webhook"} => Bans(r),
           pc' = [pc EXCEPT ![r] = label],
           UNCHANGED <<status, strikes, mark, req, log>>
    PROVE  /\ LogInv' /\ PcInv' /\ CountInv'
           /\ \A c : /\ Freezes(c)' = Freezes(c)
                     /\ Accepted(c)' = Accepted(c)
                     /\ WasAccepted(c)' = WasAccepted(c)
           /\ \A q \in Requests : q # r => pc'[q] = pc[q]
           /\ pc'[r] = label
           /\ \A q \in Requests : Bans(q)' = Bans(q)
<1>1. /\ \A q \in Requests : q # r => pc'[q] = pc[q]
      /\ pc'[r] = label
    BY DEF IInv, TypeOK
<1>2. \A c : /\ Freezes(c)' = Freezes(c)
            /\ Accepted(c)' = Accepted(c)
            /\ WasAccepted(c)' = WasAccepted(c)
    BY DEF Freezes, Accepted, WasAccepted
<1>3. \A q \in Requests : Bans(q)' = Bans(q)
    BY DEF Bans
<1>4. LogInv'
    BY <1>1 DEF IInv, TypeOK, LogInv
<1>5. PcInv'
  <2> SUFFICES ASSUME NEW q \in Requests
               PROVE  PcOK(q)'
    BY DEF PcInv
  <2>1. PcOK(q)
    BY DEF IInv, PcInv
  <2>2. pc'[q] \in AfterWrite /\ req[q].kind = "freeze" => q \in Freezes(req[q].craftsman)
    BY <1>1, <2>1 DEF PcOK
  <2>3. Freezes(req[q].craftsman)' = Freezes(req[q].craftsman)
    BY DEF Freezes
  <2>4. CASE q # r
    BY <1>1, <1>3, <2>1, <2>2, <2>3, <2>4 DEF PcOK
  <2>5. CASE q = r
    BY <1>1, <1>3, <2>1, <2>2, <2>3, <2>5 DEF PcOK, AfterWrite
  <2>6. QED
    BY <2>4, <2>5
<1>6. CountInv'
  <2>1. \A q \in Requests : pc'[q] = "freeze" => pc[q] = "freeze"
    BY <1>1
  <2>2. QED
    BY <1>2, <2>1 DEF IInv, CountInv
<1>7. QED
    BY <1>1, <1>2, <1>3, <1>4, <1>5, <1>6

LEMMA FinishOnboardingStep ==
    ASSUME ModerationAssumption, IInv, NEW r \in Requests, FinishOnboarding(r)
    PROVE  IInv'
<1> DEFINE c == req[r].craftsman
           label == "ok"
<1> USE DEF profileVars, sessionVars
<1>1. /\ pc[r] = "user"
      /\ role' = [role EXCEPT ![c] = "craftsman"]
      /\ flag' = [flag EXCEPT ![c] = FALSE]
      /\ pc' = [pc EXCEPT ![r] = "ok"]
      /\ UNCHANGED <<status, strikes, mark, deleted, req, outbox, webhooks, token,
                     sync, seen, log>>
    BY DEF FinishOnboarding, Goto
<1>2. c \in Craftsmen
    BY <1>1 DEF IInv, PcInv, PcOK, AfterWrite
<1>3. TypeOK'
    BY <1>1, <1>2 DEF IInv, TypeOK, Roles
<1>4. /\ LogInv' /\ PcInv' /\ CountInv'
      /\ \A d : /\ Freezes(d)' = Freezes(d)
                /\ Accepted(d)' = Accepted(d)
                /\ WasAccepted(d)' = WasAccepted(d)
      /\ \A q \in Requests : q # r => pc'[q] = pc[q]
      /\ pc'[r] = "ok"
  <2> /\ pc[r] \in InFlight
      /\ label \notin {"idle", "insert", "freeze", "flag", "append"}
      /\ label \notin AfterWrite
      /\ label = "ok"
    BY <1>1 DEF InFlight, AfterWrite
  <2> HIDE DEF label
  <2> QED
    BY <1>1, QuietStep
<1>5. CascadeInv'
    BY <1>1, <1>4 DEF IInv, CascadeInv, BannedEvent
<1>6. EarnInv'
    BY <1>1, <1>4 DEF IInv, EarnInv, TypeOK, ModerationAssumption
<1>7. StrikeOutBans'
    BY <1>1, <1>4 DEF IInv, StrikeOutBans
<1>8. BanIsDeserved' /\ BanIsAnnounced'
    BY <1>1, <1>4 DEF IInv, BanIsDeserved, BanIsAnnounced
<1>9. FlagWasEarned'
    BY <1>1, <1>2, <1>4 DEF IInv, TypeOK, FlagWasEarned
<1>10. QED
    BY <1>3, <1>4, <1>5, <1>6, <1>7, <1>8, <1>9 DEF IInv

LEMMA SetFlagStep ==
    ASSUME ModerationAssumption, IInv, NEW r \in Requests, SetFlag(r)
    PROVE  IInv'
<1> DEFINE c == req[r].craftsman
           label == "append"
<1> USE DEF profileVars, sessionVars
<1>1. /\ pc[r] = "flag"
      /\ flag' = [flag EXCEPT ![c] = req[r].kind = "approve"]
      /\ pc' = [pc EXCEPT ![r] = "append"]
      /\ UNCHANGED <<status, strikes, mark, role, deleted, req, outbox, webhooks,
                     token, sync, seen, log>>
    BY DEF SetFlag, Goto
<1>2. /\ c \in Craftsmen
      /\ req[r].kind = "approve" => WasAccepted(c)
    BY <1>1 DEF IInv, PcInv, PcOK, EarnInv, AfterWrite
<1>3. TypeOK'
  <2>1. flag' \in [Craftsmen -> BOOLEAN]
    BY <1>1, <1>2 DEF IInv, TypeOK
  <2>2. QED
    BY <1>1, <2>1 DEF IInv, TypeOK, InFlight
<1>4. /\ LogInv' /\ PcInv' /\ CountInv'
      /\ \A d : /\ Freezes(d)' = Freezes(d)
                /\ Accepted(d)' = Accepted(d)
                /\ WasAccepted(d)' = WasAccepted(d)
      /\ \A q \in Requests : q # r => pc'[q] = pc[q]
      /\ pc'[r] = "append"
      /\ \A q \in Requests : Bans(q)' = Bans(q)
  <2> /\ pc[r] \in InFlight
      /\ label \notin {"idle", "insert", "freeze", "flag", "cascade", "webhook"}
      /\ pc[r] \in AfterWrite
      /\ label = "append"
      /\ label = "append" => pc[r] = "flag"
    BY <1>1 DEF InFlight, AfterWrite
  <2> HIDE DEF label
  <2> QED
    BY <1>1, QuietStep
<1>5. CascadeInv'
    BY <1>1, <1>4 DEF IInv, CascadeInv, BannedEvent
<1>6. EarnInv'
    BY <1>1, <1>4 DEF IInv, EarnInv
<1>7. StrikeOutBans'
    BY <1>1, <1>4 DEF IInv, StrikeOutBans
<1>8. BanIsDeserved' /\ BanIsAnnounced'
    BY <1>1, <1>4 DEF IInv, BanIsDeserved, BanIsAnnounced
<1>9. FlagWasEarned'
    BY <1>1, <1>2, <1>4 DEF IInv, TypeOK, FlagWasEarned
<1>10. QED
    BY <1>3, <1>4, <1>5, <1>6, <1>7, <1>8, <1>9 DEF IInv

LEMMA AppendEventStep ==
    ASSUME ModerationAssumption, IInv, NEW r \in Requests, AppendEvent(r)
    PROVE  IInv'
<1> DEFINE c == req[r].craftsman
           name == IF Bans(r) THEN "banned" ELSE EventOf[req[r].kind]
           label == AfterAppend(r)
<1> USE DEF profileVars, userVars, sessionVars
<1>1. /\ pc[r] = "append"
      /\ outbox' = outbox \cup {[by |-> r, craftsman |-> c, name |-> name]}
      /\ pc' = [pc EXCEPT ![r] = label]
      /\ UNCHANGED <<status, strikes, mark, role, flag, deleted, req, webhooks,
                     token, sync, seen, log>>
    BY DEF AppendEvent, Goto
<1>2. /\ c \in Craftsmen
      /\ req[r].kind \in Kinds \ {"none", "choose", "create"}
    BY <1>1 DEF IInv, TypeOK, PcInv, PcOK, AfterWrite
<1>3. name \in EventNames
    BY <1>2 DEF Kinds, EventNames, EventOf, Bans
<1>4. label \in {"cascade", "user", "ok"} /\ (label = "cascade" <=> Bans(r))
    BY DEF AfterAppend
<1>5. TypeOK'
  <2>1. outbox' \subseteq [by: Requests, craftsman: Craftsmen, name: EventNames]
    BY <1>1, <1>2, <1>3 DEF IInv, TypeOK
  <2>2. pc' \in [Requests -> InFlight \cup {"idle", "ok", "failed"}]
    BY <1>1, <1>4 DEF IInv, TypeOK, InFlight
  <2>3. QED
    BY <1>1, <2>1, <2>2 DEF IInv, TypeOK
<1>6. /\ LogInv' /\ PcInv' /\ CountInv'
      /\ \A d : /\ Freezes(d)' = Freezes(d)
                /\ Accepted(d)' = Accepted(d)
                /\ WasAccepted(d)' = WasAccepted(d)
      /\ \A q \in Requests : q # r => pc'[q] = pc[q]
      /\ pc'[r] = label
      /\ \A q \in Requests : Bans(q)' = Bans(q)
  <2> /\ pc[r] \in InFlight
      /\ label \notin {"idle", "insert", "freeze", "flag", "append", "webhook"}
      /\ pc[r] \in AfterWrite
      /\ label \in {"cascade", "webhook"} => Bans(r)
      /\ pc' = [pc EXCEPT ![r] = label]
    BY <1>1, <1>4 DEF InFlight, AfterWrite
  <2> HIDE DEF label
  <2> QED
    BY <1>1, QuietStep
<1>7. CascadeInv'
  <2> HIDE DEF label
  <2>1. \A d : BannedEvent(d) => BannedEvent(d)'
    BY <1>1 DEF BannedEvent
  <2>2. ASSUME Bans(r) PROVE BannedEvent(c)'
    <3>1. name = "banned"
      BY <2>2
    <3> HIDE DEF name
    <3>2. [by |-> r, craftsman |-> c, name |-> "banned"] \in outbox'
      BY <1>1, <3>1
    <3>3. QED
      BY <1>1, <3>2 DEF BannedEvent
  <2>3. ASSUME NEW q \in Requests, pc'[q] \in {"cascade", "webhook"}
        PROVE  BannedEvent(req[q].craftsman)'
    <3>1. CASE q = r
      BY <1>1, <1>4, <1>6, <2>2, <2>3, <3>1
    <3>2. CASE q # r
      BY <1>1, <1>6, <2>1, <2>3, <3>2 DEF IInv, CascadeInv
    <3>3. QED
      BY <3>1, <3>2
  <2>4. \A q \in Requests : pc'[q] = "webhook" => pc[q] = "webhook"
    BY <1>4, <1>6
  <2>5. \A q \in webhooks : q # r
    BY <1>1 DEF IInv, CascadeInv
  <2>6. QED
    BY <1>1, <1>6, <2>3, <2>4, <2>5 DEF IInv, TypeOK, CascadeInv, BannedEvent
<1> HIDE DEF label, name
<1>8. EarnInv'
    BY <1>1, <1>4, <1>6 DEF IInv, EarnInv
<1>9. StrikeOutBans'
  <2> SUFFICES ASSUME NEW d \in Craftsmen, strikes[d] >= Threshold, ~deleted[d]
               PROVE  \E q \in Freezes(d) : /\ StruckOut(req[q].count)
                                            /\ pc'[q] \in {"append", "cascade", "failed"}
    BY <1>1, <1>6 DEF StrikeOutBans
  <2>1. PICK q \in Freezes(d) : /\ StruckOut(req[q].count)
                                /\ pc[q] \in {"append", "cascade", "failed"}
    BY DEF IInv, StrikeOutBans
  <2>2. q \in Requests /\ (q = r => Bans(r))
    BY <2>1 DEF Freezes, Bans
  <2>3. QED
    BY <1>4, <1>6, <2>1, <2>2
<1>10. BanIsDeserved'
    BY <1>1, <1>6 DEF IInv, BanIsDeserved
<1>11. BanIsAnnounced'
    BY <1>1 DEF IInv, BanIsAnnounced
<1>12. FlagWasEarned'
    BY <1>1, <1>6 DEF IInv, FlagWasEarned
<1>13. QED
    BY <1>5, <1>6, <1>7, <1>8, <1>9, <1>10, <1>11, <1>12 DEF IInv

LEMMA DeleteUserStep ==
    ASSUME ModerationAssumption, IInv, NEW r \in Requests, DeleteUser(r)
    PROVE  IInv'
<1> DEFINE c == req[r].craftsman
           label == "webhook"
<1> USE DEF profileVars, sessionVars
<1>1. /\ pc[r] = "cascade"
      /\ deleted' = [deleted EXCEPT ![c] = TRUE]
      /\ pc' = [pc EXCEPT ![r] = "webhook"]
      /\ UNCHANGED <<status, strikes, mark, role, flag, req, outbox, webhooks,
                     token, sync, seen, log>>
    BY DEF DeleteUser, Goto
<1>2. /\ c \in Craftsmen
      /\ Bans(r)
      /\ req[r].kind = "freeze" => r \in Freezes(c)
    BY <1>1 DEF IInv, PcInv, PcOK, AfterWrite
<1>3. TypeOK'
    BY <1>1, <1>2 DEF IInv, TypeOK, InFlight
<1>4. deleted'[c] /\ \A d \in Craftsmen : d # c => deleted'[d] = deleted[d]
    BY <1>1, <1>2 DEF IInv, TypeOK
<1>5. /\ LogInv' /\ PcInv' /\ CountInv'
      /\ \A d : /\ Freezes(d)' = Freezes(d)
                /\ Accepted(d)' = Accepted(d)
                /\ WasAccepted(d)' = WasAccepted(d)
      /\ \A q \in Requests : q # r => pc'[q] = pc[q]
      /\ pc'[r] = "webhook"
      /\ \A q \in Requests : Bans(q)' = Bans(q)
  <2> /\ pc[r] \in InFlight
      /\ label \notin {"idle", "insert", "freeze", "flag", "append"}
      /\ pc[r] \in AfterWrite
      /\ label \in {"cascade", "webhook"} => Bans(r)
      /\ label = "webhook"
    BY <1>1, <1>2 DEF InFlight, AfterWrite
  <2> HIDE DEF label
  <2> QED
    BY <1>1, QuietStep
<1>6. CascadeInv'
  <2>1. \A q \in Requests : pc'[q] \in {"cascade", "webhook"} => BannedEvent(req[q].craftsman)
    BY <1>1, <1>5 DEF IInv, CascadeInv
  <2>2. \A q \in Requests : pc'[q] = "webhook" => deleted'[req[q].craftsman]
    BY <1>1, <1>4, <1>5 DEF IInv, CascadeInv, PcInv, PcOK, AfterWrite
  <2>3. \A q \in webhooks : q # r
    BY <1>1 DEF IInv, CascadeInv
  <2>4. QED
    BY <1>1, <1>5, <2>1, <2>2, <2>3 DEF IInv, TypeOK, CascadeInv, BannedEvent
<1>7. EarnInv'
    BY <1>1, <1>5 DEF IInv, EarnInv
<1>8. StrikeOutBans'
  <2> SUFFICES ASSUME NEW d \in Craftsmen, strikes[d] >= Threshold, ~deleted'[d]
               PROVE  \E q \in Freezes(d) : /\ StruckOut(req[q].count)
                                            /\ pc'[q] \in {"append", "cascade", "failed"}
    BY <1>1, <1>5 DEF StrikeOutBans
  <2>1. d # c /\ ~deleted[d]
    BY <1>4
  <2>2. PICK q \in Freezes(d) : /\ StruckOut(req[q].count)
                                /\ pc[q] \in {"append", "cascade", "failed"}
    BY <2>1 DEF IInv, StrikeOutBans
  <2>3. q \in Requests /\ q # r
    BY <2>1, <2>2 DEF Freezes, IInv, LogInv
  <2>4. QED
    BY <1>5, <2>2, <2>3
<1>9. BanIsDeserved'
  <2>1. req[r].kind = "freeze" => Cardinality(Freezes(c)) >= Threshold
    BY <1>2, FreezesAreFinite
       DEF IInv, TypeOK, CountInv, Bans, StruckOut, ModerationAssumption
  <2>2. \/ req[r].kind = "ban" /\ req[r].craftsman = c
        \/ Cardinality(Freezes(c)) >= Threshold
    BY <1>2, <2>1 DEF Bans
  <2>3. QED
    BY <1>1, <1>4, <1>5, <2>2 DEF IInv, BanIsDeserved
<1>10. BanIsAnnounced'
  <2>1. BannedEvent(c)
    BY <1>1 DEF IInv, CascadeInv
  <2>2. \A d \in Craftsmen : deleted'[d] => BannedEvent(d)
    BY <1>4, <2>1 DEF IInv, BanIsAnnounced, BannedEvent
  <2>3. \A q \in webhooks : deleted'[req[q].craftsman]
    BY <1>1, <1>2 DEF IInv, TypeOK, BanIsAnnounced
  <2>4. QED
    BY <1>1, <2>2, <2>3 DEF BanIsAnnounced, BannedEvent
<1>11. FlagWasEarned'
    BY <1>1, <1>5 DEF IInv, FlagWasEarned
<1>12. QED
    BY <1>3, <1>5, <1>6, <1>7, <1>8, <1>9, <1>10, <1>11 DEF IInv

LEMMA DispatchWebhookStep ==
    ASSUME ModerationAssumption, IInv, NEW r \in Requests, DispatchWebhook(r)
    PROVE  IInv'
<1> DEFINE label == "ok"
<1> USE DEF profileVars, userVars, sessionVars
<1>1. /\ pc[r] = "webhook"
      /\ webhooks' \in {webhooks, webhooks \cup {r}}
      /\ pc' = [pc EXCEPT ![r] = "ok"]
      /\ UNCHANGED <<status, strikes, mark, role, flag, deleted, req, outbox,
                     token, sync, seen, log>>
    BY DEF DispatchWebhook, Goto
<1>2. TypeOK'
    BY <1>1 DEF IInv, TypeOK, InFlight
<1>3. /\ LogInv' /\ PcInv' /\ CountInv'
      /\ \A d : /\ Freezes(d)' = Freezes(d)
                /\ Accepted(d)' = Accepted(d)
                /\ WasAccepted(d)' = WasAccepted(d)
      /\ \A q \in Requests : q # r => pc'[q] = pc[q]
      /\ pc'[r] = "ok"
      /\ \A q \in Requests : Bans(q)' = Bans(q)
  <2> /\ pc[r] \in InFlight
      /\ label \notin {"idle", "insert", "freeze", "flag", "append", "cascade", "webhook"}
      /\ pc[r] \in AfterWrite
      /\ label = "ok"
    BY <1>1 DEF InFlight, AfterWrite
  <2> HIDE DEF label
  <2> QED
    BY <1>1, QuietStep
<1>4. CascadeInv'
    BY <1>1, <1>3 DEF IInv, TypeOK, CascadeInv, BannedEvent
<1>5. EarnInv'
    BY <1>1, <1>3 DEF IInv, EarnInv
<1>6. StrikeOutBans'
    BY <1>1, <1>3 DEF IInv, StrikeOutBans, Freezes
<1>7. BanIsDeserved'
    BY <1>1, <1>3 DEF IInv, BanIsDeserved
<1>8. BanIsAnnounced'
    BY <1>1 DEF IInv, BanIsAnnounced, CascadeInv
<1>9. FlagWasEarned'
    BY <1>1, <1>3 DEF IInv, FlagWasEarned
<1>10. QED
    BY <1>2, <1>3, <1>4, <1>5, <1>6, <1>7, <1>8, <1>9 DEF IInv

LEMMA FailStep ==
    ASSUME ModerationAssumption, IInv, NEW r \in Requests, Fail(r)
    PROVE  IInv'
<1> DEFINE label == "failed"
<1> USE DEF profileVars, userVars, sessionVars
<1>1. /\ pc[r] \in InFlight
      /\ pc' = [pc EXCEPT ![r] = "failed"]
      /\ UNCHANGED <<status, strikes, mark, role, flag, deleted, req, outbox,
                     webhooks, token, sync, seen, log>>
    BY DEF Fail, Goto
<1>2. TypeOK'
    BY <1>1 DEF IInv, TypeOK
<1>3. /\ LogInv' /\ PcInv' /\ CountInv'
      /\ \A d : /\ Freezes(d)' = Freezes(d)
                /\ Accepted(d)' = Accepted(d)
                /\ WasAccepted(d)' = WasAccepted(d)
      /\ \A q \in Requests : q # r => pc'[q] = pc[q]
      /\ pc'[r] = "failed"
      /\ \A q \in Requests : Bans(q)' = Bans(q)
  <2> /\ label \notin {"idle", "insert", "freeze", "flag", "append", "cascade", "webhook"}
      /\ label \notin AfterWrite
      /\ label = "failed"
    BY DEF AfterWrite
  <2> HIDE DEF label
  <2> QED
    BY <1>1, QuietStep
<1>4. CascadeInv'
  <2>1. \A q \in webhooks : q # r
    BY <1>1 DEF IInv, CascadeInv, InFlight
  <2>2. QED
    BY <1>1, <1>3, <2>1 DEF IInv, TypeOK, CascadeInv, BannedEvent
<1>5. EarnInv'
    BY <1>1, <1>3 DEF IInv, EarnInv
<1>6. StrikeOutBans'
    BY <1>1, <1>3 DEF IInv, StrikeOutBans, Freezes
<1>7. BanIsDeserved'
    BY <1>1, <1>3 DEF IInv, BanIsDeserved
<1>8. BanIsAnnounced'
    BY <1>1 DEF IInv, BanIsAnnounced
<1>9. FlagWasEarned'
    BY <1>1, <1>3 DEF IInv, FlagWasEarned
<1>10. QED
    BY <1>2, <1>3, <1>4, <1>5, <1>6, <1>7, <1>8, <1>9 DEF IInv

\* What holds after a step that writes a status and logs it.
LEMMA LoggedStep ==
    ASSUME ModerationAssumption, IInv, NEW r \in Requests, NEW c \in Craftsmen,
           NEW st \in Statuses, NEW label \in {"flag", "append", "ok"},
           pc[r] \in {"idle", "insert", "freeze"},
           \A q \in Requests : q # r => req'[q] = req[q],
           req'[r].craftsman = c,
           label = "append" => req'[r].kind \notin {"none", "choose", "create"},
           label = "flag" => req'[r].kind \in {"approve", "reject"},
           pc' = [pc EXCEPT ![r] = label],
           log' = log \cup {[by |-> r, craftsman |-> c, status |-> st]}
    PROVE  /\ LogInv' /\ PcInv'
           /\ \A d : r \notin Freezes(d)
           /\ \A d \in Craftsmen : d # c => Freezes(d)' = Freezes(d)
           /\ Freezes(c)' = IF req'[r].kind = "freeze"
                            THEN Freezes(c) \cup {r} ELSE Freezes(c)
           /\ \A d : WasAccepted(d) => WasAccepted(d)'
           /\ st \in {"approved", "frozen"} => WasAccepted(c)'
           /\ \A q \in Requests : q # r => pc'[q] = pc[q]
           /\ pc'[r] = label
<1> DEFINE new == [by |-> r, craftsman |-> c, status |-> st]
<1>1. /\ \A q \in Requests : q # r => pc'[q] = pc[q]
      /\ pc'[r] = label
    BY DEF IInv, TypeOK
<1>2. \A w \in log : w.by # r /\ w.by \in Requests
    BY DEF IInv, TypeOK, LogInv
<1>3. /\ new.by = r /\ new.craftsman = c /\ new.status = st
      /\ new \in log' /\ log \subseteq log'
      /\ \A w \in log' : w \in log \/ w = new
    OBVIOUS
<1> HIDE DEF new
<1>4. LogInv'
  <2> SUFFICES ASSUME NEW w \in log'
               PROVE  /\ w.craftsman = req'[w.by].craftsman
                      /\ pc'[w.by] \notin {"idle", "insert", "freeze"}
    BY DEF LogInv
  <2>1. CASE w \in log
    BY <1>1, <1>2, <2>1 DEF IInv, LogInv
  <2>2. CASE w = new
    BY <1>1, <1>3, <2>2
  <2>3. QED
    BY <1>3, <2>1, <2>2
<1>5. \A d : r \notin Freezes(d)
    BY <1>2 DEF Freezes
<1>6. \A d \in Craftsmen, q \in Requests \ {r} : q \in Freezes(d)' <=> q \in Freezes(d)
  <2>1. \A w \in log' : w \in log \/ w.by = r
    BY <1>3
  <2>2. \A q \in Requests \ {r} : req'[q] = req[q]
    OBVIOUS
  <2>3. QED
    BY <1>3, <2>1, <2>2, OthersKeepFreezes
<1>7. \A d : Freezes(d) \subseteq Requests /\ Freezes(d)' \subseteq Requests
    BY DEF Freezes
<1>8. \A d \in Craftsmen : r \in Freezes(d)' <=> d = c /\ req'[r].kind = "freeze"
    BY <1>2, <1>3 DEF Freezes
<1>9. /\ \A d \in Craftsmen : d # c => Freezes(d)' = Freezes(d)
      /\ Freezes(c)' = IF req'[r].kind = "freeze" THEN Freezes(c) \cup {r} ELSE Freezes(c)
  <2>1. ASSUME NEW d \in Craftsmen, NEW q
        PROVE  q \in Freezes(d)' <=>
                   q \in Freezes(d) \/ (q = r /\ d = c /\ req'[r].kind = "freeze")
    <3>1. CASE q = r
      BY <1>5, <1>8, <3>1
    <3>2. CASE q # r
      BY <1>6, <1>7, <3>2
    <3>3. QED
      BY <3>1, <3>2
  <2>2. \A d \in Craftsmen : d # c => Freezes(d)' = Freezes(d)
    BY <2>1
  <2>3. req'[r].kind = "freeze" => Freezes(c)' = Freezes(c) \cup {r}
    BY <2>1
  <2>4. req'[r].kind # "freeze" => Freezes(c)' = Freezes(c)
    BY <2>1
  <2>5. QED
    BY <2>2, <2>3, <2>4
<1>10. PcInv'
  <2> SUFFICES ASSUME NEW q \in Requests
               PROVE  PcOK(q)'
    BY DEF PcInv
  <2>1. CASE q # r
    <3>1. pc'[q] = pc[q] /\ req'[q] = req[q] /\ PcOK(q)
      BY <1>1, <2>1 DEF IInv, PcInv
    <3>2. Bans(q)' <=> Bans(q)
      BY <3>1 DEF Bans
    <3>3. q \in Freezes(req[q].craftsman) => q \in Freezes(req[q].craftsman)'
      BY <1>3, <3>1 DEF Freezes
    <3>4. QED
      BY <3>1, <3>2, <3>3 DEF PcOK
  <2>2. CASE q = r
    <3>1. req'[r].kind = "freeze" => r \in Freezes(req[r].craftsman)'
      BY <1>3 DEF Freezes
    <3>2. QED
      BY <1>1, <2>2, <3>1 DEF PcOK, AfterWrite
  <2>3. QED
    BY <2>1, <2>2
<1>11. /\ \A d : WasAccepted(d) => WasAccepted(d)'
       /\ st \in {"approved", "frozen"} => WasAccepted(c)'
    BY <1>3 DEF WasAccepted
<1>12. QED
    BY <1>1, <1>4, <1>5, <1>9, <1>10, <1>11

\* A step that writes a status and is no freeze keeps the invariant.
LEMMA PlainStatusStep ==
    ASSUME ModerationAssumption, IInv, NEW r \in Requests, NEW c \in Craftsmen,
           NEW st \in Statuses, NEW label \in {"flag", "append", "ok"},
           pc[r] \in {"idle", "insert"},
           req' \in [Requests -> [kind: Kinds, craftsman: Craftsmen \cup {NoOne}, count: Nat]],
           \A q \in Requests : q # r => req'[q] = req[q],
           req'[r].craftsman = c,
           req'[r].kind \notin {"none", "choose", "freeze"},
           label = "append" => req'[r].kind # "create",
           label = "flag" => req'[r].kind \in {"approve", "reject"},
           req'[r].kind = "approve" => st = "approved",
           pc' = [pc EXCEPT ![r] = label],
           log' = log \cup {[by |-> r, craftsman |-> c, status |-> st]},
           status' = [status EXCEPT ![c] = st],
           mark' \in [Craftsmen -> {"none", "reason", "permanent_ban"}],
           UNCHANGED <<strikes, role, flag, deleted, outbox, webhooks, token, sync, seen>>
    PROVE  IInv'
<1>1. /\ LogInv' /\ PcInv'
      /\ \A d \in Craftsmen : Freezes(d)' = Freezes(d)
      /\ \A d : r \notin Freezes(d)
      /\ \A d : WasAccepted(d) => WasAccepted(d)'
      /\ st \in {"approved", "frozen"} => WasAccepted(c)'
      /\ \A q \in Requests : q # r => pc'[q] = pc[q]
      /\ pc'[r] = label
  <2> /\ pc[r] \in {"idle", "insert", "freeze"}
      /\ label = "append" => req'[r].kind \notin {"none", "choose", "create"}
    OBVIOUS
  <2>1. /\ LogInv' /\ PcInv'
        /\ \A d : r \notin Freezes(d)
        /\ \A d \in Craftsmen : d # c => Freezes(d)' = Freezes(d)
        /\ Freezes(c)' = IF req'[r].kind = "freeze"
                         THEN Freezes(c) \cup {r} ELSE Freezes(c)
        /\ \A d : WasAccepted(d) => WasAccepted(d)'
        /\ st \in {"approved", "frozen"} => WasAccepted(c)'
        /\ \A q \in Requests : q # r => pc'[q] = pc[q]
        /\ pc'[r] = label
    BY LoggedStep
  <2>2. Freezes(c)' = Freezes(c)
    BY <2>1
  <2>3. \A d \in Craftsmen : Freezes(d)' = Freezes(d)
    BY <2>1, <2>2
  <2>4. QED
    BY <2>1, <2>3
<1>2. TypeOK'
  <2>1. status' \in [Craftsmen -> Statuses \cup {"none"}]
    BY DEF IInv, TypeOK
  <2>2. pc' \in [Requests -> InFlight \cup {"idle", "ok", "failed"}]
    BY DEF IInv, TypeOK, InFlight
  <2>3. log' \subseteq [by: Requests, craftsman: Craftsmen, status: Statuses]
    BY DEF IInv, TypeOK
  <2>4. QED
    BY <2>1, <2>2, <2>3 DEF IInv, TypeOK
<1>3. \A d \in Craftsmen : \A q \in Freezes(d) : q \in Requests /\ q # r
    BY <1>1 DEF Freezes
<1>4. CountInv'
  <2>1. \A d \in Craftsmen : strikes'[d] <= Cardinality(Freezes(d)')
    BY <1>1 DEF IInv, CountInv
  <2>2. ASSUME NEW q \in Requests, pc'[q] = "freeze"
        PROVE  req'[q].count <= Cardinality(Freezes(req[q].craftsman)') + 1
    <3>1. q # r /\ pc[q] = "freeze" /\ req'[q] = req[q]
      BY <1>1, <2>2
    <3>2. PICK d \in Craftsmen : d = req[q].craftsman
      BY <3>1 DEF IInv, PcInv, PcOK
    <3>3. req[q].count <= Cardinality(Freezes(d)) + 1
      BY <3>1, <3>2 DEF IInv, CountInv
    <3>4. Freezes(req[q].craftsman)' = Freezes(d)'
      BY <3>1, <3>2 DEF Freezes
    <3>5. QED
      BY <1>1, <3>1, <3>3, <3>4
  <2>3. \A d \in Craftsmen : \A q \in Freezes(d)' : req'[q].count <= Cardinality(Freezes(d)')
    BY <1>1, <1>3 DEF IInv, CountInv
  <2>4. QED
    BY <2>1, <2>2, <2>3 DEF CountInv
<1>5. CascadeInv'
  <2>1. \A q \in Requests : pc'[q] \in {"cascade", "webhook"} =>
            q # r /\ pc[q] = pc'[q] /\ req'[q] = req[q]
    BY <1>1
  <2>2. \A q \in webhooks : q \in Requests /\ q # r
    BY DEF IInv, TypeOK, CascadeInv
  <2>3. QED
    BY <1>1, <2>1, <2>2 DEF IInv, CascadeInv, BannedEvent
<1>6. EarnInv'
  <2>1. \A d \in Craftsmen : Accepted(d)' => WasAccepted(d)'
    BY <1>1 DEF IInv, TypeOK, EarnInv, Accepted
  <2>2. ASSUME NEW q \in Requests, pc'[q] = "flag", req'[q].kind = "approve"
        PROVE  WasAccepted(req[q].craftsman)'
    <3>1. CASE q = r
      BY <1>1, <2>2, <3>1 DEF WasAccepted
    <3>2. CASE q # r
      <4>1. WasAccepted(req[q].craftsman) /\ req'[q] = req[q]
        BY <1>1, <2>2, <3>2 DEF IInv, EarnInv
      <4>2. QED
        BY <4>1 DEF WasAccepted
    <3>3. QED
      BY <3>1, <3>2
  <2>3. \A x \in Sessions : sync[x] = "write" /\ seen[x].accepted => WasAccepted(Holder[x])'
    BY <1>1 DEF IInv, EarnInv
  <2>4. QED
    BY <2>1, <2>2, <2>3 DEF EarnInv
<1>7. StrikeOutBans'
  <2> SUFFICES ASSUME NEW d \in Craftsmen, strikes[d] >= Threshold, ~deleted[d]
               PROVE  \E q \in Freezes(d) : /\ StruckOut(req'[q].count)
                                            /\ pc'[q] \in {"append", "cascade", "failed"}
    BY <1>1 DEF StrikeOutBans
  <2>1. PICK q \in Freezes(d) : /\ StruckOut(req[q].count)
                                /\ pc[q] \in {"append", "cascade", "failed"}
    BY DEF IInv, StrikeOutBans
  <2>2. QED
    BY <1>1, <1>3, <2>1
<1>8. BanIsDeserved'
  <2>1. ASSUME NEW d \in Craftsmen, NEW q \in Requests,
               req[q].kind = "ban", req[q].craftsman = d
        PROVE  req'[q].kind = "ban" /\ req'[q].craftsman = d
    <3>1. q # r
      BY <2>1 DEF IInv, PcInv, PcOK
    <3>2. QED
      BY <2>1, <3>1
  <2>2. QED
    BY <1>1, <2>1 DEF IInv, BanIsDeserved
<1>9. BanIsAnnounced'
  <2>1. \A q \in webhooks : q \in Requests /\ req'[q] = req[q]
    BY DEF IInv, TypeOK, CascadeInv
  <2>2. QED
    BY <2>1 DEF IInv, BanIsAnnounced
<1>10. FlagWasEarned'
    BY <1>1 DEF IInv, FlagWasEarned
<1>11. QED
    BY <1>1, <1>2, <1>4, <1>5, <1>6, <1>7, <1>8, <1>9, <1>10 DEF IInv

LEMMA ApproveStep ==
    ASSUME ModerationAssumption, IInv, NEW r \in Requests, Approve(r)
    PROVE  IInv'
<1> DEFINE st == "approved"
           label == "flag"
<1> USE DEF profileVars, userVars, sessionVars
<1>1. PICK c \in Craftsmen :
          /\ pc[r] = "idle"
          /\ req' = [req EXCEPT ![r] = [kind |-> "approve", craftsman |-> c, count |-> 0]]
          /\ status' = [status EXCEPT ![c] = st]
          /\ log' = log \cup {[by |-> r, craftsman |-> c, status |-> st]}
          /\ mark' = mark
          /\ pc' = [pc EXCEPT ![r] = label]
          /\ UNCHANGED <<strikes, role, flag, deleted, outbox, webhooks, token, sync, seen>>
    BY DEF Approve, Receive, SetStatus, Goto
<1>2. /\ req' \in [Requests -> [kind: Kinds, craftsman: Craftsmen \cup {NoOne}, count: Nat]]
      /\ \A q \in Requests : q # r => req'[q] = req[q]
      /\ req'[r].kind = "approve" /\ req'[r].craftsman = c
      /\ mark' \in [Craftsmen -> {"none", "reason", "permanent_ban"}]
    BY <1>1 DEF IInv, TypeOK, Kinds
<1>3. /\ st \in Statuses /\ label \in {"flag", "append", "ok"}
      /\ pc[r] \in {"idle", "insert"}
      /\ req'[r].kind \notin {"none", "choose", "freeze"}
      /\ label = "append" => req'[r].kind # "create"
      /\ label = "flag" => req'[r].kind \in {"approve", "reject"}
      /\ req'[r].kind = "approve" => st = "approved"
    BY <1>1, <1>2 DEF Statuses
<1> HIDE DEF st, label
<1>4. QED
    BY <1>1, <1>2, <1>3, PlainStatusStep

LEMMA RejectStep ==
    ASSUME ModerationAssumption, IInv, NEW r \in Requests, Reject(r)
    PROVE  IInv'
<1> DEFINE st == "rejected"
           label == "flag"
<1> USE DEF profileVars, userVars, sessionVars
<1>1. PICK c \in Craftsmen :
          /\ pc[r] = "idle"
          /\ req' = [req EXCEPT ![r] = [kind |-> "reject", craftsman |-> c, count |-> 0]]
          /\ status' = [status EXCEPT ![c] = st]
          /\ log' = log \cup {[by |-> r, craftsman |-> c, status |-> st]}
          /\ mark' = mark
          /\ pc' = [pc EXCEPT ![r] = label]
          /\ UNCHANGED <<strikes, role, flag, deleted, outbox, webhooks, token, sync, seen>>
    BY DEF Reject, Receive, SetStatus, Goto
<1>2. /\ req' \in [Requests -> [kind: Kinds, craftsman: Craftsmen \cup {NoOne}, count: Nat]]
      /\ \A q \in Requests : q # r => req'[q] = req[q]
      /\ req'[r].kind = "reject" /\ req'[r].craftsman = c
      /\ mark' \in [Craftsmen -> {"none", "reason", "permanent_ban"}]
    BY <1>1 DEF IInv, TypeOK, Kinds
<1>3. /\ st \in Statuses /\ label \in {"flag", "append", "ok"}
      /\ pc[r] \in {"idle", "insert"}
      /\ req'[r].kind \notin {"none", "choose", "freeze"}
      /\ label = "append" => req'[r].kind # "create"
      /\ label = "flag" => req'[r].kind \in {"approve", "reject"}
      /\ req'[r].kind = "approve" => st = "approved"
    BY <1>1, <1>2 DEF Statuses
<1> HIDE DEF st, label
<1>4. QED
    BY <1>1, <1>2, <1>3, PlainStatusStep

LEMMA UnfreezeStep ==
    ASSUME ModerationAssumption, IInv, NEW r \in Requests, Unfreeze(r)
    PROVE  IInv'
<1> DEFINE st == "pending"
           label == "append"
<1> USE DEF profileVars, userVars, sessionVars
<1>1. PICK c \in Craftsmen :
          /\ pc[r] = "idle"
          /\ req' = [req EXCEPT ![r] = [kind |-> "unfreeze", craftsman |-> c, count |-> 0]]
          /\ status' = [status EXCEPT ![c] = st]
          /\ log' = log \cup {[by |-> r, craftsman |-> c, status |-> st]}
          /\ mark' = [mark EXCEPT ![c] = "none"]
          /\ pc' = [pc EXCEPT ![r] = label]
          /\ UNCHANGED <<strikes, role, flag, deleted, outbox, webhooks, token, sync, seen>>
    BY DEF Unfreeze, Receive, SetStatus, Goto
<1>2. /\ req' \in [Requests -> [kind: Kinds, craftsman: Craftsmen \cup {NoOne}, count: Nat]]
      /\ \A q \in Requests : q # r => req'[q] = req[q]
      /\ req'[r].kind = "unfreeze" /\ req'[r].craftsman = c
      /\ mark' \in [Craftsmen -> {"none", "reason", "permanent_ban"}]
    BY <1>1 DEF IInv, TypeOK, Kinds
<1>3. /\ st \in Statuses /\ label \in {"flag", "append", "ok"}
      /\ pc[r] \in {"idle", "insert"}
      /\ req'[r].kind \notin {"none", "choose", "freeze"}
      /\ label = "append" => req'[r].kind # "create"
      /\ label = "flag" => req'[r].kind \in {"approve", "reject"}
      /\ req'[r].kind = "approve" => st = "approved"
    BY <1>1, <1>2 DEF Statuses
<1> HIDE DEF st, label
<1>4. QED
    BY <1>1, <1>2, <1>3, PlainStatusStep

LEMMA BanStep ==
    ASSUME ModerationAssumption, IInv, NEW r \in Requests, Ban(r)
    PROVE  IInv'
<1> DEFINE st == "rejected"
           label == "append"
<1> USE DEF profileVars, userVars, sessionVars
<1>1. PICK c \in Craftsmen :
          /\ pc[r] = "idle"
          /\ req' = [req EXCEPT ![r] = [kind |-> "ban", craftsman |-> c, count |-> 0]]
          /\ status' = [status EXCEPT ![c] = st]
          /\ log' = log \cup {[by |-> r, craftsman |-> c, status |-> st]}
          /\ mark' = [mark EXCEPT ![c] = "permanent_ban"]
          /\ pc' = [pc EXCEPT ![r] = label]
          /\ UNCHANGED <<strikes, role, flag, deleted, outbox, webhooks, token, sync, seen>>
    BY DEF Ban, Receive, SetStatus, Goto
<1>2. /\ req' \in [Requests -> [kind: Kinds, craftsman: Craftsmen \cup {NoOne}, count: Nat]]
      /\ \A q \in Requests : q # r => req'[q] = req[q]
      /\ req'[r].kind = "ban" /\ req'[r].craftsman = c
      /\ mark' \in [Craftsmen -> {"none", "reason", "permanent_ban"}]
    BY <1>1 DEF IInv, TypeOK, Kinds
<1>3. /\ st \in Statuses /\ label \in {"flag", "append", "ok"}
      /\ pc[r] \in {"idle", "insert"}
      /\ req'[r].kind \notin {"none", "choose", "freeze"}
      /\ label = "append" => req'[r].kind # "create"
      /\ label = "flag" => req'[r].kind \in {"approve", "reject"}
      /\ req'[r].kind = "approve" => st = "approved"
    BY <1>1, <1>2 DEF Statuses
<1> HIDE DEF st, label
<1>4. QED
    BY <1>1, <1>2, <1>3, PlainStatusStep

LEMMA InsertProfileStep ==
    ASSUME ModerationAssumption, IInv, NEW r \in Requests, InsertProfile(r)
    PROVE  IInv'
<1> DEFINE c == req[r].craftsman
           st == "pending"
           label == IF req[r].kind = "onboard" THEN "append" ELSE "ok"
<1> USE DEF profileVars, userVars, sessionVars
<1>1. /\ pc[r] = "insert"
      /\ UNCHANGED <<strikes, mark, role, flag, deleted, req, outbox, webhooks, token,
                     sync, seen>>
    BY DEF InsertProfile
<1>2. c \in Craftsmen /\ req[r].kind \in {"onboard", "create"}
    BY <1>1 DEF IInv, PcInv, PcOK
<1>3. CASE status[c] = "none"
  <2>1. /\ status' = [status EXCEPT ![c] = st]
        /\ log' = log \cup {[by |-> r, craftsman |-> c, status |-> st]}
        /\ pc' = [pc EXCEPT ![r] = label]
    BY <1>3 DEF InsertProfile, SetStatus, Goto
  <2>2. /\ req' \in [Requests -> [kind: Kinds, craftsman: Craftsmen \cup {NoOne}, count: Nat]]
        /\ \A q \in Requests : q # r => req'[q] = req[q]
        /\ req'[r].craftsman = c
        /\ mark' \in [Craftsmen -> {"none", "reason", "permanent_ban"}]
    BY <1>1 DEF IInv, TypeOK
  <2>3. /\ st \in Statuses /\ label \in {"flag", "append", "ok"}
        /\ pc[r] \in {"idle", "insert"}
        /\ req'[r].kind \notin {"none", "choose", "freeze"}
        /\ label = "append" => req'[r].kind # "create"
        /\ label = "flag" => req'[r].kind \in {"approve", "reject"}
        /\ req'[r].kind = "approve" => st = "approved"
    BY <1>1, <1>2 DEF Statuses
  <2> HIDE DEF c, st, label
  <2>4. QED
    BY <1>1, <1>2, <2>1, <2>2, <2>3, PlainStatusStep
<1>4. CASE status[c] # "none"
  <2>1. Fail(r)
    BY <1>1, <1>4 DEF InsertProfile, Fail, InFlight
  <2>2. QED
    BY <2>1, FailStep
<1>5. QED
    BY <1>3, <1>4

\* What holds after the first step of a request that writes no status.
LEMMA IdleStep ==
    ASSUME ModerationAssumption, IInv, NEW r \in Requests, NEW c \in Craftsmen,
           NEW kind \in {"choose", "onboard", "create", "freeze"}, NEW count \in Nat,
           NEW label \in {"ok", "insert", "freeze"},
           pc[r] = "idle",
           label = "freeze" => kind = "freeze" /\ count = strikes[c] + 1,
           label = "insert" => kind \in {"onboard", "create"},
           req' = [req EXCEPT ![r] = [kind |-> kind, craftsman |-> c, count |-> count]],
           pc' = [pc EXCEPT ![r] = label],
           UNCHANGED <<status, strikes, mark, deleted, outbox, webhooks, token, sync,
                       seen, log>>
    PROVE  /\ LogInv' /\ PcInv' /\ CountInv' /\ CascadeInv' /\ EarnInv'
           /\ StrikeOutBans' /\ BanIsDeserved' /\ BanIsAnnounced'
           /\ pc' \in [Requests -> InFlight \cup {"idle", "ok", "failed"}]
           /\ req' \in [Requests -> [kind: Kinds, craftsman: Craftsmen \cup {NoOne}, count: Nat]]
           /\ \A d : WasAccepted(d)' = WasAccepted(d)
<1>1. /\ \A q \in Requests : q # r => pc'[q] = pc[q] /\ req'[q] = req[q]
      /\ pc'[r] = label
      /\ req'[r] = [kind |-> kind, craftsman |-> c, count |-> count]
    BY DEF IInv, TypeOK
<1>2. \A w \in log : w.by # r /\ w.by \in Requests
    BY DEF IInv, TypeOK, LogInv
<1>3. \A d : Freezes(d)' = Freezes(d) /\ r \notin Freezes(d)
    BY <1>1, <1>2 DEF Freezes
<1>4. LogInv'
    BY <1>1, <1>2 DEF IInv, LogInv
<1>5. PcInv'
  <2> SUFFICES ASSUME NEW q \in Requests
               PROVE  PcOK(q)'
    BY DEF PcInv
  <2>1. CASE q # r
    <3>1. pc'[q] = pc[q] /\ req'[q] = req[q] /\ PcOK(q)
      BY <1>1, <2>1 DEF IInv, PcInv
    <3>2. Bans(q)' <=> Bans(q)
      BY <3>1 DEF Bans
    <3>3. q \in Freezes(req[q].craftsman) => q \in Freezes(req[q].craftsman)'
      BY <3>1 DEF Freezes
    <3>4. QED
      BY <3>1, <3>2, <3>3 DEF PcOK
  <2>2. CASE q = r
    BY <1>1, <2>2 DEF PcOK, AfterWrite
  <2>3. QED
    BY <2>1, <2>2
<1>6. CountInv'
  <2>1. \A d \in Craftsmen : strikes'[d] <= Cardinality(Freezes(d)')
    BY <1>3 DEF IInv, CountInv
  <2>2. ASSUME NEW q \in Requests, pc'[q] = "freeze"
        PROVE  req'[q].count <= Cardinality(Freezes(req[q].craftsman)') + 1
    <3>1. CASE q # r
      <4>1. /\ req'[q] = req[q]
            /\ req[q].count <= Cardinality(Freezes(req[q].craftsman)) + 1
        BY <1>1, <2>2, <3>1 DEF IInv, CountInv
      <4>2. Freezes(req[q].craftsman)' = Freezes(req[q].craftsman)
        BY <4>1 DEF Freezes, IInv, LogInv
      <4>3. QED
        BY <4>1, <4>2
    <3>2. CASE q = r
      <4>1. req'[r].count = strikes[c] + 1
        BY <1>1, <2>2, <3>2
      <4>2. strikes[c] <= Cardinality(Freezes(c)) /\ strikes[c] \in Nat
        BY DEF IInv, TypeOK, CountInv
      <4>3. Cardinality(Freezes(c)) \in Nat
        BY FreezesAreFinite
      <4>4. Freezes(req[r].craftsman)' = Freezes(c)
        BY <1>1, <1>2 DEF Freezes
      <4>5. QED
        BY <3>2, <4>1, <4>2, <4>3, <4>4
    <3>3. QED
      BY <3>1, <3>2
  <2>3. \A d \in Craftsmen : \A q \in Freezes(d)' : req'[q].count <= Cardinality(Freezes(d)')
    <3>1. \A d \in Craftsmen : \A q \in Freezes(d) : q \in Requests /\ q # r
      BY <1>3 DEF Freezes
    <3>2. QED
      BY <1>1, <1>3, <3>1 DEF IInv, CountInv
  <2>4. QED
    BY <2>1, <2>2, <2>3 DEF CountInv
<1>7. \A q \in webhooks : q \in Requests /\ q # r
    BY DEF IInv, TypeOK, CascadeInv
<1>8. CascadeInv'
  <2>1. \A q \in Requests : pc'[q] \in {"cascade", "webhook"} =>
            pc[q] = pc'[q] /\ req'[q] = req[q]
    BY <1>1
  <2>2. QED
    BY <1>1, <1>7, <2>1 DEF IInv, CascadeInv, BannedEvent
<1>9. EarnInv'
  <2>1. \A q \in Requests : pc'[q] = "flag" => pc[q] = "flag" /\ req'[q] = req[q]
    BY <1>1
  <2>2. QED
    BY <2>1 DEF IInv, EarnInv, Accepted, WasAccepted
<1>10. StrikeOutBans'
  <2> SUFFICES ASSUME NEW d \in Craftsmen, strikes[d] >= Threshold, ~deleted[d]
               PROVE  \E q \in Freezes(d) : /\ StruckOut(req'[q].count)
                                            /\ pc'[q] \in {"append", "cascade", "failed"}
    BY <1>3 DEF StrikeOutBans
  <2>1. PICK q \in Freezes(d) : /\ StruckOut(req[q].count)
                                /\ pc[q] \in {"append", "cascade", "failed"}
    BY DEF IInv, StrikeOutBans
  <2>2. q \in Requests /\ q # r
    BY <1>3, <2>1 DEF Freezes
  <2>3. QED
    BY <1>1, <2>1, <2>2
<1>11. BanIsDeserved'
  <2>1. ASSUME NEW d \in Craftsmen, NEW q \in Requests,
               req[q].kind = "ban", req[q].craftsman = d
        PROVE  req'[q].kind = "ban" /\ req'[q].craftsman = d
    <3>1. q # r
      BY <2>1 DEF IInv, PcInv, PcOK
    <3>2. QED
      BY <1>1, <2>1, <3>1
  <2>2. QED
    BY <1>3, <2>1 DEF IInv, BanIsDeserved
<1>12. BanIsAnnounced'
    BY <1>1, <1>7 DEF IInv, BanIsAnnounced
<1>13. /\ pc' \in [Requests -> InFlight \cup {"idle", "ok", "failed"}]
       /\ req' \in [Requests -> [kind: Kinds, craftsman: Craftsmen \cup {NoOne}, count: Nat]]
       /\ \A d : WasAccepted(d)' = WasAccepted(d)
    BY DEF IInv, TypeOK, InFlight, Kinds, WasAccepted
<1>14. QED
    BY <1>4, <1>5, <1>6, <1>8, <1>9, <1>10, <1>11, <1>12, <1>13

LEMMA ChooseAccountStep ==
    ASSUME ModerationAssumption, IInv, NEW r \in Requests, ChooseAccount(r)
    PROVE  IInv'
<1> DEFINE kind == "choose"
           label == "ok"
           count == 0
<1> USE DEF profileVars, sessionVars
<1>1. PICK c \in Craftsmen, chosen \in Roles :
          /\ pc[r] = "idle"
          /\ req' = [req EXCEPT ![r] = [kind |-> kind, craftsman |-> c, count |-> count]]
          /\ role' = [role EXCEPT ![c] = chosen]
          /\ flag' = [flag EXCEPT ![c] = chosen = "client"]
          /\ pc' = [pc EXCEPT ![r] = label]
          /\ UNCHANGED <<status, strikes, mark, deleted, outbox, webhooks, token, sync,
                         seen, log>>
    BY DEF ChooseAccount, Receive, Goto
<1>2. /\ kind \in {"choose", "onboard", "create", "freeze"}
      /\ label \in {"ok", "insert", "freeze"}
      /\ count \in Nat
      /\ label = "freeze" => kind = "freeze" /\ count = strikes[c] + 1
      /\ label = "insert" => kind \in {"onboard", "create"}
    OBVIOUS
<1> HIDE DEF kind, label, count
<1>3. /\ LogInv' /\ PcInv' /\ CountInv' /\ CascadeInv' /\ EarnInv'
      /\ StrikeOutBans' /\ BanIsDeserved' /\ BanIsAnnounced'
      /\ pc' \in [Requests -> InFlight \cup {"idle", "ok", "failed"}]
      /\ req' \in [Requests -> [kind: Kinds, craftsman: Craftsmen \cup {NoOne}, count: Nat]]
      /\ \A d : WasAccepted(d)' = WasAccepted(d)
    BY <1>1, <1>2, IdleStep
<1>4. TypeOK'
  <2>1. role' \in [Craftsmen -> Roles] /\ flag' \in [Craftsmen -> BOOLEAN]
    BY <1>1 DEF IInv, TypeOK
  <2>2. QED
    BY <1>1, <1>3, <2>1 DEF IInv, TypeOK
<1>5. FlagWasEarned'
  <2> SUFFICES ASSUME NEW d \in Craftsmen, role'[d] = "craftsman", flag'[d]
               PROVE  WasAccepted(d)
    BY <1>3 DEF FlagWasEarned
  <2>1. d # c
    BY <1>1 DEF IInv, TypeOK
  <2>2. role[d] = "craftsman" /\ flag[d]
    BY <1>1, <2>1 DEF IInv, TypeOK
  <2>3. QED
    BY <2>2 DEF IInv, FlagWasEarned
<1>6. QED
    BY <1>3, <1>4, <1>5 DEF IInv

LEMMA ReadForProfileStep ==
    ASSUME ModerationAssumption, IInv, NEW r \in Requests, ReadForProfile(r)
    PROVE  IInv'
<1> DEFINE label == "insert"
           count == 0
<1> USE DEF profileVars, userVars, sessionVars
<1>1. PICK c \in Craftsmen, kind \in {"onboard", "create"} :
          /\ pc[r] = "idle"
          /\ req' = [req EXCEPT ![r] = [kind |-> kind, craftsman |-> c, count |-> count]]
          /\ pc' = [pc EXCEPT ![r] = label]
          /\ UNCHANGED <<status, strikes, mark, role, flag, deleted, outbox, webhooks,
                         token, sync, seen, log>>
    BY DEF ReadForProfile, Receive, Goto
<1>2. /\ kind \in {"choose", "onboard", "create", "freeze"}
      /\ label \in {"ok", "insert", "freeze"}
      /\ count \in Nat
      /\ label = "freeze" => kind = "freeze" /\ count = strikes[c] + 1
      /\ label = "insert" => kind \in {"onboard", "create"}
    OBVIOUS
<1> HIDE DEF label, count
<1>3. /\ LogInv' /\ PcInv' /\ CountInv' /\ CascadeInv' /\ EarnInv'
      /\ StrikeOutBans' /\ BanIsDeserved' /\ BanIsAnnounced'
      /\ pc' \in [Requests -> InFlight \cup {"idle", "ok", "failed"}]
      /\ req' \in [Requests -> [kind: Kinds, craftsman: Craftsmen \cup {NoOne}, count: Nat]]
      /\ \A d : WasAccepted(d)' = WasAccepted(d)
    BY <1>1, <1>2, IdleStep
<1>4. TypeOK' /\ FlagWasEarned'
    BY <1>1, <1>3 DEF IInv, TypeOK, FlagWasEarned
<1>5. QED
    BY <1>3, <1>4 DEF IInv

LEMMA ReadForFreezeStep ==
    ASSUME ModerationAssumption, IInv, NEW r \in Requests, ReadForFreeze(r)
    PROVE  IInv'
<1> DEFINE kind == "freeze"
           label == "freeze"
<1> USE DEF profileVars, userVars, sessionVars
<1>1. PICK c \in Craftsmen :
          /\ pc[r] = "idle"
          /\ req' = [req EXCEPT ![r] =
                 [kind |-> kind, craftsman |-> c, count |-> strikes[c] + 1]]
          /\ pc' = [pc EXCEPT ![r] = label]
          /\ UNCHANGED <<status, strikes, mark, role, flag, deleted, outbox, webhooks,
                         token, sync, seen, log>>
    BY DEF ReadForFreeze, Receive, Goto
<1>2. /\ kind \in {"choose", "onboard", "create", "freeze"}
      /\ label \in {"ok", "insert", "freeze"}
      /\ strikes[c] + 1 \in Nat
      /\ label = "freeze" => kind = "freeze" /\ strikes[c] + 1 = strikes[c] + 1
      /\ label = "insert" => kind \in {"onboard", "create"}
    BY DEF IInv, TypeOK
<1> HIDE DEF kind, label
<1>3. /\ LogInv' /\ PcInv' /\ CountInv' /\ CascadeInv' /\ EarnInv'
      /\ StrikeOutBans' /\ BanIsDeserved' /\ BanIsAnnounced'
      /\ pc' \in [Requests -> InFlight \cup {"idle", "ok", "failed"}]
      /\ req' \in [Requests -> [kind: Kinds, craftsman: Craftsmen \cup {NoOne}, count: Nat]]
      /\ \A d : WasAccepted(d)' = WasAccepted(d)
    BY <1>1, <1>2, IdleStep
<1>4. TypeOK' /\ FlagWasEarned'
    BY <1>1, <1>3 DEF IInv, TypeOK, FlagWasEarned
<1>5. QED
    BY <1>3, <1>4 DEF IInv

LEMMA UpdateFrozenStep ==
    ASSUME ModerationAssumption, IInv, NEW r \in Requests, UpdateFrozen(r)
    PROVE  IInv'
<1> DEFINE label == "append"
<1> USE DEF profileVars, userVars, sessionVars
<1>0. /\ req[r].craftsman \in Craftsmen /\ req[r].count \in Nat
      /\ req[r].kind = "freeze"
      /\ req[r].count <= Cardinality(Freezes(req[r].craftsman)) + 1
    BY DEF UpdateFrozen, IInv, TypeOK, PcInv, PcOK, CountInv
<1>a. PICK c \in Craftsmen : c = req[r].craftsman
    BY <1>0
<1>b. PICK n \in Nat : n = req[r].count
    BY <1>0
<1>c. PICK st \in {"rejected", "frozen"} : st = IF StruckOut(n) THEN "rejected" ELSE "frozen"
    OBVIOUS
<1>1. /\ pc[r] = "freeze"
      /\ status' = [status EXCEPT ![c] = st]
      /\ log' = log \cup {[by |-> r, craftsman |-> c, status |-> st]}
      /\ strikes' = [strikes EXCEPT ![c] = n]
      /\ mark' = [mark EXCEPT ![c] = "reason"]
      /\ pc' = [pc EXCEPT ![r] = label]
      /\ UNCHANGED <<role, flag, deleted, req, outbox, webhooks, token, sync, seen>>
    BY <1>a, <1>b, <1>c DEF UpdateFrozen, SetStatus, Goto
<1>2. /\ c \in Craftsmen /\ req[r].kind = "freeze" /\ n \in Nat
      /\ n <= Cardinality(Freezes(c)) + 1
      /\ req[r].craftsman = c /\ req[r].count = n
    BY <1>0, <1>a, <1>b
<1>3. /\ st \in Statuses /\ label \in {"flag", "append", "ok"} /\ label = "append"
      /\ st = "frozen" \/ st = "rejected"
      /\ pc[r] \in {"idle", "insert", "freeze"}
      /\ label = "append" => req'[r].kind \notin {"none", "choose", "create"}
      /\ label = "flag" => req'[r].kind \in {"approve", "reject"}
      /\ \A q \in Requests : q # r => req'[q] = req[q]
      /\ req'[r].craftsman = c
    BY <1>1, <1>2, <1>c DEF Statuses
<1> HIDE DEF label
<1>4. /\ LogInv' /\ PcInv'
      /\ \A d : r \notin Freezes(d)
      /\ \A d \in Craftsmen : d # c => Freezes(d)' = Freezes(d)
      /\ Freezes(c)' = IF req'[r].kind = "freeze"
                       THEN Freezes(c) \cup {r} ELSE Freezes(c)
      /\ \A d : WasAccepted(d) => WasAccepted(d)'
      /\ st \in {"approved", "frozen"} => WasAccepted(c)'
      /\ \A q \in Requests : q # r => pc'[q] = pc[q]
      /\ pc'[r] = label
    BY <1>1, <1>2, <1>3, LoggedStep
<1>5. Freezes(c)' = Freezes(c) \cup {r}
    BY <1>1, <1>2, <1>4
<1>6. /\ \A d : Cardinality(Freezes(d)) \in Nat
      /\ Cardinality(Freezes(c)') = Cardinality(Freezes(c)) + 1
    BY <1>4, <1>5, FreezesAreFinite, FS_AddElement
<1>7. TypeOK'
  <2>1. /\ status' \in [Craftsmen -> Statuses \cup {"none"}]
        /\ strikes' \in [Craftsmen -> Nat]
        /\ mark' \in [Craftsmen -> {"none", "reason", "permanent_ban"}]
    BY <1>1, <1>2, <1>3 DEF IInv, TypeOK
  <2>2. pc' \in [Requests -> InFlight \cup {"idle", "ok", "failed"}]
    BY <1>1, <1>3 DEF IInv, TypeOK, InFlight
  <2>3. log' \subseteq [by: Requests, craftsman: Craftsmen, status: Statuses]
    BY <1>1, <1>2, <1>3 DEF IInv, TypeOK
  <2>4. QED
    BY <1>1, <2>1, <2>2, <2>3 DEF IInv, TypeOK
<1>8. \A d \in Craftsmen : /\ Freezes(d) \subseteq Freezes(d)'
                           /\ Cardinality(Freezes(d)') \in Nat
                           /\ Cardinality(Freezes(d)) <= Cardinality(Freezes(d)')
  <2> SUFFICES ASSUME NEW d \in Craftsmen
               PROVE  /\ Freezes(d) \subseteq Freezes(d)'
                      /\ Cardinality(Freezes(d)') \in Nat
                      /\ Cardinality(Freezes(d)) <= Cardinality(Freezes(d)')
    OBVIOUS
  <2>1. Cardinality(Freezes(d)) \in Nat
    BY <1>6
  <2>2. CASE d = c
    <3>1. Freezes(d)' = Freezes(c)' /\ Freezes(d) = Freezes(c)
      BY <2>2
    <3>2. Cardinality(Freezes(d)') = Cardinality(Freezes(d)) + 1
      BY <1>6, <3>1
    <3>3. Freezes(d) \subseteq Freezes(d)'
      BY <1>5, <3>1
    <3>4. QED
      BY <2>1, <3>2, <3>3
  <2>3. CASE d # c
    <3>1. Freezes(d)' = Freezes(d)
      BY <1>4, <2>3
    <3>2. QED
      BY <2>1, <3>1
  <2>4. QED
    BY <2>2, <2>3
<1>9. CountInv'
  <2>1. \A d \in Craftsmen : strikes'[d] <= Cardinality(Freezes(d)')
    BY <1>1, <1>2, <1>4, <1>6 DEF IInv, TypeOK, CountInv
  <2>2. ASSUME NEW q \in Requests, pc'[q] = "freeze"
        PROVE  req'[q].count <= Cardinality(Freezes(req[q].craftsman)') + 1
    <3>1. q # r /\ pc[q] = "freeze" /\ req'[q] = req[q]
      BY <1>1, <1>3, <1>4, <2>2
    <3>2. PICK d \in Craftsmen : d = req[q].craftsman
      BY <3>1 DEF IInv, PcInv, PcOK
    <3>3. req[q].count <= Cardinality(Freezes(d)) + 1 /\ req[q].count \in Nat
      BY <3>1, <3>2 DEF IInv, TypeOK, CountInv
    <3>4. Freezes(req[q].craftsman)' = Freezes(d)'
      BY <3>1, <3>2 DEF Freezes
    <3>5. Cardinality(Freezes(d)') \in Nat /\ Cardinality(Freezes(d)) \in Nat
      BY <1>6, <1>8
    <3>6. Cardinality(Freezes(d)) <= Cardinality(Freezes(d)')
      BY <1>8
    <3>7. req[q].count <= Cardinality(Freezes(d)') + 1
      BY <3>3, <3>5, <3>6
    <3>8. QED
      BY <3>1, <3>4, <3>7
  <2>3. ASSUME NEW d \in Craftsmen, NEW q \in Freezes(d)'
        PROVE  req'[q].count <= Cardinality(Freezes(d)')
    <3>1. CASE q \in Freezes(d)
      <4>1. req[q].count <= Cardinality(Freezes(d)) /\ req[q].count \in Nat
        BY <3>1 DEF IInv, TypeOK, CountInv, Freezes
      <4>2. Cardinality(Freezes(d)') \in Nat
        BY <1>6, <1>8
      <4>3. req' = req
        BY <1>1
      <4>4. Cardinality(Freezes(d)) <= Cardinality(Freezes(d)')
        BY <1>8
      <4>5. QED
        BY <1>6, <4>1, <4>2, <4>3, <4>4
    <3>2. CASE q \notin Freezes(d)
      <4>1. q = r /\ d = c
        BY <1>4, <1>5, <2>3, <3>2
      <4>2. req'[r].count = n
        BY <1>1, <1>2
      <4>3. QED
        BY <1>2, <1>6, <4>1, <4>2
    <3>3. QED
      BY <3>1, <3>2
  <2>4. QED
    BY <2>1, <2>2, <2>3 DEF CountInv
<1>10. \A q \in webhooks : q \in Requests /\ q # r
    BY <1>1 DEF IInv, TypeOK, CascadeInv
<1>11. CascadeInv'
  <2>1. \A q \in Requests : pc'[q] \in {"cascade", "webhook"} => pc[q] = pc'[q]
    BY <1>3, <1>4
  <2>2. QED
    BY <1>1, <1>4, <1>10, <2>1 DEF IInv, CascadeInv, BannedEvent
<1>12. EarnInv'
  <2>1. \A d \in Craftsmen : Accepted(d)' => WasAccepted(d)'
    BY <1>1, <1>3, <1>4 DEF IInv, TypeOK, EarnInv, Accepted
  <2>2. ASSUME NEW q \in Requests, pc'[q] = "flag", req'[q].kind = "approve"
        PROVE  WasAccepted(req[q].craftsman)'
    <3>1. WasAccepted(req[q].craftsman) /\ req' = req
      BY <1>1, <1>3, <1>4, <2>2 DEF IInv, EarnInv
    <3>2. QED
      BY <1>1, <3>1 DEF WasAccepted
  <2>3. \A x \in Sessions : sync[x] = "write" /\ seen[x].accepted => WasAccepted(Holder[x])'
    BY <1>4 DEF IInv, EarnInv
  <2>4. QED
    BY <1>1, <2>1, <2>2, <2>3 DEF EarnInv
<1>13. StrikeOutBans'
  <2> SUFFICES ASSUME NEW d \in Craftsmen, strikes'[d] >= Threshold, ~deleted[d]
               PROVE  \E q \in Freezes(d)' : /\ StruckOut(req[q].count)
                                             /\ pc'[q] \in {"append", "cascade", "failed"}
    BY <1>1 DEF StrikeOutBans
  <2>1. CASE d = c
    <3>1. r \in Freezes(d)' /\ strikes'[d] = n /\ pc'[r] = "append"
      BY <1>1, <1>2, <1>3, <1>4, <1>5, <2>1 DEF IInv, TypeOK
    <3>2. StruckOut(req[r].count)
      BY <1>2, <3>1 DEF StruckOut, IInv, TypeOK
    <3>3. QED
      BY <3>1, <3>2
  <2>2. CASE d # c
    <3>1. strikes[d] >= Threshold
      BY <1>1, <2>2 DEF IInv, TypeOK
    <3>2. PICK q \in Freezes(d) : /\ StruckOut(req[q].count)
                                  /\ pc[q] \in {"append", "cascade", "failed"}
      BY <3>1 DEF IInv, StrikeOutBans
    <3>3. q \in Requests /\ q # r
      BY <1>4, <3>2 DEF Freezes
    <3>4. QED
      BY <1>4, <1>8, <3>2, <3>3
  <2>3. QED
    BY <2>1, <2>2
<1>14. BanIsDeserved'
  <2> SUFFICES ASSUME NEW d \in Craftsmen, deleted[d]
               PROVE  \/ \E q \in Requests : req[q].kind = "ban" /\ req[q].craftsman = d
                      \/ Cardinality(Freezes(d)') >= Threshold
    BY <1>1 DEF BanIsDeserved
  <2>1. \/ \E q \in Requests : req[q].kind = "ban" /\ req[q].craftsman = d
        \/ Cardinality(Freezes(d)) >= Threshold
    BY DEF IInv, BanIsDeserved
  <2>2. Cardinality(Freezes(d)') \in Nat /\ Cardinality(Freezes(d)) \in Nat
    BY <1>6, <1>8
  <2>3. Cardinality(Freezes(d)) <= Cardinality(Freezes(d)')
    BY <1>8
  <2>4. QED
    BY <2>1, <2>2, <2>3 DEF ModerationAssumption
<1>15. BanIsAnnounced' /\ FlagWasEarned'
    BY <1>1, <1>4 DEF IInv, BanIsAnnounced, FlagWasEarned
<1>16. QED
    BY <1>4, <1>7, <1>9, <1>11, <1>12, <1>13, <1>14, <1>15 DEF IInv

\* What a step of a JWT callback cannot touch.
LEMMA SessionStep ==
    ASSUME IInv,
           UNCHANGED <<status, strikes, mark, role, deleted, pc, req, outbox, webhooks, log>>
    PROVE  /\ LogInv' /\ PcInv' /\ CountInv' /\ CascadeInv'
           /\ StrikeOutBans' /\ BanIsDeserved' /\ BanIsAnnounced'
           /\ \A c : WasAccepted(c)' = WasAccepted(c) /\ Accepted(c)' = Accepted(c)
<1>1. \A c : Freezes(c)' = Freezes(c)
    BY DEF Freezes
<1>2. LogInv' /\ CascadeInv' /\ BanIsAnnounced'
    BY DEF IInv, LogInv, CascadeInv, BannedEvent, BanIsAnnounced
<1>3. PcInv'
  <2> SUFFICES ASSUME NEW r \in Requests
               PROVE  PcOK(r)'
    BY DEF PcInv
  <2>1. PcOK(r) /\ Freezes(req[r].craftsman)' = Freezes(req[r].craftsman)
    BY DEF IInv, PcInv, Freezes
  <2>2. Bans(r)' = Bans(r)
    BY DEF Bans
  <2>3. QED
    BY <2>1, <2>2 DEF PcOK
<1>4. CountInv'
    BY <1>1 DEF IInv, CountInv
<1>5. StrikeOutBans' /\ BanIsDeserved'
    BY <1>1 DEF IInv, StrikeOutBans, BanIsDeserved
<1>6. \A c : WasAccepted(c)' = WasAccepted(c) /\ Accepted(c)' = Accepted(c)
    BY DEF WasAccepted, Accepted
<1>7. QED
    BY <1>2, <1>3, <1>4, <1>5, <1>6

LEMMA SyncReadStep ==
    ASSUME ModerationAssumption, IInv, NEW s \in Sessions, SyncRead(s)
    PROVE  IInv'
<1> USE DEF profileVars, userVars
<1>1. /\ UNCHANGED <<status, strikes, mark, role, flag, deleted, pc, req, outbox, webhooks, log>>
      /\ \/ /\ seen' = [seen EXCEPT ![s].flag = flag[Holder[s]]]
            /\ sync' = [sync EXCEPT ![s] = "profile"]
            /\ token' = token
         \/ /\ token' = [token EXCEPT ![s] =
                   [role |-> role[Holder[s]], complete |-> flag[Holder[s]]]]
            /\ sync' = [sync EXCEPT ![s] = "idle"]
            /\ seen' = seen
    BY DEF SyncRead, Issue, Move
<1>2. /\ LogInv' /\ PcInv' /\ CountInv' /\ CascadeInv'
      /\ StrikeOutBans' /\ BanIsDeserved' /\ BanIsAnnounced'
      /\ \A c : WasAccepted(c)' = WasAccepted(c) /\ Accepted(c)' = Accepted(c)
    BY <1>1, SessionStep
<1>3. Holder[s] \in Craftsmen
    BY DEF ModerationAssumption
<1>4. /\ token' \in [Sessions -> [role: Roles \cup {"none"}, complete: BOOLEAN]]
      /\ sync' \in [Sessions -> {"idle", "profile", "write"}]
      /\ seen' \in [Sessions -> [flag: BOOLEAN, accepted: BOOLEAN]]
  <2>1. /\ seen[s] \in [flag: BOOLEAN, accepted: BOOLEAN]
        /\ flag[Holder[s]] \in BOOLEAN
        /\ role[Holder[s]] \in Roles
    BY <1>3 DEF IInv, TypeOK
  <2>2. [seen[s] EXCEPT !.flag = flag[Holder[s]]] \in [flag: BOOLEAN, accepted: BOOLEAN]
    BY <2>1
  <2>3. [role |-> role[Holder[s]], complete |-> flag[Holder[s]]]
            \in [role: Roles \cup {"none"}, complete: BOOLEAN]
    BY <2>1
  <2>4. seen' \in [Sessions -> [flag: BOOLEAN, accepted: BOOLEAN]]
    BY <1>1, <2>2 DEF IInv, TypeOK
  <2>5. token' \in [Sessions -> [role: Roles \cup {"none"}, complete: BOOLEAN]]
    BY <1>1, <2>3 DEF IInv, TypeOK
  <2>6. QED
    BY <1>1, <2>4, <2>5 DEF IInv, TypeOK
<1>5. TypeOK'
    BY <1>1, <1>4 DEF IInv, TypeOK
<1>6. EarnInv'
  <2>1. \A x \in Sessions : sync'[x] = "write" => sync[x] = "write" /\ seen'[x] = seen[x]
    BY <1>1 DEF IInv, TypeOK
  <2>2. QED
    BY <1>1, <1>2, <2>1 DEF IInv, EarnInv
<1>7. FlagWasEarned'
    BY <1>1, <1>2 DEF IInv, FlagWasEarned
<1>8. QED
    BY <1>2, <1>5, <1>6, <1>7 DEF IInv

LEMMA SyncProfileStep ==
    ASSUME ModerationAssumption, IInv, NEW s \in Sessions, SyncProfile(s)
    PROVE  IInv'
<1> USE DEF profileVars, userVars
<1>0. Accepted(Holder[s]) \in BOOLEAN
    BY DEF Accepted
<1>1. PICK accepted \in BOOLEAN : accepted = Accepted(Holder[s])
    BY <1>0, Zenon
<1>2. /\ UNCHANGED <<status, strikes, mark, role, flag, deleted, pc, req, outbox, webhooks, log>>
      /\ \/ /\ seen' = [seen EXCEPT ![s].accepted = accepted]
            /\ sync' = [sync EXCEPT ![s] = "write"]
            /\ token' = token
         \/ /\ token' = [token EXCEPT ![s] = [role |-> "craftsman", complete |-> accepted]]
            /\ sync' = [sync EXCEPT ![s] = "idle"]
            /\ seen' = seen
    BY <1>1 DEF SyncProfile, Issue, Move
<1>3. /\ LogInv' /\ PcInv' /\ CountInv' /\ CascadeInv'
      /\ StrikeOutBans' /\ BanIsDeserved' /\ BanIsAnnounced'
      /\ \A c : WasAccepted(c)' = WasAccepted(c) /\ Accepted(c)' = Accepted(c)
    BY <1>2, SessionStep
<1>4. accepted => WasAccepted(Holder[s])
    BY <1>1 DEF IInv, EarnInv, ModerationAssumption
<1>5. /\ token' \in [Sessions -> [role: Roles \cup {"none"}, complete: BOOLEAN]]
      /\ sync' \in [Sessions -> {"idle", "profile", "write"}]
      /\ seen' \in [Sessions -> [flag: BOOLEAN, accepted: BOOLEAN]]
  <2>1. seen[s] \in [flag: BOOLEAN, accepted: BOOLEAN]
    BY DEF IInv, TypeOK
  <2>2. [seen[s] EXCEPT !.accepted = accepted] \in [flag: BOOLEAN, accepted: BOOLEAN]
    BY <2>1
  <2>3. [role |-> "craftsman", complete |-> accepted]
            \in [role: Roles \cup {"none"}, complete: BOOLEAN]
    BY DEF Roles
  <2>4. seen' \in [Sessions -> [flag: BOOLEAN, accepted: BOOLEAN]]
    BY <1>2, <2>2 DEF IInv, TypeOK
  <2>5. token' \in [Sessions -> [role: Roles \cup {"none"}, complete: BOOLEAN]]
    BY <1>2, <2>3 DEF IInv, TypeOK
  <2>6. QED
    BY <1>2, <2>4, <2>5 DEF IInv, TypeOK
<1>6. TypeOK'
    BY <1>2, <1>5 DEF IInv, TypeOK
<1>7. EarnInv'
  <2>1. \A x \in Sessions \ {s} : sync'[x] = sync[x] /\ seen'[x] = seen[x]
    BY <1>2 DEF IInv, TypeOK
  <2>2. sync'[s] = "write" => seen'[s].accepted = accepted
    BY <1>2 DEF IInv, TypeOK
  <2>3. \A x \in Sessions : sync'[x] = "write" /\ seen'[x].accepted => WasAccepted(Holder[x])
    BY <1>4, <2>1, <2>2 DEF IInv, EarnInv
  <2>4. QED
    BY <1>2, <1>3, <2>3 DEF IInv, EarnInv
<1>8. FlagWasEarned'
    BY <1>2, <1>3 DEF IInv, FlagWasEarned
<1>9. QED
    BY <1>3, <1>6, <1>7, <1>8 DEF IInv

\* The write of the flag, or its failure, which may have committed.
LEMMA SyncEndStep ==
    ASSUME ModerationAssumption, IInv, NEW s \in Sessions, SyncWrite(s) \/ SyncFail(s)
    PROVE  IInv'
<1> USE DEF profileVars, sessionVars
<1>1. /\ UNCHANGED <<status, strikes, mark, role, deleted, pc, req, outbox, webhooks, log>>
      /\ seen' = seen
      /\ sync' = [sync EXCEPT ![s] = "idle"]
    BY DEF SyncWrite, SyncFail, Issue, Move
<1>2. /\ LogInv' /\ PcInv' /\ CountInv' /\ CascadeInv'
      /\ StrikeOutBans' /\ BanIsDeserved' /\ BanIsAnnounced'
      /\ \A c : WasAccepted(c)' = WasAccepted(c) /\ Accepted(c)' = Accepted(c)
    BY <1>1, SessionStep
<1>3. \/ flag' = flag
      \/ /\ sync[s] = "write"
         /\ flag' = [flag EXCEPT ![Holder[s]] = seen[s].accepted]
  <2>1. CASE SyncWrite(s)
    BY <2>1 DEF SyncWrite
  <2>2. CASE SyncFail(s)
    BY <2>2 DEF SyncFail, IInv, TypeOK
  <2>3. QED
    BY <2>1, <2>2
<1>4. token' \in [Sessions -> [role: Roles \cup {"none"}, complete: BOOLEAN]]
  <2>1. CASE SyncWrite(s)
    BY <2>1 DEF SyncWrite, Issue, IInv, TypeOK, Roles
  <2>2. CASE SyncFail(s)
    <3> DEFINE kept == IF token[s].role = "none" THEN "none" ELSE "craftsman"
    <3>1. token[s] \in [role: Roles \cup {"none"}, complete: BOOLEAN]
      BY DEF IInv, TypeOK
    <3>2. token' = [token EXCEPT ![s] = [token[s] EXCEPT !.role = kept]]
      BY <2>2 DEF SyncFail
    <3>3. kept \in Roles \cup {"none"}
      BY DEF Roles
    <3> HIDE DEF kept
    <3>4. [token[s] EXCEPT !.role = kept] \in [role: Roles \cup {"none"}, complete: BOOLEAN]
      BY <3>1, <3>3
    <3>5. QED
      BY <3>2, <3>4 DEF IInv, TypeOK
  <2>3. QED
    BY <2>1, <2>2
<1>5. TypeOK'
  <2>1. flag' \in [Craftsmen -> BOOLEAN]
    BY <1>3 DEF IInv, TypeOK
  <2>2. sync' \in [Sessions -> {"idle", "profile", "write"}]
    BY <1>1 DEF IInv, TypeOK
  <2>3. QED
    BY <1>1, <1>4, <2>1, <2>2 DEF IInv, TypeOK
<1>6. EarnInv'
  <2>1. \A x \in Sessions : sync'[x] = "write" => sync[x] = "write"
    BY <1>1 DEF IInv, TypeOK
  <2>2. QED
    BY <1>1, <1>2, <2>1 DEF IInv, EarnInv
<1>7. FlagWasEarned'
  <2> SUFFICES ASSUME NEW c \in Craftsmen, role[c] = "craftsman", flag'[c]
               PROVE  WasAccepted(c)
    BY <1>1, <1>2 DEF FlagWasEarned
  <2>1. CASE flag[c]
    BY <2>1 DEF IInv, FlagWasEarned
  <2>2. CASE ~flag[c]
    BY <1>3, <2>2 DEF IInv, TypeOK, EarnInv
  <2>3. QED
    BY <2>1, <2>2
<1>8. QED
    BY <1>2, <1>5, <1>6, <1>7 DEF IInv

-----------------------------------------------------------------------------
(***************************************************************************)
(* The theorems                                                            *)
(***************************************************************************)

LEMMA InitEstablishes ==
    ASSUME ModerationAssumption, Init
    PROVE  IInv
<1> USE DEF Init
<1>1. TypeOK
    BY DEF TypeOK, Kinds, Roles, InFlight, ModerationAssumption
<1>2. \A c : Freezes(c) = {}
    BY DEF Freezes
<1>3. LogInv /\ PcInv /\ CascadeInv
    BY DEF LogInv, PcInv, PcOK, CascadeInv, AfterWrite
<1>4. CountInv
  <2>1. \A c : Cardinality(Freezes(c)) = 0
    BY <1>2, FS_EmptySet
  <2>2. QED
    BY <1>2, <2>1 DEF CountInv
<1>5. EarnInv /\ FlagWasEarned
    BY DEF EarnInv, FlagWasEarned, Accepted
<1>6. StrikeOutBans /\ BanIsDeserved /\ BanIsAnnounced
    BY DEF StrikeOutBans, BanIsDeserved, BanIsAnnounced, ModerationAssumption
<1>7. QED
    BY <1>1, <1>3, <1>4, <1>5, <1>6 DEF IInv

LEMMA StutterPreserves ==
    ASSUME IInv, UNCHANGED vars
    PROVE  IInv'
<1>1. /\ UNCHANGED <<status, strikes, mark, role, deleted, pc, req, outbox, webhooks, log>>
      /\ UNCHANGED <<flag, token, sync, seen>>
    BY DEF vars, profileVars, userVars, sessionVars
<1>2. /\ LogInv' /\ PcInv' /\ CountInv' /\ CascadeInv'
      /\ StrikeOutBans' /\ BanIsDeserved' /\ BanIsAnnounced'
      /\ \A c : WasAccepted(c)' = WasAccepted(c) /\ Accepted(c)' = Accepted(c)
    BY <1>1, SessionStep
<1>3. TypeOK' /\ EarnInv' /\ FlagWasEarned'
    BY <1>1, <1>2 DEF IInv, TypeOK, EarnInv, FlagWasEarned
<1>4. QED
    BY <1>2, <1>3 DEF IInv

LEMMA NextPreserves ==
    ASSUME ModerationAssumption, IInv, Next
    PROVE  IInv'
<1>1. CASE \E r \in Requests : StartRequest(r) \/ ContinueRequest(r) \/ Fail(r)
  <2>1. PICK r \in Requests : StartRequest(r) \/ ContinueRequest(r) \/ Fail(r)
    BY <1>1
  <2>2. CASE StartRequest(r)
    BY <2>2, ChooseAccountStep, ReadForProfileStep, ApproveStep, RejectStep,
       ReadForFreezeStep, UnfreezeStep, BanStep DEF StartRequest
  <2>3. CASE ContinueRequest(r)
    BY <2>3, InsertProfileStep, FinishOnboardingStep, SetFlagStep, UpdateFrozenStep,
       AppendEventStep, DeleteUserStep, DispatchWebhookStep DEF ContinueRequest
  <2>4. CASE Fail(r)
    BY <2>4, FailStep
  <2>5. QED
    BY <2>1, <2>2, <2>3, <2>4
<1>2. CASE \E s \in Sessions : Sync(s) \/ SyncFail(s)
    BY <1>2, SyncReadStep, SyncProfileStep, SyncEndStep DEF Sync
<1>3. QED
    BY <1>1, <1>2 DEF Next

\* The strengthening is an invariant.
THEOREM Invariance == Spec => []IInv
<1>1. ModerationAssumption
    BY ModerationAssumption
<1>2. Init => IInv
    BY <1>1, InitEstablishes
<1>3. IInv /\ [Next]_vars => IInv'
    BY <1>1, NextPreserves, StutterPreserves
<1>4. QED
    BY <1>2, <1>3, PTL DEF Spec

\* Every table, handler and session holds a value of its type, and every event
\* has one of the names the outbox consumers know.
THEOREM TypeCorrect == Spec => []TypeOK
<1>1. IInv => TypeOK
    BY DEF IInv
<1>2. QED
    BY <1>1, Invariance, PTL

\* No race on the strike counter lets it stand at the threshold without the
\* account being deleted, unless that freeze is on its way or was cut short.
THEOREM StrikeOutAlwaysBans == Spec => []StrikeOutBans
<1>1. IInv => StrikeOutBans
    BY DEF IInv
<1>2. QED
    BY <1>1, Invariance, PTL

\* No account is deleted but for an admin's ban or for as many committed
\* freezes as the threshold asks for.
THEOREM BanAlwaysDeserved == Spec => []BanIsDeserved
<1>1. IInv => BanIsDeserved
    BY DEF IInv
<1>2. QED
    BY <1>1, Invariance, PTL

\* The event precedes the deletion and the deletion precedes the webhook.
THEOREM BanAlwaysAnnounced == Spec => []BanIsAnnounced
<1>1. IInv => BanIsAnnounced
    BY DEF IInv
<1>2. QED
    BY <1>1, Invariance, PTL

\* No stale write of the session sync, or of a handler overtaken by another,
\* gives the flag to a craftsman whose profile was never accepted.
THEOREM FlagAlwaysEarned == Spec => []FlagWasEarned
<1>1. IInv => FlagWasEarned
    BY DEF IInv
<1>2. QED
    BY <1>1, Invariance, PTL

-----------------------------------------------------------------------------
(***************************************************************************)
(* Moderation implements CraftsmanStanding                                 *)
(***************************************************************************)

\* A function that differs from another in one place.
LEMMA OneChanges ==
    ASSUME NEW S, NEW f, NEW g, NEW c \in S, NEW v,
           f = [d \in S |-> f[d]], g = [d \in S |-> g[d]],
           \A d \in S : g[d] = IF d = c THEN v ELSE f[d]
    PROVE  g = [f EXCEPT ![c] = v]
OBVIOUS

\* What a handler does after its first statement leaves the requests alone, so
\* only a freeze's UPDATE changes the record.
LEMMA RecordKept ==
    ASSUME UNCHANGED <<req, log>>
    PROVE  UNCHANGED Standing!record
BY DEF Standing!record, Frozen, Banned, OnceAccepted, Freezes, WasAccepted

LEMMA FateKept ==
    ASSUME UNCHANGED <<req, deleted, outbox, webhooks>>
    PROVE  UNCHANGED Fate
BY DEF Fate

LEMMA TrustedKept ==
    ASSUME UNCHANGED <<role, flag>>
    PROVE  UNCHANGED Trusted
BY DEF Trusted

\* A request that begins is on record only if it bans or is logged.
LEMMA BeginningOnRecord ==
    ASSUME ModerationAssumption, IInv, NEW r \in Requests, NEW c \in Craftsmen,
           NEW kind \in Kinds, NEW n, pc[r] = "idle", Receive(r, kind, c, n),
           UNCHANGED <<deleted, outbox, webhooks>>,
           log \subseteq log', \A w \in log' : w \in log \/ w.by = r,
           kind = "freeze" => log' = log
    PROVE  /\ UNCHANGED <<Frozen, Fate>>
           /\ Banned' = IF kind = "ban" THEN [Banned EXCEPT ![c] = TRUE] ELSE Banned
<1>1. /\ req'[r].kind = kind /\ req'[r].craftsman = c /\ req[r].kind = "none"
      /\ \A q \in Requests : q # r => req'[q] = req[q]
    BY DEF Receive, IInv, TypeOK, PcInv, PcOK
<1>2. \A d \in Craftsmen : r \notin Freezes(d) /\ r \notin Freezes(d)'
    BY <1>1 DEF Freezes, IInv, LogInv
<1>3. \A d \in Craftsmen : Freezes(d)' = Freezes(d)
  <2> SUFFICES ASSUME NEW d \in Craftsmen
               PROVE  Freezes(d)' = Freezes(d)
    OBVIOUS
  <2>1. \A q \in Requests \ {r} : q \in Freezes(d)' <=> q \in Freezes(d)
    BY <1>1, OthersKeepFreezes
  <2>2. Freezes(d) \subseteq Requests /\ Freezes(d)' \subseteq Requests
    BY DEF Freezes
  <2>3. \A q : q \in Freezes(d)' <=> q \in Freezes(d)
    BY <1>2, <2>1, <2>2
  <2> QED
    BY <2>3
<1>4. UNCHANGED Fate
  <2>1. \A q \in webhooks : q \in Requests /\ q # r
    BY DEF IInv, TypeOK, CascadeInv
  <2>2. QED
    BY <1>1, <2>1 DEF Fate
<1>5. CASE kind = "ban"
  <2>0. PICK yes \in BOOLEAN : yes = TRUE
    OBVIOUS
  <2>1. \A d \in Craftsmen : Banned'[d] = IF d = c THEN yes ELSE Banned[d]
    BY <1>1, <1>5, <2>0 DEF Banned
  <2>2. Banned = [d \in Craftsmen |-> Banned[d]] /\ Banned' = [d \in Craftsmen |-> Banned'[d]]
    BY DEF Banned
  <2>3. Banned' = [Banned EXCEPT ![c] = yes]
    BY <2>1, <2>2, OneChanges
  <2>4. Banned' = [Banned EXCEPT ![c] = TRUE]
    BY <2>0, <2>3
  <2> QED
    BY <1>3, <1>4, <1>5, <2>4 DEF Frozen
<1>6. CASE kind # "ban"
  <2>1. Banned' = Banned
    BY <1>1, <1>6 DEF Banned
  <2> QED
    BY <1>3, <1>4, <1>6, <2>1 DEF Frozen
<1>7. QED
    BY <1>5, <1>6

\* A status that is written is an acceptance or is not.
LEMMA StatusOnRecord ==
    ASSUME NEW r, NEW c \in Craftsmen, NEW s, SetStatus(r, c, s)
    PROVE  OnceAccepted' = IF s \in {"approved", "frozen"}
                           THEN [OnceAccepted EXCEPT ![c] = TRUE] ELSE OnceAccepted
<1> DEFINE entry == [by |-> r, craftsman |-> c, status |-> s]
<1>1. log' = log \cup {entry} /\ entry.craftsman = c /\ entry.status = s
    BY DEF SetStatus
<1> HIDE DEF entry
<1>2. \A d \in Craftsmen :
         WasAccepted(d)' <=> WasAccepted(d) \/ (d = c /\ s \in {"approved", "frozen"})
    BY <1>1 DEF WasAccepted
<1>3. CASE s \in {"approved", "frozen"}
  <2>0. PICK yes \in BOOLEAN : yes = TRUE
    OBVIOUS
  <2>1. \A d \in Craftsmen : OnceAccepted'[d] = IF d = c THEN yes ELSE OnceAccepted[d]
    BY <1>2, <1>3, <2>0 DEF OnceAccepted, WasAccepted
  <2>2. /\ OnceAccepted = [d \in Craftsmen |-> OnceAccepted[d]]
        /\ OnceAccepted' = [d \in Craftsmen |-> OnceAccepted'[d]]
    BY DEF OnceAccepted
  <2>3. OnceAccepted' = [OnceAccepted EXCEPT ![c] = yes]
    BY <2>1, <2>2, OneChanges
  <2>4. OnceAccepted' = [OnceAccepted EXCEPT ![c] = TRUE]
    BY <2>0, <2>3
  <2> QED
    BY <1>3, <2>4
<1>4. CASE s \notin {"approved", "frozen"}
  <2>1. \A d \in Craftsmen : WasAccepted(d)' = WasAccepted(d)
    BY <1>2, <1>4 DEF WasAccepted
  <2> QED
    BY <1>4, <2>1 DEF OnceAccepted
<1>5. QED
    BY <1>3, <1>4

\* What somebody passes for changes with role and flag, in favour only of who
\* was accepted.
LEMMA TrustOnRecord ==
    ASSUME NEW c \in Craftsmen, UNCHANGED <<Standing!record, Fate>>,
           \A d \in Craftsmen : d # c => role'[d] = role[d] /\ flag'[d] = flag[d],
           role'[c] = "craftsman" /\ flag'[c] => WasAccepted(c) \/ Trusted[c]
    PROVE  Standing!StandingNext \/ UNCHANGED Standing!standingVars
<1> DEFINE b == role'[c] = "craftsman" /\ flag'[c]
<1>1. \A d \in Craftsmen : Trusted'[d] = IF d = c THEN b ELSE Trusted[d]
    BY DEF Trusted
<1>2. Trusted = [d \in Craftsmen |-> Trusted[d]] /\ Trusted' = [d \in Craftsmen |-> Trusted'[d]]
    BY DEF Trusted
<1>3. Trusted' = [Trusted EXCEPT ![c] = b]
    BY <1>1, <1>2, OneChanges
<1>4. CASE b => WasAccepted(c)
  <2>1. b \in BOOLEAN
    OBVIOUS
  <2>2. b => OnceAccepted[c]
    BY <1>4 DEF OnceAccepted
  <2> HIDE DEF b
  <2>3. Standing!Believe(c, b)
    BY <1>3, <2>2 DEF Standing!Believe
  <2> QED
    BY <2>1, <2>3 DEF Standing!StandingNext
<1>5. CASE b /\ Trusted[c]
  <2>1. \A d \in Craftsmen : Trusted'[d] = Trusted[d]
    BY <1>1, <1>5 DEF Trusted
  <2>2. Trusted' = Trusted
    BY <1>2, <2>1
  <2> QED
    BY <2>2 DEF Standing!standingVars
<1>6. QED
    BY <1>4, <1>5

\* The fate of one craftsman takes a step.
LEMMA FateMoves ==
    ASSUME NEW c \in Craftsmen, NEW to,
           \A d \in Craftsmen : Fate'[d] = IF d = c THEN to ELSE Fate[d]
    PROVE  Fate' = [Fate EXCEPT ![c] = to]
<1>1. Fate = [d \in Craftsmen |-> Fate[d]] /\ Fate' = [d \in Craftsmen |-> Fate'[d]]
    BY DEF Fate
<1>2. QED
    BY <1>1, OneChanges

-----------------------------------------------------------------------------
(***************************************************************************)
(* Each step is a step of the standing or leaves it alone                  *)
(***************************************************************************)

\* Requests that decide or read in their first statement.
LEMMA StartStanding ==
    ASSUME ModerationAssumption, IInv, NEW r \in Requests, StartRequest(r)
    PROVE  Standing!StandingNext \/ UNCHANGED Standing!standingVars
<1> USE DEF profileVars, userVars, sessionVars
<1>1. CASE ChooseAccount(r)
  <2>1. PICK c \in Craftsmen, chosen \in Roles :
           /\ pc[r] = "idle" /\ Receive(r, "choose", c, 0)
           /\ role' = [role EXCEPT ![c] = chosen]
           /\ flag' = [flag EXCEPT ![c] = chosen = "client"]
           /\ UNCHANGED <<deleted, outbox, webhooks, log>>
    BY <1>1 DEF ChooseAccount
  <2>2. UNCHANGED <<Frozen, Fate, Banned>>
    <3>1. "choose" \in Kinds
      BY DEF Kinds
    <3>2. QED
      BY <2>1, <3>1, BeginningOnRecord
  <2>3. UNCHANGED <<Standing!record, Fate>>
    BY <2>1, <2>2 DEF Standing!record, OnceAccepted, WasAccepted
  <2>4. /\ \A d \in Craftsmen : d # c => role'[d] = role[d] /\ flag'[d] = flag[d]
        /\ ~(role'[c] = "craftsman" /\ flag'[c])
    BY <2>1 DEF IInv, TypeOK, Roles
  <2> QED
    BY <2>3, <2>4, TrustOnRecord
<1>2. CASE ReadForProfile(r) \/ ReadForFreeze(r)
  <2>0. /\ pc[r] = "idle"
        /\ UNCHANGED <<role, flag, deleted, outbox, webhooks, log>>
    BY <1>2 DEF ReadForProfile, ReadForFreeze
  <2>1. PICK c \in Craftsmen, kind \in {"onboard", "create", "freeze"} :
           \E n : Receive(r, kind, c, n)
    <3>1. CASE ReadForProfile(r)
      BY <3>1 DEF ReadForProfile
    <3>2. CASE ReadForFreeze(r)
      <4>1. PICK c \in Craftsmen : Receive(r, "freeze", c, strikes[c] + 1)
        BY <3>2 DEF ReadForFreeze
      <4> QED
        BY <4>1
    <3> QED
      BY <1>2, <3>1, <3>2
  <2>2. UNCHANGED <<Frozen, Fate, Banned>>
    <3>1. kind \in Kinds /\ kind # "ban"
      BY DEF Kinds
    <3>2. QED
      BY <2>0, <2>1, <3>1, BeginningOnRecord
  <2> QED
    BY <2>0, <2>2, TrustedKept DEF Standing!standingVars, Standing!record, OnceAccepted, WasAccepted
<1>3. CASE Approve(r) \/ Reject(r) \/ Unfreeze(r) \/ Ban(r)
  <2>1. PICK c \in Craftsmen, kind \in {"approve", "reject", "unfreeze", "ban"},
             s \in {"approved", "rejected", "pending"} :
           /\ pc[r] = "idle" /\ Receive(r, kind, c, 0) /\ SetStatus(r, c, s)
           /\ s = "approved" => kind = "approve"
           /\ UNCHANGED <<role, flag, deleted, outbox, webhooks>>
    BY <1>3 DEF Approve, Reject, Unfreeze, Ban
  <2>2. /\ UNCHANGED <<Frozen, Fate>>
        /\ Banned' = IF kind = "ban" THEN [Banned EXCEPT ![c] = TRUE] ELSE Banned
    <3>1. kind \in Kinds /\ kind # "freeze"
      BY DEF Kinds
    <3>2. log \subseteq log' /\ \A w \in log' : w \in log \/ w.by = r
      BY <2>1 DEF SetStatus
    <3>3. QED
      BY <2>1, <3>1, <3>2, BeginningOnRecord
  <2>3. OnceAccepted' = IF s = "approved" THEN [OnceAccepted EXCEPT ![c] = TRUE] ELSE OnceAccepted
    BY <2>1, StatusOnRecord
  <2>4. UNCHANGED Trusted
    BY <2>1, TrustedKept
  <2>5. CASE s = "approved"
    <3>1. Standing!Accept(c)
      BY <2>1, <2>2, <2>3, <2>4, <2>5 DEF Standing!Accept
    <3>2. QED
      BY <3>1 DEF Standing!StandingNext
  <2>6. CASE kind = "ban" /\ s # "approved"
    <3>1. Standing!Ban(c)
      BY <2>2, <2>3, <2>4, <2>6 DEF Standing!Ban
    <3>2. QED
      BY <3>1 DEF Standing!StandingNext
  <2>7. CASE kind # "ban" /\ s # "approved"
    BY <2>2, <2>3, <2>4, <2>7 DEF Standing!standingVars, Standing!record
  <2> QED
    BY <2>5, <2>6, <2>7
<1>4. QED
    BY <1>1, <1>2, <1>3 DEF StartRequest

\* The INSERT of a profile is nothing to the standing: the profile is pending.
LEMMA InsertStanding ==
    ASSUME ModerationAssumption, IInv, NEW r \in Requests, InsertProfile(r)
    PROVE  UNCHANGED Standing!standingVars
<1> USE DEF profileVars, userVars, sessionVars
<1> DEFINE c == req[r].craftsman
<1>1. /\ c \in Craftsmen /\ req[r].kind # "freeze"
      /\ UNCHANGED <<role, flag, deleted, req, outbox, webhooks>>
    BY DEF InsertProfile, IInv, PcInv, PcOK
<1>2. UNCHANGED <<Fate, Trusted, Banned>>
    BY <1>1, FateKept, TrustedKept DEF Banned
<1>3. CASE log' = log
    BY <1>1, <1>2, <1>3, RecordKept DEF Standing!standingVars
<1>4. CASE SetStatus(r, c, "pending")
  <2>0. PICK s \in {"pending"} : SetStatus(r, c, s)
    BY <1>4
  <2> HIDE DEF c
  <2>1. OnceAccepted' = OnceAccepted
    BY <1>1, <2>0, StatusOnRecord
  <2>2. /\ log \subseteq log' /\ \A w \in log' : w \in log \/ w.by = r
    BY <1>4 DEF SetStatus
  <2>3. \A d \in Craftsmen : Freezes(d)' = Freezes(d)
    <3>1. \A d \in Craftsmen, q \in Requests \ {r} : q \in Freezes(d)' <=> q \in Freezes(d)
      BY <1>1, <2>2, OthersKeepFreezes
    <3>2. \A d \in Craftsmen : /\ r \notin Freezes(d) /\ r \notin Freezes(d)'
                               /\ Freezes(d) \subseteq Requests /\ Freezes(d)' \subseteq Requests
      BY <1>1 DEF Freezes
    <3>3. QED
      BY <3>1, <3>2
  <2>4. UNCHANGED Frozen
    BY <2>3 DEF Frozen
  <2> QED
    BY <1>2, <2>1, <2>4 DEF Standing!standingVars, Standing!record
<1>5. QED
    BY <1>3, <1>4 DEF InsertProfile

\* A freeze counts once, and only one that may be the last leaves the
\* craftsman not accepted.
LEMMA FreezeStanding ==
    ASSUME ModerationAssumption, IInv, NEW r \in Requests, UpdateFrozen(r)
    PROVE  Standing!StandingNext
<1> USE DEF profileVars, userVars, sessionVars
<1> DEFINE c == req[r].craftsman
           st == IF StruckOut(req[r].count) THEN "rejected" ELSE "frozen"
           entry == [by |-> r, craftsman |-> c, status |-> st]
<1>1. /\ pc[r] = "freeze" /\ c \in Craftsmen /\ req[r].kind = "freeze"
      /\ req[r].count \in Nat /\ req[r].count <= Cardinality(Freezes(c)) + 1
      /\ SetStatus(r, c, st)
      /\ UNCHANGED <<role, flag, deleted, req, outbox, webhooks>>
    BY DEF UpdateFrozen, IInv, TypeOK, PcInv, PcOK, CountInv
<1>2. UNCHANGED <<Fate, Trusted, Banned>>
    BY <1>1, FateKept, TrustedKept DEF Banned
<1>3. log' = log \cup {entry} /\ entry.by = r /\ entry.craftsman = c
    BY <1>1 DEF SetStatus
<1> HIDE DEF entry, st
<1>4. \A d \in Craftsmen : r \notin Freezes(d)
    BY <1>1 DEF IInv, LogInv, Freezes
<1>5. \A d \in Craftsmen : Freezes(d)' = IF d = c THEN Freezes(d) \cup {r} ELSE Freezes(d)
    BY <1>1, <1>3 DEF Freezes
<1>6. \A d \in Craftsmen : Cardinality(Freezes(d)) \in Nat
    BY FreezesAreFinite
<1>7. Frozen' = [Frozen EXCEPT ![c] = @ + 1]
  <2>1. Cardinality(Freezes(c) \cup {r}) = Cardinality(Freezes(c)) + 1
    BY <1>1, <1>4, FreezesAreFinite, FS_AddElement
  <2>2. \A d \in Craftsmen : Frozen'[d] = IF d = c THEN Frozen[c] + 1 ELSE Frozen[d]
    BY <1>1, <1>5, <2>1 DEF Frozen
  <2>3. Frozen = [d \in Craftsmen |-> Frozen[d]] /\ Frozen' = [d \in Craftsmen |-> Frozen'[d]]
    BY DEF Frozen
  <2>4. Frozen' = [Frozen EXCEPT ![c] = Frozen[c] + 1]
    BY <1>1, <2>2, <2>3, OneChanges
  <2> QED
    BY <2>4
<1>8. \/ OnceAccepted' = [OnceAccepted EXCEPT ![c] = TRUE]
      \/ Frozen[c] + 1 >= Threshold /\ UNCHANGED OnceAccepted
  <2>1. OnceAccepted' = IF st \in {"approved", "frozen"}
                        THEN [OnceAccepted EXCEPT ![c] = TRUE] ELSE OnceAccepted
    BY <1>1, StatusOnRecord
  <2>2. st = "frozen" \/ (st = "rejected" /\ req[r].count >= Threshold)
    BY DEF st, StruckOut
  <2>3. req[r].count >= Threshold => Frozen[c] + 1 >= Threshold
    BY <1>1, <1>6 DEF Frozen, ModerationAssumption
  <2> QED
    BY <2>1, <2>2, <2>3
<1>9. Standing!Freeze(c)
    BY <1>2, <1>7, <1>8 DEF Standing!Freeze
<1>10. QED
    BY <1>1, <1>9 DEF Standing!StandingNext

\* A request's event announces a ban if it is one and the first.
LEMMA AppendStanding ==
    ASSUME ModerationAssumption, IInv, NEW r \in Requests, AppendEvent(r)
    PROVE  Standing!StandingNext \/ UNCHANGED Standing!standingVars
<1> USE DEF profileVars, userVars, sessionVars
<1> DEFINE c == req[r].craftsman
           name == IF Bans(r) THEN "banned" ELSE EventOf[req[r].kind]
           event == [by |-> r, craftsman |-> c, name |-> name]
<1>1. /\ pc[r] = "append" /\ c \in Craftsmen
      /\ req[r].kind \in Kinds \ {"none", "choose", "create"}
      /\ outbox' = outbox \cup {event} /\ event.craftsman = c /\ event.name = name
      /\ UNCHANGED <<role, flag, deleted, req, webhooks, log>>
    BY DEF AppendEvent, IInv, TypeOK, PcInv, PcOK, AfterWrite
<1>2. name = "banned" <=> Bans(r)
    BY <1>1 DEF Kinds, EventOf, Bans
<1> HIDE DEF event, name
<1>3. UNCHANGED <<Standing!record, Trusted>>
    BY <1>1, RecordKept, TrustedKept
<1>4. CASE Bans(r) /\ Fate[c] = "none"
  <2>1. \A d \in Craftsmen : Fate'[d] = IF d = c THEN "announced" ELSE Fate[d]
    BY <1>1, <1>2, <1>4 DEF Fate
  <2>2. Fate' = [Fate EXCEPT ![c] = "announced"]
    BY <1>1, <2>1, FateMoves
  <2>3. Banned[c] \/ Frozen[c] >= Threshold
    <3>1. CASE req[r].kind = "ban"
      BY <1>1, <3>1 DEF Banned
    <3>2. CASE req[r].kind = "freeze" /\ StruckOut(req[r].count)
      <4>1. r \in Freezes(c)
        BY <1>1, <3>2 DEF IInv, PcInv, PcOK, AfterWrite
      <4>2. req[r].count <= Cardinality(Freezes(c))
        BY <1>1, <4>1 DEF IInv, CountInv
      <4>3. Cardinality(Freezes(c)) \in Nat /\ req[r].count \in Nat
        BY FreezesAreFinite DEF IInv, TypeOK
      <4> QED
        BY <1>1, <3>2, <4>2, <4>3 DEF Frozen, StruckOut, ModerationAssumption
    <3>3. QED
      BY <1>4, <3>1, <3>2 DEF Bans
  <2>4. Standing!Announce(c)
    BY <1>3, <1>4, <2>2, <2>3 DEF Standing!Announce, Standing!Advance
  <2> QED
    BY <1>1, <2>4 DEF Standing!StandingNext
<1>5. CASE ~(Bans(r) /\ Fate[c] = "none")
  <2>1. \A d \in Craftsmen : Fate'[d] = Fate[d]
    BY <1>1, <1>2, <1>5 DEF Fate
  <2>2. UNCHANGED Fate
    BY <2>1 DEF Fate
  <2> QED
    BY <1>3, <2>2 DEF Standing!standingVars
<1>6. QED
    BY <1>4, <1>5

\* The cascade deletes the user and then reports it, unless another ban has.
LEMMA CascadeStanding ==
    ASSUME ModerationAssumption, IInv, NEW r \in Requests, DeleteUser(r) \/ DispatchWebhook(r)
    PROVE  Standing!StandingNext \/ UNCHANGED Standing!standingVars
<1> USE DEF profileVars, userVars, sessionVars
<1> DEFINE c == req[r].craftsman
<1>1. /\ c \in Craftsmen /\ pc[r] \in {"cascade", "webhook"} /\ BannedEvent(c)
      /\ UNCHANGED <<role, flag, req, outbox, log>>
    BY DEF DeleteUser, DispatchWebhook, IInv, PcInv, PcOK, AfterWrite, CascadeInv
<1>2. UNCHANGED <<Standing!record, Trusted>>
    BY <1>1, RecordKept, TrustedKept
<1>3. CASE UNCHANGED Fate
    BY <1>2, <1>3 DEF Standing!standingVars
<1>4. CASE Fate' # Fate /\ DeleteUser(r)
  <2>1. deleted' = [deleted EXCEPT ![c] = TRUE] /\ UNCHANGED webhooks
    BY <1>4 DEF DeleteUser
  <2>2. \A d \in Craftsmen : d # c => Fate'[d] = Fate[d]
    BY <1>1, <2>1 DEF Fate, IInv, TypeOK
  <2>3. Fate[c] = "announced" /\ Fate'[c] = "deleted"
    <3>1. Fate'[c] # Fate[c]
      <4>1. Fate'[c] = Fate[c] => \A d \in Craftsmen : Fate'[d] = Fate[d]
        BY <2>2
      <4> QED
        BY <1>4, <4>1 DEF Fate
    <3>2. QED
      BY <1>1, <2>1, <3>1 DEF Fate, IInv, TypeOK, BannedEvent
  <2>4. Fate' = [Fate EXCEPT ![c] = "deleted"]
    BY <1>1, <2>2, <2>3, FateMoves
  <2>5. Standing!Delete(c)
    BY <1>2, <2>3, <2>4 DEF Standing!Delete, Standing!Advance
  <2> QED
    BY <1>1, <2>5 DEF Standing!StandingNext
<1>5. CASE Fate' # Fate /\ DispatchWebhook(r)
  <2>1. /\ webhooks' = webhooks \cup {r} \/ UNCHANGED webhooks
        /\ UNCHANGED deleted /\ deleted[c]
    BY <1>5 DEF DispatchWebhook, IInv, CascadeInv
  <2>2. \A d \in Craftsmen : d # c => Fate'[d] = Fate[d]
    BY <1>1, <2>1 DEF Fate
  <2>3. Fate[c] = "deleted" /\ Fate'[c] = "reported"
    <3>1. Fate'[c] # Fate[c]
      <4>1. Fate'[c] = Fate[c] => \A d \in Craftsmen : Fate'[d] = Fate[d]
        BY <2>2
      <4> QED
        BY <1>5, <4>1 DEF Fate
    <3>2. QED
      BY <1>1, <2>1, <3>1 DEF Fate
  <2>4. Fate' = [Fate EXCEPT ![c] = "reported"]
    BY <1>1, <2>2, <2>3, FateMoves
  <2>5. Standing!Report(c)
    BY <1>2, <2>3, <2>4 DEF Standing!Report, Standing!Advance
  <2> QED
    BY <1>1, <2>5 DEF Standing!StandingNext
<1>6. QED
    BY <1>3, <1>4, <1>5

\* The flag as an admin's decision or the onboarding route leaves it.
LEMMA FlagStanding ==
    ASSUME ModerationAssumption, IInv, NEW r \in Requests, SetFlag(r) \/ FinishOnboarding(r)
    PROVE  Standing!StandingNext \/ UNCHANGED Standing!standingVars
<1> USE DEF profileVars, userVars, sessionVars
<1> DEFINE c == req[r].craftsman
<1>1. /\ c \in Craftsmen
      /\ UNCHANGED <<deleted, req, outbox, webhooks, log>>
    BY DEF SetFlag, FinishOnboarding, IInv, PcInv, PcOK, AfterWrite
<1>2. UNCHANGED <<Standing!record, Fate>>
    BY <1>1, RecordKept, FateKept
<1>3. \A d \in Craftsmen : d # c => role'[d] = role[d] /\ flag'[d] = flag[d]
    BY <1>1 DEF SetFlag, FinishOnboarding, IInv, TypeOK
<1>4. flag'[c] => WasAccepted(c)
    BY <1>1 DEF SetFlag, FinishOnboarding, IInv, TypeOK, EarnInv
<1>5. QED
    BY <1>1, <1>2, <1>3, <1>4, TrustOnRecord

\* A session's callback writes what it has read.
LEMMA SessionStanding ==
    ASSUME ModerationAssumption, IInv, NEW s \in Sessions, Sync(s) \/ SyncFail(s)
    PROVE  Standing!StandingNext \/ UNCHANGED Standing!standingVars
<1> USE DEF profileVars, userVars
<1> DEFINE c == Holder[s]
<1>1. /\ c \in Craftsmen
      /\ UNCHANGED <<role, deleted, req, outbox, webhooks, log>>
    BY DEF Sync, SyncRead, SyncProfile, SyncWrite, SyncFail, ModerationAssumption
<1>2. UNCHANGED <<Standing!record, Fate>>
    BY <1>1, RecordKept, FateKept
<1>3. \/ flag' = flag
      \/ sync[s] = "write" /\ flag' = [flag EXCEPT ![c] = seen[s].accepted]
  <2>1. CASE SyncFail(s)
    <3>1. CASE sync[s] = "write"
      BY <2>1, <3>1 DEF SyncFail
    <3>2. CASE sync[s] # "write"
      <4>1. [flag EXCEPT ![c] = flag[c]] = flag
        BY DEF IInv, TypeOK
      <4> QED
        BY <2>1, <3>2, <4>1 DEF SyncFail
    <3> QED
      BY <3>1, <3>2
  <2>2. CASE Sync(s)
    BY <2>2 DEF Sync, SyncRead, SyncProfile, SyncWrite
  <2> QED
    BY <2>1, <2>2
<1>4. CASE flag' = flag
    BY <1>1, <1>2, <1>4, TrustedKept DEF Standing!standingVars
<1>5. CASE sync[s] = "write" /\ flag' = [flag EXCEPT ![c] = seen[s].accepted]
  <2>1. flag'[c] => WasAccepted(c)
    BY <1>1, <1>5 DEF IInv, TypeOK, EarnInv
  <2>2. \A d \in Craftsmen : d # c => role'[d] = role[d] /\ flag'[d] = flag[d]
    BY <1>1, <1>5 DEF IInv, TypeOK
  <2> QED
    BY <1>1, <1>2, <2>1, <2>2, TrustOnRecord
<1>6. QED
    BY <1>3, <1>4, <1>5

LEMMA InitStanding ==
    ASSUME ModerationAssumption, Init
    PROVE  Standing!StandingInit
<1> USE DEF Init
<1>1. \A c : Freezes(c) = {} /\ ~WasAccepted(c)
    BY DEF Freezes, WasAccepted
<1>2. \A c : Cardinality(Freezes(c)) = 0
    BY <1>1, FS_EmptySet
<1>3. Frozen = [c \in Craftsmen |-> 0]
    BY <1>2 DEF Frozen
<1>4. Banned = [c \in Craftsmen |-> FALSE]
    BY DEF Banned
<1>5. OnceAccepted = [c \in Craftsmen |-> FALSE]
    BY DEF OnceAccepted, WasAccepted
<1>6. Trusted = [c \in Craftsmen |-> FALSE]
    BY DEF Trusted
<1>7. Fate = [c \in Craftsmen |-> "none"]
    BY DEF Fate
<1>8. QED
    BY <1>3, <1>4, <1>5, <1>6, <1>7 DEF Standing!StandingInit

\* The tables of the moderation implement the standing: every statement of an
\* admin's request, of the cascade or of a session's callback is one step of
\* it or leaves it alone.
THEOREM ModerationImplementsStanding == Spec => ImplementsStanding
<1>1. Init => Standing!StandingInit
    BY InitStanding, ModerationAssumption
<1>2. IInv /\ [Next]_vars => [Standing!StandingNext]_(Standing!standingVars)
  <2>1. ASSUME IInv, NEW r \in Requests, StartRequest(r) \/ ContinueRequest(r) \/ Fail(r)
        PROVE  Standing!StandingNext \/ UNCHANGED Standing!standingVars
    <3>1. CASE StartRequest(r)
      BY <2>1, <3>1, StartStanding, ModerationAssumption
    <3>2. CASE ContinueRequest(r)
      BY <2>1, <3>2, InsertStanding, FreezeStanding, AppendStanding, CascadeStanding,
         FlagStanding, ModerationAssumption DEF ContinueRequest
    <3>3. CASE Fail(r)
      BY <3>3, RecordKept, FateKept, TrustedKept
         DEF Fail, profileVars, userVars, sessionVars, Standing!standingVars
    <3> QED
      BY <2>1, <3>1, <3>2, <3>3
  <2>2. ASSUME IInv, NEW s \in Sessions, Sync(s) \/ SyncFail(s)
        PROVE  Standing!StandingNext \/ UNCHANGED Standing!standingVars
    BY <2>2, SessionStanding, ModerationAssumption
  <2>3. UNCHANGED vars => UNCHANGED Standing!standingVars
    BY RecordKept, FateKept, TrustedKept DEF vars, userVars, Standing!standingVars
  <2> QED
    BY <2>1, <2>2, <2>3 DEF Next
<1>3. QED
    BY <1>1, <1>2, Invariance, PTL DEF Spec, ImplementsStanding, Standing!StandingSpec
=============================================================================
