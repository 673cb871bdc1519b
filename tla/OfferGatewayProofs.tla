-------------------------- MODULE OfferGatewayProofs -------------------------
(***************************************************************************)
(* Safety of OfferGateway for every set of drivers and orders and every    *)
(* bound.                                                                  *)
(***************************************************************************)
EXTENDS OfferGateway, TLAPS

\* The Map files an offer under its own driver and order.
EntryUnderItsKey ==
    \A k \in Keys :
        pendingResponses[k] # NoOffer => keyOf[pendingResponses[k]] = k

\* Whatever deletes an entry was set off by an answer that settled an offer.
DeletionFollowsAnswer ==
    \A k \in Keys :
        deleting[k] > 0 =>
            \E p \in Offers : keyOf[p] = k /\ outcome[p] # "pending"

IInv ==
    /\ TypeOK
    /\ EntryUnderItsKey
    /\ DeletionFollowsAnswer
    /\ OnlyTwinsAreOrphaned
    /\ SettledEntryIsLeaving
    /\ EarlyTimeoutHasCulprit
    /\ SoleOfferEndsByItsTimer

-----------------------------------------------------------------------------
\* What Settle returns: it changes the named offer, and only when pending.
LEMMA SettleResult ==
    ASSUME TypeOK, NEW o, NEW result \in Outcomes
    PROVE  /\ Settle(o, result) \in [Offers -> Outcomes]
           /\ \A p \in Offers :
                Settle(o, result)[p] =
                    IF p = o /\ outcome[p] = "pending" THEN result ELSE outcome[p]
BY DEF TypeOK, Settle

LEMMA InitHolds == GatewayInit => IInv
<1> SUFFICES ASSUME GatewayInit PROVE IInv
  OBVIOUS
<1> USE DEF GatewayInit
<1>1. Offers = {}
  BY DEF Offers
<1>2. TypeOK
  BY <1>1, BoundsAssumption DEF TypeOK, NoOffer
<1>3. EntryUnderItsKey /\ DeletionFollowsAnswer /\ SettledEntryIsLeaving
  BY DEF EntryUnderItsKey, DeletionFollowsAnswer, SettledEntryIsLeaving, NoOffer
<1>4. OnlyTwinsAreOrphaned /\ EarlyTimeoutHasCulprit /\ SoleOfferEndsByItsTimer
  BY <1>1 DEF OnlyTwinsAreOrphaned, EarlyTimeoutHasCulprit, SoleOfferEndsByItsTimer
<1> QED
  BY <1>2, <1>3, <1>4 DEF IInv

LEMMA NotifyKeepsIInv ==
    ASSUME IInv, NEW k \in Keys, NotifyAssignedDriver(k)
    PROVE  IInv'
<1> DEFINE new == Len(keyOf) + 1
<1> USE DEF IInv, NotifyAssignedDriver
<1>1. /\ Len(keyOf) \in Nat
      /\ Len(keyOf') = new
      /\ Offers' = Offers \cup {new}
      /\ new \notin Offers
      /\ new # NoOffer
  BY DEF TypeOK, Offers, NoOffer
<1>2. /\ keyOf'[new] = k
      /\ \A o \in Offers : keyOf'[o] = keyOf[o]
  BY <1>1 DEF TypeOK, Offers
<1>3. /\ outcome'[new] = "pending"
      /\ \A o \in Offers : outcome'[o] = outcome[o]
  BY <1>1 DEF TypeOK, Offers
<1>4. TypeOK'
  <2>1. keyOf' \in Seq(Keys)
    BY DEF TypeOK
  <2>2. outcome' \in [Offers' -> Outcomes]
    BY <1>1 DEF TypeOK, Offers, Outcomes
  <2>3. armed' \in SUBSET Offers'
    BY <1>1 DEF TypeOK
  <2>4. pendingResponses' \in [Keys -> Offers' \cup {NoOffer}]
    BY <1>1 DEF TypeOK
  <2> QED
    BY <2>1, <2>2, <2>3, <2>4 DEF TypeOK
<1>5. \A o \in Offers : Twins(o) \subseteq Twins(o)'
  BY <1>1, <1>2 DEF Twins
<1>6. \A o \in Offers : keyOf[o] = k => new \in Twins(o)'
  BY <1>1, <1>2 DEF Twins
<1>7. \A j \in Keys : pendingResponses'[j] =
        IF j = k THEN new ELSE pendingResponses[j]
  BY DEF TypeOK
<1>8. \A j \in Keys : pendingResponses[j] \in Offers \cup {NoOffer}
  BY DEF TypeOK
<1>9. EntryUnderItsKey'
  <2> SUFFICES ASSUME NEW j \in Keys, pendingResponses'[j] # NoOffer
               PROVE  keyOf'[pendingResponses'[j]] = j
    BY DEF EntryUnderItsKey
  <2>1. CASE j = k
    BY <2>1, <1>2, <1>7
  <2>2. CASE j # k
    <3>1. pendingResponses'[j] = pendingResponses[j] /\ pendingResponses[j] \in Offers
      BY <2>2, <1>7, <1>8
    <3> QED
      BY <3>1, <1>2 DEF EntryUnderItsKey
  <2> QED
    BY <2>1, <2>2
<1>10. DeletionFollowsAnswer'
  <2> SUFFICES ASSUME NEW j \in Keys, deleting'[j] > 0
               PROVE  \E p \in Offers' : keyOf'[p] = j /\ outcome'[p] # "pending"
    BY DEF DeletionFollowsAnswer
  <2>1. PICK p \in Offers : keyOf[p] = j /\ outcome[p] # "pending"
    BY DEF DeletionFollowsAnswer
  <2> QED
    BY <2>1, <1>1, <1>2, <1>3
<1>11. OnlyTwinsAreOrphaned'
  <2> SUFFICES ASSUME NEW o \in Offers', outcome'[o] = "pending",
                      pendingResponses'[keyOf'[o]] # o
               PROVE  Twins(o)' # {}
    BY DEF OnlyTwinsAreOrphaned
  <2>1. o \in Offers
    BY <1>1, <1>2, <1>7
  <2>2. CASE keyOf[o] = k
    BY <2>1, <2>2, <1>6
  <2>3. CASE keyOf[o] # k
    <3>1. keyOf[o] \in Keys
      BY <2>1 DEF TypeOK, Offers
    <3> QED
      BY <2>1, <2>3, <3>1, <1>2, <1>3, <1>5, <1>7 DEF OnlyTwinsAreOrphaned
  <2> QED
    BY <2>2, <2>3
<1>12. SettledEntryIsLeaving'
  BY <1>1, <1>3, <1>7, <1>8 DEF SettledEntryIsLeaving
<1>13. EarlyTimeoutHasCulprit'
  <2> SUFFICES ASSUME NEW o \in armed', outcome'[o] = "timeout"
               PROVE  \E p \in Twins(o)' : p < o /\ p \notin armed'
    BY DEF EarlyTimeoutHasCulprit
  <2>1. o \in armed /\ o \in Offers
    BY <1>1, <1>3 DEF TypeOK
  <2>2. PICK p \in Twins(o) : p < o /\ p \notin armed
    BY <2>1, <1>3 DEF EarlyTimeoutHasCulprit
  <2>3. p # new
    BY <2>2, <1>1 DEF Twins
  <2> QED
    BY <2>1, <2>2, <2>3, <1>5
<1>14. SoleOfferEndsByItsTimer'
  <2> SUFFICES ASSUME NEW o \in Offers', outcome'[o] = "pending", Twins(o)' = {}
               PROVE  o \in armed'
    BY DEF SoleOfferEndsByItsTimer
  <2>1. CASE o = new
    BY <2>1
  <2>2. CASE o \in Offers
    BY <2>2, <1>3, <1>5 DEF SoleOfferEndsByItsTimer
  <2> QED
    BY <2>1, <2>2, <1>1
<1> QED
  BY <1>4, <1>9, <1>10, <1>11, <1>12, <1>13, <1>14

LEMMA ResponseKeepsIInv ==
    ASSUME IInv, NEW k \in Keys, NEW answer \in Answers,
           HandleDriverResponse(k, answer)
    PROVE  IInv'
<1> DEFINE cur == pendingResponses[k]
<1>0. /\ TypeOK
      /\ cur \in Offers /\ keyOf[cur] = k
      /\ deleting' = [deleting EXCEPT ![k] = @ + 1]
      /\ deleting[k] < MaxReplies
      /\ keyOf' = keyOf /\ armed' = armed /\ pendingResponses' = pendingResponses
  BY DEF IInv, TypeOK, EntryUnderItsKey, HandleDriverResponse
<1>1. Offers' = Offers /\ \A o \in Offers : Twins(o)' = Twins(o)
  BY <1>0 DEF Offers, Twins
<1>2. /\ outcome' \in [Offers -> Outcomes]
      /\ \A o \in Offers :
           outcome'[o] = IF o = cur /\ outcome[o] = "pending"
                         THEN answer ELSE outcome[o]
  BY <1>0, SettleResult DEF HandleDriverResponse, Outcomes
<1>3. answer # "pending" /\ answer # "timeout"
  BY DEF Answers
<1>4. \A j \in Keys : deleting'[j] = IF j = k THEN deleting[j] + 1 ELSE deleting[j]
  BY <1>0 DEF TypeOK
<1>5. deleting' \in [Keys -> 0 .. MaxReplies]
  BY <1>0, BoundsAssumption DEF TypeOK
<1>6. TypeOK'
  BY <1>0, <1>1, <1>2, <1>5 DEF TypeOK
<1>7. EntryUnderItsKey'
  BY <1>0 DEF IInv, EntryUnderItsKey
<1>8. DeletionFollowsAnswer'
  <2> SUFFICES ASSUME NEW j \in Keys, deleting'[j] > 0
               PROVE  \E p \in Offers : keyOf[p] = j /\ outcome'[p] # "pending"
    BY <1>0, <1>1 DEF DeletionFollowsAnswer
  <2>1. CASE j = k
    BY <2>1, <1>0, <1>2, <1>3
  <2>2. CASE j # k
    <3>1. PICK p \in Offers : keyOf[p] = j /\ outcome[p] # "pending"
      BY <2>2, <1>4 DEF IInv, DeletionFollowsAnswer
    <3> QED
      BY <3>1, <1>2
  <2> QED
    BY <2>1, <2>2
<1>9. OnlyTwinsAreOrphaned'
  BY <1>0, <1>1, <1>2, <1>3 DEF IInv, OnlyTwinsAreOrphaned
<1>10. SettledEntryIsLeaving'
  <2> SUFFICES ASSUME NEW j \in Keys, pendingResponses[j] # NoOffer
               PROVE  outcome'[pendingResponses[j]] = "pending" \/ deleting'[j] > 0
    BY <1>0 DEF SettledEntryIsLeaving
  <2>1. pendingResponses[j] \in Offers /\ keyOf[pendingResponses[j]] = j
    BY <1>0 DEF IInv, TypeOK, EntryUnderItsKey
  <2>2. CASE j = k
    BY <2>2, <1>0, <1>4 DEF TypeOK
  <2>3. CASE j # k
    <3>1. outcome'[pendingResponses[j]] = outcome[pendingResponses[j]]
      BY <2>1, <2>3, <1>0, <1>2
    <3> QED
      BY <2>3, <3>1, <1>4 DEF IInv, SettledEntryIsLeaving
  <2> QED
    BY <2>2, <2>3
<1>11. EarlyTimeoutHasCulprit'
  BY <1>0, <1>1, <1>2, <1>3 DEF IInv, TypeOK, EarlyTimeoutHasCulprit
<1>12. SoleOfferEndsByItsTimer'
  BY <1>0, <1>1, <1>2, <1>3 DEF IInv, SoleOfferEndsByItsTimer
<1> QED
  BY <1>6, <1>7, <1>8, <1>9, <1>10, <1>11, <1>12 DEF IInv

LEMMA FinishKeepsIInv ==
    ASSUME IInv, NEW k \in Keys, FinishDriverResponse(k)
    PROVE  IInv'
<1>0. /\ TypeOK
      /\ deleting[k] > 0
      /\ deleting' = [deleting EXCEPT ![k] = @ - 1]
      /\ pendingResponses' = [pendingResponses EXCEPT ![k] = NoOffer]
      /\ keyOf' = keyOf /\ outcome' = outcome /\ armed' = armed
  BY DEF IInv, FinishDriverResponse
<1>1. Offers' = Offers /\ \A o \in Offers : Twins(o)' = Twins(o)
  BY <1>0 DEF Offers, Twins
<1>2. /\ \A j \in Keys : pendingResponses'[j] =
           IF j = k THEN NoOffer ELSE pendingResponses[j]
      /\ \A j \in Keys : deleting'[j] = IF j = k THEN deleting[j] - 1 ELSE deleting[j]
      /\ \A j \in Keys : deleting[j] \in Nat
  BY <1>0, BoundsAssumption DEF TypeOK
<1>3. TypeOK'
  <2>1. deleting' \in [Keys -> 0 .. MaxReplies]
    BY <1>0, BoundsAssumption DEF TypeOK
  <2>2. pendingResponses' \in [Keys -> Offers \cup {NoOffer}]
    BY <1>0 DEF TypeOK
  <2> QED
    BY <1>0, <1>1, <2>1, <2>2 DEF TypeOK
<1>4. EntryUnderItsKey'
  BY <1>0, <1>2 DEF IInv, EntryUnderItsKey
<1>5. DeletionFollowsAnswer'
  BY <1>0, <1>1, <1>2 DEF IInv, DeletionFollowsAnswer
<1>6. OnlyTwinsAreOrphaned'
  <2> SUFFICES ASSUME NEW o \in Offers, outcome[o] = "pending",
                      pendingResponses'[keyOf[o]] # o
               PROVE  Twins(o) # {}
    BY <1>0, <1>1 DEF OnlyTwinsAreOrphaned
  <2>1. keyOf[o] \in Keys
    BY <1>0 DEF TypeOK, Offers
  <2>2. CASE keyOf[o] = k
    <3>1. PICK p \in Offers : keyOf[p] = k /\ outcome[p] # "pending"
      BY <1>0 DEF IInv, DeletionFollowsAnswer
    <3> QED
      BY <2>2, <3>1 DEF Twins
  <2>3. CASE keyOf[o] # k
    BY <2>1, <2>3, <1>2 DEF IInv, OnlyTwinsAreOrphaned
  <2> QED
    BY <2>2, <2>3
<1>7. SettledEntryIsLeaving'
  BY <1>0, <1>2 DEF IInv, SettledEntryIsLeaving
<1>8. EarlyTimeoutHasCulprit'
  BY <1>0, <1>1 DEF IInv, TypeOK, EarlyTimeoutHasCulprit
<1>9. SoleOfferEndsByItsTimer'
  BY <1>0, <1>1 DEF IInv, SoleOfferEndsByItsTimer
<1> QED
  BY <1>3, <1>4, <1>5, <1>6, <1>7, <1>8, <1>9 DEF IInv

LEMMA TimerKeepsIInv ==
    ASSUME IInv, NEW t \in Offers, TimerExpires(t)
    PROVE  IInv'
<1> DEFINE k == keyOf[t]
           cur == pendingResponses[k]
<1>0. /\ TypeOK
      /\ k \in Keys
      /\ t \in armed /\ \A p \in armed : t <= p
      /\ armed' = armed \ {t}
      /\ pendingResponses' = [pendingResponses EXCEPT ![k] = NoOffer]
      /\ keyOf' = keyOf /\ deleting' = deleting
      /\ Offers \subseteq Nat
  BY DEF IInv, TypeOK, TimerExpires, Offers
<1>1. Offers' = Offers /\ \A o \in Offers : Twins(o)' = Twins(o)
  BY <1>0 DEF Offers, Twins
<1>2. /\ outcome' \in [Offers -> Outcomes]
      /\ \A o \in Offers :
           outcome'[o] = IF o = cur /\ outcome[o] = "pending"
                         THEN "timeout" ELSE outcome[o]
  BY <1>0, SettleResult DEF TimerExpires, Outcomes
<1>3. \A j \in Keys : pendingResponses'[j] =
        IF j = k THEN NoOffer ELSE pendingResponses[j]
  BY <1>0 DEF TypeOK
<1>4. \A j \in Keys : pendingResponses[j] # NoOffer =>
        pendingResponses[j] \in Offers /\ keyOf[pendingResponses[j]] = j
  BY DEF IInv, TypeOK, EntryUnderItsKey
<1>5. TypeOK'
  <2>1. pendingResponses' \in [Keys -> Offers \cup {NoOffer}]
    BY <1>0 DEF TypeOK
  <2> QED
    BY <1>0, <1>1, <1>2, <2>1 DEF TypeOK
<1>6. EntryUnderItsKey'
  BY <1>0, <1>3 DEF IInv, EntryUnderItsKey
<1>7. DeletionFollowsAnswer'
  BY <1>0, <1>1, <1>2 DEF IInv, DeletionFollowsAnswer
<1>8. OnlyTwinsAreOrphaned'
  <2> SUFFICES ASSUME NEW o \in Offers, outcome'[o] = "pending",
                      pendingResponses'[keyOf[o]] # o
               PROVE  Twins(o) # {}
    BY <1>0, <1>1 DEF OnlyTwinsAreOrphaned
  <2>1. keyOf[o] \in Keys /\ outcome[o] = "pending" /\ o # cur
    BY <1>0, <1>2 DEF TypeOK, Offers
  <2> QED
    BY <2>1, <1>3 DEF IInv, OnlyTwinsAreOrphaned
<1>9. SettledEntryIsLeaving'
  <2> SUFFICES ASSUME NEW j \in Keys, pendingResponses'[j] # NoOffer
               PROVE  outcome'[pendingResponses'[j]] = "pending" \/ deleting[j] > 0
    BY <1>0 DEF SettledEntryIsLeaving
  <2>1. j # k /\ pendingResponses'[j] = pendingResponses[j]
    BY <1>3
  <2>2. pendingResponses[j] \in Offers /\ keyOf[pendingResponses[j]] = j
    BY <1>4, <2>1
  <2>3. pendingResponses[j] # cur
    BY <1>0, <1>4, <2>1, <2>2
  <2>4. outcome'[pendingResponses[j]] = outcome[pendingResponses[j]]
    BY <1>2, <2>2, <2>3
  <2> QED
    BY <2>1, <2>4 DEF IInv, SettledEntryIsLeaving
<1>10. EarlyTimeoutHasCulprit'
  <2> SUFFICES ASSUME NEW o \in armed', outcome'[o] = "timeout"
               PROVE  \E p \in Twins(o) : p < o /\ p \notin armed'
    BY <1>0, <1>1 DEF TypeOK, EarlyTimeoutHasCulprit
  <2>1. o \in armed /\ o \in Offers /\ o # t /\ t < o
    BY <1>0 DEF TypeOK
  <2>2. CASE outcome[o] = "timeout"
    BY <2>1, <2>2, <1>0 DEF IInv, EarlyTimeoutHasCulprit
  <2>3. CASE outcome[o] # "timeout"
    <3>1. o = cur
      BY <2>1, <2>3, <1>2
    <3>2. keyOf[o] = k
      BY <1>0, <1>4, <2>1, <3>1 DEF NoOffer, Offers
    <3>3. t \in Twins(o)
      BY <2>1, <3>2 DEF Twins
    <3> QED
      BY <2>1, <3>3, <1>0
  <2> QED
    BY <2>2, <2>3
<1>11. SoleOfferEndsByItsTimer'
  <2> SUFFICES ASSUME NEW o \in Offers, outcome'[o] = "pending", Twins(o) = {}
               PROVE  o \in armed'
    BY <1>0, <1>1 DEF SoleOfferEndsByItsTimer
  <2>1. outcome[o] = "pending" /\ o # cur
    BY <1>2
  <2>2. o \in armed
    BY <2>1 DEF IInv, SoleOfferEndsByItsTimer
  <2>3. pendingResponses[keyOf[o]] = o
    BY <2>1 DEF IInv, OnlyTwinsAreOrphaned
  <2>4. o # t
    BY <2>1, <2>3
  <2> QED
    BY <2>2, <2>4, <1>0
<1> QED
  BY <1>5, <1>6, <1>7, <1>8, <1>9, <1>10, <1>11 DEF IInv

LEMMA RestartKeepsIInv ==
    ASSUME IInv, Restart
    PROVE  IInv'
<1>0. /\ TypeOK
      /\ keyOf' = keyOf /\ armed' = {}
      /\ pendingResponses' = [j \in Keys |-> NoOffer]
      /\ deleting' = [j \in Keys |-> 0]
      /\ \A o \in Offers : outcome'[o] # "pending"
  BY DEF IInv, TypeOK, Restart
<1>1. Offers' = Offers
  BY <1>0 DEF Offers
<1>2. TypeOK'
  <2>1. outcome' \in [Offers -> Outcomes]
    BY <1>0 DEF TypeOK, Restart, Outcomes
  <2> QED
    BY <1>0, <1>1, <2>1, BoundsAssumption DEF TypeOK
<1>3. EntryUnderItsKey' /\ DeletionFollowsAnswer' /\ SettledEntryIsLeaving'
  BY <1>0 DEF EntryUnderItsKey, DeletionFollowsAnswer, SettledEntryIsLeaving
<1>4. OnlyTwinsAreOrphaned' /\ EarlyTimeoutHasCulprit' /\ SoleOfferEndsByItsTimer'
  BY <1>0, <1>1
     DEF OnlyTwinsAreOrphaned, EarlyTimeoutHasCulprit, SoleOfferEndsByItsTimer
<1> QED
  BY <1>2, <1>3, <1>4 DEF IInv

LEMMA StutterKeepsIInv ==
    ASSUME IInv, UNCHANGED gatewayVars
    PROVE  IInv'
BY DEF IInv, gatewayVars, TypeOK, Offers, Twins, EntryUnderItsKey,
       DeletionFollowsAnswer, OnlyTwinsAreOrphaned, SettledEntryIsLeaving,
       EarlyTimeoutHasCulprit, SoleOfferEndsByItsTimer

\* The inductive invariant of the gateway.
THEOREM GatewayInvariant == Spec => []IInv
<1>1. IInv /\ [Next]_gatewayVars => IInv'
  <2> SUFFICES ASSUME IInv, [Next]_gatewayVars PROVE IInv'
    OBVIOUS
  <2>1. ASSUME NEW k \in Keys, NotifyAssignedDriver(k) PROVE IInv'
    BY <2>1, NotifyKeepsIInv
  <2>2. ASSUME NEW k \in Keys, NEW answer \in Answers,
               HandleDriverResponse(k, answer)
        PROVE  IInv'
    BY <2>2, ResponseKeepsIInv
  <2>3. ASSUME NEW k \in Keys, FinishDriverResponse(k) PROVE IInv'
    BY <2>3, FinishKeepsIInv
  <2>4. ASSUME NEW o \in Offers, TimerExpires(o) PROVE IInv'
    BY <2>4, TimerKeepsIInv
  <2>5. CASE Restart
    BY <2>5, RestartKeepsIInv
  <2>6. CASE UNCHANGED gatewayVars
    BY <2>6, StutterKeepsIInv
  <2> QED
    BY <2>1, <2>2, <2>3, <2>4, <2>5, <2>6 DEF Next, GatewayInternal
<1> QED
  BY InitHolds, <1>1, PTL DEF Spec

\* Every value the gateway's Map, promises and timers take is one of its type.
THEOREM GatewayTyped == Spec => []TypeOK
BY GatewayInvariant, PTL DEF IInv

\* handleDriverResponse and the timer reach every waiting caller, except when
\* the same driver was offered the same order more than once.
THEOREM OrphansHaveTwins == Spec => []OnlyTwinsAreOrphaned
BY GatewayInvariant, PTL DEF IInv

\* The timer of an offer that has no twin is the one that ends its wait.
THEOREM SoleOfferTimer == Spec => []SoleOfferEndsByItsTimer
BY GatewayInvariant, PTL DEF IInv

\* A rejection before the 30 seconds are over is the work of an earlier offer
\* of the same order to the same driver.
THEOREM EarlyTimeoutExplained == Spec => []EarlyTimeoutHasCulprit
BY GatewayInvariant, PTL DEF IInv

\* The Map never keeps an entry that is settled and not on its way out.
THEOREM SettledEntriesLeave == Spec => []SettledEntryIsLeaving
BY GatewayInvariant, PTL DEF IInv
=============================================================================
