---------------------------- MODULE OfferGateway ----------------------------
(***************************************************************************)
(* The ride offers of NotificationGateway (src/notification/               *)
(* notification.gateway.ts).                                               *)
(*                                                                         *)
(* An offer is one call of notifyAssignedDriver(driverId, orderId): the    *)
(* promise it returns is settled by the driver's answer or by a 30 second  *)
(* timer.  Both find the promise through the Map pendingResponses, whose   *)
(* key is the pair (driver, order) and not the offer: what happens when    *)
(* two offers share a key is the subject of this module.                   *)
(*                                                                         *)
(* The copy that cacheManager keeps under the same key is written and      *)
(* deleted but never read, so it is not state here.  Its deletion is       *)
(* awaited before the Map's entry goes, so an answer takes two steps.      *)
(***************************************************************************)
EXTENDS Integers, Sequences, FiniteSets

CONSTANTS
    Drivers,     \* ids of the drivers that may be offered an order
    Orders,      \* ids of the orders
    MaxOffers,   \* bound: calls of notifyAssignedDriver
    MaxReplies   \* bound: answers of one key suspended at the same time

ASSUME BoundsAssumption == MaxOffers \in Nat /\ MaxReplies \in Nat

Keys == Drivers \X Orders

\* Offers are numbered from 1 in the order they are made.
NoOffer == 0

Answers == {"accepted", "declined"}

\* "lost" is the promise of a process that is gone.
Outcomes == Answers \cup {"pending", "timeout", "lost"}

VARIABLES
    keyOf,             \* keyOf[o]: the (driver, order) offer o was made for
    outcome,           \* outcome[o]: how the promise of offer o stands
    armed,             \* offers whose 30 second timer has not fired
    pendingResponses,  \* per key, the offer the Map holds, or NoOffer
    deleting           \* per key, the answers awaiting cacheManager.del

gatewayVars == <<keyOf, outcome, armed, pendingResponses, deleting>>

Offers == 1 .. Len(keyOf)

TypeOK ==
    /\ keyOf \in Seq(Keys)
    /\ outcome \in [Offers -> Outcomes]
    /\ armed \in SUBSET Offers
    /\ pendingResponses \in [Keys -> Offers \cup {NoOffer}]
    /\ deleting \in [Keys -> 0 .. MaxReplies]

GatewayInit ==
    /\ keyOf = <<>>
    /\ outcome = [o \in {} |-> "pending"]
    /\ armed = {}
    /\ pendingResponses = [k \in Keys |-> NoOffer]
    /\ deleting = [k \in Keys |-> 0]

-----------------------------------------------------------------------------
\* A promise settles once: resolve and reject do nothing to a settled one,
\* and nothing at all when the Map holds no entry (o = NoOffer).
Settle(o, result) ==
    [p \in Offers |->
        IF p = o /\ outcome[p] = "pending" THEN result ELSE outcome[p]]

\* Mutant of NotifyAssignedDriver: an offer superseded by a twin is rejected.
NotifyRejectsTwin(k) ==
    LET new == Len(keyOf) + 1 IN
    /\ new <= MaxOffers
    /\ keyOf' = Append(keyOf, k)
    /\ outcome' = [o \in 1 .. new |->
                     IF o = new THEN "pending"
                     ELSE Settle(pendingResponses[k], "timeout")[o]]
    /\ armed' = armed \cup {new}
    /\ pendingResponses' = [pendingResponses EXCEPT ![k] = new]
    /\ UNCHANGED deleting

\* Mutant of NotifyAssignedDriver: no timer is armed.
NotifyWithoutTimer(k) ==
    LET new == Len(keyOf) + 1 IN
    /\ new <= MaxOffers
    /\ keyOf' = Append(keyOf, k)
    /\ outcome' = [o \in 1 .. new |-> IF o = new THEN "pending" ELSE outcome[o]]
    /\ pendingResponses' = [pendingResponses EXCEPT ![k] = new]
    /\ UNCHANGED <<armed, deleting>>

\* The new entry replaces whatever the Map held under the key.
NotifyAssignedDriver(k) ==
    LET new == Len(keyOf) + 1 IN
    /\ new <= MaxOffers
    /\ keyOf' = Append(keyOf, k)
    /\ outcome' = [o \in 1 .. new |-> IF o = new THEN "pending" ELSE outcome[o]]
    /\ armed' = armed \cup {new}
    /\ pendingResponses' = [pendingResponses EXCEPT ![k] = new]
    /\ UNCHANGED deleting

\* The answer settles the promise the Map holds, then waits for the cache.
\* An answer whose key has no entry is only logged, and is no step.
HandleDriverResponse(k, answer) ==
    /\ pendingResponses[k] # NoOffer
    /\ deleting[k] < MaxReplies
    /\ outcome' = Settle(pendingResponses[k], answer)
    /\ deleting' = [deleting EXCEPT ![k] = @ + 1]
    /\ UNCHANGED <<keyOf, armed, pendingResponses>>

\* Mutant of FinishDriverResponse: the clean-up is not tied to an answer.
FinishUnasked(k) ==
    /\ deleting' = [deleting EXCEPT ![k] = @ - 1]
    /\ pendingResponses' = [pendingResponses EXCEPT ![k] = NoOffer]
    /\ UNCHANGED <<keyOf, outcome, armed>>

\* Mutant of FinishDriverResponse: the entry is looked up by order alone.
FinishByOrder(k) ==
    /\ deleting[k] > 0
    /\ deleting' = [deleting EXCEPT ![k] = @ - 1]
    /\ pendingResponses' =
          [j \in Keys |-> IF j[2] = k[2] THEN NoOffer ELSE pendingResponses[j]]
    /\ UNCHANGED <<keyOf, outcome, armed>>

\* cacheManager.del is done: the key's entry goes, whichever offer holds it.
FinishDriverResponse(k) ==
    /\ deleting[k] > 0
    /\ deleting' = [deleting EXCEPT ![k] = @ - 1]
    /\ pendingResponses' = [pendingResponses EXCEPT ![k] = NoOffer]
    /\ UNCHANGED <<keyOf, outcome, armed>>

\* Mutant of TimerExpires: the entry is removed and its promise forgotten.
TimerForgetsReject(o) ==
    /\ o \in armed
    /\ \A p \in armed : o <= p
    /\ armed' = armed \ {o}
    /\ pendingResponses' = [pendingResponses EXCEPT ![keyOf[o]] = NoOffer]
    /\ UNCHANGED <<keyOf, outcome, deleting>>

\* Mutant of TimerExpires: the rejected entry stays in the Map.
TimerKeepsEntry(o) ==
    /\ o \in armed
    /\ \A p \in armed : o <= p
    /\ armed' = armed \ {o}
    /\ outcome' = Settle(pendingResponses[keyOf[o]], "timeout")
    /\ UNCHANGED <<keyOf, pendingResponses, deleting>>

\* Timers are never cleared and all last 30 seconds, so the event loop fires
\* them in the order they were armed.  A timer rejects the promise its key
\* holds at that moment, and removes the entry.
TimerExpires(o) ==
    /\ o \in armed
    /\ \A p \in armed : o <= p
    /\ armed' = armed \ {o}
    /\ outcome' = Settle(pendingResponses[keyOf[o]], "timeout")
    /\ pendingResponses' = [pendingResponses EXCEPT ![keyOf[o]] = NoOffer]
    /\ UNCHANGED <<keyOf, deleting>>

\* The Map, the timers and the suspended calls live in the process's memory.
Restart ==
    /\ outcome' = [o \in Offers |->
                     IF outcome[o] = "pending" THEN "lost" ELSE outcome[o]]
    /\ armed' = {}
    /\ pendingResponses' = [k \in Keys |-> NoOffer]
    /\ deleting' = [k \in Keys |-> 0]
    /\ UNCHANGED keyOf

GatewayInternal ==
    \/ \E k \in Keys, answer \in Answers : HandleDriverResponse(k, answer)
    \/ \E k \in Keys : FinishDriverResponse(k)
    \/ \E o \in Offers : TimerExpires(o)

Next ==
    \/ \E k \in Keys : NotifyAssignedDriver(k)
    \/ GatewayInternal
    \/ Restart

\* The runtime fires timers that are due; nothing obliges a driver to answer
\* or a caller to make an offer.
Fairness ==
    /\ WF_gatewayVars(\E o \in Offers : TimerExpires(o))
    /\ WF_gatewayVars(\E k \in Keys : FinishDriverResponse(k))

Spec == GatewayInit /\ [][Next]_gatewayVars /\ Fairness

-----------------------------------------------------------------------------
Twins(o) == {p \in Offers \ {o} : keyOf[p] = keyOf[o]}

\* A caller is left waiting on a promise that neither an answer nor a timer
\* can reach any more only if the same driver was offered the same order
\* twice: the second offer takes the first one's entry, or loses its own to
\* the clean-up of the first one's answer.
OnlyTwinsAreOrphaned ==
    \A o \in Offers :
        outcome[o] = "pending" =>
            pendingResponses[keyOf[o]] = o \/ Twins(o) # {}

\* An entry whose promise is already settled stays in the Map only while the
\* answer that settled it awaits the cache; otherwise it would swallow the
\* driver's next answer.
SettledEntryIsLeaving ==
    \A k \in Keys :
        LET o == pendingResponses[k] IN
        o # NoOffer => outcome[o] = "pending" \/ deleting[k] > 0

\* An offer that is rejected before its own 30 seconds are over fell to the
\* timer of an earlier offer of the same order to the same driver.
EarlyTimeoutHasCulprit ==
    \A o \in armed :
        outcome[o] = "timeout" => \E p \in Twins(o) : p < o /\ p \notin armed

\* The 30 second timer ends the wait of every offer that has no twin.
SoleOfferEndsByItsTimer ==
    \A o \in Offers :
        outcome[o] = "pending" /\ Twins(o) = {} => o \in armed

\* Each offer without a twin is settled sooner or later: the handler awaiting
\* it goes on.
SoleOfferSettles ==
    \A o \in 1 .. MaxOffers :
        (o \in Offers /\ outcome[o] = "pending")
            ~> (o \in Offers /\ (outcome[o] # "pending" \/ Twins(o) # {}))

\* The comment on the timer (notification.gateway.ts:158) for every offer: it
\* rejects the offer automatically "if no response is received within 30
\* seconds".
TimerEndsEveryWait ==
    \A o \in Offers : outcome[o] = "pending" => o \in armed
=============================================================================
