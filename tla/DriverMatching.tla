--------------------------- MODULE DriverMatching ---------------------------
(***************************************************************************)
(* From a paid order to the driver who takes it: the consumer of           *)
(* driver.match messages, PartnerService.handleDriverMatchEvent            *)
(* (src/partner/partner.service.ts), on top of the offers of OfferGateway. *)
(*                                                                         *)
(* A run is one delivery of a message to the handler.  RabbitMQ hands a    *)
(* message out again when the handler throws, and when the process or its  *)
(* connection goes before the message is acknowledged; then several runs   *)
(* of one order may be under way, beside those of repeated requests.       *)
(***************************************************************************)
EXTENDS OfferGateway

CONSTANTS
    Prefetch,     \* unacknowledged messages the broker hands out at most
    MaxRequests,  \* bound: driver.match messages published per order
    MaxRuns,      \* bound: deliveries
    MaxFailures   \* bound: crashes of the process and lost connections

ASSUME MatchingBounds == {Prefetch, MaxRequests, MaxRuns, MaxFailures} \subseteq Nat

VARIABLES
    orders,       \* the orders that have a row
    requested,    \* history: driver.match messages published, per order
    matchQueue,   \* driver-matching-queue: messages ready, per order
    run,          \* run[r]: the handler's progress on the r-th delivery
    matched,      \* order.matched messages published
    served,       \* history: messages acknowledged, per order
    failures      \* history: crashes and lost connections

brokerVars == <<orders, requested, matchQueue, served, failures>>
vars == <<gatewayVars, brokerVars, run, matched>>

\* "loading": awaits findOrderById, "searching": awaits findNearbyDrivers,
\* "offered": awaits notifyAssignedDriver, "publishing", "published": before
\* and after order.matched is out, "returned", "threw", "dead": it is over.
RunPCs == {"loading", "searching", "offered", "publishing", "published",
           "returned", "threw", "dead"}

Active == {"loading", "searching", "offered", "publishing", "published"}

\* held: the broker still counts the message as this run's to acknowledge.
Run == [pc : RunPCs, order : Orders, candidates : Seq(Drivers),
        offer : Offers \cup {NoOffer}, held : BOOLEAN]

Runs == DOMAIN run

\* A message of order.matched, and the run that sent it.
Match == [order : Orders, driver : Drivers, offer : Offers, run : Runs]

MatchingTypeOK ==
    /\ TypeOK
    /\ orders \in SUBSET Orders
    /\ requested \in [Orders -> 0 .. MaxRequests]
    /\ matchQueue \in [Orders -> 0 .. MaxRequests]
    /\ run \in Seq(Run)
    /\ matched \in SUBSET Match
    /\ served \in [Orders -> 0 .. MaxRequests]
    /\ failures \in 0 .. MaxFailures

MatchingInit ==
    /\ GatewayInit
    /\ orders = Orders
    /\ requested = [o \in Orders |-> 0]
    /\ matchQueue = [o \in Orders |-> 0]
    /\ run = <<>>
    /\ matched = {}
    /\ served = [o \in Orders |-> 0]
    /\ failures = 0

-----------------------------------------------------------------------------
\* What findNearbyDrivers may return: nobody, or the first row's driver
\* (module DriverSearch).
SearchResults == {<<>>} \cup {<<d>> : d \in Drivers}

HeldRuns(o) == {r \in Runs : run[r].order = o /\ run[r].held}

Unacked == {r \in Runs : run[r].held}

\* triggerDriverMatch: the message is published an await after the order's row
\* was read, and goes out whether or not the row is still there.
RequestMatch(o) ==
    /\ requested[o] < MaxRequests
    /\ requested' = [requested EXCEPT ![o] = @ + 1]
    /\ matchQueue' = [matchQueue EXCEPT ![o] = @ + 1]
    /\ UNCHANGED <<gatewayVars, orders, run, matched, served, failures>>

\* DELETE /orders/:id
DeleteOrder(o) ==
    /\ o \in orders
    /\ orders' = orders \ {o}
    /\ UNCHANGED <<gatewayVars, requested, matchQueue, run, matched, served, failures>>

Deliver(o) ==
    /\ matchQueue[o] > 0
    /\ Cardinality(Unacked) < Prefetch
    /\ Len(run) < MaxRuns
    /\ matchQueue' = [matchQueue EXCEPT ![o] = @ - 1]
    /\ run' = Append(run, [pc |-> "loading", order |-> o, candidates |-> <<>>,
                           offer |-> NoOffer, held |-> TRUE])
    /\ UNCHANGED <<gatewayVars, orders, requested, matched, served, failures>>

\* The handler returns and the message is acknowledged; the acknowledgement
\* of a message that the broker has taken back has no effect.
Return(r) ==
    /\ run' = [run EXCEPT ![r].pc = "returned", ![r].held = FALSE]
    /\ IF run[r].held THEN served' = [served EXCEPT ![run[r].order] = @ + 1]
                      ELSE UNCHANGED served

\* Mutant of LoadOrder: a message that the broker took back is returned again.
LoadOrderReturnsTwice(r) ==
    LET o == run[r].order IN
    /\ run[r].pc = "loading"
    /\ IF o \in orders
       THEN /\ run' = [run EXCEPT ![r].pc = "searching"]
            /\ UNCHANGED matchQueue
       ELSE /\ run' = [run EXCEPT ![r].pc = "threw", ![r].held = FALSE]
            /\ matchQueue' = [matchQueue EXCEPT ![o] = @ + 1]
    /\ UNCHANGED <<gatewayVars, orders, requested, matched, served, failures>>

\* Mutant of LoadOrder: the message of a handler that throws is dropped.
LoadOrderDrops(r) ==
    /\ run[r].pc = "loading"
    /\ run' = IF run[r].order \in orders
              THEN [run EXCEPT ![r].pc = "searching"]
              ELSE [run EXCEPT ![r].pc = "threw", ![r].held = FALSE]
    /\ UNCHANGED <<gatewayVars, brokerVars, matched>>

\* findOrderById reads a field of the row it does not find, outside the
\* handler's try: the handler throws and the message is queued again.
LoadOrder(r) ==
    LET o == run[r].order IN
    /\ run[r].pc = "loading"
    /\ IF o \in orders
       THEN /\ run' = [run EXCEPT ![r].pc = "searching"]
            /\ UNCHANGED matchQueue
       ELSE /\ run' = [run EXCEPT ![r].pc = "threw", ![r].held = FALSE]
            /\ matchQueue' = [matchQueue EXCEPT ![o] = IF run[r].held THEN @ + 1 ELSE @]
    /\ UNCHANGED <<gatewayVars, orders, requested, matched, served, failures>>

\* The while loop: the next candidate is offered the order, or there is none
\* and the handler returns.
OfferNext(r, candidates) ==
    IF candidates = <<>>
    THEN Return(r) /\ UNCHANGED gatewayVars
    ELSE /\ NotifyAssignedDriver(<<Head(candidates), run[r].order>>)
         /\ run' = [run EXCEPT ![r].pc = "offered", ![r].offer = Len(keyOf) + 1,
                               ![r].candidates = Tail(candidates)]
         /\ UNCHANGED served

\* A search that throws is logged by the outer catch, and the handler returns
\* as if nobody had been found.
SearchDrivers(r) ==
    /\ run[r].pc = "searching"
    /\ \E found \in SearchResults : OfferNext(r, found)
    /\ UNCHANGED <<orders, requested, matchQueue, matched, failures>>

\* Mutant of OfferAccepted: every answer counts as an acceptance.
OfferAnswered(r) ==
    /\ run[r].pc = "offered"
    /\ outcome[run[r].offer] \in Answers
    /\ run' = [run EXCEPT ![r].pc = "publishing"]
    /\ UNCHANGED <<gatewayVars, brokerVars, matched>>

OfferAccepted(r) ==
    /\ run[r].pc = "offered"
    /\ outcome[run[r].offer] = "accepted"
    /\ run' = [run EXCEPT ![r].pc = "publishing"]
    /\ UNCHANGED <<gatewayVars, brokerVars, matched>>

\* Mutant of OfferRefused: a rejected promise is not caught.
OfferDeclined(r) ==
    /\ run[r].pc = "offered"
    /\ outcome[run[r].offer] = "declined"
    /\ OfferNext(r, run[r].candidates)
    /\ UNCHANGED <<orders, requested, matchQueue, matched, failures>>

\* A driver who declined, or did not answer in time.
OfferRefused(r) ==
    /\ run[r].pc = "offered"
    /\ outcome[run[r].offer] \in {"declined", "timeout"}
    /\ OfferNext(r, run[r].candidates)
    /\ UNCHANGED <<orders, requested, matchQueue, matched, failures>>

PublishMatched(r) ==
    /\ run[r].pc = "publishing"
    /\ matched' = matched \cup
          {[order |-> run[r].order, driver |-> keyOf[run[r].offer][1],
            offer |-> run[r].offer, run |-> r]}
    /\ run' = [run EXCEPT ![r].pc = "published"]
    /\ UNCHANGED <<gatewayVars, brokerVars>>

\* The inner catch takes a failing publish for a driver who cannot be
\* notified, and the loop goes on.
PublishFails(r) ==
    /\ run[r].pc = "publishing"
    /\ OfferNext(r, run[r].candidates)
    /\ UNCHANGED <<orders, requested, matchQueue, matched, failures>>

\* Mutant of FinishMatched: the message is returned instead of acknowledged.
FinishReturnsMessage(r) ==
    /\ run[r].pc = "published"
    /\ run' = [run EXCEPT ![r].pc = "returned", ![r].held = FALSE]
    /\ matchQueue' = [matchQueue EXCEPT ![run[r].order] = @ + 1]
    /\ UNCHANGED <<gatewayVars, orders, requested, matched, served, failures>>

FinishMatched(r) ==
    /\ run[r].pc = "published"
    /\ Return(r)
    /\ UNCHANGED <<gatewayVars, orders, requested, matchQueue, matched, failures>>

\* Every message not acknowledged is ready again.
Requeue ==
    matchQueue' = [o \in Orders |-> matchQueue[o] + Cardinality(HeldRuns(o))]

\* The process goes down and comes back.
Crash ==
    /\ failures < MaxFailures
    /\ \E r \in Runs : run[r].pc \in Active
    /\ failures' = failures + 1
    /\ Restart
    /\ Requeue
    /\ run' = [r \in Runs |-> IF run[r].pc \in Active
                              THEN [run[r] EXCEPT !.pc = "dead", !.held = FALSE]
                              ELSE run[r]]
    /\ UNCHANGED <<orders, requested, matched, served>>

\* The broker closes the connection, or the channel of a consumer that has
\* kept a message too long: the handlers run on without their messages.
ConnectionLost ==
    /\ failures < MaxFailures
    /\ Unacked # {}
    /\ failures' = failures + 1
    /\ Requeue
    /\ run' = [r \in Runs |-> [run[r] EXCEPT !.held = FALSE]]
    /\ UNCHANGED <<gatewayVars, orders, requested, matched, served>>

HandlerStep(r) ==
    \/ LoadOrder(r)
    \/ SearchDrivers(r)
    \/ OfferAccepted(r)
    \/ OfferRefused(r)
    \/ PublishMatched(r)
    \/ PublishFails(r)
    \/ FinishMatched(r)

MatchingNext ==
    \/ \E o \in Orders : RequestMatch(o) \/ DeleteOrder(o) \/ Deliver(o)
    \/ \E r \in Runs : HandlerStep(r)
    \/ GatewayInternal /\ UNCHANGED <<brokerVars, run, matched>>
    \/ Crash
    \/ ConnectionLost

\* The broker delivers, handlers whose await is over go on, timers fire.
MatchingFairness ==
    /\ WF_vars(\E o \in Orders : Deliver(o))
    /\ \A r \in 1 .. MaxRuns : WF_vars(r \in Runs /\ HandlerStep(r))
    /\ WF_vars(/\ \E o \in Offers : TimerExpires(o)
               /\ UNCHANGED <<brokerVars, run, matched>>)
    /\ WF_vars(/\ \E k \in Keys : FinishDriverResponse(k)
               /\ UNCHANGED <<brokerVars, run, matched>>)

MatchingSpec == MatchingInit /\ [][MatchingNext]_vars /\ MatchingFairness

-----------------------------------------------------------------------------
\* Deliveries do not lose or multiply requests: each driver.match message ever
\* published is ready, with exactly one handler, or acknowledged, across
\* crashes, lost connections and handlers that throw.
NoRequestLost ==
    \A o \in Orders :
        requested[o] = matchQueue[o] + Cardinality(HeldRuns(o)) + served[o]

\* A driver's acceptance sends the order to that driver, and to no second one:
\* every order.matched message rests on an accepted offer of its own, and on a
\* search that was asked for.
MatchRestsOnAcceptance ==
    \A m \in matched :
        /\ requested[m.order] > 0
        /\ outcome[m.offer] = "accepted"
        /\ keyOf[m.offer] = <<m.driver, m.order>>
        /\ \A n \in matched : n.offer = m.offer => n = m

\* The matches published for an order.
MatchesOf(o) == {m \in matched : m.order = o}

\* An order is given away no more often than its driver was requested, and a
\* crash or a lost connection repeats each of those requests at most once: what
\* a handler publishes late, after the broker took its message back, is counted.
MatchesWithinRequests ==
    \A o \in Orders :
        Cardinality(MatchesOf(o)) <= requested[o] * (failures + 1)

\* A handler waits in vain (no timer will wake it) only when another delivery
\* of the same order has made an offer too.
StuckRunHasRival ==
    \A r \in Runs :
        run[r].pc = "offered" /\ outcome[run[r].offer] = "pending"
            /\ run[r].offer \notin armed =>
        \E q \in Runs \ {r} : run[q].order = run[r].order /\ run[q].offer # NoOffer

\* A search of o that may still find a driver: its message is ready, or its
\* handler has not published order.matched yet.
Searching(o) ==
    {r \in Runs : run[r].order = o
                  /\ run[r].pc \in {"loading", "searching", "offered", "publishing"}}

Abstract ==
    INSTANCE Matchmaking WITH
        asked <- requested,
        tickets <- [o \in Orders |-> matchQueue[o] + Cardinality(Searching(o))]

\* The consumer, the offers and the broker together promise what Matchmaking
\* states: each order.matched message uses up one search of its order, which no
\* step but a request or a failure can bring back.
ImplementsMatchmaking == Abstract!Spec

\* As long as no order is requested twice or deleted and nothing fails.
Undisturbed ==
    failures = 0 /\ orders = Orders /\ \A o \in Orders : requested[o] <= 1

\* Then every request is served: it waits for a free slot, a search and at most
\* one driver, and its message is acknowledged.
RequestServed ==
    \A o \in Orders : requested[o] > 0 ~> (served[o] > 0 \/ ~Undisturbed)
=============================================================================
