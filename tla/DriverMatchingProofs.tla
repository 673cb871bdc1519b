------------------------- MODULE DriverMatchingProofs ------------------------
(***************************************************************************)
(* Safety of DriverMatching for every set of drivers and orders and every  *)
(* bound, and the steps of its refinement of Matchmaking.                  *)
(***************************************************************************)
EXTENDS DriverMatching, OfferGatewayProofs, FiniteSetTheorems, SequenceTheorems

\* What a handler knows at each point: it has an offer once it has asked a
\* driver, the offer is for its order, and it publishes only when accepted.
RunsConsistent ==
    \A r \in Runs :
        /\ run[r].candidates = <<>>
        /\ run[r].pc \in {"loading", "searching"} => run[r].offer = NoOffer
        /\ run[r].pc \in {"offered", "publishing", "published"} => run[r].offer # NoOffer
        /\ run[r].offer # NoOffer => keyOf[run[r].offer][2] = run[r].order
        /\ run[r].pc \in {"publishing", "published"} => outcome[run[r].offer] = "accepted"
        /\ run[r].held => run[r].pc \in Active
        /\ requested[run[r].order] > 0

\* Each offer was made by one handler.
OffersFollowRuns ==
    /\ \A o \in Offers : \E r \in Runs : run[r].offer = o
    /\ \A r, q \in Runs : run[r].offer = run[q].offer /\ run[r].offer # NoOffer => r = q

\* Each order.matched message was sent by a handler that will send no other.
MatchesFollowRuns ==
    \A m \in matched :
        /\ run[m.run].offer = m.offer
        /\ run[m.run].order = m.order
        /\ run[m.run].pc \in {"published", "returned", "dead"}
        /\ keyOf[m.offer] = <<m.driver, m.order>>
        /\ outcome[m.offer] = "accepted"

MatchingInv ==
    /\ IInv
    /\ MatchingTypeOK
    /\ NoRequestLost
    /\ RunsConsistent
    /\ OffersFollowRuns
    /\ MatchesFollowRuns

-----------------------------------------------------------------------------
\* Counting: two sets that differ in at most one element.
LEMMA CountChange ==
    ASSUME NEW S, IsFiniteSet(S), NEW T, NEW x, T \ {x} = S \ {x}
    PROVE  /\ IsFiniteSet(T)
           /\ Cardinality(S) \in Nat /\ Cardinality(T) \in Nat
           /\ Cardinality(T) = (Cardinality(S) - (IF x \in S THEN 1 ELSE 0))
                                + (IF x \in T THEN 1 ELSE 0)
<1> DEFINE U == S \ {x}
<1>1. /\ IsFiniteSet(U)
      /\ Cardinality(S) \in Nat
      /\ Cardinality(U) = IF x \in S THEN Cardinality(S) - 1 ELSE Cardinality(S)
  BY FS_RemoveElement, FS_CardinalityType
<1>2. x \notin U
  OBVIOUS
<1>3. CASE x \in T
  <2>1. T = U \cup {x}
    BY <1>3
  <2>2. IsFiniteSet(T) /\ Cardinality(T) = Cardinality(U) + 1
    BY <2>1, <1>1, <1>2, FS_AddElement
  <2> QED
    BY <2>2, <1>1, <1>3, FS_CardinalityType
<1>4. CASE x \notin T
  <2>1. T = U
    BY <1>4
  <2> QED
    BY <2>1, <1>1, <1>4, FS_CardinalityType
<1> QED
  BY <1>3, <1>4

\* The sets of deliveries the invariants count are finite.
LEMMA RunsFinite ==
    ASSUME run \in Seq(Run), NEW T \in SUBSET Runs
    PROVE  IsFiniteSet(T) /\ Cardinality(T) \in Nat
<1>1. Runs = 1 .. Len(run) /\ Len(run) \in Nat
  BY DEF Runs
<1>2. IsFiniteSet(Runs)
  BY <1>1, FS_Interval
<1> QED
  BY <1>2, FS_Subset, FS_CardinalityType

\* One delivery starts or moves: the others are as they were.
OnlyRun(r) ==
    /\ r \in Runs'
    /\ Runs' = Runs \cup {r}
    /\ \A q \in Runs \ {r} : run'[q] = run[q]
    /\ r \in Runs => run'[r].order = run[r].order

\* A delivery that is given back, or acknowledged, moves from one count to
\* another.
LEMMA CountsMove ==
    ASSUME NEW all \in Nat, NEW ready \in Nat, NEW held \in Nat, NEW done \in Nat,
           all = ready + held + done,
           NEW ready2, NEW held2, NEW done2,
           \/ ready2 = ready /\ held2 = held /\ done2 = done
           \/ ready2 = ready + 1 /\ held2 = held - 1 /\ done2 = done
           \/ ready2 = ready /\ held2 = held - 1 /\ done2 = done + 1
    PROVE  all = ready2 + held2 + done2
OBVIOUS

\* How the counted sets change when one delivery does.
LEMMA CountsOfOneRun ==
    ASSUME run \in Seq(Run), NEW r, OnlyRun(r), NEW o
    PROVE  /\ Cardinality(HeldRuns(o)) \in Nat /\ Cardinality(HeldRuns(o)') \in Nat
           /\ Cardinality(HeldRuns(o)') =
                (Cardinality(HeldRuns(o)) - (IF r \in HeldRuns(o) THEN 1 ELSE 0))
                  + (IF r \in HeldRuns(o)' THEN 1 ELSE 0)
           /\ Cardinality(Searching(o)) \in Nat
           /\ Cardinality(Searching(o)') =
                (Cardinality(Searching(o)) - (IF r \in Searching(o) THEN 1 ELSE 0))
                  + (IF r \in Searching(o)' THEN 1 ELSE 0)
<1>1. IsFiniteSet(HeldRuns(o)) /\ HeldRuns(o)' \ {r} = HeldRuns(o) \ {r}
  <2>1. IsFiniteSet(HeldRuns(o))
    BY RunsFinite DEF HeldRuns
  <2> QED
    BY <2>1 DEF HeldRuns, OnlyRun
<1>2. IsFiniteSet(Searching(o)) /\ Searching(o)' \ {r} = Searching(o) \ {r}
  <2>1. IsFiniteSet(Searching(o))
    BY RunsFinite DEF Searching
  <2> QED
    BY <2>1 DEF Searching, OnlyRun
<1>3. /\ Cardinality(HeldRuns(o)) \in Nat /\ Cardinality(HeldRuns(o)') \in Nat
      /\ Cardinality(HeldRuns(o)') =
           (Cardinality(HeldRuns(o)) - (IF r \in HeldRuns(o) THEN 1 ELSE 0))
             + (IF r \in HeldRuns(o)' THEN 1 ELSE 0)
  BY <1>1, CountChange
<1>4. /\ Cardinality(Searching(o)) \in Nat
      /\ Cardinality(Searching(o)') =
           (Cardinality(Searching(o)) - (IF r \in Searching(o) THEN 1 ELSE 0))
             + (IF r \in Searching(o)' THEN 1 ELSE 0)
  BY <1>2, CountChange
<1> QED
  BY <1>3, <1>4

-----------------------------------------------------------------------------
\* The ways a handler moves.  It goes on with its message ...
Proceeds(r) ==
    /\ run'[r].held = run[r].held /\ run'[r].offer = run[r].offer
    /\ UNCHANGED <<gatewayVars, matchQueue, served>>
    /\ \/ run[r].pc = "loading" /\ run'[r].pc = "searching" /\ UNCHANGED matched
       \/ /\ run[r].pc = "offered" /\ run'[r].pc = "publishing"
          /\ outcome[run[r].offer] = "accepted"
          /\ UNCHANGED matched
       \/ /\ run[r].pc = "publishing" /\ run'[r].pc = "published"
          /\ matched' = matched \cup
                {[order |-> run[r].order, driver |-> keyOf[run[r].offer][1],
                  offer |-> run[r].offer, run |-> r]}

\* ... it makes an offer, its first ...
Asks(r) ==
    /\ run'[r].held = run[r].held /\ run'[r].offer = Len(keyOf) + 1
    /\ run[r].pc = "searching" /\ run'[r].pc = "offered"
    /\ \E d \in Drivers : NotifyAssignedDriver(<<d, run[r].order>>)
    /\ UNCHANGED <<matchQueue, served, matched>>

\* ... or it is over, with its message returned or acknowledged.
Leaves(r) ==
    /\ ~run'[r].held /\ run'[r].offer = run[r].offer
    /\ UNCHANGED <<gatewayVars, matched>>
    /\ \/ /\ run[r].pc = "loading" /\ run'[r].pc = "threw"
          /\ matchQueue' = [matchQueue EXCEPT
                ![run[r].order] = IF run[r].held THEN @ + 1 ELSE @]
          /\ UNCHANGED served
       \/ /\ run[r].pc # "loading" /\ run'[r].pc = "returned"
          /\ UNCHANGED matchQueue
          /\ served' = [served EXCEPT
                ![run[r].order] = IF run[r].held THEN @ + 1 ELSE @]

Moves(r) ==
    /\ run' \in Seq([pc : RunPCs, order : Orders, candidates : Seq(Drivers),
                     offer : Nat, held : BOOLEAN])
    /\ Runs' = Runs
    /\ OnlyRun(r)
    /\ run[r].pc \in Active /\ run'[r].candidates = <<>>
    /\ UNCHANGED <<orders, requested, failures>>
    /\ Proceeds(r) \/ Asks(r) \/ Leaves(r)

\* What a delivery looks like.
LEMMA RunType ==
    ASSUME MatchingInv, NEW r \in Runs
    PROVE  /\ Runs = 1 .. Len(run) /\ Len(run) \in Nat
           /\ run[r] \in Run
           /\ run[r].pc \in RunPCs /\ run[r].order \in Orders
           /\ run[r].candidates = <<>>
           /\ run[r].offer \in Offers \cup {NoOffer} /\ run[r].offer \in Nat
           /\ run[r].held \in BOOLEAN
<1>1. run \in Seq(Run)
  BY DEF MatchingInv, MatchingTypeOK
<1>2. /\ Runs = 1 .. Len(run) /\ Len(run) \in Nat
      /\ run[r] \in Run
  BY <1>1 DEF Runs
<1> QED
  BY <1>2 DEF Run, MatchingInv, RunsConsistent, Offers, NoOffer

\* A delivery replaced by another record of the same order.
LEMMA RunReplaced ==
    ASSUME MatchingInv, NEW r \in Runs,
           NEW rec \in [pc : RunPCs, order : Orders, candidates : Seq(Drivers),
                        offer : Nat, held : BOOLEAN],
           rec.order = run[r].order,
           run' = [run EXCEPT ![r] = rec]
    PROVE  /\ run' \in Seq([pc : RunPCs, order : Orders, candidates : Seq(Drivers),
                            offer : Nat, held : BOOLEAN])
           /\ Runs' = Runs
           /\ OnlyRun(r)
           /\ run'[r] = rec
<1> DEFINE R == [pc : RunPCs, order : Orders, candidates : Seq(Drivers),
                 offer : Nat, held : BOOLEAN]
<1>1. run \in Seq(Run)
  BY DEF MatchingInv, MatchingTypeOK
<1>2. Run \subseteq R
  BY DEF Run, Offers, NoOffer
<1>3. run \in Seq(R)
  BY <1>1, <1>2, SeqMonotonic
<1>4. r \in 1 .. Len(run)
  BY RunType
<1>5. /\ run' \in Seq(R) /\ Len(run') = Len(run)
      /\ \A q \in 1 .. Len(run) : run'[q] = IF q = r THEN rec ELSE run[q]
  BY <1>3, <1>4, ExceptSeq
<1>6. Runs' = 1 .. Len(run') /\ Runs = 1 .. Len(run)
  BY <1>3, <1>5, LenProperties DEF Runs
<1> QED
  BY <1>4, <1>5, <1>6 DEF OnlyRun

\* The next candidate of a handler: a search finds one driver at most, and
\* none is left after the first.
LEMMA OfferNextMoves ==
    ASSUME MatchingInv, NEW r \in Runs, NEW found, OfferNext(r, found),
           \/ run[r].pc = "searching" /\ found \in SearchResults
           \/ run[r].pc \in {"offered", "publishing"} /\ found = run[r].candidates,
           UNCHANGED <<orders, requested, matchQueue, matched, failures>>
    PROVE  Moves(r)
<1>1. /\ run[r] \in Run /\ run[r].pc \in Active
      /\ run[r].order \in Orders /\ run[r].candidates = <<>>
      /\ run[r].offer \in Nat /\ run[r].held \in BOOLEAN
  BY RunType DEF Active
<1>2. served \in [Orders -> 0 .. MaxRequests]
  BY DEF MatchingInv, MatchingTypeOK
<1>3. CASE found = <<>>
  <2> DEFINE rec == [run[r] EXCEPT !.pc = "returned", !.held = FALSE]
  <2>1. /\ run' = [run EXCEPT ![r] = rec]
        /\ served' = [served EXCEPT ![run[r].order] = IF run[r].held THEN @ + 1 ELSE @]
        /\ UNCHANGED gatewayVars
    <3>1. Return(r) /\ UNCHANGED gatewayVars
      BY <1>3 DEF OfferNext
    <3> QED
      BY <3>1, <1>1, <1>2 DEF Return
  <2>2. /\ rec \in [pc : RunPCs, order : Orders, candidates : Seq(Drivers),
                    offer : Nat, held : BOOLEAN]
        /\ rec.order = run[r].order /\ rec.candidates = <<>>
        /\ rec.pc = "returned" /\ rec.held = FALSE /\ rec.offer = run[r].offer
    BY <1>1 DEF Run, RunPCs
  <2>3. /\ run' \in Seq([pc : RunPCs, order : Orders, candidates : Seq(Drivers),
                         offer : Nat, held : BOOLEAN])
        /\ Runs' = Runs /\ OnlyRun(r) /\ run'[r] = rec
    BY <2>1, <2>2, RunReplaced
  <2>4. run[r].pc # "loading"
    OBVIOUS
  <2>5. Leaves(r)
    BY <2>1, <2>2, <2>3, <2>4 DEF Leaves
  <2> QED
    BY <1>1, <2>2, <2>3, <2>5 DEF Moves
<1>4. CASE found # <<>>
  <2> DEFINE rec == [run[r] EXCEPT !.pc = "offered", !.offer = Len(keyOf) + 1,
                                   !.candidates = <<>>]
  <2>1. PICK d \in Drivers : found = <<d>>
    BY <1>1, <1>4 DEF SearchResults
  <2>2. /\ NotifyAssignedDriver(<<Head(found), run[r].order>>)
        /\ run' = [run EXCEPT ![r].pc = "offered", ![r].offer = Len(keyOf) + 1,
                              ![r].candidates = Tail(found)]
        /\ UNCHANGED served
    BY <1>4 DEF OfferNext
  <2>3. Head(found) = d /\ Tail(found) = <<>>
    BY <2>1
  <2>4. /\ run' = [run EXCEPT ![r] = rec]
        /\ NotifyAssignedDriver(<<d, run[r].order>>)
        /\ UNCHANGED served
    BY <2>2, <2>3, <1>1 DEF Run
  <2>5. Len(keyOf) + 1 \in Nat
    BY DEF MatchingInv, MatchingTypeOK, TypeOK
  <2>6. /\ rec \in [pc : RunPCs, order : Orders, candidates : Seq(Drivers),
                    offer : Nat, held : BOOLEAN]
        /\ rec.order = run[r].order /\ rec.candidates = <<>> /\ rec.pc = "offered"
        /\ rec.held = run[r].held /\ rec.offer = Len(keyOf) + 1
    BY <1>1, <2>5 DEF Run, RunPCs
  <2>7. /\ run' \in Seq([pc : RunPCs, order : Orders, candidates : Seq(Drivers),
                         offer : Nat, held : BOOLEAN])
        /\ Runs' = Runs /\ OnlyRun(r) /\ run'[r] = rec
    BY <2>4, <2>6, RunReplaced
  <2>8. run[r].pc = "searching"
    BY <1>1, <1>4
  <2>9. Asks(r)
    BY <2>4, <2>6, <2>7, <2>8 DEF Asks
  <2> QED
    BY <1>1, <2>6, <2>7, <2>9 DEF Moves
<1> QED
  BY <1>3, <1>4

\* Every step of a handler is one of those moves.
LEMMA HandlerMoves ==
    ASSUME MatchingInv, NEW r \in Runs, HandlerStep(r)
    PROVE  Moves(r)
<1> DEFINE R == [pc : RunPCs, order : Orders, candidates : Seq(Drivers),
                 offer : Nat, held : BOOLEAN]
<1>1. /\ run[r] \in Run /\ run[r].pc \in RunPCs
      /\ run[r].order \in Orders /\ run[r].candidates = <<>>
      /\ run[r].offer \in Nat /\ run[r].held \in BOOLEAN
  BY RunType
<1>2. ASSUME NEW pc \in RunPCs, NEW held \in BOOLEAN,
             run' = [run EXCEPT ![r].pc = pc, ![r].held = held]
      PROVE  /\ run' \in Seq(R) /\ Runs' = Runs /\ OnlyRun(r)
             /\ run'[r].pc = pc /\ run'[r].held = held
             /\ run'[r].offer = run[r].offer /\ run'[r].candidates = <<>>
  <2> DEFINE rec == [run[r] EXCEPT !.pc = pc, !.held = held]
  <2>1. run' = [run EXCEPT ![r] = rec]
    BY <1>2
  <2>2. /\ rec \in R /\ rec.order = run[r].order /\ rec.candidates = <<>>
        /\ rec.pc = pc /\ rec.held = held /\ rec.offer = run[r].offer
    BY <1>1 DEF Run
  <2>3. run' \in Seq(R) /\ Runs' = Runs /\ OnlyRun(r) /\ run'[r] = rec
    BY <2>1, <2>2, RunReplaced
  <2> QED
    BY <2>2, <2>3
<1>3. ASSUME NEW pc \in RunPCs, run' = [run EXCEPT ![r].pc = pc]
      PROVE  /\ run' \in Seq(R) /\ Runs' = Runs /\ OnlyRun(r)
             /\ run'[r].pc = pc /\ run'[r].held = run[r].held
             /\ run'[r].offer = run[r].offer /\ run'[r].candidates = <<>>
  <2> DEFINE rec == [run[r] EXCEPT !.pc = pc]
  <2>1. run' = [run EXCEPT ![r] = rec]
    BY <1>3
  <2>2. /\ rec \in R /\ rec.order = run[r].order /\ rec.candidates = <<>>
        /\ rec.pc = pc /\ rec.held = run[r].held /\ rec.offer = run[r].offer
    BY <1>1 DEF Run
  <2>3. run' \in Seq(R) /\ Runs' = Runs /\ OnlyRun(r) /\ run'[r] = rec
    BY <2>1, <2>2, RunReplaced
  <2> QED
    BY <2>2, <2>3
<1>4. CASE LoadOrder(r)
  <2>1. CASE run[r].order \in orders
    <3>1. /\ run[r].pc = "loading" /\ run' = [run EXCEPT ![r].pc = "searching"]
          /\ UNCHANGED <<gatewayVars, matchQueue, orders, requested, matched, served, failures>>
      BY <1>4, <2>1 DEF LoadOrder
    <3>2. Proceeds(r)
      BY <3>1, <1>3 DEF Proceeds, RunPCs
    <3> QED
      BY <3>1, <3>2, <1>3 DEF Moves, RunPCs, Active
  <2>2. CASE run[r].order \notin orders
    <3>1. /\ run[r].pc = "loading"
          /\ run' = [run EXCEPT ![r].pc = "threw", ![r].held = FALSE]
          /\ matchQueue' = [matchQueue EXCEPT
                ![run[r].order] = IF run[r].held THEN @ + 1 ELSE @]
          /\ UNCHANGED <<gatewayVars, orders, requested, matched, served, failures>>
      BY <1>4, <2>2 DEF LoadOrder
    <3>2. Leaves(r)
      BY <3>1, <1>2 DEF Leaves, RunPCs
    <3> QED
      BY <3>1, <3>2, <1>2 DEF Moves, RunPCs, Active
  <2> QED
    BY <2>1, <2>2
<1>5. CASE SearchDrivers(r)
  BY <1>5, OfferNextMoves DEF SearchDrivers
<1>6. CASE OfferAccepted(r)
  <2>1. /\ run[r].pc = "offered" /\ run' = [run EXCEPT ![r].pc = "publishing"]
        /\ outcome[run[r].offer] = "accepted"
        /\ UNCHANGED <<gatewayVars, brokerVars, matched>>
    BY <1>6 DEF OfferAccepted
  <2>2. Proceeds(r)
    BY <2>1, <1>3 DEF Proceeds, RunPCs, brokerVars
  <2> QED
    BY <2>1, <2>2, <1>3 DEF Moves, RunPCs, Active, brokerVars
<1>7. CASE OfferRefused(r)
  BY <1>7, OfferNextMoves DEF OfferRefused
<1>8. CASE PublishMatched(r)
  <2>1. /\ run[r].pc = "publishing" /\ run' = [run EXCEPT ![r].pc = "published"]
        /\ matched' = matched \cup
              {[order |-> run[r].order, driver |-> keyOf[run[r].offer][1],
                offer |-> run[r].offer, run |-> r]}
        /\ UNCHANGED <<gatewayVars, brokerVars>>
    BY <1>8 DEF PublishMatched
  <2>2. Proceeds(r)
    BY <2>1, <1>3 DEF Proceeds, RunPCs, brokerVars
  <2> QED
    BY <2>1, <2>2, <1>3 DEF Moves, RunPCs, Active, brokerVars
<1>9. CASE PublishFails(r)
  BY <1>9, OfferNextMoves DEF PublishFails
<1>10. CASE FinishMatched(r)
  <2>1. /\ run[r].pc = "published"
        /\ run' = [run EXCEPT ![r].pc = "returned", ![r].held = FALSE]
        /\ UNCHANGED <<gatewayVars, orders, requested, matchQueue, matched, failures>>
        /\ IF run[r].held THEN served' = [served EXCEPT ![run[r].order] = @ + 1]
                          ELSE UNCHANGED served
    BY <1>10 DEF FinishMatched, Return
  <2>2. served' = [served EXCEPT ![run[r].order] = IF run[r].held THEN @ + 1 ELSE @]
    BY <2>1 DEF MatchingInv, MatchingTypeOK
  <2>3. Leaves(r)
    BY <2>1, <2>2, <1>2 DEF Leaves, RunPCs
  <2> QED
    BY <2>1, <2>3, <1>2 DEF Moves, RunPCs, Active
<1> QED
  BY <1>4, <1>5, <1>6, <1>7, <1>8, <1>9, <1>10 DEF HandlerStep

\* What the gateway never takes back: who an offer was made to, and that the
\* driver accepted it.
GatewayKeeps ==
    /\ IInv'
    /\ Offers \subseteq Offers'
    /\ \A o \in Offers :
          /\ keyOf'[o] = keyOf[o]
          /\ outcome[o] = "accepted" => outcome'[o] = "accepted"

LEMMA InternalKeeps ==
    ASSUME IInv, GatewayInternal \/ Restart \/ UNCHANGED gatewayVars
    PROVE  GatewayKeeps /\ keyOf' = keyOf /\ Offers' = Offers
<1>0. TypeOK
  BY DEF IInv
<1>1. IInv'
  BY ResponseKeepsIInv, FinishKeepsIInv, TimerKeepsIInv, RestartKeepsIInv,
     StutterKeepsIInv DEF GatewayInternal
<1>2. keyOf' = keyOf
  BY DEF GatewayInternal, Restart, gatewayVars, HandleDriverResponse,
         FinishDriverResponse, TimerExpires
<1>3. Offers' = Offers
  BY <1>2 DEF Offers
<1>4. ASSUME NEW o \in Offers, outcome[o] = "accepted"
      PROVE  outcome'[o] = "accepted"
  <2>1. ASSUME NEW k \in Keys, NEW answer \in Answers, HandleDriverResponse(k, answer)
        PROVE  outcome'[o] = "accepted"
    BY <2>1, <1>4 DEF HandleDriverResponse, Settle
  <2>2. ASSUME NEW k \in Keys, FinishDriverResponse(k)
        PROVE  outcome'[o] = "accepted"
    BY <2>2, <1>4 DEF FinishDriverResponse
  <2>3. ASSUME NEW t \in Offers, TimerExpires(t)
        PROVE  outcome'[o] = "accepted"
    BY <2>3, <1>4 DEF TimerExpires, Settle
  <2>4. CASE Restart
    BY <2>4, <1>4 DEF Restart
  <2>5. CASE UNCHANGED gatewayVars
    BY <2>5, <1>4 DEF gatewayVars
  <2> QED
    BY <2>1, <2>2, <2>3, <2>4, <2>5 DEF GatewayInternal
<1> QED
  BY <1>1, <1>2, <1>3, <1>4 DEF GatewayKeeps

LEMMA NotifyKeeps ==
    ASSUME IInv, NEW k \in Keys, NotifyAssignedDriver(k)
    PROVE  /\ GatewayKeeps
           /\ Offers' = Offers \cup {Len(keyOf) + 1}
           /\ Len(keyOf) + 1 \notin Offers /\ Len(keyOf) + 1 # NoOffer
           /\ keyOf'[Len(keyOf) + 1] = k
<1>0. TypeOK
  BY DEF IInv
<1>1. IInv'
  BY NotifyKeepsIInv
<1>2. /\ Offers' = Offers \cup {Len(keyOf) + 1}
      /\ Len(keyOf) + 1 \notin Offers /\ Len(keyOf) + 1 # NoOffer
      /\ keyOf'[Len(keyOf) + 1] = k
      /\ \A o \in Offers : keyOf'[o] = keyOf[o]
  BY <1>0 DEF NotifyAssignedDriver, TypeOK, Offers, NoOffer
<1>3. \A o \in Offers : outcome'[o] = outcome[o]
  BY <1>0 DEF NotifyAssignedDriver, TypeOK, Offers
<1> QED
  BY <1>1, <1>2, <1>3 DEF GatewayKeeps

LEMMA MovesKeepGateway ==
    ASSUME MatchingInv, NEW r \in Runs, Moves(r)
    PROVE  GatewayKeeps
<1>1. CASE Proceeds(r) \/ Leaves(r)
  BY <1>1, InternalKeeps DEF Proceeds, Leaves, MatchingInv
<1>2. CASE Asks(r)
  <2>1. PICK d \in Drivers : NotifyAssignedDriver(<<d, run[r].order>>)
    BY <1>2 DEF Asks
  <2>2. <<d, run[r].order>> \in Keys
    BY RunType DEF Keys
  <2> QED
    BY <2>1, <2>2, NotifyKeeps DEF MatchingInv
<1> QED
  BY <1>1, <1>2 DEF Moves

-----------------------------------------------------------------------------
\* Small facts about sequences and numbers.
LEMMA SeqNarrowed ==
    ASSUME NEW R, NEW T, NEW s \in Seq(R), \A q \in DOMAIN s : s[q] \in T
    PROVE  s \in Seq(T)
<1>1. Len(s) \in Nat /\ s \in [1 .. Len(s) -> R] /\ DOMAIN s = 1 .. Len(s)
  BY LenProperties
<1>2. s \in [1 .. Len(s) -> T]
  BY <1>1
<1> QED
  BY <1>1, <1>2, SeqDef

LEMMA Bounded ==
    ASSUME NEW max \in Nat, NEW total \in [Orders -> 0 .. max],
           NEW part \in [Orders -> Nat],
           \A o \in Orders : part[o] <= total[o]
    PROVE  part \in [Orders -> 0 .. max]
OBVIOUS

LEMMA Bumped ==
    ASSUME NEW f \in [Orders -> Nat], NEW o \in Orders, NEW cond \in BOOLEAN,
           NEW g, g = [f EXCEPT ![o] = IF cond THEN @ + 1 ELSE @]
    PROVE  /\ g \in [Orders -> Nat]
           /\ \A p \in Orders : g[p] = IF p = o /\ cond THEN f[p] + 1 ELSE f[p]
OBVIOUS

LEMMA MovesKeepTypes ==
    ASSUME MatchingInv, NEW r \in Runs, Moves(r)
    PROVE  MatchingTypeOK' /\ NoRequestLost'
<1>0. /\ MatchingTypeOK /\ NoRequestLost /\ run \in Seq(Run)
      /\ OnlyRun(r) /\ Runs' = Runs
      /\ requested' = requested /\ orders' = orders /\ failures' = failures
  BY DEF MatchingInv, MatchingTypeOK, Moves
<1>1. GatewayKeeps
  BY MovesKeepGateway
<1>2. /\ run[r].order \in Orders /\ run'[r].order = run[r].order
      /\ run[r].held \in BOOLEAN /\ run[r].offer \in Offers \cup {NoOffer}
  BY RunType, <1>0 DEF OnlyRun
<1>3. ASSUME NEW q \in Runs PROVE run'[q] \in Run'
  <2>1. run'[q] \in [pc : RunPCs, order : Orders, candidates : Seq(Drivers),
                     offer : Nat, held : BOOLEAN]
    BY <1>0, ElementOfSeq, LenProperties DEF Moves, Runs
  <2>2. run'[q].offer \in Offers' \cup {NoOffer}
    <3>1. CASE q # r
      BY <3>1, <1>0, <1>1, RunType DEF OnlyRun, GatewayKeeps
    <3>2. CASE q = r /\ (Proceeds(r) \/ Leaves(r))
      BY <3>2, <1>1, <1>2 DEF Proceeds, Leaves, GatewayKeeps
    <3>3. CASE q = r /\ Asks(r)
      <4>1. PICK d \in Drivers : NotifyAssignedDriver(<<d, run[r].order>>)
        BY <3>3 DEF Asks
      <4>2. <<d, run[r].order>> \in Keys
        BY <1>2 DEF Keys
      <4>3. Len(keyOf) + 1 \in Offers'
        BY <4>1, <4>2, NotifyKeeps DEF MatchingInv
      <4> QED
        BY <3>3, <4>3 DEF Asks
    <3> QED
      BY <3>1, <3>2, <3>3 DEF Moves
  <2> QED
    BY <2>1, <2>2 DEF Run
<1>4. run' \in Seq(Run)'
  BY <1>0, <1>3, SeqNarrowed DEF Moves, Runs
<1>5. /\ matchQueue' \in [Orders -> Nat] /\ served' \in [Orders -> Nat]
      /\ NoRequestLost'
  <2>1. /\ matchQueue \in [Orders -> Nat] /\ served \in [Orders -> Nat]
        /\ requested \in [Orders -> Nat]
    BY <1>0, MatchingBounds DEF MatchingTypeOK
  <2>2. ASSUME NEW o \in Orders
        PROVE  /\ Cardinality(HeldRuns(o)) \in Nat
               /\ Cardinality(HeldRuns(o)') =
                    (Cardinality(HeldRuns(o)) - (IF r \in HeldRuns(o) THEN 1 ELSE 0))
                      + (IF r \in HeldRuns(o)' THEN 1 ELSE 0)
    BY <1>0, CountsOfOneRun
  <2>3. ASSUME NEW o \in Orders
        PROVE  /\ r \in HeldRuns(o) <=> run[r].order = o /\ run[r].held
               /\ r \in HeldRuns(o)' <=> run[r].order = o /\ run'[r].held
               /\ requested[o] = matchQueue[o] + Cardinality(HeldRuns(o)) + served[o]
    BY <1>0, <1>2 DEF HeldRuns, NoRequestLost
  <2>4. CASE Proceeds(r) \/ Asks(r)
    <3>1. matchQueue' = matchQueue /\ served' = served /\ run'[r].held = run[r].held
      BY <2>4 DEF Proceeds, Asks
    <3> QED
      BY <3>1, <2>1, <2>2, <2>3, <1>0 DEF NoRequestLost
  <2>5. CASE Leaves(r)
    <3> DEFINE Hit(o) == o = run[r].order /\ run[r].held
    <3>0. ASSUME NEW o \in Orders
          PROVE  /\ requested'[o] = requested[o] /\ requested[o] \in Nat
                 /\ matchQueue[o] \in Nat /\ served[o] \in Nat
                 /\ Cardinality(HeldRuns(o)) \in Nat
                 /\ requested[o] = matchQueue[o] + Cardinality(HeldRuns(o)) + served[o]
                 /\ Cardinality(HeldRuns(o)')
                      = Cardinality(HeldRuns(o)) - (IF Hit(o) THEN 1 ELSE 0)
      <4>1. ~(r \in HeldRuns(o)') /\ (r \in HeldRuns(o) <=> Hit(o))
        BY <2>3, <2>5 DEF Leaves
      <4>2. /\ Cardinality(HeldRuns(o)) \in Nat
            /\ Cardinality(HeldRuns(o)')
                  = Cardinality(HeldRuns(o)) - (IF Hit(o) THEN 1 ELSE 0)
        BY <4>1, <2>2
      <4> QED
        BY <4>2, <2>1, <2>3, <1>0
    <3> HIDE DEF Hit
    <3>1. CASE /\ matchQueue' = [matchQueue EXCEPT
                     ![run[r].order] = IF run[r].held THEN @ + 1 ELSE @]
               /\ served' = served /\ ~run'[r].held
      <4>1. /\ matchQueue' \in [Orders -> Nat]
            /\ \A o \in Orders :
                 matchQueue'[o] = IF Hit(o) THEN matchQueue[o] + 1 ELSE matchQueue[o]
        BY <3>1, <2>1, <1>2, Bumped DEF Hit
      <4>2. ASSUME NEW o \in Orders
            PROVE  requested'[o] = matchQueue'[o] + Cardinality(HeldRuns(o)') + served'[o]
        <5> DEFINE h == Cardinality(HeldRuns(o))
                   h2 == Cardinality(HeldRuns(o)')
        <5>1. /\ requested'[o] = requested[o] /\ requested[o] \in Nat
              /\ matchQueue[o] \in Nat /\ served[o] \in Nat /\ h \in Nat
              /\ requested[o] = matchQueue[o] + h + served[o]
              /\ h2 = h - (IF Hit(o) THEN 1 ELSE 0)
          BY <3>0
        <5>2. /\ matchQueue'[o] = IF Hit(o) THEN matchQueue[o] + 1 ELSE matchQueue[o]
              /\ served'[o] = served[o]
          BY <3>1, <4>1
        <5> HIDE DEF h, h2
        <5>3. \/ h2 = h /\ matchQueue'[o] = matchQueue[o]
              \/ h2 = h - 1 /\ matchQueue'[o] = matchQueue[o] + 1
          BY <5>1, <5>2
        <5>4. requested[o] = matchQueue'[o] + h2 + served'[o]
          BY <5>1, <5>2, <5>3, CountsMove
        <5> QED
          BY <5>1, <5>4 DEF h2
      <4> QED
        BY <3>1, <4>1, <4>2, <2>1 DEF NoRequestLost
    <3>2. CASE /\ served' = [served EXCEPT
                     ![run[r].order] = IF run[r].held THEN @ + 1 ELSE @]
               /\ matchQueue' = matchQueue /\ ~run'[r].held
      <4>1. /\ served' \in [Orders -> Nat]
            /\ \A o \in Orders :
                 served'[o] = IF Hit(o) THEN served[o] + 1 ELSE served[o]
        BY <3>2, <2>1, <1>2, Bumped DEF Hit
      <4>2. ASSUME NEW o \in Orders
            PROVE  requested'[o] = matchQueue'[o] + Cardinality(HeldRuns(o)') + served'[o]
        <5> DEFINE h == Cardinality(HeldRuns(o))
                   h2 == Cardinality(HeldRuns(o)')
        <5>1. /\ requested'[o] = requested[o] /\ requested[o] \in Nat
              /\ matchQueue[o] \in Nat /\ served[o] \in Nat /\ h \in Nat
              /\ requested[o] = matchQueue[o] + h + served[o]
              /\ h2 = h - (IF Hit(o) THEN 1 ELSE 0)
          BY <3>0
        <5>2. /\ served'[o] = IF Hit(o) THEN served[o] + 1 ELSE served[o]
              /\ matchQueue'[o] = matchQueue[o]
          BY <3>2, <4>1
        <5> HIDE DEF h, h2
        <5>3. \/ h2 = h /\ served'[o] = served[o]
              \/ h2 = h - 1 /\ served'[o] = served[o] + 1
          BY <5>1, <5>2
        <5>4. requested[o] = matchQueue'[o] + h2 + served'[o]
          BY <5>1, <5>2, <5>3, CountsMove
        <5> QED
          BY <5>1, <5>4 DEF h2
      <4> QED
        BY <3>2, <4>1, <4>2, <2>1 DEF NoRequestLost
    <3> QED
      BY <2>5, <3>1, <3>2 DEF Leaves
  <2> QED
    BY <2>4, <2>5 DEF Moves
<1>6. /\ matchQueue' \in [Orders -> 0 .. MaxRequests]
      /\ served' \in [Orders -> 0 .. MaxRequests]
  <2>1. ASSUME NEW o \in Orders
        PROVE  matchQueue'[o] <= requested'[o] /\ served'[o] <= requested'[o]
    <3>1. Cardinality(HeldRuns(o)') \in Nat
      BY <1>0, CountsOfOneRun
    <3> QED
      BY <3>1, <1>0, <1>5, MatchingBounds DEF NoRequestLost, MatchingTypeOK
  <2> QED
    BY <2>1, <1>0, <1>5, Bounded, MatchingBounds DEF MatchingTypeOK
<1>7. matched' \in SUBSET Match'
  <2>1. matched \subseteq Match'
    BY <1>0, <1>1 DEF MatchingTypeOK, Match, GatewayKeeps
  <2>2. CASE Proceeds(r) /\ run[r].pc = "publishing"
    <3>1. run[r].offer \in Offers
      BY <2>2, <1>2 DEF MatchingInv, RunsConsistent
    <3>2. keyOf[run[r].offer][1] \in Drivers
      <4>1. keyOf[run[r].offer] \in Keys
        BY <3>1, <1>0 DEF MatchingTypeOK, TypeOK, Offers
      <4> QED
        BY <4>1 DEF Keys
    <3>3. [order |-> run[r].order, driver |-> keyOf[run[r].offer][1],
           offer |-> run[r].offer, run |-> r] \in Match'
      BY <1>0, <1>1, <1>2, <3>1, <3>2 DEF Match, GatewayKeeps
    <3> QED
      BY <2>1, <2>2, <3>3 DEF Proceeds
  <2>3. CASE matched' = matched
    BY <2>1, <2>3
  <2> QED
    BY <2>2, <2>3 DEF Moves, Proceeds, Asks, Leaves
<1> QED
  BY <1>0, <1>1, <1>4, <1>5, <1>6, <1>7 DEF MatchingTypeOK, GatewayKeeps, IInv

\* What handlers know stays true when one of them moves.
LEMMA MovesKeepRuns ==
    ASSUME MatchingInv, NEW r \in Runs, Moves(r)
    PROVE  RunsConsistent' /\ OffersFollowRuns'
<1>0. /\ OnlyRun(r) /\ Runs' = Runs /\ run'[r].candidates = <<>>
      /\ requested' = requested /\ run'[r].order = run[r].order
      /\ RunsConsistent /\ OffersFollowRuns
  BY DEF MatchingInv, Moves, OnlyRun
<1>1. GatewayKeeps
  BY MovesKeepGateway
<1>2. ASSUME NEW q \in Runs
      PROVE  run[q].offer \in Offers \cup {NoOffer}
  BY RunType
<1>3. ASSUME NEW q \in Runs, q # r PROVE run'[q] = run[q]
  BY <1>0, <1>3 DEF OnlyRun
<1>4. CASE Proceeds(r) \/ Leaves(r)
  <2>1. /\ Offers' = Offers /\ keyOf' = keyOf /\ outcome' = outcome
        /\ run'[r].offer = run[r].offer
    BY <1>4 DEF Proceeds, Leaves, gatewayVars, Offers
  <2>2. \A q \in Runs : run'[q].offer = run[q].offer
    BY <1>3, <2>1
  <2>3. OffersFollowRuns'
    BY <2>1, <2>2, <1>0 DEF OffersFollowRuns
  <2>4. RunsConsistent'
    <3> SUFFICES ASSUME NEW q \in Runs
                 PROVE  /\ run'[q].candidates = <<>>
                        /\ run'[q].pc \in {"loading", "searching"} => run'[q].offer = NoOffer
                        /\ run'[q].pc \in {"offered", "publishing", "published"} =>
                              run'[q].offer # NoOffer
                        /\ run'[q].offer # NoOffer => keyOf'[run'[q].offer][2] = run'[q].order
                        /\ run'[q].pc \in {"publishing", "published"} =>
                              outcome'[run'[q].offer] = "accepted"
                        /\ run'[q].held => run'[q].pc \in Active
                        /\ requested'[run'[q].order] > 0
      BY <1>0 DEF RunsConsistent
    <3>1. CASE q # r
      BY <3>1, <1>0, <1>3, <2>1 DEF RunsConsistent
    <3>2. CASE q = r /\ Proceeds(r)
      BY <3>2, <1>0, <2>1 DEF RunsConsistent, Proceeds, Active
    <3>3. CASE q = r /\ Leaves(r)
      BY <3>3, <1>0, <2>1 DEF RunsConsistent, Leaves
    <3> QED
      BY <1>4, <3>1, <3>2, <3>3
  <2> QED
    BY <2>3, <2>4
<1>5. CASE Asks(r)
  <2> DEFINE new == Len(keyOf) + 1
  <2>1. PICK d \in Drivers : NotifyAssignedDriver(<<d, run[r].order>>)
    BY <1>5 DEF Asks
  <2>2. <<d, run[r].order>> \in Keys
    BY RunType DEF Keys
  <2>3. /\ Offers' = Offers \cup {new} /\ new \notin Offers /\ new # NoOffer
        /\ keyOf'[new] = <<d, run[r].order>>
    BY <2>1, <2>2, NotifyKeeps DEF MatchingInv
  <2>4. /\ run[r].pc = "searching" /\ run'[r].pc = "offered" /\ run'[r].offer = new
        /\ run[r].offer = NoOffer
    BY <1>5, <1>0 DEF Asks, RunsConsistent
  <2>5. RunsConsistent'
    <3> SUFFICES ASSUME NEW q \in Runs
                 PROVE  /\ run'[q].candidates = <<>>
                        /\ run'[q].pc \in {"loading", "searching"} => run'[q].offer = NoOffer
                        /\ run'[q].pc \in {"offered", "publishing", "published"} =>
                              run'[q].offer # NoOffer
                        /\ run'[q].offer # NoOffer => keyOf'[run'[q].offer][2] = run'[q].order
                        /\ run'[q].pc \in {"publishing", "published"} =>
                              outcome'[run'[q].offer] = "accepted"
                        /\ run'[q].held => run'[q].pc \in Active
                        /\ requested'[run'[q].order] > 0
      BY <1>0 DEF RunsConsistent
    <3>1. CASE q # r
      BY <3>1, <1>0, <1>1, <1>2, <1>3 DEF RunsConsistent, GatewayKeeps
    <3>2. CASE q = r
      BY <3>2, <1>0, <2>3, <2>4 DEF RunsConsistent, Active
    <3> QED
      BY <3>1, <3>2
  <2>6. OffersFollowRuns'
    <3>1. ASSUME NEW o \in Offers'
          PROVE  \E q \in Runs : run'[q].offer = o
      <4>1. CASE o = new
        BY <4>1, <2>4
      <4>2. CASE o \in Offers
        <5>1. PICK q \in Runs : run[q].offer = o
          BY <4>2, <1>0 DEF OffersFollowRuns
        <5>2. q # r
          BY <5>1, <4>2, <2>4 DEF Offers, NoOffer
        <5> QED
          BY <5>1, <5>2, <1>3
      <4> QED
        BY <4>1, <4>2, <2>3
    <3>2. ASSUME NEW p \in Runs, NEW q \in Runs,
                 run'[p].offer = run'[q].offer, run'[p].offer # NoOffer
          PROVE  p = q
      <4>1. CASE p # r /\ q # r
        BY <4>1, <3>2, <1>0, <1>3 DEF OffersFollowRuns
      <4>2. CASE p = r /\ q # r
        BY <4>2, <3>2, <1>2, <1>3, <2>3, <2>4
      <4>3. CASE p # r /\ q = r
        BY <4>3, <3>2, <1>2, <1>3, <2>3, <2>4
      <4> QED
        BY <4>1, <4>2, <4>3
    <3> QED
      BY <3>1, <3>2, <1>0 DEF OffersFollowRuns
  <2> QED
    BY <2>5, <2>6
<1> QED
  BY <1>4, <1>5 DEF Moves

\* A handler publishes once, for the offer its driver accepted.
LEMMA MovesKeepMatches ==
    ASSUME MatchingInv, NEW r \in Runs, Moves(r)
    PROVE  MatchesFollowRuns'
<1>0. /\ OnlyRun(r) /\ Runs' = Runs /\ run'[r].order = run[r].order
      /\ run[r].pc \in Active
      /\ RunsConsistent /\ MatchesFollowRuns /\ matched \subseteq Match
  BY DEF MatchingInv, MatchingTypeOK, Moves, OnlyRun
<1>1. GatewayKeeps
  BY MovesKeepGateway
<1>2. ASSUME NEW q \in Runs, q # r PROVE run'[q] = run[q]
  BY <1>0, <1>2 DEF OnlyRun
<1>3. ASSUME NEW m \in matched
      PROVE  /\ run'[m.run].offer = m.offer
             /\ run'[m.run].order = m.order
             /\ run'[m.run].pc \in {"published", "returned", "dead"}
             /\ keyOf'[m.offer] = <<m.driver, m.order>>
             /\ outcome'[m.offer] = "accepted"
  <2>1. /\ m.run \in Runs /\ m.offer \in Offers
        /\ run[m.run].offer = m.offer /\ run[m.run].order = m.order
        /\ run[m.run].pc \in {"published", "returned", "dead"}
        /\ keyOf[m.offer] = <<m.driver, m.order>> /\ outcome[m.offer] = "accepted"
    BY <1>0 DEF MatchesFollowRuns, Match
  <2>2. keyOf'[m.offer] = keyOf[m.offer] /\ outcome'[m.offer] = "accepted"
    BY <2>1, <1>1 DEF GatewayKeeps
  <2>3. CASE m.run # r
    BY <2>1, <2>2, <2>3, <1>2
  <2>4. CASE m.run = r
    <3>1. run[r].pc = "published" /\ Leaves(r)
      BY <2>1, <2>4, <1>0 DEF Active, Moves, Proceeds, Asks
    <3>2. run'[r].pc = "returned" /\ run'[r].offer = run[r].offer
      BY <3>1 DEF Leaves
    <3> QED
      BY <2>1, <2>2, <2>4, <3>2, <1>0
  <2> QED
    BY <2>3, <2>4
<1>4. CASE matched' = matched
  BY <1>3, <1>4 DEF MatchesFollowRuns
<1>5. CASE Proceeds(r) /\ run[r].pc = "publishing"
  <2> DEFINE new == [order |-> run[r].order, driver |-> keyOf[run[r].offer][1],
                     offer |-> run[r].offer, run |-> r]
  <2>1. /\ matched' = matched \cup {new} /\ run'[r].pc = "published"
        /\ run'[r].offer = run[r].offer /\ keyOf' = keyOf /\ outcome' = outcome
    BY <1>5 DEF Proceeds, gatewayVars
  <2>2. /\ run[r].offer \in Offers /\ outcome[run[r].offer] = "accepted"
        /\ keyOf[run[r].offer][2] = run[r].order
    BY <1>5, <1>0, RunType DEF RunsConsistent
  <2>3. keyOf[run[r].offer] = <<keyOf[run[r].offer][1], run[r].order>>
    <3>1. keyOf[run[r].offer] \in Keys
      BY <2>2 DEF MatchingInv, MatchingTypeOK, TypeOK, Offers
    <3> QED
      BY <3>1, <2>2 DEF Keys
  <2>4. /\ run'[new.run].offer = new.offer /\ run'[new.run].order = new.order
        /\ run'[new.run].pc \in {"published", "returned", "dead"}
        /\ keyOf'[new.offer] = <<new.driver, new.order>>
        /\ outcome'[new.offer] = "accepted"
    BY <2>1, <2>2, <2>3, <1>0
  <2> QED
    BY <2>1, <2>4, <1>3 DEF MatchesFollowRuns
<1> QED
  BY <1>4, <1>5 DEF Moves, Proceeds, Asks, Leaves

LEMMA MovesKeepInv ==
    ASSUME MatchingInv, NEW r \in Runs, Moves(r)
    PROVE  MatchingInv'
BY MovesKeepGateway, MovesKeepTypes, MovesKeepRuns, MovesKeepMatches
   DEF MatchingInv, GatewayKeeps

-----------------------------------------------------------------------------
\* The steps of the broker, the clients and the process.
LEMMA MatchingInitHolds == MatchingInit => MatchingInv
<1> SUFFICES ASSUME MatchingInit PROVE MatchingInv
  OBVIOUS
<1> USE DEF MatchingInit
<1>1. IInv
  BY InitHolds
<1>2. Runs = {} /\ Offers = {} /\ run = <<>>
  BY DEF Runs, Offers, GatewayInit
<1>3. \A o \in Orders : Cardinality(HeldRuns(o)) = 0
  <2>1. \A o \in Orders : HeldRuns(o) = {}
    BY <1>2 DEF HeldRuns
  <2> QED
    BY <2>1, FS_EmptySet
<1>4. NoRequestLost
  BY <1>2, <1>3 DEF NoRequestLost
<1>5. MatchingTypeOK
  <2>1. 0 \in 0 .. MaxRequests /\ 0 \in 0 .. MaxFailures
    BY MatchingBounds
  <2>2. run \in Seq(Run)
    BY <1>2, EmptySeq
  <2> QED
    BY <1>1, <2>1, <2>2 DEF MatchingTypeOK, IInv
<1>6. RunsConsistent /\ OffersFollowRuns /\ MatchesFollowRuns
  BY <1>2 DEF RunsConsistent, OffersFollowRuns, MatchesFollowRuns
<1> QED
  BY <1>1, <1>4, <1>5, <1>6 DEF MatchingInv

LEMMA RequestKeepsInv ==
    ASSUME MatchingInv, NEW o \in Orders, RequestMatch(o)
    PROVE  MatchingInv'
<1>0. /\ requested[o] < MaxRequests
      /\ requested' = [requested EXCEPT ![o] = @ + 1]
      /\ matchQueue' = [matchQueue EXCEPT ![o] = @ + 1]
      /\ UNCHANGED <<gatewayVars, orders, run, matched, served, failures>>
      /\ MatchingTypeOK
  BY DEF RequestMatch, MatchingInv
<1>1. /\ requested \in [Orders -> 0 .. MaxRequests]
      /\ matchQueue \in [Orders -> 0 .. MaxRequests]
      /\ served \in [Orders -> 0 .. MaxRequests]
      /\ run \in Seq(Run) /\ MaxRequests \in Nat
  BY <1>0, MatchingBounds DEF MatchingTypeOK
<1>2. /\ keyOf' = keyOf /\ outcome' = outcome /\ Offers' = Offers /\ Runs' = Runs
      /\ run' = run /\ matched' = matched /\ served' = served /\ failures' = failures
      /\ \A p \in Orders : HeldRuns(p)' = HeldRuns(p)
  BY <1>0 DEF gatewayVars, Offers, Runs, HeldRuns
<1>3. \A p \in Orders : Cardinality(HeldRuns(p)) \in Nat
  BY <1>1, RunsFinite DEF HeldRuns
<1>4. \A p \in Orders :
        /\ requested'[p] = IF p = o THEN requested[p] + 1 ELSE requested[p]
        /\ matchQueue'[p] = IF p = o THEN matchQueue[p] + 1 ELSE matchQueue[p]
        /\ requested[p] \in Nat /\ matchQueue[p] \in Nat /\ served[p] \in Nat
  BY <1>0, <1>1
<1>5. NoRequestLost'
  BY <1>2, <1>3, <1>4 DEF MatchingInv, NoRequestLost
<1>6. MatchingTypeOK'
  <2>1. requested' \in [Orders -> 0 .. MaxRequests]
    BY <1>0, <1>1
  <2>2. matchQueue' \in [Orders -> 0 .. MaxRequests]
    <3>1. matchQueue' \in [Orders -> Nat]
      BY <1>0, <1>1
    <3>2. \A p \in Orders : matchQueue'[p] <= requested'[p]
      BY <1>2, <1>3, <1>4, <1>5 DEF NoRequestLost
    <3> QED
      BY <3>1, <3>2, <2>1, <1>1, Bounded
  <2>3. TypeOK'
    BY <1>0, StutterKeepsIInv DEF MatchingInv, IInv
  <2>4. run' \in Seq(Run)' /\ matched' \in SUBSET Match'
    BY <1>0, <1>2 DEF MatchingTypeOK, Run, Match
  <2> QED
    BY <1>0, <2>1, <2>2, <2>3, <2>4 DEF MatchingTypeOK
<1>7. RunsConsistent'
  <2>1. \A p \in Orders : requested[p] > 0 => requested'[p] > 0
    BY <1>4
  <2> QED
    BY <1>2, <2>1, RunType DEF MatchingInv, RunsConsistent
<1>8. OffersFollowRuns' /\ MatchesFollowRuns'
  BY <1>2 DEF MatchingInv, OffersFollowRuns, MatchesFollowRuns
<1>9. IInv'
  BY <1>0, StutterKeepsIInv DEF MatchingInv
<1> QED
  BY <1>5, <1>6, <1>7, <1>8, <1>9 DEF MatchingInv

\* Steps that leave the deliveries and the broker's books alone.
LEMMA QuietKeepsInv ==
    ASSUME MatchingInv, GatewayInternal \/ UNCHANGED gatewayVars,
           orders' \in SUBSET Orders,
           UNCHANGED <<requested, matchQueue, served, failures, run, matched>>
    PROVE  MatchingInv'
<1>1. GatewayKeeps /\ keyOf' = keyOf /\ Offers' = Offers
  BY InternalKeeps DEF MatchingInv
<1>2. /\ Runs' = Runs
      /\ \A o \in Orders : HeldRuns(o)' = HeldRuns(o)
  BY DEF Runs, HeldRuns
<1>3. MatchingTypeOK'
  BY <1>1, <1>2 DEF MatchingInv, MatchingTypeOK, GatewayKeeps, IInv, Run, Match
<1>4. NoRequestLost'
  BY <1>2 DEF MatchingInv, NoRequestLost
<1>5. OffersFollowRuns'
  BY <1>1, <1>2 DEF MatchingInv, OffersFollowRuns
<1>6. RunsConsistent'
  <2>1. \A r \in Runs : run[r].offer # NoOffer => run[r].offer \in Offers
    BY RunType
  <2> QED
    BY <1>1, <1>2, <2>1 DEF MatchingInv, RunsConsistent, GatewayKeeps
<1>7. MatchesFollowRuns'
  <2>1. \A m \in matched : m.offer \in Offers
    BY DEF MatchingInv, MatchingTypeOK, Match
  <2> QED
    BY <1>1, <1>2, <2>1 DEF MatchingInv, MatchesFollowRuns, GatewayKeeps
<1> QED
  BY <1>1, <1>3, <1>4, <1>5, <1>6, <1>7 DEF MatchingInv, GatewayKeeps

LEMMA DeliverKeepsInv ==
    ASSUME MatchingInv, NEW o \in Orders, Deliver(o)
    PROVE  MatchingInv'
<1> DEFINE new == Len(run) + 1
           rec == [pc |-> "loading", order |-> o, candidates |-> <<>>,
                   offer |-> NoOffer, held |-> TRUE]
<1>0. /\ matchQueue[o] > 0
      /\ matchQueue' = [matchQueue EXCEPT ![o] = @ - 1]
      /\ run' = Append(run, rec)
      /\ UNCHANGED <<gatewayVars, orders, requested, matched, served, failures>>
      /\ MatchingTypeOK
  BY DEF Deliver, MatchingInv
<1>1. /\ requested \in [Orders -> 0 .. MaxRequests]
      /\ matchQueue \in [Orders -> 0 .. MaxRequests]
      /\ served \in [Orders -> 0 .. MaxRequests]
      /\ run \in Seq(Run) /\ MaxRequests \in Nat
  BY <1>0, MatchingBounds DEF MatchingTypeOK
<1>2. rec \in Run
  BY DEF Run, RunPCs, NoOffer
<1>3. /\ Len(run) \in Nat /\ Runs = 1 .. Len(run)
      /\ run' \in Seq(Run) /\ Runs' = Runs \cup {new} /\ new \notin Runs
      /\ run'[new] = rec
      /\ \A q \in Runs : run'[q] = run[q]
  BY <1>0, <1>1, <1>2 DEF Runs
<1>4. OnlyRun(new)
  BY <1>3 DEF OnlyRun
<1>5. /\ keyOf' = keyOf /\ outcome' = outcome /\ Offers' = Offers
      /\ matched' = matched /\ served' = served /\ failures' = failures
      /\ requested' = requested
  BY <1>0 DEF gatewayVars, Offers
<1>6. ASSUME NEW p \in Orders
      PROVE  /\ Cardinality(HeldRuns(p)) \in Nat
             /\ Cardinality(HeldRuns(p)') =
                  Cardinality(HeldRuns(p)) + (IF p = o THEN 1 ELSE 0)
             /\ matchQueue'[p] = matchQueue[p] - (IF p = o THEN 1 ELSE 0)
             /\ matchQueue[p] \in Nat /\ served[p] \in Nat /\ requested[p] \in Nat
  <2>1. /\ new \notin HeldRuns(p)
        /\ new \in HeldRuns(p)' <=> p = o
    BY <1>3 DEF HeldRuns
  <2>2. /\ Cardinality(HeldRuns(p)) \in Nat
        /\ Cardinality(HeldRuns(p)') =
             Cardinality(HeldRuns(p)) + (IF p = o THEN 1 ELSE 0)
    BY <1>1, <1>4, <2>1, CountsOfOneRun
  <2>3. /\ matchQueue'[p] = matchQueue[p] - (IF p = o THEN 1 ELSE 0)
        /\ matchQueue[p] \in Nat /\ served[p] \in Nat /\ requested[p] \in Nat
    BY <1>0, <1>1
  <2> QED
    BY <2>2, <2>3
<1>7. NoRequestLost'
  BY <1>5, <1>6 DEF MatchingInv, NoRequestLost
<1>8. MatchingTypeOK'
  <2>1. matchQueue' \in [Orders -> 0 .. MaxRequests]
    BY <1>0, <1>1
  <2>2. TypeOK'
    BY <1>0, StutterKeepsIInv DEF MatchingInv, IInv
  <2>3. run' \in Seq(Run)' /\ matched' \in SUBSET Match'
    BY <1>0, <1>3, <1>5 DEF MatchingTypeOK, Run, Match
  <2> QED
    BY <1>0, <2>1, <2>2, <2>3 DEF MatchingTypeOK
<1>9. requested[o] > 0
  BY <1>0, <1>6 DEF MatchingInv, NoRequestLost
<1>10. RunsConsistent'
  <2>1. ASSUME NEW q \in Runs PROVE run'[q] = run[q]
    BY <1>3
  <2>2. /\ rec.candidates = <<>> /\ rec.offer = NoOffer /\ rec.pc = "loading"
        /\ rec.order = o
    OBVIOUS
  <2> QED
    BY <1>3, <1>5, <1>9, <2>1, <2>2 DEF MatchingInv, RunsConsistent, Active
<1>11. OffersFollowRuns'
  <2>1. \A q \in Runs : run'[q].offer = run[q].offer
    BY <1>3
  <2>2. run'[new].offer = NoOffer
    BY <1>3
  <2> QED
    BY <1>3, <1>5, <2>1, <2>2 DEF MatchingInv, OffersFollowRuns
<1>12. MatchesFollowRuns'
  <2>1. \A m \in matched : run'[m.run] = run[m.run]
    BY <1>0, <1>3 DEF MatchingTypeOK, Match
  <2> QED
    BY <1>5, <2>1 DEF MatchingInv, MatchesFollowRuns
<1>13. IInv'
  BY <1>0, StutterKeepsIInv DEF MatchingInv
<1> QED
  BY <1>7, <1>8, <1>10, <1>11, <1>12, <1>13 DEF MatchingInv

\* A failure: every message kept goes back, handlers die or run on without.
Failure ==
    /\ Restart \/ UNCHANGED gatewayVars
    /\ failures < MaxFailures /\ failures' = failures + 1
    /\ Requeue
    /\ Runs' = Runs /\ run' \in Seq(Run)
    /\ \A r \in Runs :
          /\ run'[r].order = run[r].order /\ run'[r].offer = run[r].offer
          /\ run'[r].candidates = run[r].candidates
          /\ ~run'[r].held
          /\ run'[r].pc = run[r].pc \/ run'[r].pc = "dead"
    /\ UNCHANGED <<orders, requested, matched, served>>

\* Deliveries rewritten one by one.
LEMMA RunsRewritten ==
    ASSUME NEW f, f \in [Runs -> Run], run \in Seq(Run)
    PROVE  f \in Seq(Run) /\ DOMAIN f = Runs
<1>1. Len(run) \in Nat /\ Runs = 1 .. Len(run)
  BY DEF Runs
<1> QED
  BY <1>1, SeqDef

LEMMA CrashIsFailure ==
    ASSUME MatchingInv, Crash
    PROVE  Failure
<1> DEFINE dead(r) == [run[r] EXCEPT !.pc = "dead", !.held = FALSE]
<1>1. run' = [r \in Runs |-> IF run[r].pc \in Active THEN dead(r) ELSE run[r]]
  BY DEF Crash
<1>2. ASSUME NEW r \in Runs
      PROVE  /\ run[r] \in Run /\ dead(r) \in Run
             /\ dead(r).pc = "dead" /\ dead(r).held = FALSE
             /\ dead(r).order = run[r].order /\ dead(r).offer = run[r].offer
             /\ dead(r).candidates = run[r].candidates
             /\ run[r].pc \notin Active => ~run[r].held
  <2>1. run[r] \in Run
    BY RunType
  <2> QED
    BY <2>1 DEF Run, RunPCs, MatchingInv, RunsConsistent
<1>3. \A r \in Runs : run'[r] = dead(r) \/ (run'[r] = run[r] /\ run[r].pc \notin Active)
  BY <1>1
<1>4. run' \in [Runs -> Run]
  BY <1>1, <1>2
<1>5. run' \in Seq(Run) /\ Runs' = Runs
  BY <1>4, RunsRewritten DEF Runs, MatchingInv, MatchingTypeOK
<1>6. ASSUME NEW r \in Runs
      PROVE  /\ run'[r].order = run[r].order /\ run'[r].offer = run[r].offer
             /\ run'[r].candidates = run[r].candidates
             /\ ~run'[r].held
             /\ run'[r].pc = run[r].pc \/ run'[r].pc = "dead"
  <2>1. CASE run'[r] = dead(r)
    BY <2>1, <1>2
  <2>2. CASE run'[r] = run[r] /\ run[r].pc \notin Active
    BY <2>2, <1>2
  <2> QED
    BY <1>3, <2>1, <2>2
<1> QED
  BY <1>5, <1>6 DEF Crash, Failure

LEMMA ConnectionLostIsFailure ==
    ASSUME MatchingInv, ConnectionLost
    PROVE  Failure
<1> DEFINE cut(r) == [run[r] EXCEPT !.held = FALSE]
<1>1. run' = [r \in Runs |-> cut(r)]
  BY DEF ConnectionLost
<1>2. ASSUME NEW r \in Runs
      PROVE  /\ run[r] \in Run /\ cut(r) \in Run
             /\ cut(r).pc = run[r].pc /\ cut(r).held = FALSE
             /\ cut(r).order = run[r].order /\ cut(r).offer = run[r].offer
             /\ cut(r).candidates = run[r].candidates
  <2>1. run[r] \in Run
    BY RunType
  <2> QED
    BY <2>1 DEF Run
<1>3. \A r \in Runs : run'[r] = cut(r)
  BY <1>1
<1>4. run' \in [Runs -> Run]
  BY <1>1, <1>2
<1>5. run' \in Seq(Run) /\ Runs' = Runs
  BY <1>4, RunsRewritten DEF Runs, MatchingInv, MatchingTypeOK
<1> QED
  BY <1>2, <1>3, <1>5 DEF ConnectionLost, Failure

LEMMA FailureKeepsInv ==
    ASSUME MatchingInv, Failure
    PROVE  MatchingInv'
<1>1. GatewayKeeps /\ keyOf' = keyOf /\ Offers' = Offers
  BY InternalKeeps DEF MatchingInv, Failure
<1>2. ASSUME NEW r \in Runs
      PROVE  /\ ~run'[r].held
             /\ run'[r].order = run[r].order /\ run'[r].offer = run[r].offer
             /\ run'[r].candidates = run[r].candidates
             /\ run'[r].pc = run[r].pc \/ run'[r].pc = "dead"
  BY DEF Failure
<1>3. Runs' = Runs
  BY DEF Failure
<1>4. run' \in Seq(Run)
  BY DEF Failure
<1>5. ASSUME NEW o \in Orders
      PROVE  /\ Cardinality(HeldRuns(o)') = 0
             /\ matchQueue'[o] = matchQueue[o] + Cardinality(HeldRuns(o))
             /\ Cardinality(HeldRuns(o)) \in Nat
             /\ matchQueue[o] \in Nat /\ served[o] \in Nat
             /\ requested[o] \in 0 .. MaxRequests /\ MaxRequests \in Nat
             /\ requested[o] = matchQueue[o] + Cardinality(HeldRuns(o)) + served[o]
  <2>1. HeldRuns(o)' = {}
    BY <1>2, <1>3 DEF HeldRuns
  <2>2. Cardinality(HeldRuns(o)') = 0
    BY <2>1, FS_EmptySet
  <2>3. Cardinality(HeldRuns(o)) \in Nat
    BY RunsFinite DEF MatchingInv, MatchingTypeOK, HeldRuns
  <2>4. matchQueue'[o] = matchQueue[o] + Cardinality(HeldRuns(o))
    BY DEF Requeue, Failure
  <2>5. /\ matchQueue[o] \in Nat /\ served[o] \in Nat
        /\ requested[o] \in 0 .. MaxRequests /\ MaxRequests \in Nat
    BY MatchingBounds DEF MatchingInv, MatchingTypeOK
  <2>6. requested[o] = matchQueue[o] + Cardinality(HeldRuns(o)) + served[o]
    BY DEF MatchingInv, NoRequestLost
  <2> QED
    BY <2>2, <2>3, <2>4, <2>5, <2>6
<1>6. NoRequestLost'
  BY <1>5 DEF NoRequestLost, Failure
<1>7. MatchingTypeOK'
  <2>1. matchQueue' \in [Orders -> 0 .. MaxRequests]
    <3>1. \A o \in Orders : matchQueue'[o] \in 0 .. MaxRequests
      BY <1>5
    <3> QED
      BY <3>1 DEF Requeue, Failure
  <2>2. failures' \in 0 .. MaxFailures
    BY MatchingBounds DEF MatchingInv, MatchingTypeOK, Failure
  <2>3. TypeOK'
    BY <1>1 DEF GatewayKeeps, IInv
  <2>4. run' \in Seq(Run)' /\ matched' \in SUBSET Match'
    BY <1>1, <1>3, <1>4 DEF MatchingInv, MatchingTypeOK, Run, Match, Failure
  <2> QED
    BY <2>1, <2>2, <2>3, <2>4 DEF MatchingInv, MatchingTypeOK, Failure
<1>8. RunsConsistent'
  <2>1. \A r \in Runs : run[r].offer # NoOffer => run[r].offer \in Offers
    BY RunType
  <2> QED
    BY <1>1, <1>2, <1>3, <2>1 DEF MatchingInv, RunsConsistent, GatewayKeeps, Failure
<1>9. OffersFollowRuns'
  BY <1>1, <1>2, <1>3 DEF MatchingInv, OffersFollowRuns
<1>10. MatchesFollowRuns'
  <2>1. \A m \in matched : m.offer \in Offers /\ m.run \in Runs
    BY DEF MatchingInv, MatchingTypeOK, Match
  <2> QED
    BY <1>1, <1>2, <1>3, <2>1 DEF MatchingInv, MatchesFollowRuns, GatewayKeeps, Failure
<1> QED
  BY <1>1, <1>6, <1>7, <1>8, <1>9, <1>10 DEF MatchingInv, GatewayKeeps

\* The inductive invariant of the search for a driver.
THEOREM MatchingInvariant == MatchingSpec => []MatchingInv
<1>1. MatchingInv /\ [MatchingNext]_vars => MatchingInv'
  <2> SUFFICES ASSUME MatchingInv, [MatchingNext]_vars PROVE MatchingInv'
    OBVIOUS
  <2>0. orders \in SUBSET Orders
    BY DEF MatchingInv, MatchingTypeOK
  <2>1. ASSUME NEW o \in Orders, RequestMatch(o) PROVE MatchingInv'
    BY <2>1, RequestKeepsInv
  <2>2. ASSUME NEW o \in Orders, DeleteOrder(o) PROVE MatchingInv'
    BY <2>2, <2>0, QuietKeepsInv DEF DeleteOrder
  <2>3. ASSUME NEW o \in Orders, Deliver(o) PROVE MatchingInv'
    BY <2>3, DeliverKeepsInv
  <2>4. ASSUME NEW r \in Runs, HandlerStep(r) PROVE MatchingInv'
    BY <2>4, HandlerMoves, MovesKeepInv
  <2>5. CASE GatewayInternal /\ UNCHANGED <<brokerVars, run, matched>>
    BY <2>5, <2>0, QuietKeepsInv DEF brokerVars
  <2>6. CASE Crash
    BY <2>6, CrashIsFailure, FailureKeepsInv
  <2>7. CASE ConnectionLost
    BY <2>7, ConnectionLostIsFailure, FailureKeepsInv
  <2>8. CASE UNCHANGED vars
    BY <2>8, <2>0, QuietKeepsInv DEF vars, brokerVars
  <2> QED
    BY <2>1, <2>2, <2>3, <2>4, <2>5, <2>6, <2>7, <2>8 DEF MatchingNext
<1> QED
  BY MatchingInitHolds, <1>1, PTL DEF MatchingSpec

-----------------------------------------------------------------------------
\* Every value of the broker's books, the deliveries and the matches is one of
\* its type.
THEOREM MatchingTyped == MatchingSpec => []MatchingTypeOK
BY MatchingInvariant, PTL DEF MatchingInv

\* A driver.match message is ready, with one handler, or acknowledged, whatever
\* crashes, lost connections and handlers that throw do to its deliveries.
THEOREM RequestsAreKept == MatchingSpec => []NoRequestLost
BY MatchingInvariant, PTL DEF MatchingInv

\* Each order.matched message rests on a driver's acceptance of its own.
THEOREM MatchesRestOnAcceptance == MatchingSpec => []MatchRestsOnAcceptance
<1>1. MatchingInv => MatchRestsOnAcceptance
  <2> SUFFICES ASSUME MatchingInv, NEW m \in matched
               PROVE  /\ requested[m.order] > 0
                      /\ outcome[m.offer] = "accepted"
                      /\ keyOf[m.offer] = <<m.driver, m.order>>
                      /\ \A n \in matched : n.offer = m.offer => n = m
    BY DEF MatchRestsOnAcceptance
  <2>1. \A n \in matched :
           /\ n \in Match /\ n.run \in Runs /\ n.offer # NoOffer
           /\ run[n.run].offer = n.offer
           /\ run[n.run].order = n.order
           /\ keyOf[n.offer] = <<n.driver, n.order>> /\ outcome[n.offer] = "accepted"
    BY DEF MatchingInv, MatchingTypeOK, MatchesFollowRuns, Match, Offers, NoOffer
  <2>2. requested[m.order] > 0
    BY <2>1 DEF MatchingInv, RunsConsistent
  <2>3. ASSUME NEW n \in matched, n.offer = m.offer PROVE n = m
    <3>1. n.run = m.run
      BY <2>1, <2>3 DEF MatchingInv, OffersFollowRuns
    <3>2. n.order = m.order /\ n.driver = m.driver
      BY <2>1, <2>3
    <3> QED
      BY <2>1, <2>3, <3>1, <3>2 DEF Match
  <2> QED
    BY <2>1, <2>2, <2>3
<1> QED
  BY <1>1, MatchingInvariant, PTL

\* A handler whose wait nothing can end has a rival delivery of the same order.
THEOREM StuckRunsHaveRivals == MatchingSpec => []StuckRunHasRival
<1>1. MatchingInv => StuckRunHasRival
  <2> SUFFICES ASSUME MatchingInv, NEW r \in Runs, run[r].pc = "offered",
                      outcome[run[r].offer] = "pending", run[r].offer \notin armed
               PROVE  \E q \in Runs \ {r} :
                         run[q].order = run[r].order /\ run[q].offer # NoOffer
    BY DEF StuckRunHasRival
  <2> DEFINE mine == run[r].offer
  <2>1. mine \in Offers /\ mine # NoOffer /\ keyOf[mine][2] = run[r].order
    BY RunType DEF MatchingInv, RunsConsistent
  <2>2. PICK p \in Offers \ {mine} : keyOf[p] = keyOf[mine]
    BY <2>1 DEF MatchingInv, IInv, SoleOfferEndsByItsTimer, Twins
  <2>3. PICK q \in Runs : run[q].offer = p
    BY DEF MatchingInv, OffersFollowRuns
  <2>4. p # NoOffer
    BY DEF Offers, NoOffer
  <2>5. run[q].order = keyOf[p][2]
    BY <2>3, <2>4 DEF MatchingInv, RunsConsistent
  <2> QED
    BY <2>1, <2>2, <2>3, <2>4, <2>5
<1> QED
  BY <1>1, MatchingInvariant, PTL

-----------------------------------------------------------------------------
\* The refinement of Matchmaking.  A search holds its ticket from the request
\* until its handler publishes a driver, finds nobody, or finds no order.
Tickets == [o \in Orders |-> matchQueue[o] + Cardinality(Searching(o))]

SearchingPCs == {"loading", "searching", "offered", "publishing"}

LEMMA TicketsCounted ==
    ASSUME MatchingInv, NEW o \in Orders
    PROVE  /\ Tickets[o] = matchQueue[o] + Cardinality(Searching(o))
           /\ matchQueue[o] \in Nat /\ Cardinality(Searching(o)) \in Nat
           /\ Tickets[o] \in Nat
<1>1. matchQueue[o] \in Nat
  BY MatchingBounds DEF MatchingInv, MatchingTypeOK
<1>2. Cardinality(Searching(o)) \in Nat
  BY RunsFinite DEF MatchingInv, MatchingTypeOK, Searching
<1> QED
  BY <1>1, <1>2 DEF Tickets

\* A failure hands out again what was held, once for each request at most, and
\* starts no other search.
LEMMA FailureRepeats ==
    ASSUME MatchingInv, Failure, NEW o \in Orders
    PROVE  Tickets'[o] \in Nat /\ Tickets'[o] <= Tickets[o] + requested[o]
<1>1. /\ matchQueue[o] \in Nat /\ served[o] \in Nat
      /\ requested[o] = matchQueue[o] + Cardinality(HeldRuns(o)) + served[o]
      /\ Cardinality(HeldRuns(o)) \in Nat
  BY RunsFinite, MatchingBounds DEF MatchingInv, MatchingTypeOK, NoRequestLost, HeldRuns
<1>2. matchQueue'[o] = matchQueue[o] + Cardinality(HeldRuns(o))
  BY DEF Failure, Requeue
<1>3. Searching(o)' \subseteq Searching(o)
  BY DEF Failure, Searching
<1>4. IsFiniteSet(Searching(o)) /\ Cardinality(Searching(o)) \in Nat
  BY RunsFinite DEF MatchingInv, MatchingTypeOK, Searching
<1>5. /\ Cardinality(Searching(o)') \in Nat
      /\ Cardinality(Searching(o)') <= Cardinality(Searching(o))
  BY <1>3, <1>4, FS_Subset, FS_CardinalityType
<1>6. Tickets'[o] = matchQueue'[o] + Cardinality(Searching(o)')
  BY DEF Tickets
<1>7. Tickets[o] = matchQueue[o] + Cardinality(Searching(o))
  BY DEF Tickets
<1> QED
  BY <1>1, <1>2, <1>4, <1>5, <1>6, <1>7

\* A handler that goes on keeps its ticket until order.matched is out; one that
\* leaves with its message returned keeps it, any other gives it up.
LEMMA TicketsOfMoves ==
    ASSUME MatchingInv, NEW r \in Runs, Moves(r)
    PROVE  \/ UNCHANGED <<Tickets, matched>>
           \/ /\ Tickets[run[r].order] > 0
              /\ Tickets' = [Tickets EXCEPT ![run[r].order] = @ - 1]
              /\ \/ UNCHANGED matched
                 \/ \E m \in matched' \ matched :
                       /\ m.order = run[r].order /\ m.driver \in Drivers
                       /\ matched' = matched \cup {m}
<1> DEFINE o == run[r].order
<1>0. /\ OnlyRun(r) /\ o \in Orders /\ run'[r].order = o /\ Runs' = Runs
      /\ run \in Seq(Run) /\ matchQueue \in [Orders -> Nat] /\ run[r].held \in BOOLEAN
  <2>1. matchQueue \in [Orders -> Nat] /\ run \in Seq(Run)
    BY MatchingBounds DEF MatchingInv, MatchingTypeOK
  <2> QED
    BY <2>1, RunType DEF Moves, OnlyRun
<1>1. ASSUME NEW p \in Orders
      PROVE  /\ Tickets[p] = matchQueue[p] + Cardinality(Searching(p))
             /\ matchQueue[p] \in Nat
             /\ Cardinality(Searching(p)) \in Nat
             /\ Tickets'[p] = matchQueue'[p] + Cardinality(Searching(p)')
             /\ Cardinality(Searching(p)') =
                  (Cardinality(Searching(p))
                     - (IF p = o /\ run[r].pc \in SearchingPCs THEN 1 ELSE 0))
                    + (IF p = o /\ run'[r].pc \in SearchingPCs THEN 1 ELSE 0)
             /\ p = o /\ run[r].pc \in SearchingPCs => Cardinality(Searching(p)) > 0
  <2>1. /\ r \in Searching(p) <=> p = o /\ run[r].pc \in SearchingPCs
        /\ r \in Searching(p)' <=> p = o /\ run'[r].pc \in SearchingPCs
    BY <1>0 DEF Searching, SearchingPCs
  <2>2. /\ Cardinality(Searching(p)) \in Nat
        /\ Cardinality(Searching(p)') =
             (Cardinality(Searching(p)) - (IF r \in Searching(p) THEN 1 ELSE 0))
               + (IF r \in Searching(p)' THEN 1 ELSE 0)
    BY <1>0, CountsOfOneRun
  <2>3. r \in Searching(p) => Cardinality(Searching(p)) # 0
    <3>1. IsFiniteSet(Searching(p))
      BY <1>0, RunsFinite DEF Searching
    <3> QED
      BY <3>1, FS_EmptySet
  <2>4. Tickets'[p] = matchQueue'[p] + Cardinality(Searching(p)')
    BY DEF Tickets
  <2>5. Tickets[p] = matchQueue[p] + Cardinality(Searching(p)) /\ matchQueue[p] \in Nat
    BY TicketsCounted
  <2> QED
    BY <2>1, <2>2, <2>3, <2>4, <2>5
<1>2. Tickets' = [p \in Orders |-> Tickets'[p]] /\ Tickets = [p \in Orders |-> Tickets[p]]
  BY DEF Tickets
<1>3. ASSUME matchQueue' = matchQueue, run[r].pc \in SearchingPCs,
             run'[r].pc \in SearchingPCs
      PROVE  Tickets' = Tickets
  <2>1. \A p \in Orders : Tickets'[p] = Tickets[p]
    BY <1>1, <1>3
  <2> QED
    BY <1>2, <2>1
<1>4. ASSUME matchQueue' = matchQueue, run[r].pc \in SearchingPCs,
             run'[r].pc \notin SearchingPCs
      PROVE  Tickets[o] > 0 /\ Tickets' = [Tickets EXCEPT ![o] = @ - 1]
  <2>1. \A p \in Orders : Tickets'[p] = IF p = o THEN Tickets[p] - 1 ELSE Tickets[p]
    BY <1>1, <1>4
  <2>2. Tickets[o] > 0
    BY <1>0, <1>1, <1>4
  <2> QED
    BY <1>2, <2>1, <2>2
<1>5. CASE Asks(r)
  <2>1. /\ matchQueue' = matchQueue /\ matched' = matched
        /\ run[r].pc \in SearchingPCs /\ run'[r].pc \in SearchingPCs
    BY <1>5 DEF Asks, SearchingPCs
  <2> QED
    BY <2>1, <1>3
<1>6. CASE Proceeds(r)
  <2>1. CASE run[r].pc # "publishing"
    <3>1. /\ matchQueue' = matchQueue /\ matched' = matched
          /\ run[r].pc \in SearchingPCs /\ run'[r].pc \in SearchingPCs
      BY <1>6, <2>1 DEF Proceeds, SearchingPCs
    <3> QED
      BY <3>1, <1>3
  <2>2. CASE run[r].pc = "publishing"
    <3> DEFINE new == [order |-> o, driver |-> keyOf[run[r].offer][1],
                       offer |-> run[r].offer, run |-> r]
    <3>1. /\ matchQueue' = matchQueue /\ matched' = matched \cup {new}
          /\ run[r].pc \in SearchingPCs /\ run'[r].pc \notin SearchingPCs
      BY <1>6, <2>2 DEF Proceeds, SearchingPCs
    <3>2. new \notin matched
      BY <2>2 DEF MatchingInv, MatchesFollowRuns
    <3>3. MatchingTypeOK'
      BY MovesKeepTypes
    <3>4. new.driver \in Drivers
      BY <3>1, <3>3 DEF MatchingTypeOK, Match
    <3>5. \E m \in matched' \ matched :
             /\ m.order = o /\ m.driver \in Drivers
             /\ matched' = matched \cup {m}
      BY <3>1, <3>2, <3>4
    <3> QED
      BY <3>1, <3>5, <1>4
  <2> QED
    BY <2>1, <2>2
<1>7. CASE Leaves(r)
  <2>1. CASE run[r].pc # "loading"
    <3>1. matchQueue' = matchQueue /\ matched' = matched /\ run'[r].pc \notin SearchingPCs
      BY <1>7, <2>1 DEF Leaves, SearchingPCs
    <3>2. CASE run[r].pc \in SearchingPCs
      BY <3>1, <3>2, <1>4
    <3>3. CASE run[r].pc \notin SearchingPCs
      <4>1. \A p \in Orders : Tickets'[p] = Tickets[p]
        BY <1>1, <3>1, <3>3
      <4> QED
        BY <1>2, <3>1, <4>1
    <3> QED
      BY <3>2, <3>3
  <2>2. CASE run[r].pc = "loading"
    <3>1. /\ matchQueue' = [matchQueue EXCEPT ![o] = IF run[r].held THEN @ + 1 ELSE @]
          /\ matched' = matched
          /\ run[r].pc \in SearchingPCs /\ run'[r].pc \notin SearchingPCs
      BY <1>7, <2>2 DEF Leaves, SearchingPCs
    <3>2. \A p \in Orders :
             matchQueue'[p] = IF p = o /\ run[r].held THEN matchQueue[p] + 1 ELSE matchQueue[p]
      BY <3>1, <1>0, Bumped
    <3>3. CASE run[r].held
      <4>1. \A p \in Orders : Tickets'[p] = Tickets[p]
        BY <1>1, <3>1, <3>2, <3>3
      <4> QED
        BY <1>2, <3>1, <4>1
    <3>4. CASE ~run[r].held
      <4>1. matchQueue' = matchQueue
        BY <3>1, <3>4, <1>0
      <4> QED
        BY <3>1, <4>1, <1>4
    <3> QED
      BY <3>3, <3>4
  <2> QED
    BY <2>1, <2>2
<1> QED
  BY <1>5, <1>6, <1>7 DEF Moves

LEMMA AbstractInit == MatchingInit => Abstract!Init
<1> SUFFICES ASSUME MatchingInit PROVE Abstract!Init
  OBVIOUS
<1>1. \A o \in Orders : Cardinality(Searching(o)) = 0 /\ matchQueue[o] = 0
  <2>1. \A o \in Orders : Searching(o) = {}
    BY DEF MatchingInit, Searching, Runs
  <2> QED
    BY <2>1, FS_EmptySet DEF MatchingInit
<1> QED
  BY <1>1 DEF MatchingInit, Abstract!Init

LEMMA AbstractStep ==
    ASSUME MatchingInv, MatchingInv', [MatchingNext]_vars
    PROVE  Abstract!Next \/ UNCHANGED <<requested, Tickets, matched, failures>>
<1>1. ASSUME NEW o \in Orders, RequestMatch(o) PROVE Abstract!Next
  <2>1. /\ requested' = [requested EXCEPT ![o] = @ + 1]
        /\ matchQueue' = [matchQueue EXCEPT ![o] = @ + 1]
        /\ run' = run /\ matched' = matched /\ failures' = failures
    BY <1>1 DEF RequestMatch
  <2>2. \A p \in Orders : Searching(p)' = Searching(p)
    BY <2>1 DEF Searching, Runs
  <2>3. \A p \in Orders : matchQueue'[p] = IF p = o THEN matchQueue[p] + 1 ELSE matchQueue[p]
    BY <2>1 DEF MatchingInv, MatchingTypeOK
  <2>4. \A p \in Orders : /\ Tickets[p] = matchQueue[p] + Cardinality(Searching(p))
                          /\ matchQueue[p] \in Nat /\ Cardinality(Searching(p)) \in Nat
    BY TicketsCounted
  <2>5. Tickets' = [Tickets EXCEPT ![o] = @ + 1]
    <3>1. \A p \in Orders : Tickets'[p] = IF p = o THEN Tickets[p] + 1 ELSE Tickets[p]
      BY <2>2, <2>3, <2>4 DEF Tickets
    <3> QED
      BY <3>1 DEF Tickets
  <2> QED
    BY <2>1, <2>5 DEF Abstract!Next, Abstract!Request, Tickets
<1>2. ASSUME NEW o \in Orders, Deliver(o)
      PROVE  UNCHANGED <<requested, Tickets, matched, failures>>
  <2> DEFINE new == Len(run) + 1
             rec == [pc |-> "loading", order |-> o, candidates |-> <<>>,
                     offer |-> NoOffer, held |-> TRUE]
  <2>1. /\ matchQueue' = [matchQueue EXCEPT ![o] = @ - 1]
        /\ run' = Append(run, rec)
        /\ UNCHANGED <<requested, matched, failures>>
        /\ run \in Seq(Run) /\ rec \in Run
    BY <1>2 DEF Deliver, MatchingInv, MatchingTypeOK, Run, RunPCs, NoOffer
  <2>2. /\ Runs' = Runs \cup {new} /\ new \notin Runs /\ run'[new] = rec
        /\ \A q \in Runs : run'[q] = run[q]
    BY <2>1 DEF Runs
  <2>3. OnlyRun(new)
    BY <2>2 DEF OnlyRun
  <2>4. ASSUME NEW p \in Orders
        PROVE  Tickets'[p] = Tickets[p]
    <3>1. new \notin Searching(p) /\ (new \in Searching(p)' <=> p = o)
      BY <2>2 DEF Searching
    <3>2. /\ Cardinality(Searching(p)) \in Nat
          /\ Cardinality(Searching(p)') =
               Cardinality(Searching(p)) + (IF p = o THEN 1 ELSE 0)
      BY <2>1, <2>3, <3>1, CountsOfOneRun
    <3>3. /\ matchQueue'[p] = matchQueue[p] - (IF p = o THEN 1 ELSE 0)
          /\ matchQueue[p] \in Nat
      BY <2>1, MatchingBounds DEF MatchingInv, MatchingTypeOK
    <3> QED
      BY <3>2, <3>3 DEF Tickets
  <2> QED
    BY <2>1, <2>4 DEF Tickets
<1>3. ASSUME NEW r \in Runs, HandlerStep(r)
      PROVE  Abstract!Next \/ UNCHANGED <<requested, Tickets, matched, failures>>
  <2>1. Moves(r) /\ run[r].order \in Orders
    BY <1>3, HandlerMoves, RunType
  <2>2. UNCHANGED <<requested, failures>>
    BY <2>1 DEF Moves
  <2>3. \/ UNCHANGED <<Tickets, matched>>
        \/ /\ Tickets[run[r].order] > 0
           /\ Tickets' = [Tickets EXCEPT ![run[r].order] = @ - 1]
           /\ \/ UNCHANGED matched
              \/ \E m \in matched' \ matched :
                    /\ m.order = run[r].order /\ m.driver \in Drivers
                    /\ matched' = matched \cup {m}
    BY <2>1, TicketsOfMoves
  <2> QED
    BY <2>1, <2>2, <2>3 DEF Abstract!Next, Abstract!Match, Abstract!Close, Tickets
<1>4. ASSUME Failure PROVE Abstract!Next
  <2>1. /\ UNCHANGED <<requested, matched>> /\ failures' = failures + 1
    BY <1>4 DEF Failure
  <2>2. \A o \in Orders : Tickets'[o] \in Nat /\ Tickets'[o] <= Tickets[o] + requested[o]
    BY <1>4, FailureRepeats
  <2> QED
    BY <2>1, <2>2 DEF Abstract!Next, Abstract!Fail, Tickets
<1>5. ASSUME UNCHANGED <<requested, matchQueue, run, matched, failures>>
      PROVE  UNCHANGED <<requested, Tickets, matched, failures>>
  <2>1. \A p \in Orders : Searching(p)' = Searching(p)
    BY <1>5 DEF Searching, Runs
  <2> QED
    BY <1>5, <2>1 DEF Tickets
<1> QED
  <2>1. CASE Crash \/ ConnectionLost
    BY <2>1, <1>4, CrashIsFailure, ConnectionLostIsFailure
  <2>2. CASE \E o \in Orders : DeleteOrder(o)
    BY <2>2, <1>5 DEF DeleteOrder
  <2>3. CASE GatewayInternal /\ UNCHANGED <<brokerVars, run, matched>>
    BY <2>3, <1>5 DEF brokerVars
  <2>4. CASE UNCHANGED vars
    BY <2>4, <1>5 DEF vars, brokerVars
  <2> QED
    BY <2>1, <2>2, <2>3, <2>4, <1>1, <1>2, <1>3 DEF MatchingNext

\* The consumer, the gateway and the broker keep Matchmaking's promise: no
\* driver is announced without a search of that order to spend.
THEOREM MatchmakingImplemented == MatchingSpec => ImplementsMatchmaking
<1>1. MatchingInv /\ MatchingInv' /\ [MatchingNext]_vars => [Abstract!Next]_(Abstract!vars)
  BY AbstractStep DEF Abstract!vars, Tickets
<1> QED
  BY AbstractInit, <1>1, MatchingInvariant, PTL
     DEF MatchingSpec, ImplementsMatchmaking, Abstract!Spec

-----------------------------------------------------------------------------
\* What an order was given and may still be given is within what was asked, once
\* and again after each failure.
MatchesPaid ==
    \A o \in Orders :
        /\ IsFiniteSet(MatchesOf(o))
        /\ Cardinality(MatchesOf(o)) + Tickets[o] <= requested[o] * (failures + 1)

\* Another request, or another failure, raises the limit.
LEMMA LimitGrows ==
    ASSUME NEW a \in Nat, NEW f \in Nat
    PROVE  /\ a * (f + 1) \in Nat
           /\ (a + 1) * (f + 1) = a * (f + 1) + f + 1
           /\ a * (f + 1 + 1) = a * (f + 1) + a
OBVIOUS

LEMMA MatchesPaidAtFirst == MatchingInit => MatchesPaid
<1> SUFFICES ASSUME MatchingInit, NEW o \in Orders
             PROVE  /\ IsFiniteSet(MatchesOf(o))
                    /\ Cardinality(MatchesOf(o)) + Tickets[o]
                         <= requested[o] * (failures + 1)
  BY DEF MatchesPaid
<1>1. MatchesOf(o) = {} /\ Searching(o) = {}
  BY DEF MatchingInit, MatchesOf, Searching, Runs
<1>2. /\ IsFiniteSet(MatchesOf(o))
      /\ Cardinality(MatchesOf(o)) = 0 /\ Cardinality(Searching(o)) = 0
  BY <1>1, FS_EmptySet
<1>3. Tickets[o] = 0
  BY <1>2 DEF Tickets, MatchingInit
<1> QED
  BY <1>2, <1>3 DEF MatchingInit

LEMMA MatchesStayPaid ==
    ASSUME MatchingInv, MatchingInv', MatchesPaid, [MatchingNext]_vars
    PROVE  MatchesPaid'
<1> SUFFICES ASSUME NEW o \in Orders
             PROVE  /\ IsFiniteSet(MatchesOf(o)')
                    /\ Cardinality(MatchesOf(o)') + Tickets'[o]
                         <= requested'[o] * (failures' + 1)
  BY DEF MatchesPaid
<1> DEFINE limit == requested[o] * (failures + 1)
<1>1. /\ requested \in [Orders -> Nat] /\ requested[o] \in Nat /\ failures \in Nat
      /\ limit \in Nat
      /\ IsFiniteSet(MatchesOf(o)) /\ Cardinality(MatchesOf(o)) \in Nat
      /\ Cardinality(MatchesOf(o)) + Tickets[o] <= limit
  <2>1. requested \in [Orders -> Nat] /\ requested[o] \in Nat /\ failures \in Nat
    BY MatchingBounds DEF MatchingInv, MatchingTypeOK
  <2> QED
    BY <2>1, LimitGrows, FS_CardinalityType DEF MatchesPaid
<1>2. Tickets[o] \in Nat /\ Tickets \in [Orders -> Nat]
  <2>1. \A p \in Orders : Tickets[p] \in Nat
    BY TicketsCounted
  <2> QED
    BY <2>1 DEF Tickets
<1>3. UNCHANGED matched => MatchesOf(o)' = MatchesOf(o)
  BY DEF MatchesOf
<1>4. ASSUME NEW p \in Orders, Abstract!Request(p)
      PROVE  /\ IsFiniteSet(MatchesOf(o)')
             /\ Cardinality(MatchesOf(o)') + Tickets'[o]
                  <= requested'[o] * (failures' + 1)
  <2>1. /\ requested' = [requested EXCEPT ![p] = @ + 1]
        /\ Tickets' = [Tickets EXCEPT ![p] = @ + 1]
        /\ matched' = matched /\ failures' = failures
    BY <1>4 DEF Abstract!Request, Tickets
  <2>2. CASE p = o
    <3>1. requested'[o] = requested[o] + 1 /\ Tickets'[o] = Tickets[o] + 1
      BY <1>1, <1>2, <2>1, <2>2
    <3>2. requested'[o] * (failures' + 1) = limit + failures + 1
      BY <1>1, <2>1, <3>1, LimitGrows
    <3> HIDE DEF limit
    <3> QED
      BY <1>1, <1>2, <1>3, <2>1, <3>1, <3>2
  <2>3. CASE p # o
    <3>1. requested'[o] = requested[o] /\ Tickets'[o] = Tickets[o]
      BY <1>1, <1>2, <2>1, <2>3
    <3> QED
      BY <1>1, <1>3, <2>1, <3>1
  <2> QED
    BY <2>2, <2>3
<1>5. ASSUME NEW p \in Orders, Abstract!Match(p)
      PROVE  /\ IsFiniteSet(MatchesOf(o)')
             /\ Cardinality(MatchesOf(o)') + Tickets'[o]
                  <= requested'[o] * (failures' + 1)
  <2>1. /\ requested' = requested /\ failures' = failures
        /\ Tickets' = [Tickets EXCEPT ![p] = @ - 1]
    BY <1>5 DEF Abstract!Match, Tickets
  <2>2. PICK m \in matched' \ matched : m.order = p /\ matched' = matched \cup {m}
    BY <1>5 DEF Abstract!Match
  <2>3. CASE p = o
    <3>1. MatchesOf(o)' = MatchesOf(o) \cup {m} /\ m \notin MatchesOf(o)
      BY <2>2, <2>3 DEF MatchesOf
    <3>2. /\ IsFiniteSet(MatchesOf(o)')
          /\ Cardinality(MatchesOf(o)') = Cardinality(MatchesOf(o)) + 1
      BY <1>1, <3>1, FS_AddElement
    <3>3. Tickets'[o] = Tickets[o] - 1
      BY <1>2, <2>1, <2>3
    <3> HIDE DEF limit
    <3>4. requested'[o] * (failures' + 1) = limit
      BY <2>1 DEF limit
    <3> QED
      BY <1>1, <1>2, <3>2, <3>3, <3>4
  <2>4. CASE p # o
    <3>1. MatchesOf(o)' = MatchesOf(o) /\ Tickets'[o] = Tickets[o]
      BY <1>2, <2>1, <2>2, <2>4 DEF MatchesOf
    <3> QED
      BY <1>1, <2>1, <3>1
  <2> QED
    BY <2>3, <2>4
<1>6. ASSUME NEW p \in Orders, Abstract!Close(p)
      PROVE  /\ IsFiniteSet(MatchesOf(o)')
             /\ Cardinality(MatchesOf(o)') + Tickets'[o]
                  <= requested'[o] * (failures' + 1)
  <2>1. /\ UNCHANGED <<requested, failures, matched>>
        /\ Tickets' = [Tickets EXCEPT ![p] = @ - 1]
    BY <1>6 DEF Abstract!Close, Tickets
  <2>2. Tickets'[o] <= Tickets[o] /\ Tickets'[o] \in Int
    BY <1>2, <2>1
  <2> HIDE DEF limit
  <2>3. requested'[o] * (failures' + 1) = limit
    BY <2>1 DEF limit
  <2> QED
    BY <1>1, <1>2, <1>3, <2>1, <2>2, <2>3
<1>7. ASSUME Abstract!Fail
      PROVE  /\ IsFiniteSet(MatchesOf(o)')
             /\ Cardinality(MatchesOf(o)') + Tickets'[o]
                  <= requested'[o] * (failures' + 1)
  <2>1. /\ UNCHANGED <<requested, matched>> /\ failures' = failures + 1
        /\ Tickets'[o] \in Nat /\ Tickets'[o] <= Tickets[o] + requested[o]
    BY <1>7 DEF Abstract!Fail, Tickets
  <2>2. requested'[o] * (failures' + 1) = limit + requested[o]
    BY <1>1, <2>1, LimitGrows
  <2> HIDE DEF limit
  <2> QED
    BY <1>1, <1>2, <1>3, <2>1, <2>2
<1>8. ASSUME UNCHANGED <<requested, Tickets, matched, failures>>
      PROVE  /\ IsFiniteSet(MatchesOf(o)')
             /\ Cardinality(MatchesOf(o)') + Tickets'[o]
                  <= requested'[o] * (failures' + 1)
  BY <1>1, <1>3, <1>8
<1> QED
  BY <1>4, <1>5, <1>6, <1>7, <1>8, AbstractStep DEF Abstract!Next

\* No order is given away more often than its driver was requested, each request
\* counted again after every crash and lost connection.
THEOREM MatchesBounded == MatchingSpec => []MatchesWithinRequests
<1>1. MatchingInv /\ MatchingInv' /\ MatchesPaid /\ [MatchingNext]_vars => MatchesPaid'
  BY MatchesStayPaid
<1>2. MatchingInv /\ MatchesPaid => MatchesWithinRequests
  <2> SUFFICES ASSUME MatchingInv, MatchesPaid, NEW o \in Orders
               PROVE  Cardinality(MatchesOf(o)) <= requested[o] * (failures + 1)
    BY DEF MatchesWithinRequests
  <2>1. /\ Cardinality(MatchesOf(o)) \in Nat /\ Tickets[o] \in Nat
        /\ Cardinality(MatchesOf(o)) + Tickets[o] <= requested[o] * (failures + 1)
    BY TicketsCounted, FS_CardinalityType DEF MatchesPaid
  <2>2. requested[o] \in Nat /\ failures \in Nat
    BY MatchingBounds DEF MatchingInv, MatchingTypeOK
  <2>3. requested[o] * (failures + 1) \in Nat
    BY <2>2, LimitGrows
  <2> QED
    BY <2>1, <2>3
<1> QED
  BY MatchesPaidAtFirst, <1>1, <1>2, MatchingInvariant, PTL DEF MatchingSpec
=============================================================================
