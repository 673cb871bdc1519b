------------------------- MODULE DriverSearchProofs -------------------------
(***************************************************************************)
(* Safety of DriverSearch for every set of drivers, places and searches.   *)
(*                                                                         *)
(* The argument: a driver who has not moved since a search began has one   *)
(* value in Redis for all of its steps, so the list of keys, the values    *)
(* read and the answer agree with it; whoever disagrees has moved.         *)
(***************************************************************************)
EXTENDS DriverSearch, WellFoundedInduction, TLAPS

\* What a search that reads the positions knows of the drivers that stood still.
ReadsOK(s) ==
    \A d \in Drivers \ moved[s] :
        /\ d \in search[s].keys <=> location[d] # NoPlace
        /\ search[s].read[d] \in {NoPlace, location[d]}

SearchOK(s) ==
    /\ search[s].pc = "unused" => moved[s] = {}
    /\ search[s].pc \in {"unused", "merchant", "keys"} =>
          search[s].read = [d \in Drivers |-> NoPlace] /\ search[s].drivers = {}
    /\ search[s].pc = "get" => ReadsOK(s)

AnswersOK == SteadyDriverNotMissed /\ SteadyResultIsNear /\ SearchFailureExplained

IInv == TypeOK /\ (\A s \in Searches : SearchOK(s)) /\ AnswersOK

-----------------------------------------------------------------------------
\* "ORDER BY driver_id": when there is a row there is a first one.
LEMMA FirstRowExists ==
    ASSUME NEW drivers \in SUBSET Drivers, NEW d \in drivers
    PROVE  \E e \in FirstRow(drivers) : e <= d
<1> DEFINE Less == OpToRel(<, Nat)
<1>1. drivers \subseteq Nat
  BY DriversAssumption
<1>2. PICK e \in drivers : \A f \in drivers : ~ (<<f, e>> \in Less)
  BY <1>1, NatLessThanWellFounded, WFMin
<1>3. \A f \in drivers : ~ (f < e)
  <2> SUFFICES ASSUME NEW f \in drivers, f < e PROVE <<f, e>> \in Less
    BY <1>2
  <2> QED
    BY <1>1 DEF OpToRel
<1>4. \A f \in drivers : e <= f
  BY <1>1, <1>3
<1> QED
  BY <1>4 DEF FirstRow

LEMMA InitHolds == Init => IInv
<1> SUFFICES ASSUME Init PROVE IInv
  OBVIOUS
<1>1. (CHOOSE m \in Merchants : TRUE) \in Merchants
  BY PlacesAssumption
<1>2. TypeOK
  BY <1>1 DEF Init, TypeOK, Search, SearchPCs
<1> QED
  BY <1>2 DEF Init, IInv, SearchOK, AnswersOK, SteadyDriverNotMissed, SteadyResultIsNear,
     SearchFailureExplained, Found

-----------------------------------------------------------------------------
\* A key takes another value: for the searches under way its driver has moved.
LEMMA SetLocationKeeps ==
    ASSUME IInv, NEW d \in Drivers, NEW place \in Places \cup {NoPlace}, SetLocation(d, place)
    PROVE  IInv'
<1>1. /\ location' = [location EXCEPT ![d] = place]
      /\ moved' = [s \in Searches |-> IF Started(s) THEN moved[s] \cup {d} ELSE moved[s]]
      /\ UNCHANGED <<merchants, search>>
      /\ TypeOK
  BY DEF SetLocation, IInv
<1>2. TypeOK'
  BY <1>1 DEF TypeOK
<1>3. \A e \in Drivers : e # d => location'[e] = location[e]
  BY <1>1 DEF TypeOK
<1>4. ASSUME NEW s \in Searches, search[s].pc # "unused"
      PROVE  moved'[s] = moved[s] \cup {d}
  BY <1>1, <1>4 DEF Started
<1>5. ASSUME NEW s \in Searches PROVE SearchOK(s)'
  <2>1. SearchOK(s)
    BY DEF IInv
  <2>2. CASE search[s].pc = "unused"
    BY <1>1, <2>1, <2>2 DEF SearchOK, Started
  <2>3. CASE search[s].pc # "unused"
    <3>1. ReadsOK(s) => ReadsOK(s)'
      BY <1>1, <1>3, <1>4, <2>3 DEF ReadsOK
    <3> QED
      BY <1>1, <2>1, <2>3, <3>1 DEF SearchOK
  <2> QED
    BY <2>2, <2>3
<1>6. AnswersOK'
  <2>1. \A s \in Searches, e \in Drivers :
           Found(s) /\ e \notin moved'[s] =>
              e \notin moved[s] /\ (NearNow(s, e)' <=> NearNow(s, e))
    BY <1>1, <1>3, <1>4 DEF Found, NearNow
  <2>2. SteadyDriverNotMissed' /\ SteadyResultIsNear'
    BY <1>1, <2>1 DEF IInv, AnswersOK, SteadyDriverNotMissed, SteadyResultIsNear, Found
  <2>3. SearchFailureExplained'
    BY <1>1, <1>4 DEF SearchFailureExplained
  <2> QED
    BY <2>2, <2>3 DEF AnswersOK
<1> QED
  BY <1>2, <1>5, <1>6 DEF IInv

\* One search goes on; if that ends it, its answer or its failure is accounted for.
LEMMA OneSearchChanges ==
    ASSUME IInv, NEW s \in Searches, NEW k \in Search,
           search' = [search EXCEPT ![s] = k], UNCHANGED <<location, merchants, moved>>,
           SearchOK(s)',
           k.pc = "found" =>
              \A d \in Drivers \ moved[s] :
                  /\ <<location[d], k.merchant>> \in Within => \E e \in k.drivers : e <= d
                  /\ d \in k.drivers => <<location[d], k.merchant>> \in Within,
           k.pc = "failed" =>
              \/ k.merchant \notin merchants
              \/ moved[s] # {}
              \/ \E d \in Drivers : location[d] \in Unusable
    PROVE  IInv'
<1>1. TypeOK
  BY DEF IInv
<1>2. search'[s] = k /\ \A t \in Searches : t # s => search'[t] = search[t]
  BY <1>1 DEF TypeOK
<1>3. TypeOK'
  BY <1>1 DEF TypeOK
<1>4. ASSUME NEW t \in Searches PROVE SearchOK(t)'
  BY <1>2, <1>4 DEF IInv, SearchOK, ReadsOK
<1>5. SteadyDriverNotMissed'
  BY <1>2 DEF IInv, AnswersOK, SteadyDriverNotMissed, Found, NearNow
<1>6. SteadyResultIsNear'
  BY <1>2 DEF IInv, AnswersOK, SteadyResultIsNear, Found, NearNow
<1>7. SearchFailureExplained'
  BY <1>2 DEF IInv, AnswersOK, SearchFailureExplained
<1> QED
  BY <1>3, <1>4, <1>5, <1>6, <1>7 DEF IInv, AnswersOK

LEMMA StartSearchKeeps ==
    ASSUME IInv, NEW s \in Searches, NEW m \in Merchants, StartSearch(s, m)
    PROVE  IInv'
<1> DEFINE k == [search[s] EXCEPT !.pc = "merchant", !.merchant = m]
<1>1. /\ search[s] \in Search /\ search[s].pc = "unused"
      /\ search \in [Searches -> Search] /\ SearchOK(s)
      /\ search' = [search EXCEPT ![s] = k] /\ UNCHANGED <<location, merchants, moved>>
  BY DEF StartSearch, IInv, TypeOK
<1>2. /\ k \in Search /\ k.pc = "merchant"
      /\ k.read = search[s].read /\ k.drivers = search[s].drivers
  BY <1>1 DEF Search, SearchPCs
<1> HIDE DEF k
<1>3. search'[s] = k
  BY <1>1
<1>4. SearchOK(s)'
  BY <1>1, <1>2, <1>3 DEF SearchOK
<1> QED
  BY <1>1, <1>2, <1>4, OneSearchChanges

LEMMA GetMerchantLocationKeeps ==
    ASSUME IInv, NEW s \in Searches, GetMerchantLocation(s)
    PROVE  IInv'
<1> DEFINE pc == IF search[s].merchant \in merchants THEN "keys" ELSE "failed"
           k == [search[s] EXCEPT !.pc = pc]
<1>1. /\ search[s] \in Search /\ search[s].pc = "merchant"
      /\ search \in [Searches -> Search] /\ SearchOK(s)
      /\ search' = [search EXCEPT ![s] = k] /\ UNCHANGED <<location, merchants, moved>>
  BY DEF GetMerchantLocation, IInv, TypeOK
<1>2. /\ k \in Search /\ k.read = search[s].read /\ k.merchant = search[s].merchant
      /\ k.pc = pc /\ k.drivers = search[s].drivers
  BY <1>1 DEF Search, SearchPCs
<1> HIDE DEF k
<1>3. search'[s] = k
  BY <1>1
<1>4. SearchOK(s)'
  BY <1>1, <1>2, <1>3 DEF SearchOK
<1> QED
  BY <1>1, <1>2, <1>4, OneSearchChanges

\* The keys listed are those of the drivers who have a position by now.
LEMMA ListKeysKeeps ==
    ASSUME IInv, NEW s \in Searches, ListKeys(s)
    PROVE  IInv'
<1> DEFINE keys == {d \in Drivers : location[d] # NoPlace}
           pc == IF keys = {} THEN "found" ELSE "get"
           k == [search[s] EXCEPT !.keys = keys, !.pc = pc]
<1>1. /\ search[s] \in Search /\ search[s].pc = "keys"
      /\ search \in [Searches -> Search] /\ SearchOK(s)
      /\ search' = [search EXCEPT ![s] = k] /\ UNCHANGED <<location, merchants, moved>>
  BY DEF ListKeys, IInv, TypeOK
<1>2. /\ k \in Search /\ k.read = search[s].read /\ k.keys = keys /\ k.pc = pc
      /\ k.drivers = search[s].drivers
  BY <1>1 DEF Search, SearchPCs
<1> HIDE DEF k
<1>3. search'[s] = k
  BY <1>1
<1>4. ReadsOK(s)'
  BY <1>1, <1>2, <1>3 DEF ReadsOK, SearchOK
<1>5. SearchOK(s)'
  BY <1>2, <1>3, <1>4 DEF SearchOK
<1>6. k.pc = "found" => \A d \in Drivers : location[d] = NoPlace
  BY <1>2
<1>7. \A m \in Merchants : <<NoPlace, m>> \notin Within
  BY PlacesAssumption
<1>8. k.drivers = {} /\ k.merchant \in Merchants
  BY <1>1, <1>2 DEF SearchOK, Search
<1> QED
  BY <1>1, <1>2, <1>5, <1>6, <1>7, <1>8, OneSearchChanges

\* A driver whose key was listed and is gone has moved.
LEMMA GetLocationKeeps ==
    ASSUME IInv, NEW s \in Searches, NEW d \in Drivers, GetLocation(s, d)
    PROVE  IInv'
<1> DEFINE pc == IF location[d] = NoPlace THEN "failed" ELSE search[s].pc
           read == [search[s].read EXCEPT ![d] = location[d]]
           k == [search[s] EXCEPT !.read = read, !.pc = pc]
<1>1. /\ search[s] \in Search /\ search[s].pc = "get" /\ d \in search[s].keys
      /\ search \in [Searches -> Search] /\ location \in [Drivers -> Places \cup {NoPlace}]
      /\ search' = [search EXCEPT ![s] = k] /\ UNCHANGED <<location, merchants, moved>>
      /\ ReadsOK(s)
  BY DEF GetLocation, Unread, IInv, TypeOK, SearchOK
<1>2. read \in [Drivers -> Places \cup {NoPlace}]
  BY <1>1 DEF Search
<1>3. /\ k \in Search /\ k.read = read /\ k.keys = search[s].keys /\ k.pc = pc
      /\ k.merchant = search[s].merchant
  BY <1>1, <1>2 DEF Search, SearchPCs
<1> HIDE DEF k
<1>4. search'[s] = k
  BY <1>1
<1>5. \A e \in Drivers : read[e] = IF e = d THEN location[d] ELSE search[s].read[e]
  BY <1>1 DEF Search
<1> HIDE DEF read
<1>6. ReadsOK(s)'
  BY <1>1, <1>3, <1>4, <1>5 DEF ReadsOK
<1>7. SearchOK(s)'
  BY <1>1, <1>3, <1>4, <1>6 DEF SearchOK
<1>8. location[d] = NoPlace => moved[s] # {}
  BY <1>1 DEF ReadsOK
<1> QED
  BY <1>1, <1>3, <1>7, <1>8, OneSearchChanges

\* For the drivers that stood still the query sees what is true now.
LEMMA QueryNearbyKeeps ==
    ASSUME IInv, NEW s \in Searches, QueryNearby(s)
    PROVE  IInv'
<1>1. /\ search[s] \in Search /\ search[s].pc = "get" /\ Unread(s) = {}
      /\ search \in [Searches -> Search] /\ location \in [Drivers -> Places \cup {NoPlace}]
      /\ UNCHANGED <<location, merchants, moved>>
      /\ ReadsOK(s)
  BY DEF QueryNearby, IInv, TypeOK, SearchOK
<1>2. \A d \in Drivers \ moved[s] :
         d \in search[s].keys => search[s].read[d] = location[d] /\ location[d] # NoPlace
  BY <1>1 DEF ReadsOK, Unread
<1>3. CASE \E d \in search[s].keys : search[s].read[d] \in Unusable
  <2> DEFINE k == [search[s] EXCEPT !.pc = "failed"]
  <2>1. k \in Search /\ k.pc = "failed" /\ search' = [search EXCEPT ![s] = k]
    BY <1>1, <1>3 DEF QueryNearby, Search, SearchPCs
  <2> HIDE DEF k
  <2>2. SearchOK(s)'
    BY <1>1, <2>1 DEF SearchOK
  <2>3. moved[s] # {} \/ \E d \in Drivers : location[d] \in Unusable
    BY <1>1, <1>2, <1>3 DEF Search
  <2> QED
    BY <1>1, <2>1, <2>2, <2>3, OneSearchChanges
<1>4. CASE ~ \E d \in search[s].keys : search[s].read[d] \in Unusable
  <2> DEFINE k == [search[s] EXCEPT !.pc = "found", !.drivers = FirstRow(InRange(s))]
  <2>1. InRange(s) \in SUBSET Drivers /\ FirstRow(InRange(s)) \in SUBSET InRange(s)
    BY <1>1 DEF InRange, FirstRow, Search
  <2>2. /\ k \in Search /\ k.pc = "found" /\ k.drivers = FirstRow(InRange(s))
        /\ k.merchant = search[s].merchant
        /\ search' = [search EXCEPT ![s] = k]
    BY <1>1, <1>4, <2>1 DEF QueryNearby, Search, SearchPCs
  <2> HIDE DEF k
  <2>3. SearchOK(s)'
    BY <1>1, <2>2 DEF SearchOK
  <2>4. \A m \in Merchants : <<NoPlace, m>> \notin Within
    BY PlacesAssumption
  <2>5. \A d \in Drivers \ moved[s] :
           d \in InRange(s) <=> <<location[d], k.merchant>> \in Within
    <3>1. k.merchant \in Merchants
      BY <1>1, <2>2 DEF Search
    <3> QED
      BY <1>1, <1>2, <2>2, <2>4, <3>1 DEF InRange, ReadsOK
  <2>6. \A d \in Drivers \ moved[s] :
           /\ <<location[d], k.merchant>> \in Within => \E e \in k.drivers : e <= d
           /\ d \in k.drivers => <<location[d], k.merchant>> \in Within
    BY <2>1, <2>2, <2>5, FirstRowExists
  <2> QED
    BY <1>1, <2>2, <2>3, <2>6, OneSearchChanges
<1> QED
  BY <1>3, <1>4

LEMMA DeleteMerchantKeeps ==
    ASSUME IInv, NEW m \in Merchants, DeleteMerchant(m)
    PROVE  IInv'
BY DEF DeleteMerchant, IInv, TypeOK, SearchOK, ReadsOK, AnswersOK, SteadyDriverNotMissed,
       SteadyResultIsNear, SearchFailureExplained, Found, NearNow

LEMMA StepKeepsIInv == IInv /\ [Next]_vars => IInv'
<1> SUFFICES ASSUME IInv, [Next]_vars PROVE IInv'
  OBVIOUS
<1>1. ASSUME NEW d \in Drivers, NEW place \in Places, PostLocation(d, place) PROVE IInv'
  BY <1>1, SetLocationKeeps DEF PostLocation
<1>2. ASSUME NEW d \in Drivers, LocationExpires(d) PROVE IInv'
  BY <1>2, SetLocationKeeps DEF LocationExpires
<1>3. ASSUME NEW s \in Searches, SearchStep(s) PROVE IInv'
  BY <1>3, GetMerchantLocationKeeps, ListKeysKeeps, GetLocationKeeps, QueryNearbyKeeps
     DEF SearchStep
<1>4. CASE UNCHANGED vars
  BY <1>4 DEF vars, IInv, TypeOK, SearchOK, ReadsOK, AnswersOK, SteadyDriverNotMissed,
              SteadyResultIsNear, SearchFailureExplained, Found, NearNow
<1> QED
  BY <1>1, <1>2, <1>3, <1>4, DeleteMerchantKeeps, StartSearchKeeps DEF Next

-----------------------------------------------------------------------------
\* The inductive invariant of searches.
THEOREM SearchInvariant == Spec => []IInv
BY InitHolds, StepKeepsIInv, PTL DEF Spec

\* Positions, merchants and searches have their types.
THEOREM SearchTyped == Spec => []TypeOK
BY SearchInvariant, PTL DEF IInv

\* findNearbyDrivers does not answer "nobody", nor only drivers who sort later,
\* when a driver stood near the merchant all along.
THEOREM SteadyDriversFound == Spec => []SteadyDriverNotMissed
<1>1. IInv => SteadyDriverNotMissed
  BY DEF IInv, AnswersOK
<1> QED
  BY <1>1, SearchInvariant, PTL

\* A driver whom findNearbyDrivers returns is near the merchant, or has moved.
THEOREM SteadyResultsNear == Spec => []SteadyResultIsNear
<1>1. IInv => SteadyResultIsNear
  BY DEF IInv, AnswersOK
<1> QED
  BY <1>1, SearchInvariant, PTL

\* findNearbyDrivers fails for one of three reasons only.
THEOREM FailuresExplained == Spec => []SearchFailureExplained
<1>1. IInv => SearchFailureExplained
  BY DEF IInv, AnswersOK
<1> QED
  BY <1>1, SearchInvariant, PTL
=============================================================================
