---------------------------- MODULE DriverSearch ----------------------------
(***************************************************************************)
(* Where the drivers are, and who is near a merchant: postLocation,        *)
(* getAllDriversFromRedis and findNearbyDrivers of PartnerService          *)
(* (src/partner/partner.service.ts).                                       *)
(*                                                                         *)
(* A driver's position is a Redis key that expires 300 seconds after it    *)
(* was set.  A search reads the merchant's row, then lists the keys, then  *)
(* fetches each of them, then asks PostGIS which positions are in range:   *)
(* positions change and expire between these steps.                        *)
(***************************************************************************)
EXTENDS Integers, FiniteSets

CONSTANTS
    Drivers,    \* driver ids, numbered in the order the database sorts them
    Merchants,  \* merchant ids
    Places,     \* positions a driver may post
    Unusable,   \* the posted positions that lack a coordinate
    Within,     \* pairs <<place, merchant>> within the radius of the search
    NoPlace,    \* no Redis key for the driver
    Searches    \* calls of findNearbyDrivers

ASSUME DriversAssumption == Drivers \subseteq Nat
ASSUME PlacesAssumption ==
    /\ Unusable \subseteq Places
    /\ Within \subseteq (Places \ Unusable) \X Merchants
    /\ NoPlace \notin Places
    /\ Merchants # {}

VARIABLES
    location,   \* per driver, the value of its Redis key
    merchants,  \* the merchants that have a row
    search,     \* per call, its progress and its local variables
    moved       \* history: the drivers whose key changed since the call

vars == <<location, merchants, search, moved>>

\* "merchant": awaits the row, "keys": awaits KEYS, "get": awaits the GETs
SearchPCs == {"unused", "merchant", "keys", "get", "found", "failed"}

Search == [pc : SearchPCs, merchant : Merchants, keys : SUBSET Drivers,
           read : [Drivers -> Places \cup {NoPlace}], drivers : SUBSET Drivers]

TypeOK ==
    /\ location \in [Drivers -> Places \cup {NoPlace}]
    /\ merchants \in SUBSET Merchants
    /\ search \in [Searches -> Search]
    /\ moved \in [Searches -> SUBSET Drivers]

Init ==
    /\ location = [d \in Drivers |-> NoPlace]
    /\ merchants = Merchants
    /\ search = [s \in Searches |->
                   [pc |-> "unused", merchant |-> CHOOSE m \in Merchants : TRUE,
                    keys |-> {}, read |-> [d \in Drivers |-> NoPlace],
                    drivers |-> {}]]
    /\ moved = [s \in Searches |-> {}]

-----------------------------------------------------------------------------
Started(s) == search[s].pc # "unused"

\* The driver's key takes another value, which running searches may see.
SetLocation(d, place) ==
    /\ location' = [location EXCEPT ![d] = place]
    /\ moved' = [s \in Searches |-> IF Started(s) THEN moved[s] \cup {d} ELSE moved[s]]
    /\ UNCHANGED <<merchants, search>>

PostLocation(d, place) == place # location[d] /\ SetLocation(d, place)

\* 300 seconds have passed since the driver's last post.
LocationExpires(d) == location[d] # NoPlace /\ SetLocation(d, NoPlace)

DeleteMerchant(m) ==
    /\ m \in merchants
    /\ merchants' = merchants \ {m}
    /\ UNCHANGED <<location, search, moved>>

StartSearch(s, m) ==
    /\ search[s].pc = "unused"
    /\ search' = [search EXCEPT ![s].pc = "merchant", ![s].merchant = m]
    /\ UNCHANGED <<location, merchants, moved>>

\* getMerchantLocation throws when the merchant has no row.
GetMerchantLocation(s) ==
    /\ search[s].pc = "merchant"
    /\ search' = [search EXCEPT ![s].pc =
                    IF search[s].merchant \in merchants THEN "keys" ELSE "failed"]
    /\ UNCHANGED <<location, merchants, moved>>

\* Mutant of ListKeys: an empty list of keys is an error.
ListKeysOrFail(s) ==
    LET keys == {d \in Drivers : location[d] # NoPlace} IN
    /\ search[s].pc = "keys"
    /\ search' = [search EXCEPT ![s].keys = keys,
                    ![s].pc = IF keys = {} THEN "failed" ELSE "get"]
    /\ UNCHANGED <<location, merchants, moved>>

\* Without any key there is nothing to fetch and nobody is near.
ListKeys(s) ==
    LET keys == {d \in Drivers : location[d] # NoPlace} IN
    /\ search[s].pc = "keys"
    /\ search' = [search EXCEPT ![s].keys = keys,
                    ![s].pc = IF keys = {} THEN "found" ELSE "get"]
    /\ UNCHANGED <<location, merchants, moved>>

Unread(s) == {d \in search[s].keys : search[s].read[d] = NoPlace}

\* Mutant of GetLocation: a missing value is fetched again.
GetUntilPresent(s, d) ==
    /\ search[s].pc = "get"
    /\ d \in Unread(s)
    /\ location[d] # NoPlace
    /\ search' = [search EXCEPT ![s].read[d] = location[d]]
    /\ UNCHANGED <<location, merchants, moved>>

\* The value of a key that has expired since it was listed is null, and
\* taking it apart throws out of Promise.all.
GetLocation(s, d) ==
    /\ search[s].pc = "get"
    /\ d \in Unread(s)
    /\ search' = [search EXCEPT ![s].read[d] = location[d],
                    ![s].pc = IF location[d] = NoPlace THEN "failed" ELSE @]
    /\ UNCHANGED <<location, merchants, moved>>

\* Mutant of InRange: the distance is taken to any merchant.
InRangeOfAny(s) ==
    {d \in search[s].keys : \E m \in Merchants : <<search[s].read[d], m>> \in Within}

\* The drivers of the query's rows; "let [results] =" keeps the first row.
InRange(s) ==
    {d \in search[s].keys : <<search[s].read[d], search[s].merchant>> \in Within}

\* Mutant of FirstRow: the last row.
LastRow(drivers) == {d \in drivers : \A e \in drivers : e <= d}

FirstRow(drivers) == {d \in drivers : \A e \in drivers : d <= e}

\* Mutant of QueryNearby: the rows' positions are returned for their ids.
QueryReturnsPlaces(s) ==
    /\ search[s].pc = "get"
    /\ Unread(s) = {}
    /\ search' = [search EXCEPT ![s].pc = "found",
                    ![s].drivers = {search[s].read[d] : d \in FirstRow(InRange(s))}]
    /\ UNCHANGED <<location, merchants, moved>>

\* One position without a coordinate makes the query's text invalid.
QueryNearby(s) ==
    /\ search[s].pc = "get"
    /\ Unread(s) = {}
    /\ IF \E d \in search[s].keys : search[s].read[d] \in Unusable
       THEN search' = [search EXCEPT ![s].pc = "failed"]
       ELSE search' = [search EXCEPT ![s].pc = "found",
                                     ![s].drivers = FirstRow(InRange(s))]
    /\ UNCHANGED <<location, merchants, moved>>

SearchStep(s) ==
    \/ GetMerchantLocation(s)
    \/ ListKeys(s)
    \/ \E d \in Drivers : GetLocation(s, d)
    \/ QueryNearby(s)

Next ==
    \/ \E d \in Drivers, place \in Places : PostLocation(d, place)
    \/ \E d \in Drivers : LocationExpires(d)
    \/ \E m \in Merchants : DeleteMerchant(m)
    \/ \E s \in Searches, m \in Merchants : StartSearch(s, m)
    \/ \E s \in Searches : SearchStep(s)

\* Redis and the database answer; nobody has to post, delete or search.
Fairness == \A s \in Searches : WF_vars(SearchStep(s))

Spec == Init /\ [][Next]_vars /\ Fairness

-----------------------------------------------------------------------------
Found(s) == search[s].pc = "found"

NearNow(s, d) == <<location[d], search[s].merchant>> \in Within

\* No driver who stood near the merchant all along is passed over for nobody:
\* findNearbyDrivers returns that driver or one that sorts before it.
SteadyDriverNotMissed ==
    \A s \in Searches, d \in Drivers :
        Found(s) /\ d \notin moved[s] /\ NearNow(s, d) =>
            \E e \in search[s].drivers : e <= d

\* A driver who is returned and has not moved since the search began is near
\* the merchant that was asked about.
SteadyResultIsNear ==
    \A s \in Searches, d \in Drivers :
        Found(s) /\ d \in search[s].drivers /\ d \notin moved[s] => NearNow(s, d)

\* findNearbyDrivers fails only when the merchant's row is gone, when a key
\* changed under it (it expired between KEYS and GET), or when some driver's
\* position lacks a coordinate: one driver is enough to fail every search.
SearchFailureExplained ==
    \A s \in Searches :
        search[s].pc = "failed" =>
            \/ search[s].merchant \notin merchants
            \/ moved[s] # {}
            \/ \E d \in Drivers : location[d] \in Unusable

\* Every search returns or throws.
SearchEnds ==
    \A s \in Searches : Started(s) ~> search[s].pc \in {"found", "failed"}

\* The comment on the result, "Return a list of nearby driver IDs"
\* (partner.service.ts:111): every driver who stood near the merchant all along
\* is in it.
EveryNearDriverReturned ==
    \A s \in Searches, d \in Drivers :
        Found(s) /\ d \notin moved[s] /\ NearNow(s, d) => d \in search[s].drivers
=============================================================================
