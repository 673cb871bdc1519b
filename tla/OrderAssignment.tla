-------------------------- MODULE OrderAssignment ---------------------------
(***************************************************************************)
(* What customers and drivers may rely on, whatever the handlers,          *)
(* messages and copies of rows are: an order is placed, paid, searched     *)
(* for, accepted by drivers and assigned to one of them.  It may be        *)
(* assigned to another one who accepted, is never taken back, and is       *)
(* never forgotten unless it is removed or the news of the acceptance is   *)
(* lost.                                                                   *)
(***************************************************************************)
EXTENDS Naturals

CONSTANTS
    Orders,
    Drivers,
    NoPartner   \* the partner of an order without a driver

VARIABLES
    stage,     \* per order: "none", "open" or "removed"
    partner,   \* per order, its driver, or NoPartner
    paid,      \* orders that were paid
    searched,  \* orders a driver was searched for
    accepted,  \* pairs <<order, driver>>
    lost       \* orders with an acceptance whose news was lost

vars == <<stage, partner, paid, searched, accepted, lost>>

Init ==
    /\ stage = [o \in Orders |-> "none"]
    /\ partner = [o \in Orders |-> NoPartner]
    /\ paid = {} /\ searched = {} /\ accepted = {} /\ lost = {}

Place(o) ==
    /\ stage[o] = "none"
    /\ stage' = [stage EXCEPT ![o] = "open"]
    /\ UNCHANGED <<partner, paid, searched, accepted, lost>>

Pay(o) ==
    /\ stage[o] = "open"
    /\ paid' = paid \cup {o}
    /\ UNCHANGED <<stage, partner, searched, accepted, lost>>

Search(o) ==
    /\ o \in paid
    /\ searched' = searched \cup {o}
    /\ UNCHANGED <<stage, partner, paid, accepted, lost>>

Accept(o, d) ==
    /\ o \in searched
    /\ accepted' = accepted \cup {<<o, d>>}
    /\ UNCHANGED <<stage, partner, paid, searched, lost>>

Assign(o, d) ==
    /\ stage[o] = "open"
    /\ <<o, d>> \in accepted
    /\ partner' = [partner EXCEPT ![o] = d]
    /\ UNCHANGED <<stage, paid, searched, accepted, lost>>

Remove(o) ==
    /\ stage[o] = "open"
    /\ stage' = [stage EXCEPT ![o] = "removed"]
    /\ partner' = [partner EXCEPT ![o] = NoPartner]
    /\ UNCHANGED <<paid, searched, accepted, lost>>

Lose(o) ==
    /\ \E d \in Drivers : <<o, d>> \in accepted
    /\ lost' = lost \cup {o}
    /\ UNCHANGED <<stage, partner, paid, searched, accepted>>

Next ==
    \E o \in Orders :
        \/ Place(o) \/ Pay(o) \/ Search(o) \/ Remove(o) \/ Lose(o)
        \/ \E d \in Drivers : Accept(o, d) \/ Assign(o, d)

\* An order somebody accepted gets a driver, unless that was the news lost.
Assigned ==
    \A o \in Orders :
        (\E d \in Drivers : <<o, d>> \in accepted)
            ~> (partner[o] # NoPartner \/ stage[o] = "removed" \/ o \in lost)

SafeSpec == Init /\ [][Next]_vars

Spec == SafeSpec /\ Assigned
=============================================================================
