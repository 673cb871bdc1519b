----------------------------- MODULE Matchmaking -----------------------------
(***************************************************************************)
(* What the search for a driver promises to the rest of the system,        *)
(* without its messages, deliveries and offers: a paid order holds tickets *)
(* for a driver, one per search, and every driver announced for it costs   *)
(* one.  Only a failure between the broker and the process may change the  *)
(* number of tickets otherwise, by at most one for each search asked for.  *)
(***************************************************************************)
EXTENDS Integers

CONSTANTS Drivers, Orders

VARIABLES
    asked,     \* how many searches were requested, per order
    tickets,   \* searches that may still find a driver, per order
    matched,   \* the drivers announced so far
    failures   \* how often the process or its connection went down

vars == <<asked, tickets, matched, failures>>

Init ==
    /\ asked = [o \in Orders |-> 0]
    /\ tickets = [o \in Orders |-> 0]
    /\ matched = {}
    /\ failures = 0

Request(o) ==
    /\ asked' = [asked EXCEPT ![o] = @ + 1]
    /\ tickets' = [tickets EXCEPT ![o] = @ + 1]
    /\ UNCHANGED <<matched, failures>>

\* Some driver took the order.
Match(o) ==
    /\ tickets[o] > 0
    /\ tickets' = [tickets EXCEPT ![o] = @ - 1]
    /\ \E m \in matched' \ matched :
          /\ m.order = o
          /\ m.driver \in Drivers
          /\ matched' = matched \cup {m}
    /\ UNCHANGED <<asked, failures>>

\* A search ends with nobody, or its order is gone.
Close(o) ==
    /\ tickets[o] > 0
    /\ tickets' = [tickets EXCEPT ![o] = @ - 1]
    /\ UNCHANGED <<asked, matched, failures>>

\* Searches are lost, or repeated once for each request; matches are not.
Fail ==
    /\ failures' = failures + 1
    /\ tickets' \in [Orders -> Nat]
    /\ \A o \in Orders : tickets'[o] <= tickets[o] + asked[o]
    /\ UNCHANGED <<asked, matched>>

Next ==
    \/ \E o \in Orders : Request(o) \/ Match(o) \/ Close(o)
    \/ Fail

Spec == Init /\ [][Next]_vars
=============================================================================
