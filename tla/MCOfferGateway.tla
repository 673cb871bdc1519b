---------------------------- MODULE MCOfferGateway ---------------------------
(* Instance of OfferGateway for TLC: two drivers and one order, so that an   *)
(* offer can have a twin, a stranger, or both.                               *)
EXTENDS OfferGateway
=============================================================================
