---------------------------- MODULE MCDriverSearch ---------------------------
(* Instance of DriverSearch for TLC: three drivers, two merchants of which a   *)
(* position can be near one and not the other, a position without a          *)
(* coordinate, and one search while everything it reads changes.             *)
EXTENDS DriverSearch

CONSTANTS m1, m2, atM1, atM2, noCoordinate

MCWithin == {<<atM1, m1>>, <<atM2, m2>>}
=============================================================================
