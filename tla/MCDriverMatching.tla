--------------------------- MODULE MCDriverMatching --------------------------
(* Instance of DriverMatching for TLC.  Two deliveries of one order, by a    *)
(* repeated request or by a redelivery, compete for one driver while another *)
(* order waits behind them.                                                  *)
EXTENDS DriverMatching
=============================================================================
