--------------------------- MODULE MCOutageMonitor ---------------------------
(* The instances of OutageMonitor for TLC are given by constants alone.    *)
EXTENDS OutageMonitor
==============================================================================
