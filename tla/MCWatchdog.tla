----------------------------- MODULE MCWatchdog -----------------------------
(* Instances of Watchdog for TLC: the constants are given in the cfg files. *)
EXTENDS Watchdog
=============================================================================
