-------------------------- MODULE MCConsoleDriver --------------------------
(* Instances of ConsoleDriver for TLC. *)
EXTENDS ConsoleDriver

BothSources == {10, 11}
=============================================================================
