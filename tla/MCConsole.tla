----------------------------- MODULE MCConsole -----------------------------
(* Instances of Console for TLC. *)
EXTENDS Console

\* Both sources in the controller, the numbers of hyp.h.
BothSources == {10, 11}
=============================================================================
