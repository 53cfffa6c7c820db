---------------------------- MODULE MCGuestTimer ----------------------------
(* Instances of GuestTimer for TLC: the constants are given in the cfg files. *)
EXTENDS GuestTimer
=============================================================================
