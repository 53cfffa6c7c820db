----------------------------- MODULE MCKeyboard -----------------------------
(* Instances of Keyboard for TLC. *)
EXTENDS Keyboard

TwoKeys == {4, 5}
ThreeKeys == {4, 5, 6}
=============================================================================
