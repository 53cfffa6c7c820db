---------------------------- MODULE MCVirtioBlk ----------------------------
(* Instances of VirtioBlk for TLC. *)
EXTENDS VirtioBlk

CONSTANTS t1, t2

OneSource == {11}
TwoTags == {t1, t2}
=============================================================================
