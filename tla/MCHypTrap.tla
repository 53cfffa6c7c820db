----------------------------- MODULE MCHypTrap -----------------------------
(* Instances of HypTrap for TLC. *)
EXTENDS HypTrap

\* With all enabled every pending source competes; with one, what a wfi may
\* wait for is told apart.
AllOrOne == {{"MTI"}, {"MEI"}, {"MEI", "MSI", "MTI"}}
OneOfTwo == {{"MTI"}, {"MEI"}}
OneException == {"ecall"}
NoException == {}
=============================================================================
