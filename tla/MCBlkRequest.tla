---------------------------- MODULE MCBlkRequest ----------------------------
(* Instances of BlkRequest for TLC. *)
EXTENDS BlkRequest

\* Every type the code names, one below and one above the last of them.
AllTypes == {T_IN, T_OUT, T_FLUSH, T_GET_ID, 3, 11}
\* In half sectors: none, one, one and a half, two and three sectors.
SomeLengths == {0, 2, 3, 4, 6}
\* The first sector of the card, the third, and one whose low 32 bits are the third's.
SomeSectors == {0, 2, SectorMod + 2}
=============================================================================
