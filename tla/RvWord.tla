------------------------------- MODULE RvWord -------------------------------
(***************************************************************************)
(* 32-bit words as the sets of their one bits: the operators of C on       *)
(* uint32_t become operators on sets (or is union, and-not is difference,  *)
(* a shift moves the members), and no width is lost to the arithmetic of   *)
(* the checker.                                                            *)
(***************************************************************************)
EXTENDS Naturals

Word == SUBSET (0..31)

\* The word of a number below 2^31, and the number of a word without its bit 31: the
\* sum of the digits, written out so that no induction is needed to reason about it.
MaxNumber == 2^30 - 1 + 2^30
Bits(n) == {b \in 0..30 : (n \div 2^b) % 2 = 1}
Digit(w, b) == IF b \in w \ {31} THEN 2^b ELSE 0
Eight(w, b) ==
  Digit(w, b) + Digit(w, b + 1) + Digit(w, b + 2) + Digit(w, b + 3)
    + Digit(w, b + 4) + Digit(w, b + 5) + Digit(w, b + 6) + Digit(w, b + 7)
Number(w) == Eight(w, 0) + Eight(w, 8) + Eight(w, 16) + Eight(w, 24)

Shl(w, n) == {b + n : b \in w} \cap 0..31
Shr(w, n) == {b - n : b \in w \ 0..n-1}
Low(w, n) == w \cap 0..n-1

\* n bits of a word from bit lo, and their number.
Bitfield(w, lo, n) == Low(Shr(w, lo), n)
Field(w, lo, n) == Number(Bitfield(w, lo, n))

\* (int32_t)(intN_t)w
SignExtend(w, n) == Low(w, n) \cup IF n - 1 \in w THEN n..31 ELSE {}
=============================================================================
