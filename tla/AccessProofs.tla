---------------------------- MODULE AccessProofs ----------------------------
(***************************************************************************)
(* Proofs about the instructions core 1 emulates (Access), and about the   *)
(* clock the guest reads and sets with them, a half per trap (GuestTimer). *)
(*                                                                         *)
(* Access, for every program an assembler can make, every device table and *)
(* every set of CSRs.  First, what trap_decode makes of the bits is the    *)
(* instruction the assembler was given: a word is a set of bits, and the   *)
(* compressed form is followed bit by bit through rvc_expand.  Then each   *)
(* field the handlers read is the operand (FormatI, FormatS), so that a    *)
(* handler does to the frame and the devices what the instruction does to  *)
(* the hart and its memory: EmulationIsExact, along the invariant Machine. *)
(*                                                                         *)
(* GuestTimer, for every width of a half, every range of the clock and     *)
(* every choice of deadlines, with core 0 reading the counter or not.      *)
(* Whatever core 0 does, what core 1 reads of the snapshot never goes back *)
(* (Seen).  Between two equal high halves the low half can then only be    *)
(* one of a time with that high half: ReadSoFar.  For the ticks, what      *)
(* stands in mtimecmp is a deadline, or one of two values that are no      *)
(* earlier than one: CompareSoFar.                                         *)
(***************************************************************************)
EXTENDS Access, GuestTimer, TLAPS

(* Numbers and their bits *)

\* The powers of two in the range of a word.
LEMMA Powers ==
  /\ 2^0 = 1 /\ 2^1 = 2 /\ 2^2 = 4 /\ 2^3 = 8
  /\ 2^4 = 16 /\ 2^5 = 32 /\ 2^6 = 64 /\ 2^7 = 128
  /\ 2^8 = 256 /\ 2^9 = 512 /\ 2^10 = 1024 /\ 2^11 = 2048
  /\ 2^12 = 4096 /\ 2^13 = 8192 /\ 2^14 = 16384 /\ 2^15 = 32768
  /\ 2^16 = 65536 /\ 2^17 = 131072 /\ 2^18 = 262144 /\ 2^19 = 524288
  /\ 2^20 = 1048576 /\ 2^21 = 2097152 /\ 2^22 = 4194304 /\ 2^23 = 8388608
  /\ 2^24 = 16777216 /\ 2^25 = 33554432 /\ 2^26 = 67108864 /\ 2^27 = 134217728
  /\ 2^28 = 268435456 /\ 2^29 = 536870912 /\ 2^30 = 1073741824 /\ 2^31 = 2147483648
  BY SMT

\* A number is the sum of its digits, eight at a time.
LEMMA NumberOfBits == ASSUME NEW n \in 0..MaxNumber PROVE Number(Bits(n)) = n
<1> USE DEF MaxNumber
<1> DEFINE DigitIs(k, p) == Digit(Bits(n), k) = IF (n \div p) % 2 = 1 THEN p ELSE 0
<1>1. \A k \in 0..30 : DigitIs(k, 2^k)
  BY DEF Bits, Digit
<1>2. Digit(Bits(n), 31) = 0
  BY DEF Digit
<1> HIDE DEF DigitIs
<1>3. Eight(Bits(n), 0) = n - 256 * (n \div 256)
  <2>1. DigitIs(0, 1) /\ DigitIs(1, 2) /\ DigitIs(2, 4) /\ DigitIs(3, 8)
    BY <1>1, Powers, SMT
  <2>2. Digit(Bits(n), 0) + Digit(Bits(n), 1) + Digit(Bits(n), 2) + Digit(Bits(n), 3)
          = n - 16 * (n \div 16)
    BY <2>1, SMTT(30) DEF DigitIs
  <2>3. DigitIs(4, 16) /\ DigitIs(5, 32) /\ DigitIs(6, 64) /\ DigitIs(7, 128)
    BY <1>1, Powers, SMT
  <2>4. Digit(Bits(n), 4) + Digit(Bits(n), 5) + Digit(Bits(n), 6) + Digit(Bits(n), 7)
          = 16 * (n \div 16) - 256 * (n \div 256)
    BY <2>3, SMTT(30) DEF DigitIs
  <2>5. \A k \in 0..7 : Digit(Bits(n), k) \in Int
    BY <1>1, <1>2 DEF Digit
  <2>6. Eight(Bits(n), 0) = (Digit(Bits(n), 0) + Digit(Bits(n), 1) + Digit(Bits(n), 2)
          + Digit(Bits(n), 3)) + (Digit(Bits(n), 4) + Digit(Bits(n), 5) + Digit(Bits(n), 6)
          + Digit(Bits(n), 7))
    BY <2>5, SMT DEF Eight
  <2>7. QED
    BY <2>2, <2>4, <2>6, SMT
<1>4. Eight(Bits(n), 8) = 256 * (n \div 256) - 65536 * (n \div 65536)
  <2>1. DigitIs(8, 256) /\ DigitIs(9, 512) /\ DigitIs(10, 1024) /\ DigitIs(11, 2048)
    BY <1>1, Powers, SMT
  <2>2. Digit(Bits(n), 8) + Digit(Bits(n), 9) + Digit(Bits(n), 10) + Digit(Bits(n), 11)
          = 256 * (n \div 256) - 4096 * (n \div 4096)
    BY <2>1, SMTT(30) DEF DigitIs
  <2>3. DigitIs(12, 4096) /\ DigitIs(13, 8192) /\ DigitIs(14, 16384) /\ DigitIs(15, 32768)
    BY <1>1, Powers, SMT
  <2>4. Digit(Bits(n), 12) + Digit(Bits(n), 13) + Digit(Bits(n), 14) + Digit(Bits(n), 15)
          = 4096 * (n \div 4096) - 65536 * (n \div 65536)
    BY <2>3, SMTT(30) DEF DigitIs
  <2>5. \A k \in 8..15 : Digit(Bits(n), k) \in Int
    BY <1>1, <1>2 DEF Digit
  <2>6. QED
    BY <1>2, <2>2, <2>4, <2>5, SMT DEF Eight
<1>5. Eight(Bits(n), 16) = 65536 * (n \div 65536) - 16777216 * (n \div 16777216)
  <2>1. DigitIs(16, 65536) /\ DigitIs(17, 131072) /\ DigitIs(18, 262144) /\ DigitIs(19, 524288)
    BY <1>1, Powers, SMT
  <2>2. Digit(Bits(n), 16) + Digit(Bits(n), 17) + Digit(Bits(n), 18) + Digit(Bits(n), 19)
          = 65536 * (n \div 65536) - 1048576 * (n \div 1048576)
    BY <2>1, SMTT(30) DEF DigitIs
  <2>3. DigitIs(20, 1048576) /\ DigitIs(21, 2097152) /\ DigitIs(22, 4194304) /\ DigitIs(23, 8388608)
    BY <1>1, Powers, SMT
  <2>4. Digit(Bits(n), 20) + Digit(Bits(n), 21) + Digit(Bits(n), 22) + Digit(Bits(n), 23)
          = 1048576 * (n \div 1048576) - 16777216 * (n \div 16777216)
    BY <2>3, SMTT(30) DEF DigitIs
  <2>5. \A k \in 16..23 : Digit(Bits(n), k) \in Int
    BY <1>1, <1>2 DEF Digit
  <2>6. QED
    BY <1>2, <2>2, <2>4, <2>5, SMT DEF Eight
<1>6. Eight(Bits(n), 24) = 16777216 * (n \div 16777216)
  <2>1. DigitIs(24, 16777216) /\ DigitIs(25, 33554432) /\ DigitIs(26, 67108864) /\ DigitIs(27, 134217728)
    BY <1>1, Powers, SMT
  <2>2. Digit(Bits(n), 24) + Digit(Bits(n), 25) + Digit(Bits(n), 26) + Digit(Bits(n), 27)
          = 16777216 * (n \div 16777216) - 268435456 * (n \div 268435456)
    BY <2>1, SMTT(30) DEF DigitIs
  <2>3. DigitIs(28, 268435456) /\ DigitIs(29, 536870912) /\ DigitIs(30, 1073741824)
    BY <1>1, Powers, SMT
  <2>4. Digit(Bits(n), 28) + Digit(Bits(n), 29) + Digit(Bits(n), 30) = 268435456 * (n \div 268435456)
    BY <2>3, SMTT(30) DEF DigitIs
  <2>5. \A k \in 24..31 : Digit(Bits(n), k) \in Int
    BY <1>1, <1>2 DEF Digit
  <2>6. QED
    BY <1>2, <2>2, <2>4, <2>5, SMT DEF Eight
<1>7. QED
  BY <1>3, <1>4, <1>5, <1>6, SMT DEF Number

\* Powers of two above the fields of an instruction.
PowersFrom(k, p) == \A b \in k..30 : 2^b \in Nat /\ 2^b >= p

LEMMA LargePower ==
  PowersFrom(3, 8) /\ PowersFrom(5, 32) /\ PowersFrom(7, 128) /\ PowersFrom(12, 4096)
<1> DEFINE P(b) == /\ 2^b \in Nat /\ 2^b >= 8 /\ (b \in 5..30 => 2^b >= 32)
                   /\ (b \in 7..30 => 2^b >= 128) /\ (b \in 12..30 => 2^b >= 4096)
<1>1. /\ P(3) /\ P(4) /\ P(5) /\ P(6) /\ P(7) /\ P(8) /\ P(9) /\ P(10) /\ P(11) /\ P(12)
      /\ P(13) /\ P(14) /\ P(15) /\ P(16) /\ P(17) /\ P(18) /\ P(19) /\ P(20) /\ P(21)
      /\ P(22) /\ P(23) /\ P(24) /\ P(25) /\ P(26) /\ P(27) /\ P(28) /\ P(29) /\ P(30)
  BY Powers, SMT
<1>2. \A b \in 3..30 :
        b \in {3, 4, 5, 6, 7, 8, 9, 10, 11, 12, 13, 14, 15, 16, 17, 18, 19, 20, 21, 22, 23,
              24, 25, 26, 27, 28, 29, 30}
  OBVIOUS
<1> HIDE DEF P
<1>3. \A b \in 3..30 : P(b)
  BY <1>1, <1>2
<1>4. QED
  BY <1>3 DEF P, PowersFrom

\* A number divided by a larger one.
LEMMA SmallQuotient == ASSUME NEW p \in Nat, NEW n \in Nat, n < p PROVE n \div p = 0
  OBVIOUS

\* The bits of a number below p lie below its first power above p.
LEMMA SmallRange ==
  ASSUME NEW k \in Nat, NEW p \in Nat, PowersFrom(k, p), NEW n \in Nat, n < p
  PROVE  Bits(n) \subseteq 0..k-1
<1> SUFFICES ASSUME NEW b \in Bits(n), b \notin 0..k-1 PROVE FALSE
  OBVIOUS
<1>1. b \in 0..30 /\ (n \div 2^b) % 2 = 1
  BY DEF Bits
<1>2. 2^b \in Nat /\ 2^b >= p
  <2>1. b \in k..30
    BY <1>1
  <2>2. QED
    BY <2>1 DEF PowersFrom
<1> DEFINE q == 2^b
           d == n \div q
<1>3. d % 2 = 1
  BY <1>1
<1>4. q \in Nat /\ n < q
  BY <1>2
<1> HIDE DEF q
<1>5. d = 0
  BY <1>4, SmallQuotient
<1> HIDE DEF d
<1>6. QED
  BY <1>3, <1>5

\* The bits of a number below 128.
LEMMA SmallBits ==
  ASSUME NEW n \in 0..127
  PROVE  /\ Bits(n) \subseteq 0..6
         /\ 0 \in Bits(n) <=> n % 2 = 1
         /\ 1 \in Bits(n) <=> (n \div 2) % 2 = 1
         /\ 2 \in Bits(n) <=> (n \div 4) % 2 = 1
         /\ 3 \in Bits(n) <=> (n \div 8) % 2 = 1
         /\ 4 \in Bits(n) <=> (n \div 16) % 2 = 1
         /\ 5 \in Bits(n) <=> (n \div 32) % 2 = 1
         /\ 6 \in Bits(n) <=> (n \div 64) % 2 = 1
<1>1. Bits(n) \subseteq 0..6
  <2>1. PowersFrom(7, 128)
    BY LargePower
  <2>2. QED
    BY <2>1, SmallRange
<1>2. n \div 1 = n
  OBVIOUS
<1>3. \A b \in 0..6 : b \in Bits(n) <=> (n \div 2^b) % 2 = 1
  BY DEF Bits
<1>4. /\ 0 \in Bits(n) <=> (n \div 2^0) % 2 = 1
      /\ 1 \in Bits(n) <=> (n \div 2^1) % 2 = 1
      /\ 2 \in Bits(n) <=> (n \div 2^2) % 2 = 1
      /\ 3 \in Bits(n) <=> (n \div 2^3) % 2 = 1
      /\ 4 \in Bits(n) <=> (n \div 2^4) % 2 = 1
      /\ 5 \in Bits(n) <=> (n \div 2^5) % 2 = 1
      /\ 6 \in Bits(n) <=> (n \div 2^6) % 2 = 1
  BY <1>3
<1>5. QED
  BY <1>1, <1>2, <1>4, Powers

\* The shifts and the fields, as conditions on a bit.
LEMMA ShlBit ==
  ASSUME NEW w, w \subseteq Nat, NEW n \in Nat, NEW b
  PROVE  b \in Shl(w, n) <=> b \in 0..31 /\ b - n \in w
  BY DEF Shl

LEMMA ShrBit ==
  ASSUME NEW w, w \subseteq Nat, NEW n \in Nat, NEW b
  PROVE  b \in Shr(w, n) <=> b \in Nat /\ b + n \in w
<1>1. ASSUME NEW c \in w \ 0..n-1 PROVE c - n \in Nat /\ (c - n) + n \in w
  OBVIOUS
<1>2. ASSUME b \in Nat, b + n \in w PROVE b + n \in w \ 0..n-1 /\ b = (b + n) - n
  BY <1>2
<1>3. QED
  BY <1>1, <1>2 DEF Shr

LEMMA BitfieldBit ==
  ASSUME NEW w, w \subseteq Nat, NEW lo \in Nat, NEW n \in Nat, NEW b
  PROVE  b \in Bitfield(w, lo, n) <=> b \in 0..n-1 /\ b + lo \in w
<1>1. b \in Shr(w, lo) <=> b \in Nat /\ b + lo \in w
  BY ShrBit
<1>2. b \in 0..n-1 => b \in Nat
  OBVIOUS
<1>3. QED
  BY <1>1, <1>2 DEF Bitfield, Low

\* Words whose bits agree are the same.
LEMMA SameBits ==
  ASSUME NEW v, NEW w, v \subseteq 0..6, w \subseteq 0..6,
         0 \in v <=> 0 \in w, 1 \in v <=> 1 \in w, 2 \in v <=> 2 \in w, 3 \in v <=> 3 \in w,
         4 \in v <=> 4 \in w, 5 \in v <=> 5 \in w, 6 \in v <=> 6 \in w
  PROVE  v = w
<1>1. \A b \in 0..6 : b \in {0, 1, 2, 3, 4, 5, 6}
  OBVIOUS
<1>2. \A b \in 0..6 : b \in v <=> b \in w
  BY <1>1
<1>3. QED
  BY <1>2

\* The assembler's words are the monitor's.
LEMMA SameWords ==
  \A n, lo : Guest!Place(n, lo) = Shl(Bits(n), lo) /\ Guest!Bits(n) = Bits(n)
  BY DEF Guest!Place, Guest!Shl, Guest!Bits, Shl, Bits

\* The long forms.
LEMMA LongForms ==
  ASSUME NEW i
  PROVE  /\ i.op \in Guest!Loads =>
              Guest!Assemble(i) = Shl(Bits(i.imm), 20) \cup Shl(Bits(i.rs1), 15)
                \cup Shl(Bits(Guest!Funct3[i.op]), 12) \cup Shl(Bits(i.rd), 7) \cup Bits(3)
         /\ i.op \in Guest!Stores =>
              Guest!Assemble(i) = Shl(Bits(i.imm \div 32), 25) \cup Shl(Bits(i.rs2), 20)
                \cup Shl(Bits(i.rs1), 15) \cup Shl(Bits(Guest!Funct3[i.op]), 12)
                \cup Shl(Bits(i.imm % 32), 7) \cup Bits(35)
         /\ i.op \in Guest!CsrOps =>
              Guest!Assemble(i) = Shl(Bits(i.csr), 20) \cup Shl(Bits(i.rs1), 15)
                \cup Shl(Bits(Guest!Funct3[i.op]), 12) \cup Shl(Bits(i.rd), 7) \cup Bits(115)
<1>1. \A op : Guest!Opcode(op) =
        Bits(IF op \in Guest!Loads THEN 3 ELSE IF op \in Guest!Stores THEN 35 ELSE 115)
  BY SameWords DEF Guest!Opcode
<1>2. /\ \A op \in Guest!Stores : op \notin Guest!Loads
      /\ \A op \in Guest!CsrOps : op \notin Guest!Loads \cup Guest!Stores
  BY DEF Guest!Loads, Guest!Stores, Guest!CsrOps
<1>3. CASE i.op \in Guest!Loads
  <2>1. Guest!Opcode(i.op) = Bits(3) /\ i.op \notin Guest!Stores \cup Guest!CsrOps
    BY <1>1, <1>2, <1>3
  <2>2. QED
    BY <1>3, <2>1, SameWords DEF Guest!Assemble
<1>4. CASE i.op \in Guest!Stores
  <2>1. Guest!Opcode(i.op) = Bits(35) /\ i.op \notin Guest!Loads \cup Guest!CsrOps
    BY <1>1, <1>2, <1>4
  <2>2. QED
    BY <1>4, <2>1, SameWords DEF Guest!Assemble
<1>5. CASE i.op \in Guest!CsrOps
  <2>1. Guest!Opcode(i.op) = Bits(115) /\ i.op \notin Guest!Loads \cup Guest!Stores
    BY <1>1, <1>2, <1>5
  <2>2. QED
    BY <1>5, <2>1, SameWords DEF Guest!Assemble
<1>6. QED
  BY <1>3, <1>4, <1>5

\* Constants that are encoded.
LEMMA KnownBits ==
  /\ Bits(2) = {1} /\ Bits(6) = {1, 2} /\ Bits(3) = {0, 1} /\ Bits(35) = {0, 1, 5}
  /\ {0, 1} \subseteq Bits(115)
<1>1. Bits(2) = {1}
  BY SmallBits, SameBits
<1>2. Bits(6) = {1, 2}
  BY SmallBits, SameBits
<1>3. Bits(3) = {0, 1}
  BY SmallBits, SameBits
<1>4. Bits(35) = {0, 1, 5}
  BY SmallBits, SameBits
<1>5. 0 \in Bits(115) /\ 1 \in Bits(115)
  BY SmallBits
<1>6. QED
  BY <1>1, <1>2, <1>3, <1>4, <1>5

\* A field of three bits, put in its place.
LEMMA PlacedThree ==
  ASSUME NEW n \in 0..7, NEW lo \in 0..29
  PROVE  /\ Shl(Bits(n), lo) \subseteq lo..lo + 2
         /\ lo \in Shl(Bits(n), lo) <=> n % 2 = 1
         /\ lo + 1 \in Shl(Bits(n), lo) <=> (n \div 2) % 2 = 1
         /\ lo + 2 \in Shl(Bits(n), lo) <=> (n \div 4) % 2 = 1
<1>1. Bits(n) \subseteq Nat /\ n \in 0..127
  BY SmallBits
<1>2. /\ 0 \in Bits(n) <=> n % 2 = 1
      /\ 1 \in Bits(n) <=> (n \div 2) % 2 = 1
      /\ 2 \in Bits(n) <=> (n \div 4) % 2 = 1
      /\ Bits(n) \subseteq 0..6 /\ 3 \notin Bits(n) /\ 4 \notin Bits(n)
      /\ 5 \notin Bits(n) /\ 6 \notin Bits(n)
  BY <1>1, SmallBits
<1>3. \A b : b \in Shl(Bits(n), lo) <=> b \in 0..31 /\ b - lo \in Bits(n)
  BY <1>1, ShlBit
<1>4. ASSUME NEW b \in Shl(Bits(n), lo) PROVE b \in lo..lo + 2
  <2>1. b - lo \in 0..6 /\ b - lo \in {0, 1, 2} /\ b \in 0..31
    BY <1>2, <1>3
  <2>2. QED
    BY <2>1
<1>5. lo - lo = 0 /\ (lo + 1) - lo = 1 /\ (lo + 2) - lo = 2
  OBVIOUS
<1>6. lo \in 0..31 /\ lo + 1 \in 0..31 /\ lo + 2 \in 0..31
  OBVIOUS
<1>7. QED
  BY <1>2, <1>3, <1>4, <1>5, <1>6

\* An instruction that has a compressed form, and its second register.
ShortForm(i) ==
  /\ i.op \in {"lw", "sw"} /\ i.imm \in 0..127 /\ i.imm % 4 = 0 /\ i.rs1 \in 8..15
  /\ (IF i.op = "lw" THEN i.rd ELSE i.rs2) \in 8..15
Data(i) == IF i.op = "lw" THEN i.rd ELSE i.rs2

\* Bit by bit, the compressed form.
LEMMA CompressedBits ==
  ASSUME NEW i, ShortForm(i), NEW c, c = Guest!Compress(i)
  PROVE  /\ c \subseteq 2..15
         /\ 2 \in c <=> (Data(i) - 8) % 2 = 1
         /\ 3 \in c <=> ((Data(i) - 8) \div 2) % 2 = 1
         /\ 4 \in c <=> ((Data(i) - 8) \div 4) % 2 = 1
         /\ 5 \in c <=> (i.imm \div 64) % 2 = 1
         /\ 6 \in c <=> (i.imm \div 4) % 2 = 1
         /\ 7 \in c <=> (i.rs1 - 8) % 2 = 1
         /\ 8 \in c <=> ((i.rs1 - 8) \div 2) % 2 = 1
         /\ 9 \in c <=> ((i.rs1 - 8) \div 4) % 2 = 1
         /\ 10 \in c <=> (i.imm \div 8) % 2 = 1
         /\ 11 \in c <=> (i.imm \div 16) % 2 = 1
         /\ 12 \in c <=> (i.imm \div 32) % 2 = 1
         /\ 13 \notin c /\ 14 \in c
         /\ 15 \in c <=> i.op = "sw"
<1> DEFINE m == i.imm
           f == IF i.op = "lw" THEN 2 ELSE 6
           b == (m \div 8) % 8
           d == (m \div 4) % 2
           e == m \div 64
           r == Data(i) - 8
           s == i.rs1 - 8
<1>1. c = Shl(Bits(f), 13) \cup Shl(Bits(b), 10) \cup Shl(Bits(s), 7)
            \cup Shl(Bits(d), 6) \cup Shl(Bits(e), 5) \cup Shl(Bits(r), 2)
  BY SameWords DEF Guest!Compress, Data
<1>2. /\ m \in 0..127 /\ f \in 0..7 /\ f % 2 = 0 /\ (f \div 2) % 2 = 1
      /\ (f \div 4) % 2 = 1 <=> i.op = "sw"
      /\ r \in 0..7 /\ s \in 0..7
  BY DEF ShortForm, Data
<1> HIDE DEF f, r, s, m
<1>3. /\ b \in 0..7
      /\ b % 2 = 1 <=> (m \div 8) % 2 = 1
      /\ (b \div 2) % 2 = 1 <=> (m \div 16) % 2 = 1
      /\ (b \div 4) % 2 = 1 <=> (m \div 32) % 2 = 1
  BY <1>2
<1>4. /\ d \in 0..7
      /\ d % 2 = 1 <=> (m \div 4) % 2 = 1
      /\ (d \div 2) % 2 # 1 /\ (d \div 4) % 2 # 1
  BY <1>2
<1>5. /\ e \in 0..7
      /\ e % 2 = 1 <=> (m \div 64) % 2 = 1
      /\ (e \div 2) % 2 # 1 /\ (e \div 4) % 2 # 1
  BY <1>2
<1> HIDE DEF b, d, e
<1>6. /\ Shl(Bits(f), 13) \subseteq {14, 15}
      /\ 14 \in Shl(Bits(f), 13)
      /\ 15 \in Shl(Bits(f), 13) <=> i.op = "sw"
  BY <1>2, PlacedThree
<1>7. /\ Shl(Bits(b), 10) \subseteq {10, 11, 12}
      /\ 10 \in Shl(Bits(b), 10) <=> (m \div 8) % 2 = 1
      /\ 11 \in Shl(Bits(b), 10) <=> (m \div 16) % 2 = 1
      /\ 12 \in Shl(Bits(b), 10) <=> (m \div 32) % 2 = 1
  BY <1>3, PlacedThree
<1>8. /\ Shl(Bits(s), 7) \subseteq {7, 8, 9}
      /\ 7 \in Shl(Bits(s), 7) <=> s % 2 = 1
      /\ 8 \in Shl(Bits(s), 7) <=> (s \div 2) % 2 = 1
      /\ 9 \in Shl(Bits(s), 7) <=> (s \div 4) % 2 = 1
  BY <1>2, PlacedThree
<1>9. /\ Shl(Bits(d), 6) \subseteq {6}
      /\ 6 \in Shl(Bits(d), 6) <=> (m \div 4) % 2 = 1
  BY <1>4, PlacedThree
<1>10. /\ Shl(Bits(e), 5) \subseteq {5}
       /\ 5 \in Shl(Bits(e), 5) <=> (m \div 64) % 2 = 1
  BY <1>5, PlacedThree
<1>11. /\ Shl(Bits(r), 2) \subseteq {2, 3, 4}
       /\ 2 \in Shl(Bits(r), 2) <=> r % 2 = 1
       /\ 3 \in Shl(Bits(r), 2) <=> (r \div 2) % 2 = 1
       /\ 4 \in Shl(Bits(r), 2) <=> (r \div 4) % 2 = 1
  BY <1>2, PlacedThree
<1>12. QED
  BY <1>1, <1>6, <1>7, <1>8, <1>9, <1>10, <1>11 DEF m, r, s

\* Registers, and what lw and sw can name.
LEMMA RegisterBits ==
  ASSUME NEW q \in 8..15
  PROVE  /\ Bits(q) \subseteq 0..3 /\ 3 \in Bits(q)
         /\ 0 \in Bits(q) <=> (q - 8) % 2 = 1
         /\ 1 \in Bits(q) <=> ((q - 8) \div 2) % 2 = 1
         /\ 2 \in Bits(q) <=> ((q - 8) \div 4) % 2 = 1
<1>1. /\ q \in 0..127 /\ (q \div 8) % 2 = 1
      /\ (q \div 16) % 2 = 0 /\ (q \div 32) % 2 = 0 /\ (q \div 64) % 2 = 0
      /\ q % 2 = (q - 8) % 2 /\ (q \div 2) % 2 = ((q - 8) \div 2) % 2
      /\ (q \div 4) % 2 = ((q - 8) \div 4) % 2
  OBVIOUS
<1>2. /\ 3 \in Bits(q) /\ 4 \notin Bits(q) /\ 5 \notin Bits(q) /\ 6 \notin Bits(q)
      /\ Bits(q) \subseteq 0..6
      /\ 0 \in Bits(q) <=> (q - 8) % 2 = 1
      /\ 1 \in Bits(q) <=> ((q - 8) \div 2) % 2 = 1
      /\ 2 \in Bits(q) <=> ((q - 8) \div 4) % 2 = 1
  BY <1>1, SmallBits
<1>3. \A b \in Bits(q) : b \in {0, 1, 2, 3}
  BY <1>2
<1>4. QED
  BY <1>2, <1>3

\* The fields of the compressed form.
LEMMA ShortFields ==
  ASSUME NEW i, ShortForm(i), NEW c, c = Guest!Compress(i)
  PROVE  /\ Low(c, 2) = {}
         /\ Bitfield(c, 13, 3) = IF i.op = "lw" THEN Bits(2) ELSE Bits(6)
         /\ ShortReg(c, 7) = Bits(i.rs1) /\ ShortReg(c, 2) = Bits(Data(i))
<1>1. c \subseteq 2..15 /\ c \subseteq Nat
  BY CompressedBits
<1>2. \A lo \in Nat : \A b : b \in Bitfield(c, lo, 3) <=> b \in 0..2 /\ b + lo \in c
  BY <1>1, BitfieldBit
<1>3. \A lo \in Nat : Bitfield(c, lo, 3) \subseteq 0..2
  BY <1>2
<1>4. Low(c, 2) = {}
  BY <1>1 DEF Low
<1>5. Bitfield(c, 13, 3) = IF i.op = "lw" THEN Bits(2) ELSE Bits(6)
  <2>1. /\ 0 \notin Bitfield(c, 13, 3) /\ 1 \in Bitfield(c, 13, 3)
        /\ 2 \in Bitfield(c, 13, 3) <=> i.op = "sw"
    BY <1>2, CompressedBits
  <2>2. i.op \in {"lw", "sw"} /\ \A b \in Bitfield(c, 13, 3) : b \in {0, 1, 2}
    BY <1>3 DEF ShortForm
  <2>3. QED
    BY <2>1, <2>2, KnownBits
<1>6. ASSUME NEW q \in 8..15, NEW lo \in Nat,
             lo \in c <=> (q - 8) % 2 = 1,
             lo + 1 \in c <=> ((q - 8) \div 2) % 2 = 1,
             lo + 2 \in c <=> ((q - 8) \div 4) % 2 = 1
      PROVE  ShortReg(c, lo) = Bits(q)
  <2>1. /\ 0 \in Bitfield(c, lo, 3) <=> lo \in c
        /\ 1 \in Bitfield(c, lo, 3) <=> lo + 1 \in c
        /\ 2 \in Bitfield(c, lo, 3) <=> lo + 2 \in c
        /\ \A b \in Bitfield(c, lo, 3) : b \in {0, 1, 2}
    BY <1>2, <1>3
  <2>2. \A b \in Bits(q) : b \in {0, 1, 2, 3}
    BY RegisterBits
  <2>3. QED
    BY <1>6, <2>1, <2>2, RegisterBits DEF ShortReg
<1>7. ShortReg(c, 7) = Bits(i.rs1)
  BY <1>6, CompressedBits DEF ShortForm
<1>8. ShortReg(c, 2) = Bits(Data(i))
  <2>1. Data(i) \in 8..15
    BY DEF ShortForm, Data
  <2>2. QED
    BY <1>6, <2>1, CompressedBits
<1>9. QED
  BY <1>4, <1>5, <1>7, <1>8

\* And its offset.
LEMMA ShortOffset ==
  ASSUME NEW i, ShortForm(i), NEW c, c = Guest!Compress(i)
  PROVE  Offset(c) = Bits(i.imm)
<1>1. c \subseteq Nat
  BY CompressedBits
<1>2. \A lo, n \in Nat : \A b : b \in Bitfield(c, lo, n) <=> b \in 0..n-1 /\ b + lo \in c
  BY <1>1, BitfieldBit
<1>3. \A lo, n \in Nat : Bitfield(c, lo, n) \subseteq Nat
  BY <1>2
<1>4. \A b : b \in Offset(c) <=>
        /\ b \in 0..31
        /\ \/ b - 3 \in Bitfield(c, 10, 3)
           \/ b - 2 \in Bitfield(c, 6, 1)
           \/ b - 6 \in Bitfield(c, 5, 1)
  BY <1>3, ShlBit DEF Offset
<1>5. \A b \in 0..31 : b \in Offset(c) <=>
        \/ b \in 3..5 /\ b + 7 \in c
        \/ b = 2 /\ 6 \in c
        \/ b = 6 /\ 5 \in c
  <2> SUFFICES ASSUME NEW b \in 0..31
               PROVE  b \in Offset(c) <=>
                        \/ b \in 3..5 /\ b + 7 \in c
                        \/ b = 2 /\ 6 \in c
                        \/ b = 6 /\ 5 \in c
    OBVIOUS
  <2>1. b - 3 \in Bitfield(c, 10, 3) <=> b \in 3..5 /\ b + 7 \in c
    <3>1. (b - 3) + 10 = b + 7 /\ (b - 3 \in 0..3-1 <=> b \in 3..5)
      OBVIOUS
    <3>2. QED
      BY <1>2, <3>1
  <2>2. b - 2 \in Bitfield(c, 6, 1) <=> b = 2 /\ 6 \in c
    <3>1. (b - 2 \in 0..1-1 <=> b = 2) /\ 2 - 2 + 6 = 6
      OBVIOUS
    <3>2. QED
      BY <1>2, <3>1
  <2>3. b - 6 \in Bitfield(c, 5, 1) <=> b = 6 /\ 5 \in c
    <3>1. (b - 6 \in 0..1-1 <=> b = 6) /\ 6 - 6 + 5 = 5
      OBVIOUS
    <3>2. QED
      BY <1>2, <3>1
  <2>4. QED
    BY <1>4, <2>1, <2>2, <2>3
<1>6. /\ 0 \notin Offset(c) /\ 1 \notin Offset(c)
      /\ 2 \in Offset(c) <=> (i.imm \div 4) % 2 = 1
      /\ 3 \in Offset(c) <=> (i.imm \div 8) % 2 = 1
      /\ 4 \in Offset(c) <=> (i.imm \div 16) % 2 = 1
      /\ 5 \in Offset(c) <=> (i.imm \div 32) % 2 = 1
      /\ 6 \in Offset(c) <=> (i.imm \div 64) % 2 = 1
  BY <1>5, CompressedBits
<1>7. Offset(c) \subseteq 0..6
  BY <1>4, <1>5
<1>8. i.imm \in 0..127 /\ i.imm % 2 = 0 /\ (i.imm \div 2) % 2 = 0
  <2>1. i.imm \in 0..127 /\ i.imm % 4 = 0
    BY DEF ShortForm
  <2>2. QED
    BY <2>1
<1>9. /\ Bits(i.imm) \subseteq 0..6 /\ 0 \notin Bits(i.imm) /\ 1 \notin Bits(i.imm)
      /\ 2 \in Bits(i.imm) <=> (i.imm \div 4) % 2 = 1
      /\ 3 \in Bits(i.imm) <=> (i.imm \div 8) % 2 = 1
      /\ 4 \in Bits(i.imm) <=> (i.imm \div 16) % 2 = 1
      /\ 5 \in Bits(i.imm) <=> (i.imm \div 32) % 2 = 1
      /\ 6 \in Bits(i.imm) <=> (i.imm \div 64) % 2 = 1
  BY <1>8, SmallBits
<1>10. QED
  BY <1>6, <1>7, <1>9, SameBits

\* sw has the offset in two parts.
LEMMA OffsetParts ==
  ASSUME NEW n \in 0..127
  PROVE  Shr(Bits(n), 5) = Bits(n \div 32) /\ Low(Bits(n), 5) = Bits(n % 32)
<1> DEFINE h == n \div 32
           l == n % 32
<1>1. /\ h \in 0..3 /\ l \in 0..31 /\ h \in 0..127 /\ l \in 0..127
      /\ h % 2 = (n \div 32) % 2 /\ (h \div 2) % 2 = (n \div 64) % 2
      /\ (h \div 4) % 2 = 0 /\ (h \div 8) % 2 = 0 /\ (h \div 16) % 2 = 0
      /\ (h \div 32) % 2 = 0 /\ (h \div 64) % 2 = 0
      /\ l % 2 = n % 2 /\ (l \div 2) % 2 = (n \div 2) % 2 /\ (l \div 4) % 2 = (n \div 4) % 2
      /\ (l \div 8) % 2 = (n \div 8) % 2 /\ (l \div 16) % 2 = (n \div 16) % 2
      /\ (l \div 32) % 2 = 0 /\ (l \div 64) % 2 = 0
  OBVIOUS
<1> HIDE DEF h, l
<1>2. Bits(n) \subseteq Nat
  BY SmallBits
<1>3. \A b : b \in Shr(Bits(n), 5) <=> b \in Nat /\ b + 5 \in Bits(n)
  BY <1>2, ShrBit
<1>4. Shr(Bits(n), 5) = Bits(h)
  <2>1. Bits(h) \subseteq 0..6 /\ Shr(Bits(n), 5) \subseteq 0..6
    BY <1>1, <1>3, SmallBits
  <2>2. /\ 0 \in Shr(Bits(n), 5) <=> 5 \in Bits(n)
        /\ 1 \in Shr(Bits(n), 5) <=> 6 \in Bits(n)
        /\ \A b \in 2..6 : b \notin Shr(Bits(n), 5)
    BY <1>3, SmallBits
  <2>3. QED
    BY <1>1, <2>1, <2>2, SmallBits, SameBits
<1>5. Low(Bits(n), 5) = Bits(l)
  <2>1. Bits(l) \subseteq 0..6 /\ Low(Bits(n), 5) \subseteq 0..6
    BY <1>1, SmallBits DEF Low
  <2>2. /\ 0 \in Low(Bits(n), 5) <=> 0 \in Bits(n)
        /\ 1 \in Low(Bits(n), 5) <=> 1 \in Bits(n)
        /\ 2 \in Low(Bits(n), 5) <=> 2 \in Bits(n)
        /\ 3 \in Low(Bits(n), 5) <=> 3 \in Bits(n)
        /\ 4 \in Low(Bits(n), 5) <=> 4 \in Bits(n)
        /\ 5 \notin Low(Bits(n), 5) /\ 6 \notin Low(Bits(n), 5)
    BY DEF Low
  <2>3. /\ 0 \in Bits(l) <=> 0 \in Bits(n)
        /\ 1 \in Bits(l) <=> 1 \in Bits(n)
        /\ 2 \in Bits(l) <=> 2 \in Bits(n)
        /\ 3 \in Bits(l) <=> 3 \in Bits(n)
        /\ 4 \in Bits(l) <=> 4 \in Bits(n)
        /\ 5 \notin Bits(l) /\ 6 \notin Bits(l)
    <3>1. /\ 0 \in Bits(n) <=> n % 2 = 1
          /\ 1 \in Bits(n) <=> (n \div 2) % 2 = 1
          /\ 2 \in Bits(n) <=> (n \div 4) % 2 = 1
          /\ 3 \in Bits(n) <=> (n \div 8) % 2 = 1
          /\ 4 \in Bits(n) <=> (n \div 16) % 2 = 1
          /\ 5 \in Bits(n) <=> (n \div 32) % 2 = 1
          /\ 6 \in Bits(n) <=> (n \div 64) % 2 = 1
      BY SmallBits
    <3>2. /\ 0 \in Bits(l) <=> l % 2 = 1
          /\ 1 \in Bits(l) <=> (l \div 2) % 2 = 1
          /\ 2 \in Bits(l) <=> (l \div 4) % 2 = 1
          /\ 3 \in Bits(l) <=> (l \div 8) % 2 = 1
          /\ 4 \in Bits(l) <=> (l \div 16) % 2 = 1
          /\ 5 \in Bits(l) <=> (l \div 32) % 2 = 1
          /\ 6 \in Bits(l) <=> (l \div 64) % 2 = 1
      BY <1>1, SmallBits
    <3>3. QED
      BY <1>1, <3>1, <3>2
  <2>4. QED
    BY <2>1, <2>2, <2>3, SameBits
<1>6. QED
  BY <1>4, <1>5 DEF h, l

\* So the expansion of a compressed form is the long form.
LEMMA ExpandIsLong ==
  ASSUME NEW i, ShortForm(i), NEW c, c = Guest!Compress(i)
  PROVE  Expand(c) = Guest!Assemble(i) /\ Expand(c) # {}
<1>1. /\ Low(c, 2) = {} /\ Offset(c) = Bits(i.imm)
      /\ Bitfield(c, 13, 3) = IF i.op = "lw" THEN Bits(2) ELSE Bits(6)
      /\ ShortReg(c, 7) = Bits(i.rs1) /\ ShortReg(c, 2) = Bits(Data(i))
      /\ i.op \in {"lw", "sw"} /\ i.imm \in 0..127
  BY ShortFields, ShortOffset DEF ShortForm
<1>2. Shr(Bits(i.imm), 5) = Bits(i.imm \div 32) /\ Low(Bits(i.imm), 5) = Bits(i.imm % 32)
  BY <1>1, OffsetParts
<1>3. Bits(2) # Bits(6) /\ Bits(3) # {} /\ Bits(35) # {}
  BY KnownBits
<1>4. Guest!Funct3["lw"] = 2 /\ Guest!Funct3["sw"] = 2
  BY DEF Guest!Funct3
<1>5. CASE i.op = "lw"
  <2>1. Guest!Assemble(i) = Shl(Bits(i.imm), 20) \cup Shl(Bits(i.rs1), 15)
          \cup Shl(Bits(2), 12) \cup Shl(Bits(i.rd), 7) \cup Bits(3)
    BY <1>4, <1>5, LongForms DEF Guest!Loads
  <2>2. Expand(c) = Shl(Bits(i.imm), 20) \cup Shl(Bits(i.rs1), 15)
          \cup Shl(Bits(2), 12) \cup Shl(Bits(i.rd), 7) \cup Bits(3)
    BY <1>1, <1>5 DEF Expand, Data
  <2>3. QED
    BY <1>3, <2>1, <2>2
<1>6. CASE i.op = "sw"
  <2>1. Guest!Assemble(i) = Shl(Bits(i.imm \div 32), 25) \cup Shl(Bits(i.rs2), 20)
          \cup Shl(Bits(i.rs1), 15) \cup Shl(Bits(2), 12) \cup Shl(Bits(i.imm % 32), 7)
          \cup Bits(35)
    BY <1>4, <1>6, LongForms DEF Guest!Stores
  <2>2. Expand(c) = Shl(Bits(i.imm \div 32), 25) \cup Shl(Bits(i.rs2), 20)
          \cup Shl(Bits(i.rs1), 15) \cup Shl(Bits(2), 12) \cup Shl(Bits(i.imm % 32), 7)
          \cup Bits(35)
    BY <1>1, <1>2, <1>3, <1>6 DEF Expand, Data
  <2>3. QED
    BY <1>3, <2>1, <2>2
<1>7. QED
  BY <1>1, <1>5, <1>6

-----------------------------------------------------------------------------
(* Memory holds the short form or the long one, in halfwords *)

\* Nothing of a long load or store but its opcode is in the low seven bits, and the
\* opcode is not that of a longer instruction.
LEMMA LongForm ==
  ASSUME NEW i, i.op \in Guest!Loads \cup Guest!Stores
  PROVE  /\ Guest!Assemble(i) \subseteq 0..31
         /\ 0 \in Guest!Assemble(i) /\ 1 \in Guest!Assemble(i) /\ 2 \notin Guest!Assemble(i)
<1>1. ASSUME NEW n, NEW lo \in {7, 12, 15, 20, 25}
      PROVE  Shl(Bits(n), lo) \subseteq lo..31
  BY DEF Shl, Bits
<1>2. ASSUME NEW n PROVE
        /\ Shl(Bits(n), 7) \subseteq 7..31 /\ Shl(Bits(n), 12) \subseteq 7..31
        /\ Shl(Bits(n), 15) \subseteq 7..31 /\ Shl(Bits(n), 20) \subseteq 7..31
        /\ Shl(Bits(n), 25) \subseteq 7..31
  BY <1>1
<1>3. CASE i.op \in Guest!Loads
  <2>1. Guest!Assemble(i) = Shl(Bits(i.imm), 20) \cup Shl(Bits(i.rs1), 15)
          \cup Shl(Bits(Guest!Funct3[i.op]), 12) \cup Shl(Bits(i.rd), 7) \cup {0, 1}
    BY <1>3, LongForms, KnownBits
  <2>2. QED
    BY <1>2, <2>1
<1>4. CASE i.op \in Guest!Stores
  <2>1. Guest!Assemble(i) = Shl(Bits(i.imm \div 32), 25) \cup Shl(Bits(i.rs2), 20)
          \cup Shl(Bits(i.rs1), 15) \cup Shl(Bits(Guest!Funct3[i.op]), 12)
          \cup Shl(Bits(i.imm % 32), 7) \cup {0, 1, 5}
    BY <1>4, LongForms, KnownBits
  <2>2. QED
    BY <1>2, <2>1
<1>5. QED
  BY <1>3, <1>4

\* Two halfwords make a word.
LEMMA TwoHalfwords ==
  ASSUME NEW w, w \subseteq 0..31
  PROVE  /\ Low(Shr(w, 0), 16) = w \cap 0..15
         /\ Low(Shr(w, 0), 16) \cup Shl(Low(Shr(w, 16), 16), 16) = w
<1>1. w \subseteq Nat
  OBVIOUS
<1>2. /\ \A b : b \in Shr(w, 0) <=> b \in Nat /\ b + 0 \in w
      /\ \A b : b \in Shr(w, 16) <=> b \in Nat /\ b + 16 \in w
  BY <1>1, ShrBit
<1>3. Low(Shr(w, 0), 16) = w \cap 0..15
  BY <1>2 DEF Low
<1>4. \A b : b \in Low(Shr(w, 16), 16) <=> b \in 0..15 /\ b + 16 \in w
  BY <1>2 DEF Low
<1>5. \A b : b \in Shl(Low(Shr(w, 16), 16), 16) <=> b \in 0..31 /\ b - 16 \in Low(Shr(w, 16), 16)
  BY <1>4, ShlBit
<1>6. \A b : b \in Shl(Low(Shr(w, 16), 16), 16) <=> b \in 16..31 /\ b \in w
  BY <1>4, <1>5
<1>7. \A b \in w : b \in 0..15 \/ b \in 16..31
  OBVIOUS
<1>8. \A b : b \in Low(Shr(w, 0), 16) \cup Shl(Low(Shr(w, 16), 16), 16) <=> b \in w
  BY <1>3, <1>6, <1>7
<1>9. QED
  BY <1>3, <1>8

-----------------------------------------------------------------------------
(* What is decoded is what was meant *)

\* A trap reports the instruction it was taken on, which is one of the program's.
TrapIsReported ==
  /\ instr \in Instr
  /\ mode = "trapped" => trap = Reported(instr)

\* That is an invariant.
LEMMA TrapReported == AccessSpec => []TrapIsReported
<1>1. AccessInit => TrapIsReported
  BY DEF AccessInit, TrapIsReported
<1>2. TrapIsReported /\ [AccessNext]_accessVars => TrapIsReported'
  <2> SUFFICES ASSUME TrapIsReported, [AccessNext]_accessVars PROVE TrapIsReported'
    OBVIOUS
  <2>1. CASE TrapEntry
    BY <2>1 DEF TrapEntry, TrapIsReported
  <2>2. CASE TrapExit
    BY <2>2 DEF TrapExit, TrapIsReported
  <2>3. CASE EmulateMmio \/ EmulateCsr \/ InjectFault \/ Unhandled
    <3>1. mode' # "trapped" /\ instr' = instr
      BY <2>3 DEF EmulateMmio, EmulateCsr, InjectFault, Unhandled
    <3>2. QED
      BY <3>1 DEF TrapIsReported
  <2>4. CASE UNCHANGED accessVars
    BY <2>4 DEF accessVars, TrapIsReported, Reported
  <2>5. QED
    BY <2>1, <2>2, <2>3, <2>4 DEF AccessNext
<1>3. QED
  BY <1>1, <1>2, PTL DEF AccessSpec

\* From the bits and the cause alone, trap_decode makes the instruction meant.
LEMMA DecodeMeant ==
  ASSUME instr \in Instr, instr.op # "other", trap = Reported(instr)
  PROVE  TrapDecode = [ok |-> TRUE, encoding |-> Guest!Assemble(instr),
                       length |-> Guest!Size(instr)]
<1> DEFINE w == Guest!Assemble(instr)
<1>1. Guest!Encodable(instr)
  BY ProgramAssumption
<1>2. /\ "other" \notin Guest!Loads \cup Guest!Stores \cup Guest!CsrOps
      /\ \A o \in Guest!CsrOps : o \notin Guest!Loads \cup Guest!Stores
  BY DEF Guest!Loads, Guest!Stores, Guest!CsrOps
<1>3. CASE instr.op \in Guest!CsrOps
  <2>1. /\ Guest!InMemory(instr) = w /\ Guest!Size(instr) = 4
        /\ trap.cause = 2 /\ trap.tval = w
    BY <1>2, <1>3 DEF Reported, Guest!InMemory, Guest!Short, Guest!Size
  <2>2. {0, 1} \subseteq w
    <3>1. Bits(115) \subseteq w
      BY <1>3, LongForms
    <3>2. QED
      BY <3>1, KnownBits
  <2>3. QED
    BY <2>1, <2>2 DEF TrapDecode
<1>4. CASE instr.op \in Guest!Loads \cup Guest!Stores
  <2>1. trap.cause \in {5, 7} /\ instr.op \notin Guest!CsrOps /\ instr.short \in BOOLEAN
    BY <1>1, <1>2, <1>4 DEF Reported, Guest!Encodable
  <2>2. CASE ~instr.short
    <3>1. Guest!InMemory(instr) = w /\ Guest!Size(instr) = 4
      BY <2>1, <2>2 DEF Guest!InMemory, Guest!Short, Guest!Size
    <3>2. /\ Halfword(0) = Low(Shr(w, 0), 16) /\ Halfword(1) = Low(Shr(w, 16), 16)
      BY <3>1 DEF Halfword
    <3>3. w \subseteq 0..31 /\ 0 \in w /\ 1 \in w /\ 2 \notin w
      BY <1>4, LongForm
    <3> HIDE DEF w
    <3>4. /\ Halfword(0) = w \cap 0..15
          /\ Halfword(0) \cup Shl(Halfword(1), 16) = w
      BY <3>2, <3>3, TwoHalfwords
    <3>5. {0, 1} \subseteq Halfword(0) /\ ~(0..4 \subseteq Halfword(0))
      <4>1. 2 \in 0..4 /\ 0 \in 0..15 /\ 1 \in 0..15
        OBVIOUS
      <4>2. QED
        BY <3>3, <3>4, <4>1
    <3>6. GuestFetch = [ok |-> TRUE, encoding |-> w, length |-> 4]
      BY <3>4, <3>5 DEF GuestFetch
    <3>7. QED
      BY <2>1, <3>1, <3>6 DEF TrapDecode, w
  <2>3. CASE instr.short
    <3> DEFINE c == Guest!Compress(instr)
    <3>1. ShortForm(instr)
      BY <1>1, <1>4, <2>3 DEF Guest!Encodable, ShortForm
    <3>2. Guest!InMemory(instr) = c /\ Guest!Size(instr) = 2
      BY <2>1, <2>3 DEF Guest!InMemory, Guest!Short, Guest!Size
    <3>3. c \subseteq 2..15
      BY <3>1, CompressedBits
    <3>4. Halfword(0) = Low(Shr(c, 0), 16)
      BY <3>2 DEF Halfword
    <3>5. Expand(c) = w /\ Expand(c) # {}
      BY <3>1, ExpandIsLong
    <3> HIDE DEF c, w
    <3>6. Halfword(0) = c
      <4>1. 2..15 \subseteq 0..31 /\ 2..15 \subseteq 0..15
        OBVIOUS
      <4>2. c \subseteq 0..31 /\ c \cap 0..15 = c
        BY <3>3, <4>1
      <4>3. QED
        BY <3>4, <4>2, TwoHalfwords
    <3>7. ~({0, 1} \subseteq c)
      BY <3>3
    <3>8. GuestFetch = [ok |-> TRUE, encoding |-> c, length |-> 2]
      BY <3>6, <3>7 DEF GuestFetch
    <3>9. GuestFetch.encoding = c /\ GuestFetch.length = 2
      BY <3>8
    <3>10. QED
      BY <2>1, <3>2, <3>5, <3>9 DEF TrapDecode, w
  <2>4. QED
    BY <2>1, <2>2, <2>3
<1>5. QED
  BY <1>1, <1>3, <1>4 DEF Guest!Encodable

\* The decoder sees what the assembler was given, for every program: expansion
\* changes the encoding and never the length (hyp_decode.c:69-148).
THEOREM DecodesWhatIsMeant == AccessSpec => []DecodedIsMeant
<1>1. TrapIsReported => DecodedIsMeant
  BY DecodeMeant DEF TrapIsReported, DecodedIsMeant
<1>2. QED
  BY <1>1, TrapReported, PTL

-----------------------------------------------------------------------------
(* Fields of an encoding *)

\* How far the numbers of the fields reach.
LEMMA FieldRanges ==
  /\ \A n \in 0..7 : Bits(n) \subseteq 0..2
  /\ \A n \in 0..31 : Bits(n) \subseteq 0..4
  /\ \A n \in 0..127 : Bits(n) \subseteq 0..6
<1>1. PowersFrom(3, 8) /\ PowersFrom(5, 32)
  BY LargePower
<1>2. ASSUME NEW n \in 0..7 PROVE Bits(n) \subseteq 0..2
  <2>1. Bits(n) \subseteq 0..3-1
    BY <1>1, SmallRange, SMT
  <2>2. QED
    BY <2>1
<1>3. ASSUME NEW n \in 0..31 PROVE Bits(n) \subseteq 0..4
  <2>1. Bits(n) \subseteq 0..5-1
    BY <1>1, SmallRange, SMT
  <2>2. QED
    BY <2>1
<1>4. ASSUME NEW n \in 0..127 PROVE Bits(n) \subseteq 0..6
  BY SmallBits
<1>5. QED
  BY <1>2, <1>3, <1>4

\* Numbers of twelve bits.
Wide == 0..4095

\* A field of twelve bits.
LEMMA LongFieldRange == \A n \in Wide : Bits(n) \subseteq 0..11
<1> SUFFICES ASSUME NEW n \in Wide PROVE Bits(n) \subseteq 0..11
  OBVIOUS
<1>1. PowersFrom(12, 4096)
  BY LargePower
<1>2. n \in Nat /\ 4096 \in Nat /\ n < 4096 /\ 12 \in Nat
  BY SMT DEF Wide
<1>3. Bits(n) \subseteq 0..12-1
  BY <1>1, <1>2, SmallRange, SMT
<1>4. QED
  BY <1>3, SMT

\* A field is read back from where it was put, whatever is in the others.
LEMMA PlacedField ==
  ASSUME NEW lo \in Nat, NEW k \in Nat, lo + k <= 32,
         NEW v, v \subseteq 0..k-1, NEW w, w \subseteq Nat, w \cap lo..lo+k-1 = {}
  PROVE  Bitfield(w \cup Shl(v, lo), lo, k) = v
<1>1. v \subseteq Nat /\ Shl(v, lo) \subseteq 0..31
  BY DEF Shl
<1>2. \A b : b \in Bitfield(w \cup Shl(v, lo), lo, k)
               <=> b \in 0..k-1 /\ b + lo \in w \cup Shl(v, lo)
  <2>1. 0..31 \subseteq Nat
    OBVIOUS
  <2>2. w \cup Shl(v, lo) \subseteq Nat
    BY <1>1, <2>1
  <2>3. QED
    BY <2>2, BitfieldBit
<1>3. ASSUME NEW b \in 0..k-1 PROVE b + lo \in w \cup Shl(v, lo) <=> b \in v
  <2>1. b + lo \in lo..lo+k-1 /\ b + lo \in 0..31 /\ (b + lo) - lo = b
    OBVIOUS
  <2>2. b + lo \in Shl(v, lo) <=> (b + lo) - lo \in v
    BY <1>1, <2>1, ShlBit
  <2>3. QED
    BY <2>1, <2>2
<1>4. QED
  BY <1>2, <1>3

\* And where it lies.
LEMMA PlacedRange ==
  ASSUME NEW lo \in Nat, NEW k \in Nat, NEW v, v \subseteq 0..k-1
  PROVE  Shl(v, lo) \subseteq lo..lo+k-1
<1>1. ASSUME NEW b \in v PROVE b + lo \in lo..lo+k-1
  OBVIOUS
<1>2. QED
  BY <1>1 DEF Shl

\* An instruction of the I format: what its fields are read back as.
WordI(t, s, f, d, o) == Shl(t, 20) \cup Shl(s, 15) \cup Shl(f, 12) \cup Shl(d, 7) \cup o

HasFieldsI(e, t, s, f, d, o) ==
  /\ Low(e, 7) = o /\ Bitfield(e, 7, 5) = d /\ Bitfield(e, 12, 3) = f
  /\ Bitfield(e, 15, 5) = s /\ Bitfield(e, 20, 12) = t
  /\ e \subseteq 0..31

LEMMA FormatI ==
  ASSUME NEW t \in SUBSET (0..11), NEW s \in SUBSET (0..4), NEW f \in SUBSET (0..2),
         NEW d \in SUBSET (0..4), NEW o \in SUBSET (0..6)
  PROVE  HasFieldsI(WordI(t, s, f, d, o), t, s, f, d, o)
<1> DEFINE e == WordI(t, s, f, d, o)
<1> DEFINE T == Shl(t, 20)
           S == Shl(s, 15)
           F == Shl(f, 12)
           D == Shl(d, 7)
<1>1. T \subseteq 20..31 /\ S \subseteq 15..19 /\ F \subseteq 12..14 /\ D \subseteq 7..11
  <2>1. t \subseteq 0..12-1 /\ s \subseteq 0..5-1 /\ f \subseteq 0..3-1 /\ d \subseteq 0..5-1
    OBVIOUS
  <2>2. /\ Shl(t, 20) \subseteq 20..20+12-1 /\ Shl(s, 15) \subseteq 15..15+5-1
        /\ Shl(f, 12) \subseteq 12..12+3-1 /\ Shl(d, 7) \subseteq 7..7+5-1
    BY <2>1, PlacedRange
  <2>3. QED
    BY <2>2
<1>0. e = T \cup S \cup F \cup D \cup o
  BY DEF WordI
<1> HIDE DEF T, S, F, D, e
<1>2. Low(e, 7) = o
  <2>1. \A b \in T \cup S \cup F \cup D : b \notin 0..6
    BY <1>1
  <2>2. Low(e, 7) = e \cap 0..6
    BY DEF Low
  <2>3. QED
    BY <1>0, <2>1, <2>2
<1>3. Bitfield(e, 7, 5) = d
  <2> DEFINE w == T \cup S \cup F \cup o
  <2>1. w \subseteq Nat /\ w \cap 7..7+5-1 = {} /\ d \subseteq 0..5-1
    BY <1>1
  <2>2. e = w \cup D
    BY <1>0
  <2> HIDE DEF w
  <2>3. Bitfield(w \cup Shl(d, 7), 7, 5) = d
    <3>1. 7 \in Nat /\ 5 \in Nat /\ 7 + 5 <= 32
      OBVIOUS
    <3>2. QED
      BY <2>1, <3>1, PlacedField
  <2>4. QED
    BY <2>2, <2>3 DEF D
<1>4. Bitfield(e, 12, 3) = f
  <2> DEFINE w == T \cup S \cup D \cup o
  <2>1. w \subseteq Nat /\ w \cap 12..12+3-1 = {} /\ f \subseteq 0..3-1
    BY <1>1
  <2>2. e = w \cup F
    BY <1>0
  <2> HIDE DEF w
  <2>3. Bitfield(w \cup Shl(f, 12), 12, 3) = f
    <3>1. 12 \in Nat /\ 3 \in Nat /\ 12 + 3 <= 32
      OBVIOUS
    <3>2. QED
      BY <2>1, <3>1, PlacedField
  <2>4. QED
    BY <2>2, <2>3 DEF F
<1>5. Bitfield(e, 15, 5) = s
  <2> DEFINE w == T \cup F \cup D \cup o
  <2>1. w \subseteq Nat /\ w \cap 15..15+5-1 = {} /\ s \subseteq 0..5-1
    BY <1>1
  <2>2. e = w \cup S
    BY <1>0
  <2> HIDE DEF w
  <2>3. Bitfield(w \cup Shl(s, 15), 15, 5) = s
    <3>1. 15 \in Nat /\ 5 \in Nat /\ 15 + 5 <= 32
      OBVIOUS
    <3>2. QED
      BY <2>1, <3>1, PlacedField
  <2>4. QED
    BY <2>2, <2>3 DEF S
<1>6. Bitfield(e, 20, 12) = t
  <2> DEFINE w == S \cup F \cup D \cup o
  <2>1. w \subseteq Nat /\ w \cap 20..20+12-1 = {} /\ t \subseteq 0..12-1
    BY <1>1
  <2>2. e = w \cup T
    BY <1>0
  <2> HIDE DEF w
  <2>3. Bitfield(w \cup Shl(t, 20), 20, 12) = t
    <3>1. 20 \in Nat /\ 12 \in Nat /\ 20 + 12 <= 32
      OBVIOUS
    <3>2. QED
      BY <2>1, <3>1, PlacedField
  <2>4. QED
    BY <2>2, <2>3 DEF T
<1>7. e \subseteq 0..31
  <2>1. \A b \in T \cup S \cup F \cup D : b \in 0..31
    BY <1>1
  <2>2. o \subseteq 0..31
    OBVIOUS
  <2>3. QED
    BY <1>0, <2>1, <2>2
<1>8. QED
  BY <1>2, <1>3, <1>4, <1>5, <1>6, <1>7 DEF e, HasFieldsI

\* And of the S format, as far as the monitor looks.
WordS(h, r, s, f, l, o) ==
  Shl(h, 25) \cup Shl(r, 20) \cup Shl(s, 15) \cup Shl(f, 12) \cup Shl(l, 7) \cup o

HasFieldsS(e, r, f, o) ==
  Low(e, 7) = o /\ Bitfield(e, 12, 3) = f /\ Bitfield(e, 20, 5) = r

LEMMA FormatS ==
  ASSUME NEW h \in SUBSET (0..6), NEW r \in SUBSET (0..4), NEW s \in SUBSET (0..4),
         NEW f \in SUBSET (0..2), NEW l \in SUBSET (0..4), NEW o \in SUBSET (0..6)
  PROVE  HasFieldsS(WordS(h, r, s, f, l, o), r, f, o)
<1> DEFINE e == WordS(h, r, s, f, l, o)
<1> DEFINE H == Shl(h, 25)
           R == Shl(r, 20)
           S == Shl(s, 15)
           F == Shl(f, 12)
           L == Shl(l, 7)
<1>1. /\ H \subseteq 25..31 /\ R \subseteq 20..24 /\ S \subseteq 15..19
      /\ F \subseteq 12..14 /\ L \subseteq 7..11
  <2>1. /\ h \subseteq 0..7-1 /\ r \subseteq 0..5-1 /\ s \subseteq 0..5-1
        /\ f \subseteq 0..3-1 /\ l \subseteq 0..5-1
    OBVIOUS
  <2>2. /\ Shl(h, 25) \subseteq 25..25+7-1 /\ Shl(r, 20) \subseteq 20..20+5-1
        /\ Shl(s, 15) \subseteq 15..15+5-1 /\ Shl(f, 12) \subseteq 12..12+3-1
        /\ Shl(l, 7) \subseteq 7..7+5-1
    BY <2>1, PlacedRange
  <2>3. QED
    BY <2>2
<1>0. e = H \cup R \cup S \cup F \cup L \cup o
  BY DEF WordS
<1> HIDE DEF H, R, S, F, L, e
<1>2. Low(e, 7) = o
  <2>1. \A b \in H \cup R \cup S \cup F \cup L : b \notin 0..6
    BY <1>1
  <2>2. Low(e, 7) = e \cap 0..6
    BY DEF Low
  <2>3. QED
    BY <1>0, <2>1, <2>2
<1>3. Bitfield(e, 12, 3) = f
  <2> DEFINE w == H \cup R \cup S \cup L \cup o
  <2>1. w \subseteq Nat /\ w \cap 12..12+3-1 = {} /\ f \subseteq 0..3-1
    BY <1>1
  <2>2. e = w \cup F
    BY <1>0
  <2> HIDE DEF w
  <2>3. Bitfield(w \cup Shl(f, 12), 12, 3) = f
    <3>1. 12 \in Nat /\ 3 \in Nat /\ 12 + 3 <= 32
      OBVIOUS
    <3>2. QED
      BY <2>1, <3>1, PlacedField
  <2>4. QED
    BY <2>2, <2>3 DEF F
<1>4. Bitfield(e, 20, 5) = r
  <2> DEFINE w == H \cup S \cup F \cup L \cup o
  <2>1. w \subseteq Nat /\ w \cap 20..20+5-1 = {} /\ r \subseteq 0..5-1
    BY <1>1
  <2>2. e = w \cup R
    BY <1>0
  <2> HIDE DEF w
  <2>3. Bitfield(w \cup Shl(r, 20), 20, 5) = r
    <3>1. 20 \in Nat /\ 5 \in Nat /\ 20 + 5 <= 32
      OBVIOUS
    <3>2. QED
      BY <2>1, <3>1, PlacedField
  <2>4. QED
    BY <2>2, <2>3 DEF R
<1>5. QED
  BY <1>2, <1>3, <1>4 DEF e, HasFieldsS

\* The numbers funct3 and the opcodes have, and the keys of the switch.
LEMMA KeyBits ==
  /\ Bits(0) = {} /\ Bits(1) = {0} /\ Bits(2) = {1} /\ Bits(3) = {0, 1} /\ Bits(4) = {2}
  /\ Bits(5) = {0, 2} /\ Bits(6) = {1, 2} /\ Bits(7) = {0, 1, 2} /\ Bits(8) = {3}
  /\ Bits(9) = {0, 3} /\ Bits(10) = {1, 3} /\ Bits(35) = {0, 1, 5}
  /\ Bits(115) = {0, 1, 4, 5, 6}
<1>1. /\ Bits(0) = {} /\ Bits(1) = {0} /\ Bits(2) = {1} /\ Bits(3) = {0, 1}
  <2>1. Bits(0) = {}
    BY SmallBits, SameBits
  <2>2. Bits(1) = {0}
    BY SmallBits, SameBits
  <2>3. QED
    BY <2>1, <2>2, KnownBits
<1>2. Bits(4) = {2}
  BY SmallBits, SameBits
<1>3. Bits(5) = {0, 2}
  BY SmallBits, SameBits
<1>4. Bits(7) = {0, 1, 2}
  BY SmallBits, SameBits
<1>5. Bits(8) = {3}
  BY SmallBits, SameBits
<1>6. Bits(9) = {0, 3}
  BY SmallBits, SameBits
<1>7. Bits(10) = {1, 3}
  BY SmallBits, SameBits
<1>8. Bits(115) = {0, 1, 4, 5, 6}
  BY SmallBits, SameBits
<1>9. QED
  BY <1>1, <1>2, <1>3, <1>4, <1>5, <1>6, <1>7, <1>8, KnownBits

\* A field that is read back as a word is read back as a number.
LEMMA SmallNumber == \A n \in Wide : Number(Bits(n)) = n
<1>1. \A n \in Wide : n \in 0..MaxNumber
  BY Powers, SMT DEF MaxNumber, Wide
<1>2. QED
  BY <1>1, NumberOfBits

\* A register's number is read back from its five bits.
LEMMA RegisterNumber == \A n \in 0..31 : Number(Bits(n)) = n /\ (Bits(n) = {} <=> n = 0)
<1>1. \A n \in 0..31 : n \in Wide
  BY SMT DEF Wide
<1>2. \A n \in 0..31 : Number(Bits(n)) = n
  BY <1>1, SmallNumber
<1>3. ASSUME NEW n \in 0..31, Bits(n) = {} PROVE n = 0
  <2>1. 0 \in 0..31 /\ Bits(n) = Bits(0)
    BY <1>3, KeyBits
  <2>2. Number(Bits(0)) = 0 /\ Number(Bits(n)) = n
    BY <1>2, <2>1
  <2>3. QED
    BY <2>1, <2>2
<1>4. QED
  BY <1>2, <1>3, KeyBits

\* The third of the fields all formats have.
LEMMA Funct3Range == \A op \in Guest!Loads \cup Guest!Stores \cup Guest!CsrOps :
                       Guest!Funct3[op] \in 0..7
  BY DEF Guest!Loads, Guest!Stores, Guest!CsrOps, Guest!Funct3

-----------------------------------------------------------------------------
(* What the handlers read in the bits of each kind of instruction *)

\* A load: opcode, funct3, rd.
LEMMA LoadFields ==
  ASSUME NEW i, Guest!Encodable(i), i.op \in Guest!Loads, NEW e, e = Guest!Assemble(i)
  PROVE  /\ Low(e, 7) = {0, 1} /\ Bitfield(e, 12, 3) = Bits(Guest!Funct3[i.op])
         /\ Field(e, 7, 5) = i.rd /\ e \subseteq 0..31
<1>1. i.rd \in 0..31 /\ i.rs1 \in 0..31 /\ i.imm \in Wide
  BY SMT DEF Guest!Encodable, Wide
<1>2. /\ Bits(i.rd) \subseteq 0..4 /\ Bits(i.rs1) \subseteq 0..4
      /\ Bits(Guest!Funct3[i.op]) \subseteq 0..2
  BY <1>1, FieldRanges, Funct3Range
<1>3. Bits(i.imm) \subseteq 0..11
  BY <1>1, LongFieldRange
<1>4. Bits(3) = {0, 1} /\ {0, 1} \subseteq 0..6
  BY KnownBits
<1> DEFINE t == Bits(i.imm)
           s == Bits(i.rs1)
           f == Bits(Guest!Funct3[i.op])
           d == Bits(i.rd)
           o == Bits(3)
<1>5. e = WordI(t, s, f, d, o)
  BY LongForms DEF WordI
<1>6. t \subseteq 0..11 /\ s \subseteq 0..4 /\ f \subseteq 0..2 /\ d \subseteq 0..4 /\ o \subseteq 0..6
  BY <1>2, <1>3, <1>4
<1> HIDE DEF t, s, f, d, o
<1>7. Low(e, 7) = o /\ Bitfield(e, 12, 3) = f /\ Bitfield(e, 7, 5) = d /\ e \subseteq 0..31
  <2>1. HasFieldsI(WordI(t, s, f, d, o), t, s, f, d, o)
    BY <1>6, FormatI
  <2>2. QED
    BY <1>5, <2>1 DEF HasFieldsI
<1>8. QED
  BY <1>1, <1>4, <1>7, RegisterNumber DEF Field, f, d, o

\* A store: opcode, funct3, rs2.
LEMMA StoreFields ==
  ASSUME NEW i, Guest!Encodable(i), i.op \in Guest!Stores, NEW e, e = Guest!Assemble(i)
  PROVE  /\ Low(e, 7) = {0, 1, 5} /\ Bitfield(e, 12, 3) = Bits(Guest!Funct3[i.op])
         /\ Field(e, 20, 5) = i.rs2
<1> DEFINE h == i.imm \div 32
           l == i.imm % 32
<1>1. i.rs2 \in 0..31 /\ i.rs1 \in 0..31 /\ i.imm \in 0..4095
  BY SMT DEF Guest!Encodable
<1>2. h \in 0..127 /\ l \in 0..31
  <2> DEFINE m == i.imm
  <2>1. m \in 0..4095
    BY <1>1, SMT
  <2> HIDE DEF m
  <2>2. m \div 32 \in 0..127 /\ m % 32 \in 0..31
    BY <2>1, SMT
  <2>3. QED
    BY <2>2, SMT DEF m
<1> HIDE DEF h, l
<1>3. i.rs2 \in 0..31 /\ i.rs1 \in 0..31
  BY <1>1, SMT
<1>4. Bits(35) = {0, 1, 5} /\ {0, 1, 5} \subseteq 0..6
  BY KnownBits
<1>5. e = Shl(Bits(h), 25) \cup Shl(Bits(i.rs2), 20) \cup Shl(Bits(i.rs1), 15)
            \cup Shl(Bits(Guest!Funct3[i.op]), 12) \cup Shl(Bits(l), 7) \cup Bits(35)
  BY LongForms DEF h, l
<1> DEFINE H == Bits(h)
           r == Bits(i.rs2)
           s == Bits(i.rs1)
           f == Bits(Guest!Funct3[i.op])
           L == Bits(l)
           o == Bits(35)
<1>6. /\ H \subseteq 0..6 /\ r \subseteq 0..4 /\ s \subseteq 0..4 /\ f \subseteq 0..2
      /\ L \subseteq 0..4 /\ o \subseteq 0..6
  BY <1>2, <1>3, <1>4, FieldRanges, Funct3Range
<1>7. e = WordS(H, r, s, f, L, o)
  BY <1>5 DEF WordS
<1> HIDE DEF H, r, s, f, L, o
<1>8. Low(e, 7) = o /\ Bitfield(e, 12, 3) = f /\ Bitfield(e, 20, 5) = r
  <2>1. HasFieldsS(WordS(H, r, s, f, L, o), r, f, o)
    BY <1>6, FormatS
  <2>2. QED
    BY <1>7, <2>1 DEF HasFieldsS
<1>9. QED
  BY <1>3, <1>4, <1>8, RegisterNumber DEF Field, f, r, o

\* A CSR instruction: opcode, funct3, rd, rs1 and the CSR's number.
LEMMA CsrFields ==
  ASSUME NEW i, Guest!Encodable(i), i.op \in Guest!CsrOps, NEW e, e = Guest!Assemble(i)
  PROVE  /\ Low(e, 7) = Bits(115) /\ Bitfield(e, 12, 3) = Bits(Guest!Funct3[i.op])
         /\ Field(e, 7, 5) = i.rd /\ Field(e, 20, 12) = i.csr
         /\ Bitfield(e, 15, 5) = Bits(i.rs1) /\ Field(e, 15, 5) = i.rs1
         /\ e \subseteq 0..31
<1>1. i.rd \in 0..31 /\ i.rs1 \in 0..31 /\ i.csr \in Wide
  BY SMT DEF Guest!Encodable, Wide
<1>2. /\ Bits(i.rd) \subseteq 0..4 /\ Bits(i.rs1) \subseteq 0..4
      /\ Bits(Guest!Funct3[i.op]) \subseteq 0..2
  BY <1>1, FieldRanges, Funct3Range
<1>3. Bits(i.csr) \subseteq 0..11
  BY <1>1, LongFieldRange
<1>4. Bits(115) \subseteq 0..6
  BY SmallBits
<1> DEFINE t == Bits(i.csr)
           s == Bits(i.rs1)
           f == Bits(Guest!Funct3[i.op])
           d == Bits(i.rd)
           o == Bits(115)
<1>5. e = WordI(t, s, f, d, o)
  BY LongForms DEF WordI
<1>6. t \subseteq 0..11 /\ s \subseteq 0..4 /\ f \subseteq 0..2 /\ d \subseteq 0..4 /\ o \subseteq 0..6
  BY <1>2, <1>3, <1>4
<1> HIDE DEF t, s, f, d, o
<1>7. /\ Low(e, 7) = o /\ Bitfield(e, 12, 3) = f /\ Bitfield(e, 7, 5) = d
      /\ Bitfield(e, 15, 5) = s /\ Bitfield(e, 20, 12) = t /\ e \subseteq 0..31
  <2>1. HasFieldsI(WordI(t, s, f, d, o), t, s, f, d, o)
    BY <1>6, FormatI
  <2>2. QED
    BY <1>5, <2>1 DEF HasFieldsI
<1>8. Number(t) = i.csr
  BY <1>1, SmallNumber DEF t
<1>9. QED
  BY <1>1, <1>7, <1>8, RegisterNumber DEF Field, s, f, d, o

\* Bits of a word by their fields.
LEMMA OpcodeBit ==
  ASSUME NEW e, e \subseteq 0..31
  PROVE  (5 \in e <=> 5 \in Low(e, 7)) /\ (14 \in e <=> 2 \in Bitfield(e, 12, 3))
<1>1. e \subseteq Nat /\ 5 \in 0..6 /\ 2 + 12 = 14 /\ 2 \in 0..3-1
  OBVIOUS
<1>2. 2 \in Bitfield(e, 12, 3) <=> 2 \in 0..3-1 /\ 2 + 12 \in e
  BY <1>1, BitfieldBit
<1>3. QED
  BY <1>1, <1>2 DEF Low

\* The key of a load is one mmio_decode has, with its width and sign.
LEMMA LoadKey ==
  ASSUME NEW i, Guest!Encodable(i), i.op \in Guest!Loads, NEW e, e = Guest!Assemble(i)
  PROVE  /\ IsLoadOrStore(e) /\ Key(e) \in LoadKeys /\ Key(e) \notin StoreKeys
         /\ KeyWidth(Key(e)) = Guest!Width[i.op]
         /\ \A v : Converted(v, Key(e)) =
              IF i.op \in {"lb", "lh"} THEN SignExtend(v, 8 * Guest!Width[i.op]) ELSE v
<1>1. /\ Low(e, 7) = {0, 1} /\ Bitfield(e, 12, 3) = Bits(Guest!Funct3[i.op])
      /\ e \subseteq 0..31
  BY LoadFields
<1>2. IsLoadOrStore(e)
  BY <1>1, KeyBits DEF IsLoadOrStore
<1>3. Key(e) = Bits(Guest!Funct3[i.op])
  <2>1. 5 \notin e
    BY <1>1, OpcodeBit
  <2>2. QED
    BY <1>1, <2>1 DEF Key
<1>4. /\ LoadKeys = {{}, {0}, {1}, {2}, {0, 2}} /\ StoreKeys = {{3}, {0, 3}, {1, 3}}
  BY KeyBits DEF LoadKeys, StoreKeys
<1>5. i.op \in {"lb", "lh", "lw", "lbu", "lhu"}
  BY DEF Guest!Loads
<1>6. /\ i.op = "lb" => Key(e) = {} /\ Guest!Width[i.op] = 1
      /\ i.op = "lh" => Key(e) = {0} /\ Guest!Width[i.op] = 2
      /\ i.op = "lw" => Key(e) = {1} /\ Guest!Width[i.op] = 4
      /\ i.op = "lbu" => Key(e) = {2} /\ Guest!Width[i.op] = 1
      /\ i.op = "lhu" => Key(e) = {0, 2} /\ Guest!Width[i.op] = 2
  BY <1>3, KeyBits DEF Guest!Funct3, Guest!Width
<1>7. Key(e) \in LoadKeys /\ Key(e) \notin StoreKeys
  BY <1>4, <1>5, <1>6
<1>8. KeyWidth(Key(e)) = Guest!Width[i.op]
  BY <1>5, <1>6 DEF KeyWidth
<1>9. Key(e) \in {Bits(0), Bits(1)} <=> i.op \in {"lb", "lh"}
  BY <1>5, <1>6, KeyBits
<1>10. QED
  BY <1>2, <1>7, <1>8, <1>9 DEF Converted

\* And that of a store.
LEMMA StoreKey ==
  ASSUME NEW i, Guest!Encodable(i), i.op \in Guest!Stores, NEW e, e = Guest!Assemble(i)
  PROVE  /\ IsLoadOrStore(e) /\ Key(e) \in StoreKeys /\ Key(e) \notin LoadKeys
         /\ KeyWidth(Key(e)) = Guest!Width[i.op]
<1>1. Low(e, 7) = {0, 1, 5} /\ Bitfield(e, 12, 3) = Bits(Guest!Funct3[i.op])
  BY StoreFields
<1>2. IsLoadOrStore(e)
  BY <1>1, KeyBits DEF IsLoadOrStore
<1>3. Key(e) = Bits(Guest!Funct3[i.op]) \cup {3}
  <2>1. 5 \in e
    BY <1>1 DEF Low
  <2>2. QED
    BY <1>1, <2>1 DEF Key
<1>4. /\ LoadKeys = {{}, {0}, {1}, {2}, {0, 2}} /\ StoreKeys = {{3}, {0, 3}, {1, 3}}
  BY KeyBits DEF LoadKeys, StoreKeys
<1>5. i.op \in {"sb", "sh", "sw"}
  BY DEF Guest!Stores
<1>6. /\ i.op = "sb" => Key(e) = {3} /\ Guest!Width[i.op] = 1
      /\ i.op = "sh" => Key(e) = {0, 3} /\ Guest!Width[i.op] = 2
      /\ i.op = "sw" => Key(e) = {1, 3} /\ Guest!Width[i.op] = 4
  BY <1>3, KeyBits DEF Guest!Funct3, Guest!Width
<1>7. Key(e) \in StoreKeys /\ Key(e) \notin LoadKeys
  BY <1>4, <1>5, <1>6
<1>8. KeyWidth(Key(e)) = Guest!Width[i.op]
  BY <1>5, <1>6 DEF KeyWidth
<1>9. QED
  BY <1>2, <1>7, <1>8

\* Which of the six CSR instructions it is.
LEMMA CsrKey ==
  ASSUME NEW i, Guest!Encodable(i), i.op \in Guest!CsrOps, NEW e, e = Guest!Assemble(i)
  PROVE  /\ Bitfield(e, 12, 3) \notin {Bits(0), Bits(4)}
         /\ 14 \in e <=> i.op \in {"csrrwi", "csrrsi", "csrrci"}
         /\ Bitfield(e, 12, 2) = Bits(1) <=> i.op \in {"csrrw", "csrrwi"}
         /\ Bitfield(e, 12, 2) = Bits(2) <=> i.op \in {"csrrs", "csrrsi"}
<1>1. Bitfield(e, 12, 3) = Bits(Guest!Funct3[i.op]) /\ e \subseteq 0..31
  BY CsrFields
<1>2. i.op \in {"csrrw", "csrrs", "csrrc", "csrrwi", "csrrsi", "csrrci"}
  BY DEF Guest!CsrOps
<1>3. /\ i.op = "csrrw" => Bitfield(e, 12, 3) = {0}
      /\ i.op = "csrrs" => Bitfield(e, 12, 3) = {1}
      /\ i.op = "csrrc" => Bitfield(e, 12, 3) = {0, 1}
      /\ i.op = "csrrwi" => Bitfield(e, 12, 3) = {0, 2}
      /\ i.op = "csrrsi" => Bitfield(e, 12, 3) = {1, 2}
      /\ i.op = "csrrci" => Bitfield(e, 12, 3) = {0, 1, 2}
  BY <1>1, KeyBits DEF Guest!Funct3
<1>4. Bitfield(e, 12, 2) = Bitfield(e, 12, 3) \cap {0, 1}
  <2>1. 0..2-1 = {0, 1} /\ 0..3-1 = {0, 1, 2}
    OBVIOUS
  <2>2. QED
    BY <2>1 DEF Bitfield, Low
<1>5. /\ i.op \in {"csrrw", "csrrwi"} => Bitfield(e, 12, 2) = {0}
      /\ i.op \in {"csrrs", "csrrsi"} => Bitfield(e, 12, 2) = {1}
      /\ i.op \in {"csrrc", "csrrci"} => Bitfield(e, 12, 2) = {0, 1}
  BY <1>3, <1>4
<1>6. 14 \in e <=> 2 \in Bitfield(e, 12, 3)
  BY <1>1, OpcodeBit
<1>7. 14 \in e <=> i.op \in {"csrrwi", "csrrsi", "csrrci"}
  BY <1>2, <1>3, <1>6
<1>8. Bitfield(e, 12, 3) \notin {Bits(0), Bits(4)}
  BY <1>2, <1>3, KeyBits
<1>9. /\ Bitfield(e, 12, 2) = Bits(1) <=> i.op \in {"csrrw", "csrrwi"}
      /\ Bitfield(e, 12, 2) = Bits(2) <=> i.op \in {"csrrs", "csrrsi"}
  BY <1>2, <1>5, KeyBits
<1>10. QED
  BY <1>7, <1>8, <1>9

\* Three bits: one of eight sets.
LEMMA ThreeBits ==
  ASSUME NEW f, f \subseteq 0..2
  PROVE  f \in {{}, {0}, {1}, {2}, {0, 1}, {0, 2}, {1, 2}, {0, 1, 2}}
<1>1. \A b \in f : b \in {0, 1, 2}
  OBVIOUS
<1>2. QED
  BY <1>1

\* Bits that are no instruction of the list are none to the handlers either.
LEMMA ForeignUnknown ==
  ASSUME NEW w, w \in Word, {0, 1} \subseteq w, Guest!Foreign(w, FALSE)
  PROVE  /\ ~(IsLoadOrStore(w) /\ Key(w) \in LoadKeys \cup StoreKeys)
         /\ ~(Low(w, 7) = Bits(115) /\ Bitfield(w, 12, 3) \notin {Bits(0), Bits(4)})
<1> DEFINE f == Bitfield(w, 12, 3)
           o == Low(w, 7)
<1>1. \A op \in Guest!Loads \cup Guest!Stores \cup Guest!CsrOps :
        ~(o = Guest!Opcode(op) /\ f = Bits(Guest!Funct3[op]))
  <2>1. /\ \A v, n : Guest!Low(v, n) = Low(v, n)
        /\ \A v, lo, n : Guest!Bitfield(v, lo, n) = Bitfield(v, lo, n)
    BY DEF Guest!Low, Low, Guest!Bitfield, Bitfield, Guest!Shr, Shr
  <2>2. QED
    BY <2>1, SameWords DEF Guest!Foreign
<1>2. /\ Guest!Opcode("lb") = {0, 1} /\ Guest!Opcode("lh") = {0, 1}
      /\ Guest!Opcode("lw") = {0, 1} /\ Guest!Opcode("lbu") = {0, 1}
      /\ Guest!Opcode("lhu") = {0, 1}
      /\ Guest!Opcode("sb") = {0, 1, 5} /\ Guest!Opcode("sh") = {0, 1, 5}
      /\ Guest!Opcode("sw") = {0, 1, 5}
      /\ Guest!Opcode("csrrw") = Bits(115) /\ Guest!Opcode("csrrs") = Bits(115)
      /\ Guest!Opcode("csrrc") = Bits(115) /\ Guest!Opcode("csrrwi") = Bits(115)
      /\ Guest!Opcode("csrrsi") = Bits(115) /\ Guest!Opcode("csrrci") = Bits(115)
  BY SameWords, KeyBits DEF Guest!Opcode, Guest!Loads, Guest!Stores
<1>3. /\ o = {0, 1} => f \notin {{}, {0}, {1}, {2}, {0, 2}}
      /\ o = {0, 1, 5} => f \notin {{}, {0}, {1}}
      /\ o = Bits(115) => f \notin {{0}, {1}, {0, 1}, {0, 2}, {1, 2}, {0, 1, 2}}
  BY <1>1, <1>2, KeyBits DEF Guest!Loads, Guest!Stores, Guest!CsrOps, Guest!Funct3
<1>4. w \subseteq 0..31 /\ f \subseteq 0..2
  <2>1. w \subseteq 0..31
    BY DEF Word
  <2>2. QED
    BY <2>1 DEF Bitfield, Low
<1>5. f \in {{}, {0}, {1}, {2}, {0, 1}, {0, 2}, {1, 2}, {0, 1, 2}}
  BY <1>4, ThreeBits
<1>6. ASSUME IsLoadOrStore(w), Key(w) \in LoadKeys \cup StoreKeys PROVE FALSE
  <2>1. o \ {5} = {0, 1}
    BY <1>6, KeyBits DEF IsLoadOrStore
  <2>2. o = {0, 1} \/ o = {0, 1, 5}
    BY <2>1
  <2>3. 5 \in w <=> 5 \in o
    BY <1>4, OpcodeBit
  <2>4. Key(w) \in {{}, {0}, {1}, {2}, {0, 2}, {3}, {0, 3}, {1, 3}}
    BY <1>6, KeyBits DEF LoadKeys, StoreKeys
  <2>5. CASE o = {0, 1}
    <3>1. Key(w) = f
      BY <2>3, <2>5 DEF Key
    <3>2. 3 \notin f
      BY <1>4
    <3>3. QED
      BY <1>3, <2>4, <2>5, <3>1, <3>2
  <2>6. CASE o = {0, 1, 5}
    <3>1. Key(w) = f \cup {3} /\ 3 \notin f
      BY <1>4, <2>3, <2>6 DEF Key
    <3> HIDE DEF f
    <3>2. f \in {{}, {0}, {1}}
      BY <1>5, <2>4, <3>1
    <3>3. QED
      BY <1>3, <2>6, <3>2
  <2>7. QED
    BY <2>2, <2>5, <2>6
<1>7. ASSUME o = Bits(115), f \notin {Bits(0), Bits(4)} PROVE FALSE
  BY <1>3, <1>5, <1>7, KeyBits
<1>8. QED
  BY <1>6, <1>7

-----------------------------------------------------------------------------
(* Registers of devices as bytes *)

\* The register a byte belongs to.
Owner(b) == CHOOSE r \in WordRegs : b \in r..r+3

\* The registers are apart, so a byte belongs to one of them.
LEMMA WordByte ==
  ASSUME NEW a \in WordRegs, NEW b \in a..a+3
  PROVE  /\ b \in Nat /\ b \in DeviceBytes /\ b \notin ByteRegs /\ Owner(b) = a
         /\ ByteAt(b) = Low(Shr(regs[a], 8 * (b - a)), 8)
         /\ ByteAt(b)' = Low(Shr(regs'[a], 8 * (b - a)), 8)
<1>1. a \in Nat /\ b \in Nat
  BY DeviceAssumption
<1>2. b \notin ByteRegs
  <2> SUFFICES ASSUME b \in ByteRegs PROVE FALSE
    OBVIOUS
  <2>1. PICK w \in Windows : w.kind = "words" /\ a..a+3 \subseteq Extent(w)
    BY DeviceAssumption
  <2>2. PICK v \in Windows : v.kind = "bytes" /\ b \in Extent(v)
    BY DeviceAssumption
  <2>3. w # v /\ b \in Extent(w) \cap Extent(v)
    BY <2>1, <2>2
  <2>4. QED
    BY <2>3, DeviceAssumption
<1>3. \A r \in WordRegs : b \in r..r+3 => r = a
  BY DeviceAssumption
<1>4. Owner(b) = a
  BY <1>3 DEF Owner
<1>5. b \in DeviceBytes
  BY DEF DeviceBytes
<1>6. QED
  BY <1>1, <1>2, <1>4, <1>5 DEF ByteAt, Owner

\* A register of a byte is its own byte.
LEMMA ByteByte ==
  ASSUME NEW b \in ByteRegs
  PROVE  b \in Nat /\ b \in DeviceBytes /\ ByteAt(b) = bytes[b] /\ ByteAt(b)' = bytes'[b]
BY DeviceAssumption DEF DeviceBytes, ByteAt

\* Four bytes, put together again.
LEMMA FourBytes ==
  ASSUME NEW v \in Word
  PROVE  UNION {Shl(Low(Shr(v, 8 * k), 8), 8 * k) : k \in 0..3} = v
<1> DEFINE Part(k) == Shl(Low(Shr(v, 8 * k), 8), 8 * k)
<1>1. v \subseteq 0..31 /\ v \subseteq Nat
  BY DEF Word
<1>2. ASSUME NEW k \in 0..3, NEW b
      PROVE  b \in Part(k) <=> b \in v /\ b \in 8 * k..8 * k + 7
  <2> DEFINE n == 8 * k
             u == Low(Shr(v, n), 8)
  <2>1. n \in Nat /\ n + 7 \in 0..31
    OBVIOUS
  <2> HIDE DEF n
  <2>2. \A c : c \in Shr(v, n) <=> c \in Nat /\ c + n \in v
    BY <1>1, <2>1, ShrBit
  <2>3. \A c : c \in u <=> c \in 0..7 /\ c + n \in v
    BY <2>2 DEF Low
  <2>4. u \subseteq Nat
    BY <2>3
  <2> HIDE DEF u
  <2>5. b \in Shl(u, n) <=> b \in 0..31 /\ b - n \in u
    BY <2>1, <2>4, ShlBit
  <2>6. ASSUME b \in 0..31 PROVE b - n \in u <=> b \in v /\ b \in n..n + 7
    <3>1. b - n \in 0..7 <=> b \in n..n + 7
      BY <2>1, <2>6
    <3>2. (b - n) + n = b
      BY <2>1, <2>6
    <3>3. QED
      BY <2>3, <3>1, <3>2
  <2>7. b \in Shl(u, n) <=> b \in v /\ b \in n..n + 7
    BY <1>1, <2>1, <2>5, <2>6
  <2>8. QED
    BY <2>7 DEF u, n
<1> HIDE DEF Part
<1>3. \A b \in v : \E k \in 0..3 : b \in 8 * k..8 * k + 7
  <2> SUFFICES ASSUME NEW b \in v PROVE \E k \in 0..3 : b \in 8 * k..8 * k + 7
    OBVIOUS
  <2>1. b \in 0..31
    BY <1>1
  <2>2. \/ b \in 8 * 0..8 * 0 + 7 \/ b \in 8 * 1..8 * 1 + 7
        \/ b \in 8 * 2..8 * 2 + 7 \/ b \in 8 * 3..8 * 3 + 7
    BY <2>1
  <2>3. QED
    BY <2>2
<1>4. UNION {Part(k) : k \in 0..3} = v
  BY <1>2, <1>3
<1>5. QED
  BY <1>4 DEF Part

\* A driver's access is inside one window, and of registers.
LEMMA AccessedDevice ==
  ASSUME NEW i \in Instr, i.op \in Guest!Loads \cup Guest!Stores
  PROVE  /\ Number(Bits(i.addr)) = i.addr /\ i.addr \in Nat
         /\ Guest!Width[i.op] \in {1, 2, 4}
         /\ MmioFind(i.addr) = {} => i.addr \notin DeviceBytes
         /\ \A w \in MmioFind(i.addr) :
              /\ i.addr \in DeviceBytes
              /\ \/ w.kind = "words" /\ i.addr \in WordRegs /\ Guest!Width[i.op] = 4
                 \/ /\ w.kind # "words"
                    /\ i.addr..i.addr + Guest!Width[i.op] - 1 \subseteq ByteRegs
<1>1. Driverlike(i)
  BY ProgramAssumption
<1>2. Number(Bits(i.addr)) = i.addr /\ i.addr \in Nat
  <2>1. i.addr \in 0..MaxNumber
    BY <1>1 DEF Driverlike
  <2>2. MaxNumber \in Nat
    BY Powers, SMT DEF MaxNumber
  <2>3. QED
    BY <2>1, <2>2, NumberOfBits
<1>3. Guest!Width[i.op] \in {1, 2, 4}
  BY DEF Guest!Loads, Guest!Stores, Guest!Width
<1>4. ASSUME MmioFind(i.addr) = {}, i.addr \in DeviceBytes PROVE FALSE
  <2>1. \E w \in Windows : i.addr \in Extent(w)
    <3>1. CASE i.addr \in ByteRegs
      BY <3>1, DeviceAssumption
    <3>2. ASSUME NEW a \in WordRegs, i.addr \in a..a+3 PROVE \E w \in Windows : i.addr \in Extent(w)
      BY <3>2, DeviceAssumption
    <3>3. QED
      BY <1>4, <3>1, <3>2 DEF DeviceBytes
  <2>2. QED
    BY <1>4, <2>1 DEF MmioFind
<1>5. ASSUME NEW w \in MmioFind(i.addr)
      PROVE  /\ i.addr \in DeviceBytes
             /\ \/ w.kind = "words" /\ i.addr \in WordRegs /\ Guest!Width[i.op] = 4
                \/ /\ w.kind # "words"
                   /\ i.addr..i.addr + Guest!Width[i.op] - 1 \subseteq ByteRegs
  <2>1. w \in Windows /\ i.addr \in Extent(w)
    BY DEF MmioFind
  <2>2. CASE w.kind = "words"
    <3>1. i.addr \in WordRegs /\ Guest!Width[i.op] = 4
      BY <1>1, <2>1, <2>2 DEF Driverlike
    <3>2. i.addr \in i.addr..i.addr+3
      BY <1>2
    <3>3. QED
      BY <2>2, <3>1, <3>2, WordByte
  <2>3. CASE w.kind # "words"
    <3>1. i.addr..i.addr + Guest!Width[i.op] - 1 \subseteq ByteRegs
      BY <1>1, <2>1, <2>3 DEF Driverlike
    <3>2. i.addr \in i.addr..i.addr + Guest!Width[i.op] - 1
      BY <1>2, <1>3
    <3>3. i.addr \in ByteRegs
      BY <3>1, <3>2
    <3>4. QED
      BY <2>3, <3>1, <3>3, ByteByte
  <2>4. QED
    BY <2>2, <2>3
<1>6. QED
  BY <1>2, <1>3, <1>4, <1>5

-----------------------------------------------------------------------------
(* The state, and one instruction *)

\* What the machine holds, and that an instruction is never trapped on beyond the
\* bound on pc.
Machine ==
  /\ mode \in {"guest", "trapped", "handled", "panic", "injected"}
  /\ pc \in Word /\ x \in [Regs -> Word] /\ frame \in [{0} \cup Regs -> Word]
  /\ regs \in [WordRegs -> Word] /\ bytes \in [ByteRegs -> SUBSET (0..7)]
  /\ csr \in [CsrStore -> Word] /\ mip \in Word /\ wires \in SUBSET {7, 11}
  /\ mode = "guest" => Number(pc) <= MaxPc
  /\ mode = "trapped" => Number(frame[0]) <= MaxPc
  /\ TrapIsReported

\* What a word stands for is a number.
LEMMA NumberIsNat == ASSUME NEW w PROVE Number(w) \in Nat
<1>1. ASSUME NEW k \in 0..31 PROVE Digit(w, k) \in Nat
  <2>1. k \in {0, 1, 2} \/ k \in 3..30 \/ k = 31
    OBVIOUS
  <2>2. 2^0 \in Nat /\ 2^1 \in Nat /\ 2^2 \in Nat
    OBVIOUS
  <2>3. PowersFrom(3, 8)
    BY LargePower
  <2>4. CASE k = 31
    BY <2>4 DEF Digit
  <2>5. CASE k \in {0, 1, 2} \/ k \in 3..30
    <3>1. 2^k \in Nat
      BY <2>2, <2>3, <2>5 DEF PowersFrom
    <3>2. QED
      BY <3>1 DEF Digit
  <2>6. QED
    BY <2>1, <2>4, <2>5
<1>2. Eight(w, 0) \in Nat
  BY <1>1 DEF Eight
<1>3. Eight(w, 8) \in Nat
  BY <1>1 DEF Eight
<1>4. Eight(w, 16) \in Nat
  BY <1>1 DEF Eight
<1>5. Eight(w, 24) \in Nat
  BY <1>1 DEF Eight
<1>6. QED
  BY <1>2, <1>3, <1>4, <1>5 DEF Number

\* And a number's bits are a word.
LEMMA BitsAreWord == \A n : Bits(n) \in Word
<1>1. \A n : Bits(n) \subseteq 0..30
  BY DEF Bits
<1>2. 0..30 \subseteq 0..31
  OBVIOUS
<1>3. QED
  BY <1>1, <1>2 DEF Word

\* A register is written and mepc moves: of the frame nothing else changes.
Advanced(f, rd, v) ==
  /\ f \in [{0} \cup Regs -> Word]
  /\ Number(f[0]) = Number(frame[0]) + TrapDecode.length
  /\ \A r \in Regs : f[r] = IF r = rd THEN v ELSE frame[r]

LEMMA FrameAfter ==
  ASSUME Machine, mode = "trapped", TrapDecode.length \in {2, 4},
         NEW rd \in 0..31, NEW v \in Word
  PROVE  Advanced(SkipInstruction(RegWrite(frame, rd, v)), rd, v)
<1> DEFINE f == SkipInstruction(RegWrite(frame, rd, v))
           g == RegWrite(frame, rd, v)
           n == Number(frame[0]) + TrapDecode.length
<1>1. 0 \notin Regs /\ frame \in [{0} \cup Regs -> Word]
  <2>1. Regs \subseteq 1..31
    BY AccessAssumption
  <2>2. 0 \notin 1..31
    OBVIOUS
  <2>3. QED
    BY <2>1, <2>2 DEF Machine
<1>2. /\ g \in [{0} \cup Regs -> Word] /\ g[0] = frame[0]
      /\ \A r \in Regs : g[r] = IF r = rd THEN v ELSE frame[r]
  BY <1>1 DEF RegWrite
<1>3. n \in 0..MaxNumber
  <2>1. Number(frame[0]) \in Nat /\ Number(frame[0]) <= MaxPc
    BY NumberIsNat DEF Machine
  <2>2. MaxPc \in Nat /\ MaxPc + 4 <= MaxNumber
    BY AccessAssumption
  <2>3. MaxNumber \in Nat
    BY Powers, SMT DEF MaxNumber
  <2>4. QED
    BY <2>1, <2>2, <2>3
<1>4. Number(Bits(n)) = n /\ Bits(n) \in Word
  BY <1>3, NumberOfBits, BitsAreWord
<1> HIDE DEF g
<1>5. f = [g EXCEPT ![0] = Bits(Number(g[0]) + TrapDecode.length)]
  BY DEF SkipInstruction, g
<1>6. f = [g EXCEPT ![0] = Bits(n)]
  BY <1>2, <1>5
<1> HIDE DEF n, f
<1>7. f \in [{0} \cup Regs -> Word] /\ f[0] = Bits(n) /\ \A r \in Regs : f[r] = g[r]
  BY <1>1, <1>2, <1>4, <1>6
<1>8. QED
  BY <1>2, <1>4, <1>7 DEF n, f, Advanced

\* What the decoder found, and where.
LEMMA TrappedAccess ==
  ASSUME Machine, mode = "trapped", instr.op \in Guest!Loads \cup Guest!Stores
  PROVE  /\ TrapDecode.ok /\ TrapDecode.encoding = Guest!Assemble(instr)
         /\ TrapDecode.length = Guest!Size(instr) /\ TrapDecode.length \in {2, 4}
         /\ Number(trap.tval) = instr.addr
<1>1. instr \in Instr /\ trap = Reported(instr)
  BY DEF Machine, TrapIsReported
<1>2. instr.op # "other" /\ instr.op \notin Guest!CsrOps
  BY DEF Guest!Loads, Guest!Stores, Guest!CsrOps
<1>3. TrapDecode = [ok |-> TRUE, encoding |-> Guest!Assemble(instr),
                    length |-> Guest!Size(instr)]
  BY <1>1, <1>2, DecodeMeant
<1>4. trap.tval = Bits(instr.addr)
  <2>1. Reported(instr).cause # 2
    BY <1>2 DEF Reported
  <2>2. QED
    BY <1>1, <2>1 DEF Reported
<1>5. Guest!Size(instr) \in {2, 4}
  BY DEF Guest!Size
<1>6. QED
  BY <1>1, <1>3, <1>4, <1>5, AccessedDevice

\* The value a load takes from the device is the one in memory, extended.
LEMMA LoadTakes ==
  ASSUME Machine, mode = "trapped", instr.op \in Guest!Loads,
         NEW w \in MmioFind(instr.addr)
  PROVE  LET n == Guest!Width[instr.op]
             v == DeviceRead(w, instr.addr, n)
         IN  /\ v \in Word
             /\ Guest!Loaded(instr) = IF instr.op \in {"lb", "lh"} THEN SignExtend(v, 8 * n) ELSE v
<1> DEFINE a == instr.addr
           n == Guest!Width[instr.op]
           v == DeviceRead(w, a, n)
           mem == [b \in DeviceBytes |-> ByteAt(b)]
<1>1. instr \in Instr
  BY DEF Machine, TrapIsReported
<1>2. /\ a \in Nat /\ n \in {1, 2, 4}
      /\ \/ w.kind = "words" /\ a \in WordRegs /\ n = 4
         \/ w.kind # "words" /\ a..a + n - 1 \subseteq ByteRegs
  BY <1>1, AccessedDevice
<1>3. v \in Word /\ UNION {Shl(mem[a + k], 8 * k) : k \in 0..n-1} = v
  <2>1. CASE w.kind = "words" /\ a \in WordRegs /\ n = 4
    <3>1. v = regs[a] /\ regs[a] \in Word
      BY <2>1 DEF DeviceRead, Machine
    <3>2. ASSUME NEW k \in 0..3 PROVE mem[a + k] = Low(Shr(regs[a], 8 * k), 8)
      <4>1. a + k \in a..a+3 /\ (a + k) - a = k
        BY <1>2
      <4>2. QED
        BY <2>1, <4>1, WordByte
    <3>3. 0..n-1 = 0..3
      BY <2>1
    <3> HIDE DEF mem, v, n
    <3>4. UNION {Shl(mem[a + k], 8 * k) : k \in 0..3}
            = UNION {Shl(Low(Shr(regs[a], 8 * k), 8), 8 * k) : k \in 0..3}
      BY <3>2
    <3>5. QED
      BY <3>1, <3>3, <3>4, FourBytes
  <2>2. CASE w.kind # "words" /\ a..a + n - 1 \subseteq ByteRegs
    <3>1. ASSUME NEW k \in 0..n-1 PROVE a + k \in ByteRegs /\ mem[a + k] = bytes[a + k]
      <4>1. a + k \in a..a + n - 1
        BY <1>2
      <4>2. QED
        BY <2>2, <4>1, ByteByte
    <3>2. v = UNION {IF a + k \in ByteRegs THEN Shl(bytes[a + k], 8 * k) ELSE {} : k \in 0..n-1}
      BY <2>2 DEF DeviceRead
    <3> HIDE DEF mem, v, n
    <3>3. v = UNION {Shl(mem[a + k], 8 * k) : k \in 0..n-1}
      BY <3>1, <3>2
    <3>4. \A k : Shl(mem[a + k], 8 * k) \subseteq 0..31
      BY DEF Shl
    <3>5. QED
      BY <3>3, <3>4 DEF Word
  <2>3. QED
    BY <1>2, <2>1, <2>2
<1>4. \A u, k : Guest!Shl(u, k) = Shl(u, k) /\ Guest!SignExtend(u, k) = SignExtend(u, k)
  BY DEF Guest!Shl, Shl, Guest!SignExtend, SignExtend, Guest!Low, Low
<1>5. QED
  BY <1>3, <1>4 DEF Guest!Loaded

\* Sign extension stays in the word.
LEMMA SignExtendWord ==
  ASSUME NEW v \in Word, NEW n \in {1, 2, 4} PROVE SignExtend(v, 8 * n) \in Word
<1>1. 8 * n \in Nat
  OBVIOUS
<1>2. 8 * n..31 \subseteq 0..31
  BY <1>1
<1>3. QED
  BY <1>2 DEF Word, SignExtend, Low

-----------------------------------------------------------------------------
(* Handlers implement instructions *)

\* A load that is emulated: the register takes what the programmer's memory has.
LEMMA LoadStep ==
  ASSUME Machine, EmulateMmio, instr.op \in Guest!Loads
  PROVE  Guest!Execute /\ Machine'
<1> DEFINE n == Guest!Width[instr.op]
           e == TrapDecode.encoding
<1>1. mode = "trapped" /\ mode' = "handled" /\ UNCHANGED <<instr, pc, x, trap, csr, mip, wires>>
  BY DEF EmulateMmio
<1>2. /\ e = Guest!Assemble(instr) /\ TrapDecode.length = Guest!Size(instr)
      /\ TrapDecode.length \in {2, 4} /\ Number(trap.tval) = instr.addr
  BY <1>1, TrappedAccess
<1>3. instr \in Instr /\ Guest!Encodable(instr)
  BY ProgramAssumption DEF Machine, TrapIsReported
<1>4. /\ Key(e) \notin StoreKeys /\ KeyWidth(Key(e)) = n
      /\ \A v : Converted(v, Key(e)) =
           IF instr.op \in {"lb", "lh"} THEN SignExtend(v, 8 * n) ELSE v
  BY <1>2, <1>3, LoadKey
<1>5. Field(e, 7, 5) = instr.rd /\ instr.rd \in 0..31
  <2>1. Field(e, 7, 5) = instr.rd
    BY <1>2, <1>3, LoadFields
  <2>2. instr.rd \in 0..31
    BY <1>3 DEF Guest!Encodable
  <2>3. QED
    BY <2>1, <2>2
<1>6. PICK w \in MmioFind(instr.addr) :
        /\ frame' = SkipInstruction(RegWrite(frame, Field(e, 7, 5),
                      Converted(DeviceRead(w, instr.addr, KeyWidth(Key(e))), Key(e))))
        /\ UNCHANGED <<regs, bytes>>
  BY <1>2, <1>4 DEF EmulateMmio
<1> DEFINE v == Converted(DeviceRead(w, instr.addr, n), Key(e))
<1>7. v \in Word /\ v = Guest!Loaded(instr)
  <2>1. n \in {1, 2, 4} /\ instr.addr \in DeviceBytes
    BY <1>3, AccessedDevice
  <2>2. DeviceRead(w, instr.addr, n) \in Word
    BY <1>1, LoadTakes
  <2>3. Guest!Loaded(instr) = IF instr.op \in {"lb", "lh"}
                                THEN SignExtend(DeviceRead(w, instr.addr, n), 8 * n)
                                ELSE DeviceRead(w, instr.addr, n)
    BY <1>1, LoadTakes
  <2>4. SignExtend(DeviceRead(w, instr.addr, n), 8 * n) \in Word
    BY <2>1, <2>2, SignExtendWord
  <2> HIDE DEF n
  <2>5. QED
    BY <1>4, <2>2, <2>3, <2>4
<1>8. frame' = SkipInstruction(RegWrite(frame, instr.rd, v))
  BY <1>4, <1>5, <1>6
<1> HIDE DEF v
<1>9. /\ frame' \in [{0} \cup Regs -> Word]
      /\ Number(frame'[0]) = Number(frame[0]) + Guest!Size(instr)
      /\ \A r \in Regs : frame'[r] = IF r = instr.rd THEN v ELSE frame[r]
  <2> DEFINE f == SkipInstruction(RegWrite(frame, instr.rd, v))
  <2>1. Advanced(f, instr.rd, v)
    BY <1>1, <1>2, <1>5, <1>7, FrameAfter
  <2> HIDE DEF f
  <2>2. frame' = f
    BY <1>8 DEF f
  <2>3. QED
    BY <1>2, <2>1, <2>2 DEF Advanced
<1>10. Machine'
  BY <1>1, <1>6, <1>9 DEF Machine, TrapIsReported, Reported
<1>11. Guest!Load(instr)
  <2>1. Guest!AtDevice(instr)
    BY <1>3, <1>6, AccessedDevice DEF Guest!AtDevice
  <2>2. \A b \in DeviceBytes : ByteAt(b)' = ByteAt(b)
    BY <1>6 DEF ByteAt
  <2>3. Guest!SetX(instr.rd, Guest!Loaded(instr))
    BY <1>1, <1>7, <1>9 DEF Guest!SetX, InTrap
  <2>4. QED
    BY <1>1, <2>1, <2>2, <2>3 DEF Guest!Load
<1>12. Guest!Execute
  BY <1>1, <1>9, <1>11 DEF Guest!Execute, InTrap
<1>13. QED
  BY <1>10, <1>12

\* A store: the bytes it covers, and no others, take the register's.
LEMMA StoreStep ==
  ASSUME Machine, EmulateMmio, instr.op \in Guest!Stores
  PROVE  Guest!Execute /\ Machine'
<1> DEFINE n == Guest!Width[instr.op]
           a == instr.addr
           e == TrapDecode.encoding
           v == RegRead(frame, instr.rs2)
<1>1. mode = "trapped" /\ mode' = "handled" /\ UNCHANGED <<instr, pc, x, trap, csr, mip, wires>>
  BY DEF EmulateMmio
<1>2. /\ e = Guest!Assemble(instr) /\ TrapDecode.length = Guest!Size(instr)
      /\ TrapDecode.length \in {2, 4} /\ Number(trap.tval) = a
  BY <1>1, TrappedAccess
<1>3. instr \in Instr /\ Guest!Encodable(instr) /\ instr.rs2 \in Regs \cup {0}
  BY ProgramAssumption DEF Machine, TrapIsReported, Driverlike
<1>4. Key(e) \notin LoadKeys /\ KeyWidth(Key(e)) = n
  BY <1>2, <1>3, StoreKey
<1>5. Field(e, 20, 5) = instr.rs2
  BY <1>2, <1>3, StoreFields
<1>6. PICK w \in MmioFind(a) : DeviceWrite(w, a, v, n) /\ frame' = SkipInstruction(frame)
  BY <1>2, <1>4, <1>5 DEF EmulateMmio
<1>7. v \in Word /\ v = IF instr.rs2 = 0 THEN {} ELSE frame[instr.rs2]
  BY <1>3 DEF RegRead, Machine, Word
<1> HIDE DEF v
<1>8. /\ frame' \in [{0} \cup Regs -> Word]
      /\ Number(frame'[0]) = Number(frame[0]) + Guest!Size(instr)
      /\ \A r \in Regs : frame'[r] = frame[r]
  <2>1. RegWrite(frame, 0, {}) = frame /\ {} \in Word /\ 0 \in 0..31
    BY DEF RegWrite, Word
  <2>2. \A r \in Regs : r # 0
    BY AccessAssumption
  <2> DEFINE f == SkipInstruction(RegWrite(frame, 0, {}))
  <2>3. Advanced(f, 0, {})
    BY <1>1, <1>2, <2>1, FrameAfter
  <2> HIDE DEF f
  <2>4. frame' = f
    BY <1>6, <2>1 DEF f
  <2>5. QED
    BY <1>2, <2>2, <2>3, <2>4 DEF Advanced
<1>9. /\ a \in Nat /\ n \in {1, 2, 4} /\ a \in DeviceBytes
      /\ \/ w.kind = "words" /\ a \in WordRegs /\ n = 4
         \/ w.kind # "words" /\ a..a + n - 1 \subseteq ByteRegs
  BY <1>3, AccessedDevice
<1>10. /\ regs' \in [WordRegs -> Word] /\ bytes' \in [ByteRegs -> SUBSET (0..7)]
       /\ \A b \in DeviceBytes :
            ByteAt(b)' = IF b \in a..a + n - 1 THEN Low(Shr(v, 8 * (b - a)), 8) ELSE ByteAt(b)
  <2>1. regs \in [WordRegs -> Word] /\ bytes \in [ByteRegs -> SUBSET (0..7)]
    BY DEF Machine
  <2>2. ASSUME NEW b \in DeviceBytes
        PROVE  b \in ByteRegs \/ \E r \in WordRegs : b \in r..r+3
    BY DEF DeviceBytes
  <2>3. CASE w.kind = "words" /\ a \in WordRegs /\ n = 4
    <3>1. regs' = [r \in WordRegs |-> IF r = a THEN v ELSE regs[r]] /\ bytes' = bytes
      BY <1>6, <2>3 DEF DeviceWrite
    <3>2. ASSUME NEW b \in ByteRegs
          PROVE  ByteAt(b)' = IF b \in a..a + n - 1 THEN Low(Shr(v, 8 * (b - a)), 8) ELSE ByteAt(b)
      <4>1. b \notin a..a+3
        BY <2>3, WordByte
      <4>2. a + n - 1 = a + 3
        BY <1>9, <2>3
      <4>3. ByteAt(b)' = ByteAt(b)
        BY <3>1, ByteByte
      <4>4. QED
        BY <4>1, <4>2, <4>3
    <3>3. ASSUME NEW r \in WordRegs, NEW b \in r..r+3
          PROVE  ByteAt(b)' = IF b \in a..a + n - 1 THEN Low(Shr(v, 8 * (b - a)), 8) ELSE ByteAt(b)
      <4>1. a + n - 1 = a + 3
        BY <1>9, <2>3
      <4>2. /\ ByteAt(b) = Low(Shr(regs[r], 8 * (b - r)), 8)
            /\ ByteAt(b)' = Low(Shr(regs'[r], 8 * (b - r)), 8)
        BY WordByte
      <4>3. b \in a..a+3 <=> r = a
        BY <2>3, DeviceAssumption
      <4>4. regs'[r] = IF r = a THEN v ELSE regs[r]
        BY <3>1
      <4>5. QED
        BY <4>1, <4>2, <4>3, <4>4
    <3>4. QED
      BY <1>7, <2>1, <2>2, <3>1, <3>2, <3>3
  <2>4. CASE w.kind # "words" /\ a..a + n - 1 \subseteq ByteRegs
    <3>1. /\ regs' = regs
          /\ bytes' = [b \in ByteRegs |->
               IF b \in a..a + n - 1 THEN Low(Shr(v, 8 * (b - a)), 8) ELSE bytes[b]]
      BY <1>6, <2>4 DEF DeviceWrite
    <3>2. ASSUME NEW b \in ByteRegs
          PROVE  ByteAt(b)' = IF b \in a..a + n - 1 THEN Low(Shr(v, 8 * (b - a)), 8) ELSE ByteAt(b)
      BY <3>1, ByteByte
    <3>3. ASSUME NEW r \in WordRegs, NEW b \in r..r+3
          PROVE  ByteAt(b)' = IF b \in a..a + n - 1 THEN Low(Shr(v, 8 * (b - a)), 8) ELSE ByteAt(b)
      <4>1. b \notin ByteRegs
        BY WordByte
      <4>2. ByteAt(b)' = ByteAt(b)
        <5>1. /\ ByteAt(b) = Low(Shr(regs[r], 8 * (b - r)), 8)
              /\ ByteAt(b)' = Low(Shr(regs'[r], 8 * (b - r)), 8)
          BY WordByte
        <5>2. QED
          BY <3>1, <5>1
      <4>3. QED
        BY <2>4, <4>1, <4>2
    <3>4. \A u, k : Low(Shr(u, k), 8) \in SUBSET (0..7)
      BY DEF Low
    <3>5. QED
      BY <2>1, <2>2, <3>1, <3>2, <3>3, <3>4
  <2>5. QED
    BY <1>9, <2>3, <2>4
<1>11. Machine'
  BY <1>1, <1>8, <1>10 DEF Machine, TrapIsReported, Reported
<1>12. Guest!Store(instr)
  <2>1. Guest!AtDevice(instr)
    BY <1>9 DEF Guest!AtDevice
  <2>2. Guest!X(instr.rs2) = v
    BY <1>1, <1>3, <1>7 DEF Guest!X, InTrap
  <2>3. \A u, k, l : Guest!Low(Guest!Shr(u, k), l) = Low(Shr(u, k), l)
    BY DEF Guest!Low, Guest!Shr, Low, Shr
  <2>4. [b \in DeviceBytes |-> ByteAt(b)]'
          = [b \in DeviceBytes |-> IF b \in a..a + n - 1
               THEN Guest!Low(Guest!Shr(Guest!X(instr.rs2), 8 * (b - a)), 8)
               ELSE [c \in DeviceBytes |-> ByteAt(c)][b]]
    <3>1. [b \in DeviceBytes |-> ByteAt(b)]' = [b \in DeviceBytes |-> ByteAt(b)']
      OBVIOUS
    <3>2. QED
      BY <1>10, <2>2, <2>3, <3>1
  <2>5. QED
    BY <1>1, <1>8, <2>1, <2>4 DEF Guest!Store, InTrap
<1>13. Guest!Execute
  BY <1>1, <1>8, <1>12 DEF Guest!Execute, InTrap
<1>14. QED
  BY <1>11, <1>13

\* What the decoder makes of a CSR instruction.
LEMMA TrappedCsr ==
  ASSUME Machine, mode = "trapped", instr.op \in Guest!CsrOps
  PROVE  /\ TrapDecode.encoding = Guest!Assemble(instr) /\ trap.cause = 2
         /\ TrapDecode.length = Guest!Size(instr) /\ TrapDecode.length \in {2, 4}
         /\ CsrKnown <=> instr.csr \in CsrStore \cup CsrZero \cup {836}
<1> DEFINE e == TrapDecode.encoding
<1>1. instr \in Instr /\ trap = Reported(instr)
  BY DEF Machine, TrapIsReported
<1>2. instr.op # "other" /\ instr.op \notin Guest!Loads \cup Guest!Stores
  BY DEF Guest!Loads, Guest!Stores, Guest!CsrOps
<1>3. /\ e = Guest!Assemble(instr)
      /\ TrapDecode.length = Guest!Size(instr) /\ Guest!Size(instr) \in {2, 4}
  <2>1. TrapDecode = [ok |-> TRUE, encoding |-> Guest!Assemble(instr),
                      length |-> Guest!Size(instr)]
    BY <1>1, <1>2, DecodeMeant
  <2>2. QED
    BY <2>1 DEF Guest!Size
<1>4. Guest!Encodable(instr)
  BY <1>1, ProgramAssumption
<1>5. /\ Low(e, 7) = Bits(115) /\ Bitfield(e, 12, 3) \notin {Bits(0), Bits(4)}
      /\ Field(e, 20, 12) = instr.csr
  BY <1>3, <1>4, CsrFields, CsrKey
<1> HIDE DEF e
<1>6. CsrKnown <=> instr.csr \in CsrStore \cup CsrZero \cup {836}
  BY <1>5 DEF CsrKnown, e
<1>7. trap.cause = 2
  BY <1>1, <1>2 DEF Reported
<1>8. QED
  BY <1>3, <1>6, <1>7 DEF e

\* A CSR instruction: read, modified by the rules of x0, and written.
LEMMA CsrStep ==
  ASSUME Machine, EmulateCsr, instr.op \in Guest!CsrOps
  PROVE  Guest!Execute /\ Machine'
<1> DEFINE e == TrapDecode.encoding
           c == instr.csr
           src == IF 14 \in e THEN Bitfield(e, 15, 5) ELSE RegRead(frame, Field(e, 15, 5))
           was == IF c = 836 THEN mip \cup wires ELSE IF c \in CsrStore THEN csr[c] ELSE {}
           new == Updated(was, e, src)
<1>1. mode = "trapped" /\ mode' = "handled"
      /\ UNCHANGED <<instr, pc, x, trap, regs, bytes, wires>> /\ CsrKnown
  BY DEF EmulateCsr
<1>2. /\ e = Guest!Assemble(instr) /\ TrapDecode.length = Guest!Size(instr)
      /\ TrapDecode.length \in {2, 4} /\ c \in CsrStore \cup CsrZero \cup {836}
  BY <1>1, TrappedCsr
<1>3. instr \in Instr /\ Guest!Encodable(instr)
      /\ (instr.op \in {"csrrw", "csrrs", "csrrc"} => instr.rs1 \in Regs \cup {0})
  BY ProgramAssumption DEF Machine, TrapIsReported, Driverlike
<1>4. /\ Field(e, 7, 5) = instr.rd /\ Field(e, 20, 12) = c
      /\ Bitfield(e, 15, 5) = Bits(instr.rs1) /\ Field(e, 15, 5) = instr.rs1
  BY <1>2, <1>3, CsrFields
<1>5. /\ 14 \in e <=> instr.op \in {"csrrwi", "csrrsi", "csrrci"}
      /\ Bitfield(e, 12, 2) = Bits(1) <=> instr.op \in {"csrrw", "csrrwi"}
      /\ Bitfield(e, 12, 2) = Bits(2) <=> instr.op \in {"csrrs", "csrrsi"}
  BY <1>2, <1>3, CsrKey
<1>6. /\ instr.rd \in 0..31 /\ (Bits(instr.rs1) = {} <=> instr.rs1 = 0)
      /\ instr.op \in {"csrrw", "csrrs", "csrrc", "csrrwi", "csrrsi", "csrrci"}
  BY <1>3, RegisterNumber DEF Guest!Encodable, Guest!CsrOps
<1>7. /\ mip' = IF c = 836 THEN new \ {7, 11} ELSE mip
      /\ csr' = [s \in CsrStore |-> IF s = c THEN new ELSE csr[s]]
      /\ frame' = SkipInstruction(RegWrite(frame, instr.rd, was))
  BY <1>4, SMTT(30) DEF EmulateCsr
<1>8. src = Guest!Operand(instr) /\ src \in Word
  <2>1. CASE instr.op \in {"csrrwi", "csrrsi", "csrrci"}
    <3>1. src = Bits(instr.rs1)
      BY <1>4, <1>5, <2>1
    <3>2. Guest!Operand(instr) = Bits(instr.rs1)
      BY <2>1, SameWords DEF Guest!Operand
    <3>3. QED
      BY <3>1, <3>2, BitsAreWord
  <2>2. CASE instr.op \in {"csrrw", "csrrs", "csrrc"}
    <3>1. src = RegRead(frame, instr.rs1) /\ instr.rs1 \in Regs \cup {0}
      BY <1>3, <1>4, <1>5, <2>2
    <3>2. Guest!Operand(instr) = Guest!X(instr.rs1)
      BY <2>2 DEF Guest!Operand
    <3>3. Guest!X(instr.rs1) = RegRead(frame, instr.rs1)
      BY <1>1, <3>1 DEF Guest!X, RegRead, InTrap
    <3>4. RegRead(frame, instr.rs1) \in Word
      BY <3>1 DEF RegRead, Machine, Word
    <3>5. QED
      BY <3>1, <3>2, <3>3, <3>4
  <2>3. QED
    BY <1>6, <2>1, <2>2
<1> HIDE DEF src
<1>9. was \in Word
  <2>1. mip \in Word /\ wires \in SUBSET {7, 11} /\ csr \in [CsrStore -> Word]
    BY DEF Machine
  <2>2. mip \cup wires \in Word
    BY <2>1 DEF Word
  <2>3. {} \in Word
    BY DEF Word
  <2>4. QED
    BY <2>1, <2>2, <2>3
<1> HIDE DEF was
<1>10. new = Guest!Written(instr, was) /\ new \in Word
  <2>1. CASE instr.op \in {"csrrw", "csrrwi"}
    BY <1>5, <1>8, <2>1 DEF Updated, Guest!Written
  <2>2. CASE instr.op \in {"csrrs", "csrrsi"}
    <3>1. Bitfield(e, 12, 2) # Bits(1) /\ Bitfield(e, 12, 2) = Bits(2)
      BY <1>5, <2>2
    <3>2. was \cup src \in Word
      BY <1>8, <1>9 DEF Word
    <3>3. QED
      BY <1>4, <1>6, <1>8, <1>9, <2>2, <3>1, <3>2 DEF Updated, Guest!Written
  <2>3. CASE instr.op \in {"csrrc", "csrrci"}
    <3>1. Bitfield(e, 12, 2) # Bits(1) /\ Bitfield(e, 12, 2) # Bits(2)
      BY <1>5, <2>3
    <3>2. was \ src \in Word
      BY <1>8, <1>9 DEF Word
    <3>3. QED
      BY <1>4, <1>6, <1>8, <1>9, <2>3, <3>1, <3>2 DEF Updated, Guest!Written
  <2>4. QED
    BY <1>6, <2>1, <2>2, <2>3
<1> HIDE DEF new
<1>11. /\ frame' \in [{0} \cup Regs -> Word]
       /\ Number(frame'[0]) = Number(frame[0]) + Guest!Size(instr)
       /\ \A r \in Regs : frame'[r] = IF r = instr.rd THEN was ELSE frame[r]
  <2> DEFINE f == SkipInstruction(RegWrite(frame, instr.rd, was))
  <2>0. /\ mode = "trapped" /\ TrapDecode.length \in {2, 4}
        /\ instr.rd \in 0..31 /\ was \in Word
    BY <1>1, <1>2, <1>6, <1>9
  <2>1. Advanced(f, instr.rd, was)
    BY <2>0, FrameAfter
  <2> HIDE DEF f
  <2>2. frame' = f
    BY <1>7 DEF f
  <2>3. QED
    BY <1>2, <2>1, <2>2 DEF Advanced
<1>12. mip' \in Word /\ csr' \in [CsrStore -> Word]
  <2>1. mip \in Word /\ csr \in [CsrStore -> Word] /\ new \ {7, 11} \in Word
    BY <1>10 DEF Machine, Word
  <2>2. QED
    BY <1>7, <1>10, <2>1
<1>13. Machine'
  BY <1>1, <1>11, <1>12 DEF Machine, TrapIsReported, Reported
<1>14. Guest!AccessCsr(instr)
  <2>1. csr \in [CsrStore -> Word]
    BY DEF Machine
  <2>2. Guest!SetX(instr.rd, was)
    BY <1>1, <1>11 DEF Guest!SetX, InTrap
  <2>3. [b \in DeviceBytes |-> ByteAt(b)]' = [b \in DeviceBytes |-> ByteAt(b)]
    BY <1>1 DEF ByteAt
  <2>4. UNCHANGED [b \in DeviceBytes |-> ByteAt(b)]
    BY <2>3
  <2>5. CASE c = 836
    <3>1. c \notin CsrStore /\ was = mip \cup wires
      BY <2>5, AccessAssumption DEF was
    <3>2. mip' = new \ {7, 11} /\ csr' = csr
      BY <1>7, <2>1, <2>5, <3>1
    <3>3. /\ Guest!SetX(instr.rd, mip \cup wires)
          /\ mip' = Guest!Written(instr, mip \cup wires) \ {7, 11}
      BY <1>10, <2>2, <3>1, <3>2 DEF Guest!SetX, Guest!Written
    <3>4. QED
      BY <2>4, <2>5, <3>2, <3>3 DEF Guest!AccessCsr, Guest!Mip
  <2>6. CASE c \in CsrStore
    <3>1. c # 836 /\ was = csr[c]
      BY <2>6, AccessAssumption DEF was
    <3>2. mip' = mip /\ csr' = [csr EXCEPT ![c] = new]
      BY <1>7, <2>1, <2>6, <3>1
    <3>3. Guest!SetX(instr.rd, csr[c])
      BY <2>2, <3>1 DEF Guest!SetX
    <3>4. new = Guest!Written(instr, csr[c])
      BY <1>10, <3>1 DEF Guest!Written
    <3>5. csr' = [csr EXCEPT ![c] = Guest!Written(instr, csr[c])]
      BY <3>2, <3>4
    <3>6. QED
      BY <2>4, <2>6, <3>2, <3>3, <3>5 DEF Guest!AccessCsr
  <2>7. CASE c \in CsrZero
    <3>1. c # 836 /\ c \notin CsrStore /\ was = {}
      BY <2>7, AccessAssumption DEF was
    <3>2. mip' = mip /\ csr' = csr
      BY <1>7, <2>1, <3>1
    <3>3. Guest!SetX(instr.rd, {})
      BY <2>2, <3>1 DEF Guest!SetX
    <3>4. QED
      BY <2>4, <2>7, <3>2, <3>3 DEF Guest!AccessCsr
  <2>8. QED
    BY <1>2, <2>5, <2>6, <2>7
<1>15. Guest!Execute
  BY <1>1, <1>11, <1>14 DEF Guest!Execute, InTrap
<1>16. QED
  BY <1>13, <1>15

\* What is not on the list is not emulated.
LEMMA ForeignTrapped ==
  ASSUME Machine, mode = "trapped", instr.op = "other"
  PROVE  (trap.cause # 2 => ~MmioKnown) /\ (trap.cause = 2 => ~CsrKnown)
<1> DEFINE w == instr.word
<1>1. /\ instr \in Instr /\ trap = Reported(instr)
      /\ instr.short \in BOOLEAN /\ Guest!Foreign(w, instr.short)
  <2>1. instr \in Instr /\ trap = Reported(instr)
    BY DEF Machine, TrapIsReported
  <2>2. Guest!Encodable(instr)
    BY <2>1, ProgramAssumption
  <2>3. instr.short \in BOOLEAN /\ Guest!Foreign(w, instr.short)
    BY <2>2 DEF Guest!Encodable
  <2>4. QED
    BY <2>1, <2>3
<1>2. /\ "other" \notin Guest!Loads \cup Guest!Stores \cup Guest!CsrOps
      /\ \A op \in Guest!CsrOps : op # "other"
  BY DEF Guest!Loads, Guest!Stores, Guest!CsrOps
<1>3. Guest!InMemory(instr) = w
  BY <1>2 DEF Guest!InMemory, Guest!Assemble
<1>4. /\ \A v, n : Guest!Low(v, n) = Low(v, n)
      /\ \A v, lo, n : Guest!Bitfield(v, lo, n) = Bitfield(v, lo, n)
      /\ Guest!Word = Word
  BY DEF Guest!Low, Low, Guest!Bitfield, Bitfield, Guest!Shr, Shr, Guest!Word, Word
<1>5. CASE ~instr.short
  <2>1. w \in Word /\ {0, 1} \subseteq w /\ Guest!Foreign(w, FALSE)
    BY <1>1, <1>4, <1>5 DEF Guest!Foreign
  <2>2. /\ ~(IsLoadOrStore(w) /\ Key(w) \in LoadKeys \cup StoreKeys)
        /\ ~(Low(w, 7) = Bits(115) /\ Bitfield(w, 12, 3) \notin {Bits(0), Bits(4)})
    BY <2>1, ForeignUnknown
  <2>3. CASE trap.cause = 2
    <3>1. trap.tval = w
      BY <1>1, <1>3, <2>3 DEF Reported
    <3>2. TrapDecode.encoding = w
      BY <2>3, <3>1 DEF TrapDecode
    <3>3. QED
      BY <2>2, <2>3, <3>2 DEF CsrKnown
  <2>4. CASE trap.cause # 2
    <3>1. w \subseteq 0..31
      BY <2>1 DEF Word
    <3>2. Halfword(0) = Low(Shr(w, 0), 16) /\ Halfword(1) = Low(Shr(w, 16), 16)
      BY <1>3 DEF Halfword
    <3> HIDE DEF w
    <3>3. Halfword(0) = w \cap 0..15 /\ Halfword(0) \cup Shl(Halfword(1), 16) = w
      BY <3>1, <3>2, TwoHalfwords
    <3>4. {0, 1} \subseteq Halfword(0)
      BY <2>1, <3>3
    <3>5. GuestFetch = Failed \/ GuestFetch = [ok |-> TRUE, encoding |-> w, length |-> 4]
      BY <3>3, <3>4 DEF GuestFetch
    <3>6. TrapDecode = GuestFetch
      BY <2>4, <3>5 DEF TrapDecode, Failed
    <3>7. ~TrapDecode.ok \/ TrapDecode.encoding = w
      BY <3>5, <3>6 DEF Failed
    <3>8. QED
      BY <2>2, <2>4, <3>7 DEF MmioKnown
  <2>5. QED
    BY <2>3, <2>4
<1>6. CASE instr.short
  <2>1. /\ w \subseteq 0..15 /\ ~({0, 1} \subseteq w)
        /\ Low(w, 2) = {} => Bitfield(w, 13, 3) \notin {Bits(2), Bits(6)}
    BY <1>1, <1>4, <1>6, SameWords DEF Guest!Foreign
  <2>2. CASE trap.cause = 2
    <3>1. trap.tval = w
      BY <1>1, <1>3, <2>2 DEF Reported
    <3>2. TrapDecode.encoding = w
      BY <2>2, <3>1 DEF TrapDecode
    <3>3. Low(w, 7) # Bits(115)
      BY <2>1, KeyBits DEF Low
    <3>4. QED
      BY <2>2, <3>2, <3>3 DEF CsrKnown
  <2>3. CASE trap.cause # 2
    <3>1. Halfword(0) = Low(Shr(w, 0), 16)
      BY <1>3 DEF Halfword
    <3> HIDE DEF w
    <3>2. Halfword(0) = w
      <4>1. 0..15 \subseteq 0..31
        OBVIOUS
      <4>2. w \subseteq 0..31 /\ w \cap 0..15 = w
        BY <2>1, <4>1
      <4>3. QED
        BY <3>1, <4>2, TwoHalfwords
    <3>3. GuestFetch = [ok |-> TRUE, encoding |-> w, length |-> 2]
      BY <2>1, <3>2 DEF GuestFetch
    <3>4. GuestFetch.encoding = w /\ GuestFetch.length = 2
      BY <3>3
    <3>5. Expand(w) = {}
      BY <2>1 DEF Expand
    <3>6. TrapDecode = Failed
      BY <2>3, <3>4, <3>5 DEF TrapDecode
    <3>7. QED
      BY <2>3, <3>6 DEF MmioKnown, Failed
  <2>4. QED
    BY <2>2, <2>3
<1>7. QED
  BY <1>1, <1>5, <1>6

-----------------------------------------------------------------------------
(* The monitor implements the instructions *)

\* By the cause, which kind of instruction it is.
LEMMA KindByCause ==
  ASSUME Machine, mode = "trapped"
  PROVE  /\ instr.op \in Guest!Loads \cup Guest!Stores \cup Guest!CsrOps \cup {"other"}
         /\ instr.op \in Guest!Loads \cup Guest!Stores => trap.cause \in {5, 7}
         /\ instr.op \in Guest!CsrOps => trap.cause = 2
<1>1. instr \in Instr /\ trap = Reported(instr) /\ Guest!Encodable(instr)
  BY ProgramAssumption DEF Machine, TrapIsReported
<1>2. \A op \in Guest!CsrOps : op \notin Guest!Loads \cup Guest!Stores
  BY DEF Guest!Loads, Guest!Stores, Guest!CsrOps
<1>3. QED
  BY <1>1, <1>2 DEF Reported, Guest!Encodable

\* emulate_mmio is a load or a store of the guest's program.
LEMMA MmioStep == ASSUME Machine, EmulateMmio PROVE Guest!Execute /\ Machine'
<1>1. mode = "trapped" /\ trap.cause \in {5, 7} /\ MmioKnown
  BY DEF EmulateMmio
<1>2. instr.op \in Guest!Loads \cup Guest!Stores
  BY <1>1, KindByCause, ForeignTrapped
<1>3. QED
  BY <1>2, LoadStep, StoreStep

\* csr_emulate is a CSR instruction of it.
LEMMA CsrEmulated == ASSUME Machine, EmulateCsr PROVE Guest!Execute /\ Machine'
<1>1. mode = "trapped" /\ trap.cause = 2 /\ CsrKnown
  BY DEF EmulateCsr
<1>2. instr.op \in Guest!CsrOps
  BY <1>1, KindByCause, ForeignTrapped
<1>3. QED
  BY <1>2, CsrStep

\* What stops the guest is an access fault or an instruction that is not on the list.
LEMMA HaltStep ==
  ASSUME Machine, InjectFault \/ Unhandled
  PROVE  Guest!Halt /\ Machine'
<1>1. /\ mode = "trapped" /\ mode' \in {"panic", "injected"}
      /\ UNCHANGED <<instr, pc, x, frame, trap, regs, bytes, csr, mip, wires>>
  BY DEF InjectFault, Unhandled
<1>2. Machine'
  BY <1>1 DEF Machine, TrapIsReported, Reported
<1>3. instr \in Instr
  BY DEF Machine, TrapIsReported
<1>4. ~Guest!AtDevice(instr)
  <2> SUFFICES ASSUME Guest!AtDevice(instr) PROVE FALSE
    OBVIOUS
  <2>1. instr.op \in Guest!Loads \cup Guest!Stores /\ instr.addr \in DeviceBytes
    BY DEF Guest!AtDevice
  <2>2. /\ trap.cause \in {5, 7} /\ Number(trap.tval) = instr.addr
        /\ TrapDecode.ok /\ TrapDecode.encoding = Guest!Assemble(instr)
    BY <1>1, <2>1, KindByCause, TrappedAccess
  <2>3. MmioFind(Number(trap.tval)) # {}
    BY <1>3, <2>1, <2>2, AccessedDevice
  <2>4. MmioKnown
    <3>1. Guest!Encodable(instr)
      BY <1>3, ProgramAssumption
    <3>2. QED
      BY <2>1, <2>2, <3>1, LoadKey, StoreKey DEF MmioKnown
  <2>5. QED
    BY <2>2, <2>3, <2>4 DEF InjectFault, Unhandled
<1>5. instr.op \in Guest!CsrOps => instr.csr \notin CsrStore \cup CsrZero \cup {836}
  <2> SUFFICES ASSUME instr.op \in Guest!CsrOps PROVE instr.csr \notin CsrStore \cup CsrZero \cup {836}
    OBVIOUS
  <2>1. trap.cause = 2 /\ (CsrKnown <=> instr.csr \in CsrStore \cup CsrZero \cup {836})
    BY <1>1, TrappedCsr
  <2>2. ~CsrKnown
    BY <2>1 DEF InjectFault, Unhandled
  <2>3. QED
    BY <2>1, <2>2
<1>6. [b \in DeviceBytes |-> ByteAt(b)]' = [b \in DeviceBytes |-> ByteAt(b)]
  BY <1>1 DEF ByteAt
<1>7. QED
  BY <1>1, <1>2, <1>4, <1>5, <1>6 DEF Guest!Halt, Guest!Mip, InTrap

\* Entry and exit move the registers, and the guest sees none of it.
LEMMA EntryStep == ASSUME Machine, TrapEntry PROVE UNCHANGED Guest!vars /\ Machine'
<1>1. /\ mode = "guest" /\ mode' = "trapped"
      /\ frame' = [r \in {0} \cup Regs |-> IF r = 0 THEN pc ELSE x[r]]
      /\ trap' = Reported(instr) /\ x' = [r \in Regs |-> Junk]
      /\ UNCHANGED <<instr, pc, regs, bytes, csr, mip, wires>>
  BY DEF TrapEntry
<1>2. 0 \notin Regs /\ Junk \in Word
  <2>1. Regs \subseteq 1..31 /\ Junk \in Word
    BY AccessAssumption
  <2>2. 0 \notin 1..31
    OBVIOUS
  <2>3. QED
    BY <2>1, <2>2
<1>3. /\ frame' \in [{0} \cup Regs -> Word] /\ frame'[0] = pc
      /\ \A r \in Regs : frame'[r] = x[r]
  BY <1>1, <1>2 DEF Machine
<1>4. Machine'
  BY <1>1, <1>2, <1>3 DEF Machine, TrapIsReported, Reported
<1>5. [b \in DeviceBytes |-> ByteAt(b)]' = [b \in DeviceBytes |-> ByteAt(b)]
  BY <1>1 DEF ByteAt
<1>6. [r \in Regs |-> frame'[r]] = x
  BY <1>3 DEF Machine
<1>7. QED
  BY <1>1, <1>3, <1>4, <1>5, <1>6 DEF Guest!vars, InTrap

\* On the way back the registers come from the frame.
LEMMA ExitStep == ASSUME Machine, TrapExit PROVE Guest!Continue /\ Machine'
<1>1. /\ mode = "handled" /\ mode' = "guest" /\ Number(frame[0]) < MaxPc
      /\ pc' = frame[0] /\ x' = [r \in Regs |-> frame[r]]
      /\ instr' \in Instr /\ wires' \in SUBSET {7, 11}
      /\ UNCHANGED <<frame, trap, regs, bytes, csr, mip>>
  BY DEF TrapExit
<1>2. Number(pc') <= MaxPc
  <2>1. Number(frame[0]) \in Nat /\ MaxPc \in Nat
    BY NumberIsNat, AccessAssumption
  <2>2. QED
    BY <1>1, <2>1
<1>3. Machine'
  BY <1>1, <1>2 DEF Machine, TrapIsReported
<1>4. [b \in DeviceBytes |-> ByteAt(b)]' = [b \in DeviceBytes |-> ByteAt(b)]
  BY <1>1 DEF ByteAt
<1>5. QED
  BY <1>1, <1>3, <1>4 DEF Guest!Continue, InTrap

\* At the start, and in between.
LEMMA InitStep == ASSUME AccessInit PROVE Guest!Init /\ Machine
<1>1. /\ mode = "guest" /\ instr \in Instr /\ pc = {} /\ x = Saved
      /\ frame = [r \in {0} \cup Regs |-> {}] /\ wires = {}
  BY DEF AccessInit
<1>2. PICK v \in Contents :
        /\ regs = [a \in WordRegs |-> v] /\ bytes = [a \in ByteRegs |-> Low(v, 8)]
        /\ csr = [c \in CsrStore |-> v] /\ mip = v \ {7, 11}
  BY DEF AccessInit
<1>3. v \in Word /\ Saved \in [Regs -> Word] /\ {} \in Word /\ MaxPc \in Nat
  BY AccessAssumption DEF Word
<1>4. Number({}) = 0
  <2>1. Number(Bits(0)) = 0 /\ Bits(0) = {}
    <3>1. 0 \in 0..31
      OBVIOUS
    <3>2. QED
      BY <3>1, RegisterNumber, KeyBits
  <2>2. QED
    BY <2>1
<1>5. Machine
  <2>1. Low(v, 8) \in SUBSET (0..7) /\ v \ {7, 11} \in Word
    BY <1>3 DEF Low, Word
  <2>2. QED
    BY <1>1, <1>2, <1>3, <1>4, <2>1 DEF Machine, TrapIsReported
<1>6. [b \in DeviceBytes |-> ByteAt(b)] \in [DeviceBytes -> SUBSET (0..7)]
  <2>1. ASSUME NEW b \in DeviceBytes PROVE ByteAt(b) \in SUBSET (0..7)
    <3>1. CASE b \in ByteRegs
      BY <3>1, ByteByte, <1>5 DEF Machine
    <3>2. CASE b \notin ByteRegs
      BY <3>2 DEF ByteAt, Low
    <3>3. QED
      BY <3>1, <3>2
  <2>2. QED
    BY <2>1
<1>7. Guest!Word = Word
  BY DEF Guest!Word, Word
<1>8. QED
  BY <1>1, <1>2, <1>3, <1>4, <1>5, <1>6, <1>7 DEF Guest!Init, InTrap, Machine

\* Trapped and emulated, every instruction of every program does exactly what it does
\* on the hart, and only an access fault or a foreign instruction stops the guest
\* (hyp_vectors.S, hyp_decode.c, hyp_mmio.c, hyp_csr.c).
THEOREM EmulationIsExact == AccessSpec => ImplementsIsa
<1>1. AccessInit => Guest!Init /\ Machine
  BY InitStep
<1>2. Machine /\ [AccessNext]_accessVars => Machine' /\ [Guest!Next]_Guest!vars
  <2> SUFFICES ASSUME Machine, [AccessNext]_accessVars
               PROVE  Machine' /\ (Guest!Next \/ UNCHANGED Guest!vars)
    OBVIOUS
  <2>1. CASE TrapEntry
    BY <2>1, EntryStep
  <2>2. CASE EmulateMmio
    BY <2>2, MmioStep DEF Guest!Next
  <2>3. CASE EmulateCsr
    BY <2>3, CsrEmulated DEF Guest!Next
  <2>4. CASE InjectFault \/ Unhandled
    BY <2>4, HaltStep DEF Guest!Next
  <2>5. CASE TrapExit
    BY <2>5, ExitStep DEF Guest!Next
  <2>6. CASE UNCHANGED accessVars
    <3>1. UNCHANGED <<mode, instr, pc, x, frame, trap, regs, bytes, csr, mip, wires>>
      BY <2>6 DEF accessVars
    <3>2. Machine'
      BY <3>1 DEF Machine, TrapIsReported, Reported
    <3>3. [b \in DeviceBytes |-> ByteAt(b)]' = [b \in DeviceBytes |-> ByteAt(b)]
      BY <3>1 DEF ByteAt
    <3>4. UNCHANGED Guest!vars
      BY <3>1, <3>3 DEF Guest!vars, InTrap
    <3>5. QED
      BY <3>2, <3>4
  <2>7. QED
    BY <2>1, <2>2, <2>3, <2>4, <2>5, <2>6 DEF AccessNext
<1>3. QED
  BY <1>1, <1>2, PTL DEF AccessSpec, ImplementsIsa, Guest!Spec

-----------------------------------------------------------------------------
(* The guest's clock *)

\* The latest time core 1 can have read a half of.
Seen == IF step \in {"readLow", "readHigh"} THEN latch ELSE now

Numbers ==
  /\ now \in Nat /\ latch \in Nat /\ mtimecmp \in Nat
  /\ low \in Nat /\ hi1 \in Nat /\ lo1 \in Nat
  /\ began \in Nat /\ old \in Nat /\ aim \in Nat
  /\ guest = "have" => read \in Nat
  /\ latch <= now /\ began <= Seen

\* What the driver has read on its way through high, low, high.
ReadSoFar ==
  /\ guest \in {"lo", "hi2"} => hi1 <= Hi(Seen)
  /\ guest = "lo" /\ step = "readHigh" =>
       \E u \in began..Seen : low = Lo(u) /\ hi1 <= Hi(u)
  /\ guest = "hi2" =>
       \E u \in began..Seen : lo1 = Lo(u) /\ hi1 <= Hi(u)

\* What stands in mtimecmp, and what mtip_pending will compare it with.
CompareSoFar ==
  /\ guest = "high" => mtimecmp = Hi(old) * Half + (Half - 1)
  /\ guest = "low"  => mtimecmp = Hi(aim) * Half + (Half - 1)
  /\ deadline # None => mtimecmp = deadline
  /\ gate # "tick" /\ deadline = None => guest \in {"high", "low"}
  /\ guest \in {"high", "low"} => deadline = None
  /\ clean /\ step = "readHigh" => low = Lo(latch)

\* Who called hyp_mtime.
Caller ==
  step \in {"snapshot", "readLow", "readHigh"} =>
    /\ want \in {"lo", "hi", "tick"}
    /\ want = "lo" => guest = "lo"
    /\ want = "hi" => guest \in {"hi1", "hi2"}

IInv == Numbers /\ Caller /\ ReadSoFar /\ TimeReadIsReal /\ CompareSoFar

-----------------------------------------------------------------------------
(* Halves *)

\* A time is put together from its halves.
LEMMA Halves ==
  ASSUME NEW t \in Nat
  PROVE  /\ Hi(t) \in Nat /\ Lo(t) \in Nat /\ Lo(t) <= Half - 1
         /\ t = Hi(t) * Half + Lo(t)
  BY TimerAssumption DEF Hi, Lo

\* The high half does not go back.
LEMMA HiMonotone ==
  ASSUME NEW a \in Nat, NEW b \in Nat, a <= b
  PROVE  Hi(a) <= Hi(b)
<1> DEFINE p == Hi(a)
           q == Hi(b)
<1>1. /\ p \in Nat /\ q \in Nat
      /\ a >= p * Half /\ b <= q * Half + (Half - 1)
  <2>1. p \in Nat /\ Lo(a) \in Nat /\ a = p * Half + Lo(a)
    BY Halves
  <2>2. q \in Nat /\ Lo(b) \in Nat /\ Lo(b) <= Half - 1 /\ b = q * Half + Lo(b)
    BY Halves
  <2> QED
    BY <2>1, <2>2, TimerAssumption
<1> HIDE DEF p, q
<1>2. SUFFICES ASSUME p >= q + 1 PROVE FALSE
  BY <1>1 DEF p, q
<1>3. p * Half >= (q + 1) * Half
  BY <1>1, <1>2, TimerAssumption
<1>4. (q + 1) * Half = q * Half + Half
  BY <1>1, TimerAssumption
<1> QED
  BY <1>1, <1>3, <1>4, TimerAssumption

\* A time whose low half is all ones is none before the one it was made from.
LEMMA OnesNotBefore ==
  ASSUME NEW t \in Nat
  PROVE  t <= Hi(t) * Half + (Half - 1)
  BY Halves, TimerAssumption

\* And it is a number.
LEMMA OnesInNat ==
  ASSUME NEW t \in Nat
  PROVE  Hi(t) * Half + (Half - 1) \in Nat
<1> DEFINE h == Hi(t)
<1>1. h \in Nat
  BY Halves
<1> HIDE DEF h
<1>2. h * Half + (Half - 1) \in Nat
  BY <1>1, TimerAssumption
<1> QED
  BY <1>2 DEF h

-----------------------------------------------------------------------------

\* The initial state satisfies the invariant.
LEMMA InitIInv == Init => IInv
<1>1. Never \in Nat
  BY TimerAssumption DEF Never
<1>2. Never # None
  BY <1>1 DEF None
<1> QED
  BY <1>1, <1>2, TimerAssumption DEF Init, IInv, Numbers, Caller, ReadSoFar,
     TimeReadIsReal, CompareSoFar, Seen

-----------------------------------------------------------------------------
(* Each step keeps the invariant. *)

USE DEF Monitor, Driver

\* What was read stays behind what will be.
LEMMA SeenGrows ==
  ASSUME IInv, Next
  PROVE  Seen \in Nat /\ Seen' \in Nat /\ Seen <= Seen' /\ Seen' <= now'
<1> USE DEF IInv, Numbers, Seen
<1>1. CASE Tick \/ AlarmFire \/ ForeignSnapshot
  BY <1>1 DEF Tick, AlarmFire, ForeignSnapshot
<1>2. CASE Snapshot \/ ReadLow \/ ReturnLow \/ Deliver \/ TakeHostInterrupt
  BY <1>2 DEF Snapshot, ReadLow, ReturnLow, Deliver, TakeHostInterrupt, hardware
<1>3. CASE ReturnHigh \/ CheckTick
  BY <1>3 DEF ReturnHigh, CheckTick, hardware
<1>4. CASE Driver
  BY <1>4 DEF BeginRead, LoadMtime, UseTime, ArmTimer, WriteLow, WriteHigh,
     StoreLowOnes, StoreHigh, StoreLow, HandlerReturns, hardware
<1> QED
  BY <1>1, <1>2, <1>3, <1>4 DEF Next

\* The clock, the hardware and core 0.
LEMMA HardwareStep ==
  ASSUME IInv, Tick \/ AlarmFire \/ ForeignSnapshot
  PROVE  IInv'
<1> USE DEF Tick, AlarmFire, ForeignSnapshot, driver, hardware
<1>1. Next
  BY DEF Next
<1>2. Seen \in Nat /\ Seen' \in Nat /\ Seen <= Seen' /\ Seen' <= now'
  BY <1>1, SeenGrows
<1>3. Hi(Seen) <= Hi(Seen') /\ Hi(Seen) \in Nat /\ Hi(Seen') \in Nat
  BY <1>2, HiMonotone, Halves
<1>4. Numbers'
  BY <1>2 DEF IInv, Numbers
<1>5. ReadSoFar'
  BY <1>2, <1>3 DEF IInv, Numbers, ReadSoFar
<1>6. TimeReadIsReal'
  BY DEF IInv, Numbers, TimeReadIsReal
<1>7. CompareSoFar'
  BY DEF IInv, CompareSoFar
<1>8. Caller'
  BY DEF IInv, Caller
<1> QED
  BY <1>4, <1>5, <1>6, <1>7, <1>8 DEF IInv

\* hyp_mtime and what is done with it.
LEMMA MonitorStep ==
  ASSUME IInv, Monitor
  PROVE  IInv'
<1> USE DEF Snapshot, ReadLow, ReturnLow, ReturnHigh, Deliver, CheckTick,
            TakeHostInterrupt, driver, hardware
<1>1. Next
  BY DEF Next
<1>2. Seen \in Nat /\ Seen' \in Nat /\ Seen <= Seen' /\ Seen' <= now'
  BY <1>1, SeenGrows
<1>3. Hi(Seen) <= Hi(Seen') /\ Hi(Seen) \in Nat /\ Hi(Seen') \in Nat
  BY <1>2, HiMonotone, Halves
<1>4. now' = now /\ latch \in Nat /\ Hi(latch) \in Nat /\ Lo(latch) \in Nat
  BY Halves DEF IInv, Numbers
<1>5. ASSUME ReturnHigh, guest = "hi2", Hi(latch) = hi1
      PROVE  read' \in began..now
  <2>1. PICK u \in began..latch : lo1 = Lo(u) /\ hi1 <= Hi(u)
    BY <1>5 DEF IInv, ReadSoFar, Seen
  <2>2. u \in Nat /\ u <= latch
    BY <2>1 DEF IInv, Numbers
  <2>3. Hi(u) = hi1
    <3>1. Hi(u) \in Nat /\ Hi(u) <= Hi(latch)
      BY <1>4, <2>2, HiMonotone, Halves
    <3> QED
      BY <1>4, <1>5, <2>1, <3>1
  <2>4. read' = u
    BY <1>5, <2>1, <2>2, <2>3, Halves
  <2> QED
    BY <1>4, <2>1, <2>2, <2>4 DEF IInv, Numbers
<1>6. guest' = "have" => read' \in began'..now'
  <2>1. CASE ReturnHigh
    BY <2>1, <1>5 DEF IInv, Caller, Numbers
  <2>2. CASE ~ReturnHigh
    BY <2>2 DEF IInv, Numbers, TimeReadIsReal
  <2> QED
    BY <2>1, <2>2
<1>7. Numbers'
  <2>1. /\ now' \in Nat /\ latch' \in Nat /\ mtimecmp' \in Nat /\ latch' <= now'
        /\ began' \in Nat /\ old' \in Nat /\ aim' \in Nat /\ began' = began
    BY <1>4 DEF IInv, Numbers
  <2>2. low' \in Nat /\ lo1' \in Nat
    BY <1>4 DEF IInv, Numbers
  <2>3. hi1' \in Nat
    BY <1>4 DEF IInv, Numbers, Caller
  <2>4. guest' = "have" => read' \in Nat
    BY <1>6, <2>1
  <2>5. began <= Seen
    BY DEF IInv, Numbers
  <2> QED
    BY <1>2, <2>1, <2>2, <2>3, <2>4, <2>5 DEF Numbers
<1>8. ReadSoFar'
  <2>1. guest' \in {"lo", "hi2"} => hi1' <= Hi(Seen')
    <3>1. CASE ReturnHigh /\ guest = "hi1"
      BY <3>1, <1>3 DEF Seen
    <3>2. CASE guest \in {"lo", "hi2"} /\ hi1' = hi1
      BY <3>2, <1>3 DEF IInv, Numbers, ReadSoFar
    <3>3. CASE guest' \notin {"lo", "hi2"}
      BY <3>3
    <3> QED
      BY <3>1, <3>2, <3>3 DEF IInv, Caller
  <2>2. guest' = "lo" /\ step' = "readHigh" =>
          \E u \in began'..Seen' : low' = Lo(u) /\ hi1' <= Hi(u)
    <3> SUFFICES ASSUME guest' = "lo", step' = "readHigh"
                 PROVE  \E u \in began'..Seen' : low' = Lo(u) /\ hi1' <= Hi(u)
      OBVIOUS
    <3>1. ReadLow /\ guest = "lo" /\ step = "readLow"
      OBVIOUS
    <3>2. Seen = latch /\ Seen' = latch /\ hi1' = hi1 /\ began' = began
            /\ low' = Lo(latch)
      BY <3>1 DEF Seen
    <3>3. latch \in began..latch /\ hi1 <= Hi(latch)
      BY <3>1, <3>2 DEF IInv, Numbers, ReadSoFar
    <3> QED
      BY <3>2, <3>3
  <2>3. guest' = "hi2" =>
          \E u \in began'..Seen' : lo1' = Lo(u) /\ hi1' <= Hi(u)
    <3> SUFFICES ASSUME guest' = "hi2"
                 PROVE  \E u \in began..Seen : lo1' = Lo(u) /\ hi1 <= Hi(u)
      <4>1. began' = began
        OBVIOUS
      <4>2. ASSUME guest' = "hi2" PROVE hi1' = hi1
        <5>1. ReturnHigh => guest' # "hi2"
          OBVIOUS
        <5> QED
          BY <4>2, <5>1
      <4> QED
        BY <1>2, <4>1, <4>2 DEF IInv, Numbers
    <3>1. CASE ReturnLow
      BY <3>1 DEF IInv, Caller, ReadSoFar
    <3>2. CASE ~ReturnLow
      BY <3>2 DEF IInv, Caller, ReadSoFar
    <3> QED
      BY <3>1, <3>2
  <2> QED
    BY <2>1, <2>2, <2>3 DEF ReadSoFar
<1>9. TimeReadIsReal'
  BY <1>6, <1>4 DEF IInv, Numbers, TimeReadIsReal
<1>10. CompareSoFar'
  <2>1. CASE ReadLow \/ Snapshot \/ Deliver \/ TakeHostInterrupt
    BY <2>1 DEF IInv, CompareSoFar
  <2>2. CASE ReturnLow \/ ReturnHigh \/ CheckTick
    BY <2>2 DEF IInv, CompareSoFar, Caller
  <2> QED
    BY <2>1, <2>2
<1>11. Caller'
  BY DEF IInv, Caller
<1> QED
  BY <1>7, <1>8, <1>9, <1>10, <1>11 DEF IInv

\* The driver.
LEMMA DriverStep ==
  ASSUME IInv, Driver
  PROVE  IInv'
<1> USE DEF BeginRead, LoadMtime, UseTime, ArmTimer, WriteLow, WriteHigh,
            StoreLowOnes, StoreHigh, StoreLow, HandlerReturns, driver, hardware
<1>1. /\ step = "guest" /\ step' \in {"guest", "snapshot", "deliver"}
      /\ now' = now /\ latch' = latch /\ low' = low /\ lo1' = lo1 /\ hi1' = hi1
      /\ read' = read /\ began' \in {began, now} /\ Seen = now /\ Seen' = now
  BY DEF Seen
<1>2. now \in Nat /\ began \in Nat /\ began <= now /\ latch \in Nat /\ latch <= now
  BY <1>1 DEF IInv, Numbers
<1>3. /\ guest' = "have" => guest = "have" /\ began' = began
      /\ guest' \in {"lo", "hi2"} => guest = guest' /\ began' = began
  OBVIOUS
<1>4. /\ aim' \in Nat /\ old' \in Nat /\ mtimecmp' \in Nat
      /\ CompareSoFar'
  <2>1. CASE BeginRead \/ LoadMtime \/ UseTime \/ HandlerReturns
    BY <2>1, <1>1 DEF IInv, Numbers, CompareSoFar
  <2>2. CASE StoreLowOnes
    <3>1. Never \in Nat
      BY TimerAssumption DEF Never
    <3>2. aim' \in Nat
      BY <2>2, <3>1, TimerAssumption DEF IInv, Numbers
    <3>3. old' \in Nat /\ mtimecmp' = Hi(old') * Half + (Half - 1)
      BY <2>2 DEF IInv, Numbers
    <3>4. mtimecmp' \in Nat
      BY <3>3, OnesInNat
    <3>5. /\ guest' = "high" /\ deadline' = None /\ step' = "deliver"
      BY <2>2
    <3>6. CompareSoFar'
      BY <3>3, <3>5 DEF CompareSoFar
    <3> QED
      BY <3>2, <3>3, <3>4, <3>6
  <2>3. CASE StoreHigh
    <3>1. Lo(mtimecmp) = Half - 1
      <4> DEFINE h == Hi(old)
      <4>1. h \in Nat /\ mtimecmp = h * Half + (Half - 1)
        BY <2>3, Halves DEF IInv, Numbers, CompareSoFar
      <4> HIDE DEF h
      <4>2. (h * Half + (Half - 1)) % Half = Half - 1
        BY <4>1, TimerAssumption
      <4> QED
        BY <4>1, <4>2 DEF Lo
    <3>2. aim' = aim /\ aim \in Nat /\ old' = old /\ old \in Nat
            /\ mtimecmp' = Hi(aim) * Half + (Half - 1)
      BY <2>3, <3>1 DEF IInv, Numbers
    <3>3. mtimecmp' \in Nat
      BY <3>2, OnesInNat
    <3>4. guest' = "low" /\ deadline' = None /\ step' = "deliver"
      BY <2>3 DEF IInv, CompareSoFar
    <3>5. CompareSoFar'
      BY <3>2, <3>4 DEF CompareSoFar
    <3> QED
      BY <3>2, <3>3, <3>5
  <2>4. CASE StoreLow
    <3>1. Hi(mtimecmp) = Hi(aim)
      <4> DEFINE h == Hi(aim)
      <4>1. h \in Nat /\ mtimecmp = h * Half + (Half - 1)
        BY <2>4, Halves DEF IInv, Numbers, CompareSoFar
      <4> HIDE DEF h
      <4>2. (h * Half + (Half - 1)) \div Half = h
        BY <4>1, TimerAssumption
      <4>3. Hi(mtimecmp) = h
        BY <4>1, <4>2 DEF Hi
      <4> QED
        BY <4>3 DEF h
    <3>2. aim \in Nat /\ mtimecmp' = aim
      BY <2>4, <3>1, Halves DEF IInv, Numbers
    <3>3. /\ guest' = "run" /\ deadline' = aim /\ step' = "deliver"
          /\ aim' = aim /\ old' = old /\ old \in Nat
      BY <2>4 DEF IInv, Numbers
    <3>4. CompareSoFar'
      BY <3>2, <3>3 DEF CompareSoFar, None
    <3> QED
      BY <3>2, <3>3, <3>4
  <2> QED
    BY <2>1, <2>2, <2>3, <2>4
<1>5. Numbers'
  BY <1>1, <1>2, <1>3, <1>4 DEF IInv, Numbers
<1>6. ReadSoFar'
  BY <1>1, <1>3 DEF IInv, ReadSoFar
<1>7. TimeReadIsReal'
  BY <1>1, <1>3 DEF IInv, TimeReadIsReal
<1>8. Caller'
  BY DEF IInv, Caller
<1> QED
  BY <1>4, <1>5, <1>6, <1>7, <1>8 DEF IInv

-----------------------------------------------------------------------------

\* Every step, the stuttering one too, keeps the invariant.
LEMMA NextIInv == IInv /\ [Next]_vars => IInv'
<1> SUFFICES ASSUME IInv, [Next]_vars PROVE IInv'
  OBVIOUS
<1>1. CASE Tick \/ AlarmFire \/ ForeignSnapshot
  BY <1>1, HardwareStep
<1>2. CASE Monitor
  BY <1>2, MonitorStep
<1>3. CASE Driver
  BY <1>3, DriverStep
<1>4. CASE UNCHANGED vars
  BY <1>4 DEF vars, IInv, Numbers, Caller, ReadSoFar, TimeReadIsReal,
     CompareSoFar, Seen
<1> QED
  BY <1>1, <1>2, <1>3, <1>4 DEF Next

\* What was read, and what stands in mtimecmp, whatever core 0 snapshots
\* (hyp_mtime, clint_read and clint_write of hyp_clint.c).
THEOREM Invariant == Spec => []IInv
  BY InitIInv, NextIInv, PTL DEF Spec

\* The two halves the guest reads, from two snapshots of hyp_mtime, make a time
\* at which it was reading (hyp_clint.c:75-79).
THEOREM TimeIsReal == Spec => []TimeReadIsReal
<1>1. IInv => TimeReadIsReal
  BY DEF IInv
<1> QED
  BY <1>1, Invariant, PTL

\* No value mtimecmp has while it is written a half at a time brings a tick before
\* the deadline (hyp_clint.c:30-35, 63-66, 85-94).
THEOREM TickNotEarly == Spec => NoEarlyTick
<1> DEFINE Early == /\ gate = "open" /\ gate' = "tick" /\ clean
                    /\ ~(\/ deadline # None /\ now >= deadline
                         \/ deadline = None /\ (now >= old \/ now >= aim))
<1>1. IInv /\ [Next]_vars => ~Early
  <2> SUFFICES ASSUME IInv, [Next]_vars, gate = "open", gate' = "tick", clean
               PROVE  \/ deadline # None /\ now >= deadline
                      \/ deadline = None /\ (now >= old \/ now >= aim)
    OBVIOUS
  <2>1. CheckTick
    BY DEF Next, vars, Tick, AlarmFire, ForeignSnapshot, Snapshot, ReadLow, ReturnLow,
       ReturnHigh, Deliver, TakeHostInterrupt, BeginRead, LoadMtime, UseTime,
       StoreLowOnes, StoreHigh, StoreLow, HandlerReturns
  <2>2. Hi(latch) * Half + low >= mtimecmp /\ low = Lo(latch)
    BY <2>1 DEF CheckTick, IInv, CompareSoFar
  <2>3. latch >= mtimecmp
    BY <2>2, Halves DEF IInv, Numbers
  <2>4. now >= mtimecmp /\ now \in Nat /\ mtimecmp \in Nat
    BY <2>3 DEF IInv, Numbers
  <2>5. CASE deadline # None
    BY <2>4, <2>5 DEF IInv, CompareSoFar
  <2>6. CASE guest = "high" /\ deadline = None
    <3>1. old \in Nat /\ old <= mtimecmp
      BY <2>6, OnesNotBefore DEF IInv, Numbers, CompareSoFar
    <3> QED
      BY <2>4, <2>6, <3>1
  <2>7. CASE guest = "low" /\ deadline = None
    <3>1. aim \in Nat /\ aim <= mtimecmp
      BY <2>7, OnesNotBefore DEF IInv, Numbers, CompareSoFar
    <3> QED
      BY <2>4, <2>7, <3>1
  <2> QED
    BY <2>5, <2>6, <2>7 DEF IInv, CompareSoFar
<1>2. IInv /\ [Next]_vars =>
        [gate = "open" /\ gate' = "tick" /\ clean =>
           \/ deadline # None /\ now >= deadline
           \/ deadline = None /\ (now >= old \/ now >= aim)]_vars
  BY <1>1
<1> QED
  BY <1>2, Invariant, PTL DEF Spec, NoEarlyTick

=============================================================================
