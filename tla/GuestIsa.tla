------------------------------ MODULE GuestIsa ------------------------------
(***************************************************************************)
(* The instructions the monitor emulates, as the guest's programmer and    *)
(* its assembler see them: loads and stores of device registers, which are *)
(* bytes in memory, and CSR instructions.  There is no trap here; an       *)
(* instruction does at once what the RISC-V manual says it does.           *)
(*                                                                         *)
(* An instruction is a record: op, the register fields, and                *)
(*   loads, stores   imm and addr, the address that x[rs1] + imm names,    *)
(*                   and short: it is the compressed form                  *)
(*   CSR             csr, its number; rs1 is the uimm of an immediate form *)
(*   "other"         word and short: anything else that may trap           *)
(***************************************************************************)
EXTENDS RvWord

CONSTANTS
  Instr,        \* the instructions the guest may execute
  Regs,         \* the registers looked at, among 1..31
  DeviceBytes,  \* addresses that are a byte of a device register
  CsrStore,     \* CSRs that hold what is written
  CsrZero       \* CSRs that read as zero and ignore writes

VARIABLES instr, pc, x, mem, csr, mip, wires, done, halted

vars == <<instr, pc, x, mem, csr, mip, wires, done, halted>>

Mip == 836   \* 0x344

-----------------------------------------------------------------------------
(* The assembler *)

Loads  == {"lb", "lh", "lw", "lbu", "lhu"}
Stores == {"sb", "sh", "sw"}
CsrOps == {"csrrw", "csrrs", "csrrc", "csrrwi", "csrrsi", "csrrci"}

Funct3 == [lb |-> 0, lh |-> 1, lw |-> 2, lbu |-> 4, lhu |-> 5,
           sb |-> 0, sh |-> 1, sw |-> 2,
           csrrw |-> 1, csrrs |-> 2, csrrc |-> 3,
           csrrwi |-> 5, csrrsi |-> 6, csrrci |-> 7]

Opcode(op) == Bits(IF op \in Loads THEN 3 ELSE IF op \in Stores THEN 35 ELSE 115)

Place(n, lo) == Shl(Bits(n), lo)

\* The 32-bit form.
Assemble(i) ==
  LET fixed == Place(i.rs1, 15) \cup Place(Funct3[i.op], 12) \cup Opcode(i.op)
  IN  IF i.op \in Loads THEN Place(i.imm, 20) \cup Place(i.rd, 7) \cup fixed
      ELSE IF i.op \in Stores
        THEN Place(i.imm \div 32, 25) \cup Place(i.rs2, 20) \cup Place(i.imm % 32, 7)
               \cup fixed
      ELSE IF i.op \in CsrOps THEN Place(i.csr, 20) \cup Place(i.rd, 7) \cup fixed
      ELSE i.word

\* The 16-bit form of lw and sw: registers x8..x15, offset bits 5:3, 2 and 6.
Compress(i) ==
  Place(IF i.op = "lw" THEN 2 ELSE 6, 13) \cup Place((i.imm \div 8) % 8, 10)
    \cup Place(i.rs1 - 8, 7) \cup Place((i.imm \div 4) % 2, 6)
    \cup Place(i.imm \div 64, 5)
    \cup Place((IF i.op = "lw" THEN i.rd ELSE i.rs2) - 8, 2)

\* Bits that are no instruction of this list.
Foreign(w, short) ==
  IF short
    THEN /\ w \subseteq 0..15 /\ ~({0, 1} \subseteq w)
         /\ Low(w, 2) = {} => Bitfield(w, 13, 3) \notin {Bits(2), Bits(6)}
    ELSE /\ w \in Word /\ {0, 1} \subseteq w
         /\ \A op \in Loads \cup Stores \cup CsrOps :
              ~(Low(w, 7) = Opcode(op) /\ Bitfield(w, 12, 3) = Bits(Funct3[op]))

\* What the assembler takes: the operands fit their fields, and only what the
\* compressed forms of lw and sw can name is compressed.
Encodable(i) ==
  /\ i.op \in Loads \cup Stores \cup CsrOps \cup {"other"}
  /\ i.op \in Loads \cup CsrOps => i.rd \in 0..31
  /\ i.op \in Stores => i.rs2 \in 0..31
  /\ i.op \in CsrOps => i.rs1 \in 0..31 /\ i.csr \in 0..4095
  /\ i.op \in Loads \cup Stores =>
       /\ i.rs1 \in 0..31 /\ i.imm \in 0..4095 /\ i.short \in BOOLEAN
       /\ i.short => /\ i.op \in {"lw", "sw"}
                     /\ i.imm \in 0..127 /\ i.imm % 4 = 0 /\ i.rs1 \in 8..15
                     /\ (IF i.op = "lw" THEN i.rd ELSE i.rs2) \in 8..15
  /\ i.op = "other" => i.short \in BOOLEAN /\ Foreign(i.word, i.short)

Short(i) == i.op \notin CsrOps /\ i.short
InMemory(i) == IF Short(i) /\ i.op # "other" THEN Compress(i) ELSE Assemble(i)
Size(i) == IF Short(i) THEN 2 ELSE 4

-----------------------------------------------------------------------------
(* What an instruction does *)

Width == [lb |-> 1, lh |-> 2, lw |-> 4, lbu |-> 1, lhu |-> 2,
          sb |-> 1, sh |-> 2, sw |-> 4]

X(r) == IF r = 0 THEN {} ELSE x[r]
SetX(r, v) == x' = [q \in DOMAIN x |-> IF q = r THEN v ELSE x[q]]

AtDevice(i) == i.op \in Loads \cup Stores /\ i.addr \in DeviceBytes

\* Little-endian.
Loaded(i) ==
  LET raw == UNION {Shl(mem[i.addr + k], 8 * k) : k \in 0..Width[i.op]-1}
  IN  IF i.op \in {"lb", "lh"} THEN SignExtend(raw, 8 * Width[i.op]) ELSE raw

Load(i) ==
  /\ i.op \in Loads /\ AtDevice(i)
  /\ SetX(i.rd, Loaded(i))
  /\ UNCHANGED <<mem, csr, mip>>

Store(i) ==
  /\ i.op \in Stores /\ AtDevice(i)
  /\ mem' = [a \in DOMAIN mem |->
               IF a \in i.addr..(i.addr + Width[i.op] - 1)
                 THEN Low(Shr(X(i.rs2), 8 * (a - i.addr)), 8) ELSE mem[a]]
  /\ UNCHANGED <<x, csr, mip>>

Operand(i) == IF i.op \in {"csrrwi", "csrrsi", "csrrci"} THEN Bits(i.rs1) ELSE X(i.rs1)

\* Set and clear with a zero rs1 field do not write; a swap always does.
Written(i, old) ==
  IF i.op \in {"csrrw", "csrrwi"} THEN Operand(i)
  ELSE IF i.rs1 = 0 THEN old
  ELSE IF i.op \in {"csrrs", "csrrsi"} THEN old \cup Operand(i)
  ELSE old \ Operand(i)

\* mip's timer and external bits are wires; the others can be written.
AccessCsr(i) ==
  /\ i.op \in CsrOps
  /\ \/ /\ i.csr = Mip
        /\ SetX(i.rd, mip \cup wires)
        /\ mip' = Written(i, mip \cup wires) \ {7, 11}
        /\ UNCHANGED csr
     \/ /\ i.csr \in CsrStore
        /\ SetX(i.rd, csr[i.csr])
        /\ csr' = [csr EXCEPT ![i.csr] = Written(i, csr[i.csr])]
        /\ UNCHANGED mip
     \/ /\ i.csr \in CsrZero
        /\ SetX(i.rd, {})
        /\ UNCHANGED <<csr, mip>>
  /\ UNCHANGED mem

Execute ==
  /\ ~done /\ ~halted
  /\ Load(instr) \/ Store(instr) \/ AccessCsr(instr)
  /\ pc' = pc + Size(instr)
  /\ done' = TRUE
  /\ UNCHANGED <<instr, wires, halted>>

\* What comes next, the guest's program decides; the lines move by themselves.
Continue ==
  /\ done /\ ~halted
  /\ instr' \in Instr /\ wires' \in SUBSET {7, 11}
  /\ done' = FALSE
  /\ UNCHANGED <<pc, x, mem, csr, mip, halted>>

\* An access fault, or an instruction outside this list.
Halt ==
  /\ ~AtDevice(instr)
  /\ instr.op \in CsrOps => instr.csr \notin CsrStore \cup CsrZero \cup {Mip}
  /\ halted' = TRUE
  /\ UNCHANGED <<instr, pc, x, mem, csr, mip, wires, done>>

Init ==
  /\ instr \in Instr
  /\ pc = 0 /\ x \in [Regs -> Word] /\ mem \in [DeviceBytes -> SUBSET (0..7)]
  /\ csr \in [CsrStore -> Word] /\ mip \in Word /\ wires \in SUBSET {7, 11}
  /\ done = FALSE /\ halted = FALSE

Next == Execute \/ Continue \/ Halt

Spec == Init /\ [][Next]_vars
=============================================================================
