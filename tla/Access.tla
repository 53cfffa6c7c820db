------------------------------- MODULE Access -------------------------------
(***************************************************************************)
(* How one trapped instruction is emulated on core 1:                      *)
(*                                                                         *)
(*   main/hyp_vectors.S  the registers go into the frame and come back     *)
(*   main/hyp_decode.c   fetch by halfwords, expansion of c.lw and c.sw    *)
(*   main/hyp_mmio.c     the device table, width and sign of an access     *)
(*   main/hyp_csr.c      the six CSR instructions on the shadow bank       *)
(*   main/hyp_core.c     the dispatch and the advance of mepc              *)
(*                                                                         *)
(* The guest executes instructions of the abstract hart GuestIsa; what     *)
(* memory holds is their encoding, and the monitor has nothing else to go  *)
(* by.  mret and wfi, the injection of faults and interrupts, and time are *)
(* in module HypTrap.                                                      *)
(***************************************************************************)
EXTENDS RvWord

CONSTANTS
  Instr, Regs, CsrStore, CsrZero,   \* as in GuestIsa
  Windows,     \* device windows: records of base, size and kind
  WordRegs,    \* addresses of the registers of "words" windows
  ByteRegs,    \* addresses of the registers of "bytes" windows
  Saved, Junk, \* x at the start, and a register in the monitor's own code
  Contents,    \* what device registers and CSRs may hold at the start
  MaxPc        \* bound: the guest is not entered again there

\* Addresses of a window.
Extent(w) == w.base..w.base + w.size - 1

ASSUME AccessAssumption ==
  /\ Regs \subseteq 1..31
  /\ Contents \subseteq Word /\ Saved \in [Regs -> Word] /\ Junk \in Word
  /\ 836 \notin CsrStore \cup CsrZero /\ CsrStore \cap CsrZero = {}
  /\ MaxPc \in Nat /\ MaxPc + 4 <= MaxNumber

\* The windows are apart, and so are the registers, each in a window of its kind.
ASSUME DeviceAssumption ==
  /\ \A w \in Windows : w.base \in Nat /\ w.size \in Nat /\ w.kind \in {"words", "bytes"}
  /\ \A w, v \in Windows : w # v => Extent(w) \cap Extent(v) = {}
  /\ \A a \in WordRegs : a \in Nat /\ \E w \in Windows :
       w.kind = "words" /\ a..a+3 \subseteq Extent(w)
  /\ \A a \in ByteRegs : a \in Nat /\ \E w \in Windows : w.kind = "bytes" /\ a \in Extent(w)
  /\ \A a, b \in WordRegs : a # b => (a..a+3) \cap (b..b+3) = {}

VARIABLES
  mode,    \* "guest", "trapped", "handled", "panic", "injected"
  instr,   \* the instruction at pc
  pc, x,   \* the hart's own registers
  frame,   \* struct RvExcFrame: mepc at index 0, then x1..x31
  trap,    \* mcause and mtval
  regs,    \* word registers of the devices
  bytes,   \* byte registers of the devices
  csr,     \* the shadow bank, PMP included
  mip,     \* shadow.mip
  wires    \* the computed bits of mip

accessVars == <<mode, instr, pc, x, frame, trap, regs, bytes, csr, mip, wires>>

\* An access of a word register is a word wide; its bytes for the programmer.
DeviceBytes == ByteRegs \cup UNION {a..a+3 : a \in WordRegs}
ByteAt(a) ==
  IF a \in ByteRegs THEN bytes[a]
  ELSE LET r == CHOOSE r \in WordRegs : a \in r..r+3
       IN  Low(Shr(regs[r], 8 * (a - r)), 8)

InTrap == mode # "guest"

Guest == INSTANCE GuestIsa WITH
  pc <- Number(IF InTrap THEN frame[0] ELSE pc),
  x <- IF InTrap THEN [r \in Regs |-> frame[r]] ELSE x,
  mem <- [a \in DeviceBytes |-> ByteAt(a)],
  done <- mode = "handled", halted <- mode \in {"panic", "injected"}

\* The guest's program comes from an assembler; its drivers address the registers of a
\* device whole, and Regs has every register that is read.
Driverlike(i) ==
  /\ i.op \in Guest!Loads \cup Guest!Stores =>
       /\ i.addr \in 0..MaxNumber
       /\ \A w \in Windows : i.addr \in Extent(w) =>
            LET touched == i.addr..i.addr + Guest!Width[i.op] - 1
            IN  IF w.kind = "words" THEN Guest!Width[i.op] = 4 /\ i.addr \in WordRegs
                                    ELSE touched \subseteq ByteRegs
  /\ i.op \in Guest!Stores => i.rs2 \in Regs \cup {0}
  /\ i.op \in {"csrrw", "csrrs", "csrrc"} => i.rs1 \in Regs \cup {0}

ASSUME ProgramAssumption == \A i \in Instr : Guest!Encodable(i) /\ Driverlike(i)

AccessInit ==
  /\ mode = "guest" /\ instr \in Instr
  /\ pc = {} /\ x = Saved
  /\ frame = [r \in {0} \cup Regs |-> {}]
  /\ trap = [cause |-> 0, tval |-> {}]
  /\ \E v \in Contents :
       /\ regs = [a \in WordRegs |-> v] /\ bytes = [a \in ByteRegs |-> Low(v, 8)]
       /\ csr = [c \in CsrStore |-> v] /\ mip = v \ {7, 11}
  /\ wires = {}

-----------------------------------------------------------------------------
(* The trap vector *)

\* What the hart reports: the faulting address, or the illegal instruction.
Reported(i) ==
  LET cause == IF i.op \in Guest!Loads THEN 5
               ELSE IF i.op \in Guest!Stores THEN 7
               ELSE IF i.op \in Guest!CsrOps THEN 2 ELSE i.cause
  IN  [cause |-> cause,
       tval  |-> IF cause = 2 THEN Guest!InMemory(i) ELSE Bits(i.addr)]

\* hyp_trap_entry up to the call: all registers are saved, and then used.
TrapEntry ==
  /\ mode = "guest"
  /\ mode' = "trapped"
  /\ frame' = [r \in {0} \cup Regs |-> IF r = 0 THEN pc ELSE x[r]]
  /\ trap' = Reported(instr)
  /\ x' = [r \in Regs |-> Junk]
  /\ UNCHANGED <<instr, pc, regs, bytes, csr, mip, wires>>

\* And from its return to mret.
TrapExit ==
  /\ mode = "handled" /\ Number(frame[0]) < MaxPc
  /\ mode' = "guest"
  /\ pc' = frame[0]
  /\ x' = [r \in Regs |-> frame[r]]
  /\ instr' \in Instr /\ wires' \in SUBSET {7, 11}
  /\ UNCHANGED <<frame, trap, regs, bytes, csr, mip>>

-----------------------------------------------------------------------------
(* hyp_decode.c *)

\* Index 0 of the frame is mepc, and is not x0.  (Definitions named Bug... are a
\* mistake the one after them could have; the checks are shown to notice it.)
RegRead(f, i) == IF i = 0 THEN {} ELSE f[i]
BugRegWrite(f, i, v) == [f EXCEPT ![i] = v]
RegWrite(f, i, v) == IF i = 0 THEN f ELSE [f EXCEPT ![i] = v]

\* The scattered offset of c.lw and c.sw: uimm[5:3], uimm[2], uimm[6].
BugOffset(c) ==
  Shl(Bitfield(c, 10, 3), 3) \cup Shl(Bitfield(c, 6, 1), 6) \cup Shl(Bitfield(c, 5, 1), 2)

Offset(c) ==
  Shl(Bitfield(c, 10, 3), 3) \cup Shl(Bitfield(c, 6, 1), 2) \cup Shl(Bitfield(c, 5, 1), 6)

\* A field of three bits names x8..x15: eight is added, which sets bit 3.
ShortReg(c, lo) == {3} \cup Bitfield(c, lo, 3)

\* rvc_expand; no bits for anything but c.lw and c.sw.
Expand(c) ==
  LET funct3 == Bitfield(c, 13, 3)
      rs1    == Shl(ShortReg(c, 7), 15)
      width  == Shl(Bits(2), 12)
  IN  IF Low(c, 2) # {} THEN {}
      ELSE IF funct3 = Bits(2)
        THEN Shl(Offset(c), 20) \cup rs1 \cup width \cup Shl(ShortReg(c, 2), 7) \cup Bits(3)
      ELSE IF funct3 = Bits(6)
        THEN Shl(Shr(Offset(c), 5), 25) \cup Shl(ShortReg(c, 2), 20) \cup rs1 \cup width
               \cup Shl(Low(Offset(c), 5), 7) \cup Bits(35)
      ELSE {}

\* The two halfwords at mepc.
Halfword(k) == Low(Shr(Guest!InMemory(instr), 16 * k), 16)

Failed == [ok |-> FALSE, encoding |-> {}, length |-> 0]

\* guest_fetch: the second halfword is read only if the first asks for it.
GuestFetch ==
  IF ~({0, 1} \subseteq Halfword(0))
    THEN [ok |-> TRUE, encoding |-> Halfword(0), length |-> 2]
  ELSE IF 0..4 \subseteq Halfword(0) THEN Failed
  ELSE [ok |-> TRUE, encoding |-> Halfword(0) \cup Shl(Halfword(1), 16), length |-> 4]

\* trap_decode: expansion changes the encoding, never the length.
TrapDecode ==
  IF trap.cause = 2
    THEN [ok |-> TRUE, encoding |-> trap.tval,
          length |-> IF {0, 1} \subseteq trap.tval THEN 4 ELSE 2]
  ELSE IF GuestFetch.length # 2 THEN GuestFetch
  ELSE IF Expand(GuestFetch.encoding) = {} THEN Failed
  ELSE [ok |-> TRUE, encoding |-> Expand(GuestFetch.encoding), length |-> GuestFetch.length]

-----------------------------------------------------------------------------
(* hyp_mmio.c *)

\* mmio_find: no window, or the one the address is in.
MmioFind(a) == {w \in Windows : a \in Extent(w)}

\* A word register ignores the width it is read with; byte registers are put
\* together (uart_read, the configuration space of the block device).
DeviceRead(w, a, width) ==
  IF w.kind = "words" THEN IF a \in WordRegs THEN regs[a] ELSE {}
  ELSE UNION {IF a + k \in ByteRegs THEN Shl(bytes[a + k], 8 * k) ELSE {} :
                k \in 0..width-1}

DeviceWrite(w, a, v, width) ==
  IF w.kind = "words"
    THEN /\ regs' = [r \in WordRegs |-> IF r = a THEN v ELSE regs[r]]
         /\ UNCHANGED bytes
    ELSE /\ bytes' = [b \in ByteRegs |->
              IF b \in a..a+width-1 THEN Low(Shr(v, 8 * (b - a)), 8) ELSE bytes[b]]
         /\ UNCHANGED regs

\* Loads and stores differ in bit 5 of the opcode.
IsLoadOrStore(e) == Low(e, 7) \ {5} = Bits(3)

\* The switch is over funct3, with bit 5 of the opcode in bit 3.
Key(e) == Bitfield(e, 12, 3) \cup IF 5 \in e THEN {3} ELSE {}
LoadKeys  == {Bits(0), Bits(1), Bits(2), Bits(4), Bits(5)}
StoreKeys == {Bits(8), Bits(9), Bits(10)}
KeyWidth(key) == IF 1 \in key THEN 4 ELSE IF 0 \in key THEN 2 ELSE 1

MmioKnown ==
  /\ TrapDecode.ok
  /\ IsLoadOrStore(TrapDecode.encoding)
  /\ Key(TrapDecode.encoding) \in LoadKeys \cup StoreKeys

\* The sign-extending casts of lb and lh.
Converted(v, key) ==
  IF key \in {Bits(0), Bits(1)} THEN SignExtend(v, 8 * KeyWidth(key)) ELSE v

\* hypervisor: frame->mepc += trap.length.
SkipInstruction(f) == [f EXCEPT ![0] = Bits(Number(@) + TrapDecode.length)]

EmulateMmio ==
  /\ mode = "trapped" /\ trap.cause \in {5, 7}
  /\ MmioKnown
  /\ \E w \in MmioFind(Number(trap.tval)) :
       LET e   == TrapDecode.encoding
           key == Key(e)
           a   == Number(trap.tval)
       IN  \/ /\ key \in LoadKeys
              /\ frame' = SkipInstruction(RegWrite(frame, Field(e, 7, 5),
                            Converted(DeviceRead(w, a, KeyWidth(key)), key)))
              /\ UNCHANGED <<regs, bytes>>
           \/ /\ key \in StoreKeys
              /\ DeviceWrite(w, a, RegRead(frame, Field(e, 20, 5)), KeyWidth(key))
              /\ frame' = SkipInstruction(frame)
  /\ mode' = "handled"
  /\ UNCHANGED <<instr, pc, x, trap, csr, mip, wires>>

\* hypervisor_trap: outside every window the fault is the guest's own, and is
\* injected (HypTrap has what that does).
InjectFault ==
  /\ mode = "trapped" /\ trap.cause \in {5, 7}
  /\ MmioFind(Number(trap.tval)) = {}
  /\ mode' = "injected"
  /\ UNCHANGED <<instr, pc, x, frame, trap, regs, bytes, csr, mip, wires>>

-----------------------------------------------------------------------------
(* hyp_csr.c *)

CsrKnown ==
  LET e == TrapDecode.encoding
  IN  /\ Low(e, 7) = Bits(115)
      /\ Bitfield(e, 12, 3) \notin {Bits(0), Bits(4)}
      /\ Field(e, 20, 12) \in CsrStore \cup CsrZero \cup {836}

\* csrrs and csrrc with rs1 = x0 do not write, csrrw always does.
Updated(old, e, src) ==
  IF Bitfield(e, 12, 2) = Bits(1) THEN src
  ELSE IF Bitfield(e, 15, 5) = {} THEN old
  ELSE IF Bitfield(e, 12, 2) = Bits(2) THEN old \cup src
  ELSE old \ src

EmulateCsr ==
  /\ mode = "trapped" /\ trap.cause = 2
  /\ CsrKnown
  /\ LET e   == TrapDecode.encoding
         c   == Field(e, 20, 12)
         src == IF 14 \in e THEN Bitfield(e, 15, 5)
                            ELSE RegRead(frame, Field(e, 15, 5))
         old == IF c = 836 THEN mip \cup wires
                ELSE IF c \in CsrStore THEN csr[c] ELSE {}
     IN  /\ mip' = IF c = 836 THEN Updated(old, e, src) \ {7, 11} ELSE mip
         /\ csr' = [s \in CsrStore |-> IF s = c THEN Updated(old, e, src) ELSE csr[s]]
         /\ frame' = SkipInstruction(RegWrite(frame, Field(e, 7, 5), old))
  /\ mode' = "handled"
  /\ UNCHANGED <<instr, pc, x, trap, regs, bytes, wires>>

\* TRAP_UNHANDLED: hyp_panic.
Unhandled ==
  /\ mode = "trapped"
  /\ \/ trap.cause = 2 /\ ~CsrKnown
     \/ trap.cause \in {5, 7} /\ MmioFind(Number(trap.tval)) # {} /\ ~MmioKnown
  /\ mode' = "panic"
  /\ UNCHANGED <<instr, pc, x, frame, trap, regs, bytes, csr, mip, wires>>

-----------------------------------------------------------------------------

AccessNext == TrapEntry \/ EmulateMmio \/ EmulateCsr \/ InjectFault \/ Unhandled \/ TrapExit

AccessSpec == AccessInit /\ [][AccessNext]_accessVars

-----------------------------------------------------------------------------
(* Properties *)

\* Trapped and emulated, an instruction does exactly what it does on the hart:
\* the one register it names takes the value, extended as the mnemonic says, x0
\* neither takes nor gives mepc, the store's bytes and no others change, a CSR is
\* read and modified with the x0 rules, all other registers come back through the
\* frame, and pc moves by the instruction's own size.  Only what the monitor does
\* not claim to implement stops the guest (hyp_decode.c, hyp_mmio.c, hyp_csr.c).
ImplementsIsa == Guest!Spec

\* What the handlers decode is the 32-bit instruction the assembler gives for the
\* same mnemonic and operands, compressed or not, while the length stays that of
\* the bytes in memory (hyp_decode.c:69-148).
DecodedIsMeant ==
  mode = "trapped" /\ instr.op # "other" =>
    TrapDecode = [ok |-> TRUE, encoding |-> Guest!Assemble(instr),
                  length |-> Guest!Size(instr)]
=============================================================================
