------------------------------ MODULE VirtHart ------------------------------
(***************************************************************************)
(* The hart the guest believes it runs on: the machine-mode trap and       *)
(* interrupt architecture of the RISC-V privileged specification, as far   *)
(* as the guest uses it.  There is no monitor here: instructions retire    *)
(* one at a time, and an interrupt is taken between two of them.           *)
(***************************************************************************)
EXTENDS Naturals

CONSTANTS
  MaxAddr,       \* addresses are 0..MaxAddr
  MieValues,     \* values the guest writes to mie, sets of interrupt names
  Exceptions     \* causes of exceptions the guest raises

Addr == 0..MaxAddr
Priv == {"U", "M"}
Interrupts == {"MEI", "MSI", "MTI"}

CsrType == [ MIE  : BOOLEAN, MPIE : BOOLEAN, MPP : Priv,   \* mstatus
             mie  : SUBSET Interrupts,
             msip : BOOLEAN,                               \* mip, the stored bit
             mtvec : Addr, mepc : Addr,
             mcause : {"reset"} \cup Exceptions \cup Interrupts ]

CsrReset == [ MIE |-> FALSE, MPIE |-> FALSE, MPP |-> "M", mie |-> {},
              msip |-> FALSE, mtvec |-> 0, mepc |-> 0, mcause |-> "reset" ]

\* Trap entry, from address a at privilege p.
EnterTrap(c, p, a, cause) ==
  [c EXCEPT !.MPIE = c.MIE, !.MIE = FALSE, !.MPP = p,
            !.mepc = a, !.mcause = cause]

\* mret.
LeaveTrap(c) == [c EXCEPT !.MIE = c.MPIE, !.MPIE = TRUE, !.MPP = "U"]

VARIABLES pc, priv, csr, meip, mtip, halted

vars == <<pc, priv, csr, meip, mtip, halted>>

Raised(i) == \/ i = "MEI" /\ meip
             \/ i = "MSI" /\ csr.msip
             \/ i = "MTI" /\ mtip
Pending == {i \in csr.mie : Raised(i)}

Init ==
  /\ pc \in Addr /\ priv = "M" /\ csr = CsrReset
  /\ meip \in BOOLEAN /\ mtip \in BOOLEAN
  /\ halted = FALSE

\* An instruction with no effect on the CSRs: any next address.
Execute == pc' \in Addr /\ UNCHANGED <<priv, csr>>

\* What a CSR instruction may make of the registers it can write.
WriteCsr ==
  \/ \E a, b \in BOOLEAN, p \in Priv :
       csr' = [csr EXCEPT !.MIE = a, !.MPIE = b, !.MPP = p]
  \/ \E m \in MieValues : csr' = [csr EXCEPT !.mie = m]
  \/ \E b \in BOOLEAN : csr' = [csr EXCEPT !.msip = b]
  \/ \E v \in Addr : \/ csr' = [csr EXCEPT !.mtvec = v]
                     \/ csr' = [csr EXCEPT !.mepc = v]

\* A CSR instruction, an access to a device, wfi: the next instruction.
Advance ==
  /\ pc' \in {pc + 1, pc + 2}
  /\ UNCHANGED priv
  /\ UNCHANGED csr \/ WriteCsr

Mret ==
  /\ pc' = csr.mepc
  /\ priv' = csr.MPP
  /\ csr' = LeaveTrap(csr)

Exception(e) ==
  /\ csr.mtvec # 0
  /\ csr' = EnterTrap(csr, priv, pc, e)
  /\ pc' = csr.mtvec /\ priv' = "M"

\* Machine interrupts are enabled below machine mode, and at it by MIE; among
\* the pending ones external precedes software precedes timer.
TakeInterrupt(i) ==
  /\ csr.mtvec # 0
  /\ priv = "M" => csr.MIE
  /\ i \in Pending
  /\ i = "MSI" => "MEI" \notin Pending
  /\ i = "MTI" => Pending = {"MTI"}
  /\ csr' = EnterTrap(csr, priv, pc, i)
  /\ pc' = csr.mtvec /\ priv' = "M"

\* The platform may stop on what it does not support.
Halt == halted' = TRUE

Devices == UNCHANGED <<pc, priv, csr>>

Next ==
  \/ Halt
  \/ /\ ~halted /\ halted' = FALSE
     /\ \/ Execute \/ Advance \/ Mret \/ Devices
        \/ \E e \in Exceptions : Exception(e)
        \/ \E i \in Interrupts : TakeInterrupt(i)

Spec == Init /\ [][Next]_vars
=============================================================================
