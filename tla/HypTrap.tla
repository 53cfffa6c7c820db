------------------------------ MODULE HypTrap ------------------------------
(***************************************************************************)
(* Trap and emulate: how the monitor on core 1 gives the guest a machine-  *)
(* mode hart although the guest runs in user mode.                         *)
(*                                                                         *)
(*   main/hyp_core.c   the dispatch and the one delivery at its end        *)
(*   main/hyp_csr.c    the shadow CSRs, mret, wfi                          *)
(*   main/hyp_intr.c   what is pending, injection, the device poll         *)
(*   main/hyp_clint.c  the virtual timer and the host alarm behind it      *)
(*                                                                         *)
(* A trap is two steps: the handler with the advance of mepc ("deliver" is *)
(* then next), and the delivery, because time passes and the timer's wire  *)
(* changes in between.  The wfi loop is a step per iteration.  The PLIC is *)
(* reduced to its output wire and to whether any source is enabled: the    *)
(* guest's accesses may do anything to both, the poll can only raise the   *)
(* wire (module Console has the devices behind it).                        *)
(*                                                                         *)
(* Time never stops.  shadow_mtimecmp and the alarm's target are counted   *)
(* from the present mtime: so many ticks are left, 0 says that the time    *)
(* has come, and however often the guest sets a deadline the clock goes on.*)
(***************************************************************************)
EXTENDS Naturals

CONSTANTS
  MaxAddr, MieValues, Exceptions,   \* as in VirtHart
  MaxAhead                          \* bound: a deadline is at most so many ticks ahead

ASSUME TrapAssumption ==
  /\ MaxAddr \in Nat \ {0}
  /\ MaxAhead \in Nat
  /\ MieValues \subseteq SUBSET {"MEI", "MSI", "MTI"}
  /\ Exceptions \cap {"MEI", "MSI", "MTI", "reset"} = {}

VARIABLES
  mode,        \* what core 1 does
  frameMepc,   \* frame->mepc: the guest's program counter
  guestPriv,   \* guest_priv
  shadow,      \* struct HypShadowCsr
  meip,        \* PLIC output wire, meip_pending()
  plicEnabled, \* some PLIC source is enabled
  uartInt,     \* the host UART interrupt is raised
  completion,  \* s_irq: core 0 has finished a block request, and no interrupt says so
  mtimecmp,    \* ticks from now to shadow_mtimecmp
  alarm,       \* ticks to the target of the armed host alarm, Never when it is off
  fired        \* the alarm's interrupt is raised

time == <<mtimecmp, alarm, fired>>
dev  == <<meip, plicEnabled, uartInt, completion>>
vars == <<mode, frameMepc, guestPriv, shadow, meip, plicEnabled, uartInt, completion,
          mtimecmp, alarm, fired>>

\* mtimecmp at or beyond HYP_MTIME_MAX: disarmed.
Never == MaxAhead + 1

\* mip.MTIP is computed, never latched.
MtipPending == mtimecmp = 0

Hart == INSTANCE VirtHart WITH
  pc <- frameMepc, priv <- guestPriv, csr <- shadow,
  mtip <- MtipPending, halted <- mode = "panic"

Addr == Hart!Addr

Init ==
  /\ mode = "guest"
  /\ frameMepc = 1
  /\ guestPriv = "M"
  /\ shadow = Hart!CsrReset
  /\ meip = FALSE /\ plicEnabled = FALSE
  /\ uartInt = FALSE /\ completion = FALSE
  /\ mtimecmp = Never /\ alarm = Never /\ fired = FALSE

-----------------------------------------------------------------------------
(* Interrupt conditions *)

EnabledAndPending(i) ==
  /\ i \in shadow.mie
  /\ \/ i = "MEI" /\ meip
     \/ i = "MSI" /\ shadow.msip
     \/ i = "MTI" /\ MtipPending

\* hyp_pending_cause, "none" for -1.  (Definitions named Bug... are a mistake the
\* one after them could have; the checks are shown to notice it.)
BugTimerFirst ==
  IF ~shadow.MIE THEN "none"
  ELSE IF EnabledAndPending("MEI") THEN "MEI"
  ELSE IF EnabledAndPending("MTI") THEN "MTI"
  ELSE IF EnabledAndPending("MSI") THEN "MSI"
  ELSE "none"

PendingCause ==
  IF ~shadow.MIE THEN "none"
  ELSE IF EnabledAndPending("MEI") THEN "MEI"
  ELSE IF EnabledAndPending("MSI") THEN "MSI"
  ELSE IF EnabledAndPending("MTI") THEN "MTI"
  ELSE "none"

\* hyp_wfi_wake: the global gate plays no part.
BugWakeGated == shadow.MIE /\ \E i \in {"MEI", "MSI", "MTI"} : EnabledAndPending(i)
WfiWake == \E i \in {"MEI", "MSI", "MTI"} : EnabledAndPending(i)

\* hyp_inject.
Inject(cause) ==
  /\ shadow' = [shadow EXCEPT !.MPIE = shadow.MIE, !.MIE = FALSE,
                              !.MPP = guestPriv, !.mepc = frameMepc,
                              !.mcause = cause]
  /\ guestPriv' = "M"
  /\ frameMepc' = shadow.mtvec

\* hyp_poll_host_devices: a fired alarm is disarmed and acknowledged, UART and
\* virtio input may raise the PLIC's wire.
BugDisarmAlways ==
  /\ alarm' = Never /\ fired' = FALSE
  /\ uartInt' = FALSE /\ completion' = FALSE
  /\ UNCHANGED meip \/ (plicEnabled /\ meip' = TRUE)
  /\ UNCHANGED <<plicEnabled, mtimecmp>>

BugCompletionBehindUart ==
  /\ IF fired THEN alarm' = Never /\ fired' = FALSE ELSE UNCHANGED <<alarm, fired>>
  /\ uartInt' = FALSE /\ completion' = (completion /\ ~uartInt)
  /\ UNCHANGED meip \/ (plicEnabled /\ meip' = TRUE)
  /\ UNCHANGED <<plicEnabled, mtimecmp>>

PollHostDevices ==
  /\ IF fired THEN alarm' = Never /\ fired' = FALSE ELSE UNCHANGED <<alarm, fired>>
  /\ uartInt' = FALSE /\ completion' = FALSE
  /\ UNCHANGED meip \/ (plicEnabled /\ meip' = TRUE)
  /\ UNCHANGED <<plicEnabled, mtimecmp>>

HostInterrupt == fired \/ uartInt

-----------------------------------------------------------------------------
(* The guest executes.  The instruction is any; only those that trap reach   *)
(* the monitor.                                                              *)

Native ==
  /\ mode = "guest"
  /\ frameMepc' \in Addr
  /\ UNCHANGED <<mode, guestPriv, shadow, dev, time>>

\* TRAP_ADVANCE: a compressed or a full instruction is skipped.
BugNoDelivery ==
  /\ frameMepc' \in {frameMepc + 1, frameMepc + 2} \cap Addr
  /\ mode' = "guest"

SkipInstruction ==
  /\ frameMepc' \in {frameMepc + 1, frameMepc + 2} \cap Addr
  /\ mode' = "deliver"

\* hypervisor_csr on a register that governs traps, read or written.  (mcause is
\* written by traps only, as Linux does; the other slots are mere storage.)
EmulateCsr ==
  /\ mode = "guest"
  /\ SkipInstruction
  /\ \/ \E a, b \in BOOLEAN, p \in {"U", "M"} :
          shadow' = [shadow EXCEPT !.MIE = a, !.MPIE = b, !.MPP = p]
     \/ \E m \in MieValues : shadow' = [shadow EXCEPT !.mie = m]
     \/ \E b \in BOOLEAN : shadow' = [shadow EXCEPT !.msip = b]
     \/ \E v \in Addr : shadow' = [shadow EXCEPT !.mtvec = v]
     \/ \E v \in Addr : shadow' = [shadow EXCEPT !.mepc = v]
  /\ UNCHANGED <<guestPriv, dev, time>>

\* hypervisor_mret: the registers move before mepc is looked at.
EmulateMret ==
  /\ mode = "guest"
  /\ guestPriv' = shadow.MPP
  /\ shadow' = [shadow EXCEPT !.MIE = shadow.MPIE, !.MPIE = TRUE, !.MPP = "U"]
  /\ IF shadow.mepc = 0
       THEN mode' = "panic" /\ UNCHANGED frameMepc
       ELSE mode' = "deliver" /\ frameMepc' = shadow.mepc
  /\ UNCHANGED <<dev, time>>

\* ecall, ebreak, an access outside the device windows.
GuestException(e) ==
  /\ mode = "guest"
  /\ IF shadow.mtvec = 0
       THEN mode' = "panic" /\ UNCHANGED <<shadow, guestPriv, frameMepc>>
       ELSE mode' = "deliver" /\ Inject(e)
  /\ UNCHANGED <<dev, time>>

\* An instruction the monitor does not implement.
Unhandled ==
  /\ mode = "guest"
  /\ mode' = "panic"
  /\ UNCHANGED <<frameMepc, guestPriv, shadow, dev, time>>

\* An access to the PLIC or to a device behind it.
EmulateMmio ==
  /\ mode = "guest"
  /\ SkipInstruction
  /\ plicEnabled' \in BOOLEAN
  /\ meip' \in {FALSE, plicEnabled'}
  /\ UNCHANGED <<guestPriv, shadow, uartInt, completion, time>>

\* clint_write of a word of mtimecmp, and hyp_arm_timer.
EmulateMtimecmp ==
  /\ mode = "guest"
  /\ SkipInstruction
  /\ \E v \in 0..Never : mtimecmp' = v /\ alarm' = v /\ fired' = FALSE
  /\ UNCHANGED <<guestPriv, shadow, dev>>

\* hypervisor_wfi, the test before the loop.
MayBlock ==
  \/ "MTI" \in shadow.mie /\ mtimecmp < Never
  \/ "MEI" \in shadow.mie

EmulateWfi ==
  /\ mode = "guest" /\ frameMepc < MaxAddr
  /\ IF MayBlock THEN mode' = "wfi" /\ UNCHANGED frameMepc ELSE SkipInstruction
  /\ UNCHANGED <<guestPriv, shadow, dev, time>>

-----------------------------------------------------------------------------
(* The monitor *)

\* while (!hyp_wfi_wake()) { wfi; hyp_poll_host_devices(); }
WfiCheck ==
  /\ mode = "wfi"
  /\ IF WfiWake THEN SkipInstruction ELSE mode' = "asleep" /\ UNCHANGED frameMepc
  /\ UNCHANGED <<guestPriv, shadow, dev, time>>

WfiPoll ==
  /\ mode = "asleep"
  /\ HostInterrupt
  /\ PollHostDevices
  /\ mode' = "wfi"
  /\ UNCHANGED <<frameMepc, guestPriv, shadow>>

TakeHostInterrupt ==
  /\ mode = "guest"
  /\ HostInterrupt
  /\ PollHostDevices
  /\ mode' = "deliver"
  /\ UNCHANGED <<frameMepc, guestPriv, shadow>>

\* hyp_deliver_pending, and the return to the guest.
BugDeliverNothing ==
  /\ mode = "deliver"
  /\ mode' = "guest"
  /\ IF shadow.mtvec # 0
       THEN Inject(PendingCause)
       ELSE UNCHANGED <<shadow, guestPriv, frameMepc>>
  /\ UNCHANGED <<dev, time>>

DeliverPending ==
  /\ mode = "deliver"
  /\ mode' = "guest"
  /\ IF PendingCause # "none" /\ shadow.mtvec # 0
       THEN Inject(PendingCause)
       ELSE UNCHANGED <<shadow, guestPriv, frameMepc>>
  /\ UNCHANGED <<dev, time>>

-----------------------------------------------------------------------------
(* Hardware *)

\* mtime moves on: what is still to come is one tick nearer.
Sooner(d) == IF d \in 1..MaxAhead THEN d - 1 ELSE d

Tick ==
  /\ mtimecmp' = Sooner(mtimecmp) /\ alarm' = Sooner(alarm)
  /\ UNCHANGED <<mode, frameMepc, guestPriv, shadow, dev, fired>>

\* One-shot compare; a target already past fires too.
AlarmFire ==
  /\ alarm = 0
  /\ ~fired
  /\ fired' = TRUE
  /\ UNCHANGED <<mode, frameMepc, guestPriv, shadow, dev, mtimecmp, alarm>>

UartRaise ==
  /\ ~uartInt
  /\ uartInt' = TRUE
  /\ UNCHANGED <<mode, frameMepc, guestPriv, shadow, meip, plicEnabled, completion, time>>

\* Core 0 at the end of blk_service; the two cores share no interrupt.
Completion ==
  /\ ~completion
  /\ completion' = TRUE
  /\ UNCHANGED <<mode, frameMepc, guestPriv, shadow, meip, plicEnabled, uartInt, time>>

-----------------------------------------------------------------------------

Guest == \/ Native \/ EmulateCsr \/ EmulateMret \/ Unhandled \/ EmulateMmio
         \/ EmulateMtimecmp \/ EmulateWfi
         \/ \E e \in Exceptions : GuestException(e)

Monitor == WfiCheck \/ WfiPoll \/ TakeHostInterrupt \/ DeliverPending

Hardware == Tick \/ AlarmFire \/ UartRaise \/ Completion

Next == Guest \/ Monitor \/ Hardware

Spec == Init /\ [][Next]_vars

\* Time passes, a due alarm fires, core 1 executes its handlers; a raised
\* interrupt is taken between two instructions, so not for ever behind the traps
\* of a guest that does nothing else.  Nothing is asked of the guest, of the UART
\* or of core 0.
FairSpec == Spec /\ WF_vars(Tick) /\ WF_vars(AlarmFire) /\ WF_vars(Monitor)
                 /\ SF_vars(TakeHostInterrupt)

-----------------------------------------------------------------------------
(* Properties *)

TypeOK ==
  /\ mode \in {"guest", "deliver", "wfi", "asleep", "panic"}
  /\ frameMepc \in Addr
  /\ guestPriv \in {"U", "M"}
  /\ shadow \in Hart!CsrType
  /\ meip \in BOOLEAN /\ plicEnabled \in BOOLEAN /\ uartInt \in BOOLEAN
  /\ completion \in BOOLEAN
  /\ mtimecmp \in 0..Never /\ alarm \in 0..Never
  /\ fired \in BOOLEAN

\* Trap by trap the monitor is the hart the guest believes in: every
\* instruction retires once, an interrupt enters between two instructions with
\* the address of the next one, only when the guest's own mstatus and mie allow
\* it, in the architectural priority (hyp_core.c:105-120, hyp_intr.c:33-87,
\* hyp_csr.c:177-198).
ImplementsHart == Hart!Spec

\* One delivery site is enough: the guest never runs with an interrupt it could
\* take unless a host interrupt is about to make it trap (hyp_intr.c:76-79).
NoStrandedInterrupt ==
  mode = "guest" /\ PendingCause # "none" /\ shadow.mtvec # 0 =>
    HostInterrupt \/ alarm = 0

\* No tick is lost between the guest's deadline and the host alarm: a deadline
\* still to come has the alarm set to it, whatever fired, was acknowledged or
\* was reprogrammed before (hyp_clint.c:38-53, hyp_intr.c:103-108).
NoLostTick ==
  mtimecmp \in 1..MaxAhead => alarm = mtimecmp

\* A guest that waits in wfi for its timer, with its global interrupt gate open
\* or shut, comes back (hyp_csr.c:200-213, 251-278).
ArmedWfiEnds ==
  mode \in {"wfi", "asleep"} /\ "MTI" \in shadow.mie /\ mtimecmp < Never
    ~> mode = "deliver"

\* The guest moves a deadline further ahead while the host alarm set to it is
\* still to fire (clint_write and hyp_arm_timer, hyp_clint.c:90-97, 38-53).
PostponesAlarm == EmulateMtimecmp /\ ~fired /\ alarm' > alarm

\* A completion, which interrupts nobody, is looked at as long as the host alarm
\* is set, whether the guest computes, traps or waits in wfi, and for whatever it
\* waits (hyp_intr.c:127-129, hyp_csr.c:268-271).  A guest that disarms its timer
\* is on its own, and so is one that, over and over, moves its deadline ahead
\* before the alarm has fired; one that sets the next deadline when the last has
\* come, or an earlier one at any time, is not.
CompletionSeen ==
  <>[][~PostponesAlarm]_vars =>
    (completion /\ alarm < Never
       ~> ~completion \/ mtimecmp = Never \/ mode = "panic")

\* hyp_csr.c:247-250: "A timer the guest has disarmed (mtimecmp at ~0) plus a
\* PLIC context it has not enabled means nothing will ever fire, and a wfi there
\* would be an unrecoverable hang": such a wfi must not block.
WfiCanEnd ==
  mode = "asleep" => ("MTI" \in shadow.mie /\ mtimecmp < Never) \/ plicEnabled
=============================================================================
