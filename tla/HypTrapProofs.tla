--------------------------- MODULE HypTrapProofs ---------------------------
(***************************************************************************)
(* Proofs about HypTrap, for every value of its constants: the address     *)
(* space, how far ahead deadlines lie, the mie values the guest writes.    *)
(*                                                                         *)
(* Neither NoLostTick nor NoStrandedInterrupt is inductive.  The first     *)
(* needs AlarmFollowsDeadline, which also says when the alarm may be off   *)
(* and when its interrupt may be raised; the second needs that and         *)
(* NothingUndelivered, which says what the one delivery leaves behind.     *)
(*                                                                         *)
(* The second part is about Watchdog: the traps that core 1 takes, as the  *)
(* trace keeps them and as core 0's check counts them.  WatchInv relates   *)
(* ring, index and count to the history of traps between any two steps     *)
(* of the two cores.                                                       *)
(***************************************************************************)
EXTENDS HypTrap, Watchdog, PlicProofs, TLAPS

\* The host alarm is set to the guest's deadline, or it is off because the
\* deadline has passed (or was never set); a raised alarm interrupt belongs to
\* an alarm that is due.
AlarmFollowsDeadline ==
  /\ alarm = mtimecmp \/ (alarm = Never /\ mtimecmp = 0)
  /\ fired => alarm = 0

\* What the delivery step leaves behind and no step of the guest or of the
\* hardware undoes: with the gate open, no external or software interrupt is
\* enabled and pending while the guest runs, and a timer interrupt is only
\* while the host alarm is due.
NothingUndelivered ==
  mode = "guest" /\ shadow.MIE /\ shadow.mtvec # 0 =>
    /\ ~EnabledAndPending("MEI")
    /\ ~EnabledAndPending("MSI")
    /\ EnabledAndPending("MTI") => alarm = 0

IInv == TypeOK /\ AlarmFollowsDeadline /\ NothingUndelivered

-----------------------------------------------------------------------------

\* The initial state satisfies the inductive invariant.
LEMMA InitIInv == Init => IInv
<1> SUFFICES ASSUME Init PROVE IInv
  OBVIOUS
<1> USE TrapAssumption DEF Init, Never, Addr, Hart!Addr, Hart!CsrReset
<1>1. shadow \in Hart!CsrType
  BY DEF Hart!CsrType, Hart!Priv, Hart!Interrupts
<1>2. frameMepc \in Addr /\ mtimecmp \in 0..Never
      /\ alarm \in 0..Never
  OBVIOUS
<1>x. TypeOK
  BY <1>1, <1>2, Zenon DEF TypeOK
<1>3. AlarmFollowsDeadline
  BY DEF AlarmFollowsDeadline
<1>4. NothingUndelivered
  BY DEF NothingUndelivered
<1>5. QED
  BY <1>x, <1>3, <1>4 DEF IInv

\* hyp_inject keeps the types.
LEMMA InjectType ==
  ASSUME TypeOK, NEW c \in Exceptions \cup {"MEI", "MSI", "MTI"}, Inject(c)
  PROVE  shadow' \in Hart!CsrType /\ guestPriv' \in {"U", "M"}
         /\ frameMepc' \in Addr
  BY DEF Inject, TypeOK, Hart!CsrType, Hart!Priv, Hart!Interrupts, Addr

\* hyp_poll_host_devices keeps the types of the device state, and of a fired
\* alarm leaves nothing armed.
LEMMA PollType ==
  ASSUME TypeOK, PollHostDevices
  PROVE  /\ meip' \in BOOLEAN /\ plicEnabled' \in BOOLEAN /\ uartInt' \in BOOLEAN
         /\ completion' \in BOOLEAN
         /\ mtimecmp' \in 0..Never /\ alarm' \in 0..Never
         /\ fired' \in BOOLEAN
<1> USE DEF TypeOK, PollHostDevices
<1>1. meip' \in BOOLEAN /\ plicEnabled' \in BOOLEAN /\ uartInt' \in BOOLEAN
      /\ completion' \in BOOLEAN /\ fired' \in BOOLEAN
  BY Zenon
<1>2. mtimecmp' \in 0..Never
  BY Zenon
<1>3. alarm' \in 0..Never
  BY TrapAssumption, SMT DEF Never
<1>4. QED
  BY <1>1, <1>2, <1>3

\* The type invariant is inductive on its own.
LEMMA TypeStep == TypeOK /\ [Next]_vars => TypeOK'
<1> SUFFICES ASSUME TypeOK, [Next]_vars PROVE TypeOK'
  OBVIOUS
<1> USE TrapAssumption DEF TypeOK, Addr, Hart!Addr, Hart!CsrType, Hart!Priv,
                           Hart!Interrupts, Never, dev, time
<1>1. CASE Native
  BY <1>1 DEF Native
<1>2. CASE EmulateCsr
  <2>1. ASSUME NEW a \in BOOLEAN, NEW b \in BOOLEAN, NEW p \in {"U", "M"},
               shadow' = [shadow EXCEPT !.MIE = a, !.MPIE = b, !.MPP = p]
        PROVE  shadow' \in Hart!CsrType
    BY <2>1
  <2>2. ASSUME NEW m \in MieValues, shadow' = [shadow EXCEPT !.mie = m]
        PROVE  shadow' \in Hart!CsrType
    BY <2>2
  <2>3. ASSUME NEW b \in BOOLEAN, shadow' = [shadow EXCEPT !.msip = b]
        PROVE  shadow' \in Hart!CsrType
    BY <2>3
  <2>4. ASSUME NEW v \in Addr, \/ shadow' = [shadow EXCEPT !.mtvec = v]
                               \/ shadow' = [shadow EXCEPT !.mepc = v]
        PROVE  shadow' \in Hart!CsrType
    BY <2>4
  <2>5. shadow' \in Hart!CsrType
    BY <1>2, <2>1, <2>2, <2>3, <2>4, Zenon DEF EmulateCsr
  <2>6. frameMepc' \in Addr /\ mode' = "deliver"
    BY <1>2, Zenon DEF EmulateCsr, SkipInstruction
  <2>7. UNCHANGED <<guestPriv, dev, time>>
    BY <1>2, Zenon DEF EmulateCsr
  <2>8. QED
    BY <2>5, <2>6, <2>7
<1>3. CASE EmulateMret
  BY <1>3 DEF EmulateMret
<1>4. CASE \E e \in Exceptions : GuestException(e)
  <2> PICK e \in Exceptions : GuestException(e)
    BY <1>4
  <2>1. CASE shadow.mtvec = 0
    BY <2>1 DEF GuestException
  <2>2. CASE shadow.mtvec # 0
    BY <2>2, InjectType DEF GuestException
  <2>3. QED
    BY <2>1, <2>2
<1>5. CASE Unhandled
  BY <1>5 DEF Unhandled
<1>6. CASE EmulateMmio
  BY <1>6 DEF EmulateMmio, SkipInstruction
<1>7. CASE EmulateMtimecmp
  BY <1>7 DEF EmulateMtimecmp, SkipInstruction
<1>8. CASE EmulateWfi
  BY <1>8 DEF EmulateWfi, SkipInstruction
<1>9. CASE WfiCheck
  BY <1>9 DEF WfiCheck, SkipInstruction
<1>10. CASE WfiPoll
  BY <1>10, PollType, Zenon DEF WfiPoll
<1>11. CASE TakeHostInterrupt
  BY <1>11, PollType, Zenon DEF TakeHostInterrupt
<1>12. CASE DeliverPending
  <2>1. PendingCause # "none" => PendingCause \in {"MEI", "MSI", "MTI"}
    BY DEF PendingCause
  <2>2. CASE PendingCause # "none" /\ shadow.mtvec # 0
    <3>1. Inject(PendingCause) /\ mode' = "guest" /\ UNCHANGED <<dev, time>>
      BY <1>12, <2>2, Zenon DEF DeliverPending
    <3>2. QED
      BY <2>1, <2>2, <3>1, InjectType
  <2>3. CASE ~(PendingCause # "none" /\ shadow.mtvec # 0)
    <3>1. UNCHANGED <<shadow, guestPriv, frameMepc, dev, time>> /\ mode' = "guest"
      BY <1>12, <2>3, Zenon DEF DeliverPending
    <3>2. QED
      BY <3>1
  <2>4. QED
    BY <2>2, <2>3
<1>13. CASE Tick
  BY <1>13 DEF Tick, Sooner
<1>14. CASE AlarmFire
  BY <1>14 DEF AlarmFire
<1>15. CASE UartRaise
  BY <1>15 DEF UartRaise
<1>16. CASE Completion
  BY <1>16 DEF Completion
<1>17. CASE UNCHANGED vars
  BY <1>17 DEF vars
<1>18. QED
  BY <1>1, <1>2, <1>3, <1>4, <1>5, <1>6, <1>7, <1>8, <1>9, <1>10, <1>11,
     <1>12, <1>13, <1>14, <1>15, <1>16, <1>17 DEF Next, Guest, Monitor, Hardware

\* The alarm keeps following the deadline: a write of mtimecmp re-arms it, and
\* the poll disarms only an alarm that has fired, so is due.
LEMMA AlarmStep == TypeOK /\ AlarmFollowsDeadline /\ [Next]_vars => AlarmFollowsDeadline'
<1> SUFFICES ASSUME TypeOK, AlarmFollowsDeadline, [Next]_vars
             PROVE  AlarmFollowsDeadline'
  OBVIOUS
<1> USE TrapAssumption DEF AlarmFollowsDeadline, Never
<1>1. CASE UNCHANGED time
  BY <1>1 DEF time
<1>2. CASE EmulateMtimecmp
  BY <1>2 DEF EmulateMtimecmp, TypeOK
<1>3. CASE PollHostDevices
  \* Only an alarm that is due is disarmed, and it was set to the deadline.
  BY <1>3 DEF PollHostDevices, TypeOK
<1>4. CASE Tick
  BY <1>4 DEF Tick, Sooner, TypeOK
<1>5. CASE AlarmFire
  BY <1>5 DEF AlarmFire, TypeOK
<1>6. CASE WfiPoll \/ TakeHostInterrupt
  BY <1>6, <1>3 DEF WfiPoll, TakeHostInterrupt
<1>7. CASE Native \/ EmulateCsr \/ EmulateMret \/ Unhandled \/ EmulateMmio
           \/ EmulateWfi \/ WfiCheck \/ DeliverPending \/ UartRaise \/ Completion
           \/ (\E e \in Exceptions : GuestException(e)) \/ UNCHANGED vars
  <2>1. UNCHANGED time
    BY <1>7, Zenon DEF Native, EmulateCsr, EmulateMret, Unhandled, EmulateMmio,
       EmulateWfi, WfiCheck, DeliverPending, UartRaise, Completion, GuestException, vars, time
  <2>2. QED
    BY <1>1, <2>1
<1>8. QED
  BY <1>2, <1>4, <1>5, <1>6, <1>7 DEF Next, Guest, Monitor, Hardware

\* Only delivery returns to the guest with the state changed, and it leaves the
\* gate shut or nothing it could have delivered.
LEMMA DeliverLeavesNothing ==
  ASSUME TypeOK, AlarmFollowsDeadline, DeliverPending
  PROVE  NothingUndelivered'
<1>1. CASE PendingCause # "none" /\ shadow.mtvec # 0
  <2>1. shadow'.MIE = FALSE
    BY <1>1 DEF DeliverPending, Inject, TypeOK, Hart!CsrType
  <2>2. QED
    BY <2>1 DEF NothingUndelivered
<1>2. CASE ~(PendingCause # "none" /\ shadow.mtvec # 0)
  <2>1. UNCHANGED <<shadow, meip, mtimecmp, alarm>>
    BY <1>2, Zenon DEF DeliverPending, dev, time
  <2>2. ASSUME shadow.MIE, shadow.mtvec # 0
        PROVE  /\ ~EnabledAndPending("MEI") /\ ~EnabledAndPending("MSI")
               /\ ~EnabledAndPending("MTI")
    BY <1>2, <2>2 DEF PendingCause
  <2>3. QED
    BY <2>1, <2>2 DEF NothingUndelivered, EnabledAndPending, MtipPending
<1>3. QED
  BY <1>1, <1>2

\* Nothing a guest instruction or the hardware does leaves the guest running
\* with an interrupt it could take, but for a timer whose alarm is due.
LEMMA UndeliveredStep ==
  IInv /\ [Next]_vars => NothingUndelivered'
<1> SUFFICES ASSUME TypeOK, AlarmFollowsDeadline, NothingUndelivered, [Next]_vars
             PROVE  NothingUndelivered'
  BY DEF IInv
<1> USE DEF NothingUndelivered
<1>1. CASE mode' # "guest"
  BY <1>1
<1>2. CASE Native
  BY <1>2 DEF Native, EnabledAndPending, MtipPending, dev, time
<1>3. CASE DeliverPending
  BY <1>3, DeliverLeavesNothing
<1>4. CASE Tick
  <2>1. mode = "guest" /\ shadow.MIE /\ shadow.mtvec # 0 /\ EnabledAndPending("MTI")'
          => alarm' = 0
    BY <1>4, TrapAssumption
       DEF Tick, Sooner, TypeOK, AlarmFollowsDeadline, EnabledAndPending, MtipPending, Never
  <2>2. QED
    BY <1>4, <2>1 DEF Tick, EnabledAndPending, dev
<1>5. CASE AlarmFire
  BY <1>5 DEF AlarmFire, EnabledAndPending, MtipPending, dev
<1>6. CASE UartRaise \/ Completion
  BY <1>6 DEF UartRaise, Completion, EnabledAndPending, MtipPending, time
<1>7. CASE UNCHANGED vars
  BY <1>7 DEF vars, EnabledAndPending, MtipPending
<1>8. ASSUME EmulateCsr \/ EmulateMret \/ Unhandled \/ EmulateMmio
           \/ EmulateMtimecmp \/ EmulateWfi \/ WfiCheck \/ WfiPoll \/ TakeHostInterrupt
           \/ (\E e \in Exceptions : GuestException(e))
      PROVE mode' # "guest"
  BY <1>8 DEF EmulateCsr, EmulateMret, Unhandled, EmulateMmio, EmulateMtimecmp,
     EmulateWfi, WfiCheck, WfiPoll, TakeHostInterrupt, GuestException,
     SkipInstruction
<1>9. QED
  BY <1>1, <1>2, <1>3, <1>4, <1>5, <1>6, <1>7, <1>8
     DEF Next, Guest, Monitor, Hardware

-----------------------------------------------------------------------------

\* IInv is an invariant.
LEMMA Invariance == Spec => []IInv
<1>1. IInv /\ [Next]_vars => IInv'
  BY TypeStep, AlarmStep, UndeliveredStep DEF IInv
<1>2. QED
  BY InitIInv, <1>1, PTL DEF Spec

\* The state of the monitor and of the devices it emulates keeps its types.
THEOREM TypeCorrect == Spec => []TypeOK
  BY Invariance, PTL DEF IInv

\* A deadline the guest has set and that is still to come has the host alarm
\* set to it: the guest loses no tick (hyp_clint.c:38-53, hyp_intr.c:103-108).
THEOREM TickNotLost == Spec => []NoLostTick
<1>1. IInv => NoLostTick
  BY TrapAssumption DEF IInv, TypeOK, AlarmFollowsDeadline, NoLostTick, Never
<1>2. QED
  BY Invariance, <1>1, PTL

\* The one delivery at the end of a trap suffices: the guest never runs with an
\* interrupt it could take unless the host is about to interrupt it
\* (hyp_intr.c:76-79).
THEOREM InterruptNotStranded == Spec => []NoStrandedInterrupt
<1>1. IInv => NoStrandedInterrupt
  BY DEF IInv, NothingUndelivered, NoStrandedInterrupt, PendingCause
<1>2. QED
  BY Invariance, <1>1, PTL

-----------------------------------------------------------------------------
(* The monitor implements the hart. *)

\* The monitor starts the guest as the hart leaves reset.
LEMMA InitRefines == Init => Hart!Init
<1> SUFFICES ASSUME Init PROVE Hart!Init
  OBVIOUS
<1>1. frameMepc \in Hart!Addr /\ MtipPending \in BOOLEAN
  BY TrapAssumption DEF Init, Hart!Addr, MtipPending, Never
<1>2. guestPriv = "M" /\ shadow = Hart!CsrReset /\ meip \in BOOLEAN
      /\ (mode = "panic") = FALSE
  BY DEF Init
<1>3. QED
  BY <1>1, <1>2 DEF Hart!Init

\* A step that changes neither the program counter, the privilege nor the CSRs
\* is a step of the hart's devices.
LEMMA DeviceStep ==
  ASSUME TypeOK, mode # "panic", mode' # "panic",
         UNCHANGED <<frameMepc, guestPriv, shadow>>
  PROVE  Hart!Next
  BY DEF Hart!Next, Hart!Devices

\* hyp_inject with the cause of an exception is the hart's trap entry.
LEMMA ExceptionRefines ==
  ASSUME TypeOK, NEW e \in Exceptions, GuestException(e), mode # "panic"
  PROVE  Hart!Next
<1>1. CASE shadow.mtvec = 0
  BY <1>1 DEF GuestException, Hart!Next, Hart!Halt
<1>2. CASE shadow.mtvec # 0
  <2>1. Hart!Exception(e)
    BY <1>2 DEF GuestException, Inject, Hart!Exception, Hart!EnterTrap, TypeOK,
       Hart!CsrType
  <2>2. mode' # "panic"
    BY <1>2 DEF GuestException
  <2>3. QED
    BY <2>1, <2>2 DEF Hart!Next
<1>3. QED
  BY <1>1, <1>2

\* What is delivered is an interrupt the hart could take there.
LEMMA DeliverRefines ==
  ASSUME TypeOK, DeliverPending
  PROVE  Hart!Next
<1>0. mode # "panic" /\ mode' # "panic"
  BY DEF DeliverPending
<1>1. CASE PendingCause # "none" /\ shadow.mtvec # 0
  <2>1. PendingCause \in {"MEI", "MSI", "MTI"}
    BY <1>1 DEF PendingCause
  <2>2. Inject(PendingCause)
    BY <1>1, Zenon DEF DeliverPending
  <2>3. shadow.MIE
    BY <1>1 DEF PendingCause
  <2>4. /\ PendingCause \in Hart!Pending
        /\ PendingCause = "MSI" => "MEI" \notin Hart!Pending
        /\ PendingCause = "MTI" => /\ "MEI" \notin Hart!Pending
                                   /\ "MSI" \notin Hart!Pending
    BY <1>1 DEF PendingCause, EnabledAndPending, Hart!Pending, Hart!Raised, MtipPending
  <2>5. Hart!Pending \subseteq {"MEI", "MSI", "MTI"}
    BY DEF Hart!Pending, Hart!Raised
  <2>6. PendingCause = "MTI" => Hart!Pending = {"MTI"}
    BY <2>4, <2>5
  <2>7. Hart!TakeInterrupt(PendingCause)
    BY <1>1, <2>2, <2>3, <2>4, <2>6
       DEF Hart!TakeInterrupt, Hart!EnterTrap, Inject, TypeOK, Hart!CsrType
  <2>8. QED
    BY <1>0, <2>1, <2>7 DEF Hart!Next, Hart!Interrupts
<1>2. CASE ~(PendingCause # "none" /\ shadow.mtvec # 0)
  <2>1. UNCHANGED <<frameMepc, guestPriv, shadow>>
    BY <1>2, Zenon DEF DeliverPending
  <2>2. QED
    BY <1>0, <2>1, DeviceStep
<1>3. QED
  BY <1>1, <1>2

\* An emulated CSR write is one the instruction could make.
LEMMA CsrRefines ==
  ASSUME TypeOK, EmulateCsr
  PROVE  Hart!Next
<1>1. Hart!WriteCsr
  BY Zenon DEF EmulateCsr, Hart!WriteCsr, Hart!Priv, Addr
<1>2. frameMepc' \in {frameMepc + 1, frameMepc + 2} /\ guestPriv' = guestPriv
      /\ mode # "panic" /\ mode' # "panic"
  BY DEF EmulateCsr, SkipInstruction
<1>3. QED
  BY <1>1, <1>2 DEF Hart!Next, Hart!Advance

\* An emulated mret is the hart's, or the monitor gives up (mepc = 0).
LEMMA MretRefines ==
  ASSUME TypeOK, EmulateMret
  PROVE  Hart!Next
<1>1. CASE shadow.mepc = 0
  BY <1>1 DEF EmulateMret, Hart!Next, Hart!Halt
<1>2. CASE shadow.mepc # 0
  BY <1>2 DEF EmulateMret, Hart!Next, Hart!Mret, Hart!LeaveTrap
<1>3. QED
  BY <1>1, <1>2

\* An emulated instruction that changes no CSR is a retired instruction.
LEMMA SkipRefines ==
  ASSUME TypeOK, mode # "panic", SkipInstruction, UNCHANGED <<guestPriv, shadow>>
  PROVE  Hart!Next
  BY DEF SkipInstruction, Hart!Next, Hart!Advance

\* Every step of the monitor is a step of the hart or invisible to the guest.
LEMMA StepRefines == TypeOK /\ [Next]_vars => [Hart!Next]_(Hart!vars)
<1> SUFFICES ASSUME TypeOK, [Next]_vars PROVE [Hart!Next]_(Hart!vars)
  OBVIOUS
<1>1. CASE Native
  <2>1. Hart!Execute /\ mode # "panic" /\ mode' # "panic"
    BY <1>1 DEF Native, Hart!Execute, Addr
  <2>2. QED
    BY <2>1 DEF Hart!Next
<1>2. CASE EmulateCsr
  BY <1>2, CsrRefines
<1>3. CASE EmulateMret
  BY <1>3, MretRefines
<1>4. CASE \E e \in Exceptions : GuestException(e)
  BY <1>4, ExceptionRefines DEF GuestException
<1>5. CASE Unhandled
  BY <1>5 DEF Unhandled, Hart!Next, Hart!Halt
<1>6. CASE EmulateMmio
  BY <1>6, SkipRefines DEF EmulateMmio
<1>7. CASE EmulateMtimecmp
  BY <1>7, SkipRefines DEF EmulateMtimecmp
<1>8. CASE EmulateWfi \/ WfiCheck
  <2>1. UNCHANGED <<guestPriv, shadow>> /\ mode # "panic"
    BY <1>8 DEF EmulateWfi, WfiCheck
  <2>2. SkipInstruction \/ (UNCHANGED frameMepc /\ mode' # "panic")
    BY <1>8 DEF EmulateWfi, WfiCheck
  <2>3. QED
    BY <2>1, <2>2, SkipRefines, DeviceStep
<1>9. CASE WfiPoll \/ TakeHostInterrupt
  BY <1>9, DeviceStep DEF WfiPoll, TakeHostInterrupt
<1>10. CASE DeliverPending
  BY <1>10, DeliverRefines
<1>11. CASE Tick \/ AlarmFire \/ UartRaise \/ Completion
  <2>1. UNCHANGED <<mode, frameMepc, guestPriv, shadow>>
    BY <1>11 DEF Tick, AlarmFire, UartRaise, Completion
  <2>2. CASE mode # "panic"
    BY <2>1, <2>2, DeviceStep
  <2>3. CASE mode = "panic"
    BY <2>1, <2>3 DEF Hart!Next, Hart!Halt
  <2>4. QED
    BY <2>2, <2>3
<1>12. CASE UNCHANGED vars
  BY <1>12 DEF vars, Hart!vars, MtipPending
<1>13. QED
  BY <1>1, <1>2, <1>3, <1>4, <1>5, <1>6, <1>7, <1>8, <1>9, <1>10, <1>11, <1>12
     DEF Next, Guest, Monitor, Hardware

\* Trap and emulate is faithful: every behaviour of the monitor and its devices
\* is, seen by the guest, a behaviour of the hart it believes it runs on
\* (hyp_core.c:54-122, hyp_csr.c:177-198, hyp_intr.c:33-87).
THEOREM HartImplemented == Spec => ImplementsHart
<1>1. Spec => []TypeOK
  BY TypeCorrect
<1>2. QED
  BY <1>1, InitRefines, StepRefines, PTL DEF Spec, ImplementsHart, Hart!Spec
-----------------------------------------------------------------------------
(* The trace of the last traps and the liveness check (Watchdog). *)

USE DEF trace, core1, check, print, core0, history

\* The position of the i-th last trap: before the index, around the end.
Back(i) == IF i <= next THEN next - i ELSE next - i + TraceLen

WatchTypes ==
  /\ ring \in [0..TraceLen - 1 -> Nat] /\ next \in 0..TraceLen - 1
  /\ total \in 0..TotalMod - 1 /\ last \in 0..TotalMod - 1
  /\ seq \in Nat /\ quiet \in 0..QuietLimit /\ sinceTrap \in 0..QuietLimit

\* The ring holds the last traps, and between the two halves of hyp_trace_record
\* the new one in the place of the oldest.
RingIsHistory ==
  /\ cpu # "recording" => \A i \in 1..TraceLen : i <= seq => ring[Back(i)] = seq - i + 1
  /\ cpu = "recording" =>
       /\ ring[next] = seq + 1
       /\ \A i \in 1..TraceLen - 1 : i <= seq => ring[Back(i)] = seq - i + 1

CountIsHistory == total = seq % TotalMod /\ total <= seq

\* While core 0 finds the count it knows, as much time has passed since the last
\* trap as it has counted; a trap being recorded will change the count.
QuietIsCounted ==
  /\ total = last => quiet <= sinceTrap
  /\ cpu = "recording" => (total + 1) % TotalMod # last

WatchInv == WatchTypes /\ RingIsHistory /\ CountIsHistory /\ QuietIsCounted

LEMMA InitWatchInv == WatchInit => WatchInv
<1> SUFFICES ASSUME WatchInit PROVE WatchInv
  OBVIOUS
<1>1. WatchTypes
  BY WatchdogAssumption DEF WatchInit, WatchTypes
<1>2. RingIsHistory
  BY DEF WatchInit, RingIsHistory
<1>3. CountIsHistory
  <2>1. TotalMod * 0 + 0 = 0 /\ 0 \in 0..TotalMod - 1
    BY WatchdogAssumption
  <2>2. (TotalMod * 0 + 0) % TotalMod = 0
    BY <2>1, ModIs, WatchdogAssumption
  <2>3. QED
    BY <2>1, <2>2 DEF WatchInit, CountIsHistory
<1>4. QuietIsCounted
  BY DEF WatchInit, QuietIsCounted
<1>5. QED
  BY <1>1, <1>2, <1>3, <1>4 DEF WatchInv

\* The index behind an index.
LEMMA NextWrapped ==
  ASSUME NEW R \in Nat \ {0}, NEW k \in 0..R - 1
  PROVE  (k + 1) % R = IF k = R - 1 THEN 0 ELSE k + 1
<1> DEFINE x == k + 1
<1>1. x \in 0..2 * R - 1
  OBVIOUS
<1> HIDE DEF x
<1>2. x % R = IF x < R THEN x ELSE x - R
  BY <1>1, Wrapped
<1>3. QED
  BY <1>2 DEF x

\* One trap more, in the index and in the count.
LEMMA OneMore ==
  ASSUME WatchInv
  PROVE  /\ Following(next) = IF next = TraceLen - 1 THEN 0 ELSE next + 1
         /\ (total + 1) % TotalMod = (seq + 1) % TotalMod
         /\ (total + 1) % TotalMod = IF total = TotalMod - 1 THEN 0 ELSE total + 1
<1>1. /\ TraceLen \in Nat \ {0} /\ TotalMod \in Nat \ {0}
      /\ next \in 0..TraceLen - 1 /\ total \in 0..TotalMod - 1 /\ seq \in Nat
      /\ total = seq % TotalMod
  BY WatchdogAssumption DEF WatchInv, WatchTypes, CountIsHistory
<1>2. (next + 1) % TraceLen = IF next = TraceLen - 1 THEN 0 ELSE next + 1
  BY <1>1, NextWrapped
<1>3. (total + 1) % TotalMod = IF total = TotalMod - 1 THEN 0 ELSE total + 1
  BY <1>1, NextWrapped
<1>4. (total + 1) % TotalMod = (seq + 1) % TotalMod
  <2> DEFINE d == seq \div TotalMod
             N == seq - total
             k == total + 1
  <2>1. seq = TotalMod * d + total /\ d \in Int /\ k \in Int
    BY <1>1, DivMod
  <2> HIDE DEF d, k
  <2>2. N = TotalMod * d + 0 /\ N \in Nat
    BY <1>1, <2>1 DEF WatchInv, CountIsHistory
  <2>3. (TotalMod * d + 0) % TotalMod = 0
    <3>1. 0 \in 0..TotalMod - 1
      BY <1>1
    <3>2. QED
      BY <1>1, <2>1, <3>1, ModIs
  <2>4. N + k = seq + 1
    BY <1>1 DEF k
  <2>5. N % TotalMod = 0
    BY <2>2, <2>3
  <2> HIDE DEF N
  <2>6. (N + k) % TotalMod = k % TotalMod
    BY <1>1, <2>1, <2>2, <2>5, AddMultiple
  <2>7. QED
    BY <2>4, <2>6 DEF k
<1>5. QED
  BY <1>1, <1>2, <1>3, <1>4 DEF Following

\* The two halves of hyp_trace_record.
LEMMA RecordSteps ==
  ASSUME WatchInv, RecordEntry \/ RecordCount
  PROVE  WatchInv'
<1>0. /\ TraceLen \in Nat \ {0} /\ TotalMod \in Nat \ {0} /\ QuietLimit \in Nat \ {0}
      /\ next \in 0..TraceLen - 1 /\ seq \in Nat /\ ring \in [0..TraceLen - 1 -> Nat]
  BY WatchdogAssumption DEF WatchInv, WatchTypes
<1>1. CASE RecordEntry
  <2>1. ring' = [ring EXCEPT ![next] = seq + 1] /\ UNCHANGED <<next, seq, total, last, quiet, sinceTrap>>
        /\ cpu = "guest" /\ cpu' = "recording" /\ (total + 1) % TotalMod # last
    BY <1>1 DEF RecordEntry
  <2>2. WatchTypes'
    BY <1>0, <2>1 DEF WatchInv, WatchTypes
  <2>3. ASSUME NEW i \in 1..TraceLen - 1, i <= seq PROVE ring'[Back(i)'] = seq' - i + 1
    <3>1. Back(i)' = Back(i) /\ Back(i) \in 0..TraceLen - 1 /\ Back(i) # next
      BY <1>0, <2>1 DEF Back
    <3>2. ring[Back(i)] = seq - i + 1
      BY <1>0, <2>1, <2>3 DEF WatchInv, RingIsHistory
    <3>3. ring'[Back(i)] = ring[Back(i)]
      BY <1>0, <2>1, <3>1
    <3>4. QED
      BY <2>1, <3>1, <3>2, <3>3
  <2>4. RingIsHistory'
    BY <1>0, <2>1, <2>3 DEF RingIsHistory
  <2>5. CountIsHistory' /\ QuietIsCounted'
    BY <2>1 DEF WatchInv, CountIsHistory, QuietIsCounted
  <2>6. QED
    BY <2>2, <2>4, <2>5 DEF WatchInv
<1>2. CASE RecordCount
  <2>1. /\ next' = Following(next) /\ total' = (total + 1) % TotalMod /\ seq' = seq + 1
        /\ sinceTrap' = 0 /\ UNCHANGED <<ring, last, quiet>>
        /\ cpu = "recording" /\ cpu' = "handler"
    BY <1>2 DEF RecordCount
  <2>2. next' = IF next = TraceLen - 1 THEN 0 ELSE next + 1
    BY <2>1, OneMore
  <2>3. WatchTypes'
    BY <1>0, <2>1, <2>2, OneMore DEF WatchInv, WatchTypes
  <2>4. ASSUME NEW i \in 1..TraceLen, i <= seq + 1 PROVE ring[Back(i)'] = (seq + 1) - i + 1
    <3>1. CASE i = 1
      <4>1. Back(i)' = next
        BY <1>0, <2>2, <3>1 DEF Back
      <4>2. ring[next] = seq + 1
        BY <2>1 DEF WatchInv, RingIsHistory
      <4>3. QED
        BY <1>0, <3>1, <4>1, <4>2
    <3>2. CASE i # 1
      <4>1. i - 1 \in 1..TraceLen - 1 /\ i - 1 <= seq
        BY <1>0, <2>4, <3>2
      <4>2. Back(i)' = Back(i - 1)
        BY <1>0, <2>2, <4>1 DEF Back
      <4>3. ring[Back(i - 1)] = seq - (i - 1) + 1
        BY <2>1, <4>1 DEF WatchInv, RingIsHistory
      <4>4. QED
        BY <1>0, <4>2, <4>3
    <3>3. QED
      BY <3>1, <3>2
  <2>5. RingIsHistory'
    BY <2>1, <2>4 DEF RingIsHistory
  <2>6. CountIsHistory'
    BY <1>0, <2>1, OneMore DEF WatchInv, WatchTypes, CountIsHistory
  <2>7. QuietIsCounted'
    BY <2>1 DEF WatchInv, QuietIsCounted
  <2>8. QED
    BY <2>3, <2>5, <2>6, <2>7 DEF WatchInv
<1>3. QED
  BY <1>1, <1>2

\* A look of core 0 at the count.
LEMMA CheckStep ==
  ASSUME WatchInv, CheckTotal
  PROVE  WatchInv' /\ quiet' <= sinceTrap'
<1>0. /\ TotalMod \in Nat \ {0} /\ QuietLimit \in Nat \ {0}
      /\ total \in 0..TotalMod - 1 /\ last \in 0..TotalMod - 1
      /\ quiet \in 0..QuietLimit /\ sinceTrap \in 0..QuietLimit
  BY WatchdogAssumption DEF WatchInv, WatchTypes
<1>1. /\ quiet' = QuietAfter(total) /\ sinceTrap' = Smaller(sinceTrap + 1, QuietLimit)
      /\ last' = total /\ UNCHANGED <<ring, next, total, seq, cpu>>
  BY DEF CheckTotal
<1>2. /\ quiet' \in 0..QuietLimit /\ sinceTrap' \in 0..QuietLimit
      /\ quiet' <= sinceTrap'
  BY <1>0, <1>1 DEF QuietAfter, Smaller, WatchInv, QuietIsCounted
<1>3. WatchTypes' /\ CountIsHistory'
  BY <1>0, <1>1, <1>2 DEF WatchInv, WatchTypes, CountIsHistory
<1>4. RingIsHistory'
  BY <1>1 DEF WatchInv, RingIsHistory, Back
<1>5. QuietIsCounted'
  <2>1. cpu = "recording" => (total + 1) % TotalMod # total
    BY <1>0, OneMore DEF WatchInv, QuietIsCounted
  <2>2. QED
    BY <1>1, <1>2, <2>1 DEF QuietIsCounted
<1>6. QED
  BY <1>2, <1>3, <1>4, <1>5 DEF WatchInv

\* No other step of either core touches the ring, the counts or the history.
LEMMA NextWatchInv == WatchInv /\ [WatchNext]_watchVars => WatchInv'
<1> SUFFICES ASSUME WatchInv, [WatchNext]_watchVars PROVE WatchInv'
  OBVIOUS
<1> DEFINE Rest == \/ HandlerReturns \/ EnterWfi \/ InjectFault \/ Panic \/ DumpBudget
                   \/ DumpPrint \/ LeaveWfi \/ Wedge \/ CheckWfi \/ Report \/ ReportBudget
                   \/ ReportHeader \/ ReportLine \/ ReportDone \/ UNCHANGED watchVars
<1>1. CASE RecordEntry \/ RecordCount
  BY <1>1, RecordSteps
<1>2. CASE CheckTotal
  BY <1>2, CheckStep
<1>3. CASE Rest
  <2>1. UNCHANGED <<ring, next, total, last, seq, quiet, sinceTrap>>
    BY <1>3 DEF HandlerReturns, EnterWfi, InjectFault, Panic, DumpBudget, DumpPrint,
       LeaveWfi, Wedge, CheckWfi, Report, ReportBudget, ReportHeader, ReportLine, ReportDone,
       watchVars
  <2>2. cpu' = "recording" <=> cpu = "recording"
    BY <1>3 DEF HandlerReturns, EnterWfi, InjectFault, Panic, DumpBudget, DumpPrint,
       LeaveWfi, Wedge, CheckWfi, Report, ReportBudget, ReportHeader, ReportLine, ReportDone,
       AfterDump, watchVars
  <2>3. QED
    BY <2>1, <2>2 DEF WatchInv, WatchTypes, RingIsHistory, CountIsHistory, QuietIsCounted, Back
<1>4. QED
  BY <1>1, <1>2, <1>3 DEF WatchNext, Core1, Core0, Handler

\* The ring and the two counts between core 1's traps and core 0's looks.
LEMMA WatchInvariance == WatchSpec => []WatchInv
  BY InitWatchInv, NextWatchInv, PTL DEF WatchSpec

\* What the dump prints is read back from the index.
LEMMA LinesAreLast ==
  ASSUME WatchInv, cpu # "recording"
  PROVE  Lines = LastTraps(seq)
<1> DEFINE L == LineCount
<1>0. /\ TraceLen \in Nat \ {0} /\ next \in 0..TraceLen - 1 /\ seq \in Nat
      /\ total \in Nat /\ total <= seq /\ total = seq % TotalMod
  BY WatchdogAssumption DEF WatchInv, WatchTypes, CountIsHistory
<1>1. L \in 0..TraceLen /\ L <= seq /\ L = Shown(seq)
  BY <1>0 DEF LineCount, Shown, Smaller
<1> HIDE DEF L
<1>2. FirstLine = IF L <= next THEN next - L ELSE next - L + TraceLen
  <2> DEFINE x == next + TraceLen - L
  <2>1. x \in 0..2 * TraceLen - 1 /\ FirstLine = x % TraceLen
    BY <1>0, <1>1 DEF FirstLine, L
  <2>2. x < TraceLen <=> ~(L <= next)
    BY <1>0, <1>1
  <2>3. x - TraceLen = next - L /\ x = next - L + TraceLen
    BY <1>0, <1>1
  <2> HIDE DEF x
  <2>4. x % TraceLen = IF x < TraceLen THEN x ELSE x - TraceLen
    BY <1>0, <2>1, Wrapped
  <2>5. QED
    BY <2>1, <2>2, <2>3, <2>4
<1>3. ASSUME NEW n \in 1..L
      PROVE  ring[(FirstLine + n - 1) % TraceLen] = seq - L + n
  <2> DEFINE i == L - n + 1
  <2>1. i \in 1..TraceLen /\ i <= seq
    BY <1>0, <1>1
  <2> DEFINE x == FirstLine + n - 1
  <2>2. x \in 0..2 * TraceLen - 1
    BY <1>0, <1>1, <1>2
  <2>3. Back(i) = IF x < TraceLen THEN x ELSE x - TraceLen
    BY <1>0, <1>1, <1>2 DEF Back
  <2>4. (FirstLine + n - 1) % TraceLen = Back(i)
    <3> HIDE DEF x, i
    <3>1. x % TraceLen = IF x < TraceLen THEN x ELSE x - TraceLen
      BY <1>0, <2>2, Wrapped
    <3>2. QED
      BY <2>3, <3>1 DEF x
  <2>5. ring[Back(i)] = seq - i + 1
    BY <2>1 DEF WatchInv, RingIsHistory
  <2>6. QED
    BY <1>0, <1>1, <2>4, <2>5
<1>4. Lines = [n \in 1..L |-> ring[(FirstLine + n - 1) % TraceLen]]
  BY DEF Lines, L
<1>5. LastTraps(seq) = [n \in 1..L |-> seq - L + n]
  BY <1>1 DEF LastTraps
<1>6. QED
  BY <1>3, <1>4, <1>5

\* What core 1 prints about a trap are traps in order up to the one being reported,
\* all that the ring holds until the count first wraps and never none but at a count
\* of 0 modulo 2^32 (hyp_trace_record and hyp_trace_dump, hyp_trace.c:54-109).
THEOREM DumpShowsHistory == WatchSpec => []DumpIsHistory
<1>1. ASSUME WatchInv, cpu \in {"dumping", "panicking"}
      PROVE  /\ \A i \in 1..Len(Lines) : Lines[i] = seq - Len(Lines) + i
             /\ seq < TotalMod => Len(Lines) = Smaller(seq, TraceLen)
             /\ seq % TotalMod # 0 => Lines # <<>>
  <2> DEFINE L == Shown(seq)
             total0 == seq % TotalMod
  <2>1. Lines = [i \in 1..L |-> seq - L + i]
    BY <1>1, LinesAreLast DEF LastTraps
  <2>2. /\ TraceLen \in Nat \ {0} /\ total \in Nat /\ total = total0 /\ seq \in Nat
    BY <1>1, WatchdogAssumption DEF WatchInv, WatchTypes, CountIsHistory
  <2>3. seq < TotalMod => total0 = seq
    <3>1. seq < TotalMod => seq \in 0..TotalMod - 1 /\ TotalMod * 0 + seq = seq
      BY <2>2, WatchdogAssumption
    <3>2. QED
      BY <3>1, ModIs, WatchdogAssumption
  <2> HIDE DEF total0
  <2>4. L = Smaller(total0, TraceLen)
    BY DEF Shown, total0
  <2>5. L \in Nat /\ (total0 # 0 => L # 0)
    BY <2>2, <2>4 DEF Smaller
  <2> HIDE DEF L
  <2>6. Len(Lines) = L /\ \A i \in 1..L : Lines[i] = seq - L + i
    BY <2>1, <2>5
  <2>7. total0 # 0 => Lines # <<>>
    BY <2>5, <2>6
  <2>8. QED
    BY <2>3, <2>4, <2>6, <2>7 DEF total0
<1>2. WatchInv => DumpIsHistory
  BY <1>1 DEF DumpIsHistory
<1>3. QED
  BY <1>2, WatchInvariance, PTL

\* The check counts no second in which a trap was taken, however the traps fall
\* between its accesses (app_main, main.c:72-82).
THEOREM QuietSecondsAreReal == WatchSpec => QuietIsReal
<1> DEFINE A == task = "delay" /\ task' = "checked" /\ quiet' = QuietLimit
                  => sinceTrap' = QuietLimit
<1>1. WatchInv /\ [WatchNext]_watchVars => [A]_watchVars
  <2> SUFFICES ASSUME WatchInv, WatchNext, task = "delay", task' = "checked",
                      quiet' = QuietLimit
               PROVE  sinceTrap' = QuietLimit
    OBVIOUS
  <2>1. CheckTotal
    BY DEF WatchNext, Core1, Core0, Handler, RecordEntry, RecordCount, HandlerReturns,
       EnterWfi, LeaveWfi, InjectFault, Panic, DumpBudget, DumpPrint, Wedge, CheckWfi,
       Report, ReportBudget, ReportHeader, ReportLine, ReportDone
  <2>2. quiet' <= sinceTrap' /\ sinceTrap' \in 0..QuietLimit
    BY <2>1, CheckStep DEF WatchInv, WatchTypes
  <2>3. QED
    BY <2>2, WatchdogAssumption
<1>2. QED
  BY <1>1, WatchInvariance, PTL DEF WatchSpec, QuietIsReal
=============================================================================
