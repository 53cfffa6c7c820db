----------------------------- MODULE GuestTimer -----------------------------
(***************************************************************************)
(* The guest's clock, which is 64 bits wide and reached 32 bits at a time  *)
(* on three levels:                                                        *)
(*   - hyp_mtime snapshots the systimer and reads the snapshot in halves,  *)
(*     and core 0's esp_timer snapshots the same counter when it likes;    *)
(*   - the guest reads mtime a half per trap, high, low, high, until the   *)
(*     high half stands still;                                             *)
(*   - the guest writes mtimecmp low, high, low, a half per trap, and the  *)
(*     host alarm is set anew on each.                                     *)
(* After every trap the timer interrupt is computed from a whole mtime and *)
(* delivered if the guest has its gate open.  main/hyp_clint.c, with the   *)
(* poll of main/hyp_intr.c; the guest's driver is Linux's timer-clint.     *)
(*                                                                         *)
(* A half has Half values, 2^32 in the code.                               *)
(***************************************************************************)
EXTENDS Integers

CONSTANTS
  Half,          \* values of a half
  Cap,           \* HYP_MTIME_MAX
  MaxTime,       \* bound: the counter stops there
  Deltas,        \* how far ahead the guest sets its deadlines
  ForeignReads   \* core 0 reads the counter too

ASSUME TimerAssumption ==
  /\ Half \in Nat \ {0} /\ Cap \in Nat /\ MaxTime \in Nat
  /\ MaxTime < Cap /\ Cap < Half * Half
  /\ Deltas \subseteq Nat
  /\ \A d \in Deltas : MaxTime + d < Cap
  /\ ForeignReads \in BOOLEAN

VARIABLES
  now,       \* the systimer's counter
  latch,     \* its snapshot register
  mtimecmp,  \* shadow_mtimecmp
  alarm,     \* the host alarm's target, Off when it is disabled
  fired,     \* its interrupt is raised
  step,      \* core 1: "guest", inside hyp_mtime, or before the check for a tick
  want,      \* what hyp_mtime was called for: "lo", "hi" or "tick"
  low,       \* its lo
  clean,     \* core 0 has made no snapshot since its own
  guest,     \* the guest's driver: "run", or the access it makes next
  hi1, lo1,  \* what it has read
  gate,      \* the guest's: "open", shut in its timer handler ("tick"), which
             \* has set a deadline ("set")
  began,     \* time when it began to read the clock
  read,      \* the time it read last
  deadline,  \* the deadline it has set, None while it is setting one
  old, aim   \* the deadlines before and after its last change

hardware == <<now, latch, fired, clean>>
driver   == <<guest, hi1, lo1, began, read, deadline, old,
              aim>>
vars == <<now, latch, mtimecmp, alarm, fired, step, want, low, clean, guest, hi1,
          lo1, gate, began, read, deadline, old, aim>>

Off  == -1
None == -1
Never == Half * Half - 1   \* ~0
Lo(t) == t % Half
Hi(t) == t \div Half

Init ==
  /\ now = 0 /\ latch = 0
  /\ mtimecmp = Never /\ alarm = Off /\ fired = FALSE
  /\ step = "guest" /\ want = "tick" /\ low = 0 /\ clean = TRUE
  /\ guest = "run" /\ hi1 = 0 /\ lo1 = 0
  /\ gate = "open"
  /\ began = 0 /\ read = 0 /\ deadline = Never
  /\ old = Never /\ aim = Never

-----------------------------------------------------------------------------
(* Hardware and core 0 *)

Tick ==
  /\ now < MaxTime
  /\ now' = now + 1
  /\ UNCHANGED <<latch, clean, mtimecmp, alarm, fired, step, want, low, driver, gate>>

\* A target already past fires as well.
AlarmFire ==
  /\ alarm # Off /\ alarm <= now /\ ~fired
  /\ fired' = TRUE
  /\ UNCHANGED <<now, latch, clean, mtimecmp, alarm, step, want, low, driver, gate>>

\* systimer_hal_get_counter_value on core 0.  It matters between the snapshot of
\* core 1 and its reads only.
ForeignSnapshot ==
  /\ ForeignReads
  /\ step \in {"readLow", "readHigh"}
  /\ latch' = now /\ clean' = FALSE
  /\ UNCHANGED <<now, mtimecmp, alarm, fired, step, want, low, driver, gate>>

-----------------------------------------------------------------------------
(* hyp_mtime, and what its callers do with it *)

\* The loop on the valid bit is part of the snapshot.  (Definitions named Bug...
\* are a mistake the one after them could have; the checks are shown to notice it.)
BugSnapshot ==
  /\ step = "snapshot"
  /\ latch' \in {latch, now} /\ clean' = TRUE
  /\ step' = "readLow"
  /\ UNCHANGED <<now, mtimecmp, alarm, fired, want, low, driver, gate>>

Snapshot ==
  /\ step = "snapshot"
  /\ latch' = now /\ clean' = TRUE
  /\ step' = "readLow"
  /\ UNCHANGED <<now, mtimecmp, alarm, fired, want, low, driver, gate>>

ReadLow ==
  /\ step = "readLow"
  /\ low' = Lo(latch)
  /\ step' = "readHigh"
  /\ UNCHANGED <<hardware, mtimecmp, alarm, want, driver, gate>>

\* clint_read of the low half of mtime.
ReturnLow ==
  /\ step = "readHigh" /\ want = "lo"
  /\ lo1' = low /\ guest' = "hi2"
  /\ step' = "deliver"
  /\ UNCHANGED <<hardware, mtimecmp, alarm, want, low, hi1, began, read,
                 deadline, old, aim, gate>>

\* And of the high half: the driver's loop ends when it is what it was.
ReturnHigh ==
  /\ step = "readHigh" /\ want = "hi"
  /\ \/ /\ guest = "hi1"
        /\ hi1' = Hi(latch) /\ guest' = "lo" /\ UNCHANGED read
     \/ /\ guest = "hi2" /\ Hi(latch) = hi1
        /\ read' = hi1 * Half + lo1 /\ guest' = "have" /\ UNCHANGED hi1
     \/ /\ guest = "hi2" /\ Hi(latch) # hi1
        /\ guest' = "hi1" /\ UNCHANGED <<hi1, read>>
  /\ step' = "deliver"
  /\ UNCHANGED <<hardware, mtimecmp, alarm, want, low, lo1, began,
                 deadline, old, aim, gate>>

\* The end of every trap, hyp_deliver_pending: mtip_pending is asked if the gate
\* is open.
Deliver ==
  /\ step = "deliver"
  /\ IF gate = "open" THEN step' = "snapshot" /\ want' = "tick"
                      ELSE step' = "guest" /\ UNCHANGED want
  /\ UNCHANGED <<hardware, mtimecmp, alarm, low, driver, gate>>

\* mtip_pending, and the injection: MTIP is computed, never latched.  The guest
\* drops the access sequence it was in and enters its handler.
CheckTick ==
  /\ step = "readHigh" /\ want = "tick"
  /\ IF Hi(latch) * Half + low >= mtimecmp
       THEN gate' = "tick" /\ guest' = "run" /\ deadline' = None
       ELSE UNCHANGED <<gate, guest, deadline>>
  /\ step' = "guest"
  /\ UNCHANGED <<hardware, mtimecmp, alarm, want, low, hi1, lo1, began, read,
                 old, aim>>

BugNoDelivery ==
  /\ step = "guest" /\ fired
  /\ alarm' = Off /\ fired' = FALSE
  /\ UNCHANGED <<now, latch, clean, mtimecmp, step, want, low, driver, gate>>

\* A host interrupt between two instructions: the alarm is disarmed.
TakeHostInterrupt ==
  /\ step = "guest" /\ fired
  /\ alarm' = Off /\ fired' = FALSE
  /\ step' = "deliver"
  /\ UNCHANGED <<now, latch, clean, mtimecmp, want, low, driver, gate>>

-----------------------------------------------------------------------------
(* The guest's driver; each access is a trap *)

\* clint_get_cycles64, from the program or from clint_clock_next_event.
BeginRead ==
  /\ step = "guest" /\ guest = "run" /\ gate # "set"
  /\ guest' = "hi1" /\ began' = now
  /\ UNCHANGED <<hardware, mtimecmp, alarm, step, want, low, hi1, lo1, read,
                 deadline, old, aim, gate>>

LoadMtime ==
  /\ step = "guest" /\ guest \in {"hi1", "lo", "hi2"}
  /\ want' = (IF guest = "lo" THEN "lo" ELSE "hi")
  /\ step' = "snapshot"
  /\ UNCHANGED <<hardware, mtimecmp, alarm, low, driver, gate>>

\* The time was all the program wanted; the handler always sets a deadline.
UseTime ==
  /\ step = "guest" /\ guest = "have" /\ gate = "open"
  /\ guest' = "run"
  /\ UNCHANGED <<hardware, mtimecmp, alarm, step, want, low, hi1, lo1, began, read,
                 deadline, old, aim, gate>>

\* hyp_arm_timer, after shadow_mtimecmp has become v.
ArmTimer(v) ==
  /\ mtimecmp' = v
  /\ alarm' = IF v >= Cap THEN Off ELSE v
  /\ fired' = FALSE

BugLowAlone(v) == ArmTimer(v)
WriteLow(v)  == ArmTimer(Hi(mtimecmp) * Half + v)
WriteHigh(v) == ArmTimer(v * Half + Lo(mtimecmp))

\* clint_clock_next_event and clint_timer_shutdown: low = ~0, high, low.
StoreLowOnes ==
  /\ step = "guest" /\ guest = "have"
  /\ aim' \in {read + d : d \in Deltas} \cup {Never}
  /\ old' = mtimecmp /\ deadline' = None
  /\ WriteLow(Half - 1)
  /\ guest' = "high" /\ step' = "deliver"
  /\ UNCHANGED <<now, latch, clean, want, low, hi1, lo1, began, read, gate>>

StoreHigh ==
  /\ step = "guest" /\ guest = "high"
  /\ WriteHigh(Hi(aim))
  /\ guest' = "low" /\ step' = "deliver"
  /\ UNCHANGED <<now, latch, clean, want, low, hi1, lo1, began, read, deadline, old, aim, gate>>

StoreLow ==
  /\ step = "guest" /\ guest = "low"
  /\ WriteLow(Lo(aim))
  /\ deadline' = aim
  /\ gate' = IF gate = "tick" THEN "set" ELSE gate
  /\ guest' = "run" /\ step' = "deliver"
  /\ UNCHANGED <<now, latch, clean, want, low, hi1, lo1, began, read, old, aim>>

\* The handler has set the next deadline and returns: mret opens the gate.
HandlerReturns ==
  /\ step = "guest" /\ gate = "set"
  /\ gate' = "open" /\ step' = "deliver"
  /\ UNCHANGED <<hardware, mtimecmp, alarm, want, low, driver>>

-----------------------------------------------------------------------------

Monitor == Snapshot \/ ReadLow \/ ReturnLow \/ ReturnHigh \/ Deliver \/ CheckTick
             \/ TakeHostInterrupt

Handler == /\ gate # "open"
           /\ \/ BeginRead \/ LoadMtime \/ StoreLowOnes \/ StoreHigh \/ StoreLow
              \/ HandlerReturns

Driver == BeginRead \/ LoadMtime \/ UseTime \/ StoreLowOnes \/ StoreHigh \/ StoreLow
            \/ HandlerReturns

Next == Tick \/ AlarmFire \/ ForeignSnapshot \/ Monitor \/ Driver

Spec == Init /\ [][Next]_vars

\* The clock runs, a due alarm fires, core 1 executes its handlers and the guest
\* its timer handler.  Nothing is asked of the guest's programs.
LiveSpec == Spec /\ WF_vars(Tick) /\ WF_vars(AlarmFire) /\ WF_vars(Monitor)
                 /\ WF_vars(Handler)

-----------------------------------------------------------------------------
(* Properties *)

TypeOK ==
  /\ now \in 0..MaxTime /\ latch \in 0..MaxTime
  /\ mtimecmp \in 0..Never /\ alarm \in {Off} \cup 0..(Cap-1) /\ fired \in BOOLEAN
  /\ step \in {"guest", "snapshot", "readLow", "readHigh", "deliver"}
  /\ want \in {"lo", "hi", "tick"} /\ low \in 0..(Half-1) /\ clean \in BOOLEAN
  /\ guest \in {"run", "hi1", "lo", "hi2", "have", "high", "low"}
  /\ hi1 \in 0..(Half-1) /\ lo1 \in 0..(Half-1)
  /\ gate \in {"open", "tick", "set"}
  /\ began \in 0..MaxTime /\ read \in 0..Never
  /\ deadline \in {None} \cup 0..Never /\ old \in 0..Never /\ aim \in 0..Never

\* What the guest's loop makes of the two halves is a time at which the guest was
\* in it, although each half comes from a snapshot of its own, and core 0 may
\* have made that snapshot (hyp_clint.c:75-79).
TimeReadIsReal == guest = "have" => began <= read /\ read <= now

\* The guest gets no tick before its deadline, and while it changes the deadline
\* none before the earlier of the two: the values in between are not seen, short
\* of a snapshot of core 0 in the midst of core 1's (hyp_clint.c:30-35, 63-66).
NoEarlyTick ==
  [][gate = "open" /\ gate' = "tick" /\ clean =>
       \/ deadline # None /\ now >= deadline
       \/ deadline = None /\ (now >= old \/ now >= aim)]_vars

\* A deadline that is set brings its tick, however often the alarm was set for
\* something else before, whatever it fired for, and although the guest may
\* never trap again by itself (hyp_clint.c:30-53).
TickArrives ==
  \A d \in 0..MaxTime : deadline = d ~> deadline # d

\* hyp_clint.c:17: "A 52-bit snapshot, matching what
\* systimer_hal_get_counter_value() does": what hyp_mtime returns is no time to
\* come.
MtimeIsNow == step = "readHigh" => Hi(latch) * Half + low <= now
=============================================================================
