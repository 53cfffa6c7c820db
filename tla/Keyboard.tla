------------------------------ MODULE Keyboard ------------------------------
(***************************************************************************)
(* The poll thread of the USB keyboard (main/hyp_kbd.c): the interrupt     *)
(* transfer and its semaphore, the difference of two reports that makes    *)
(* key presses of key states, auto-repeat, errors, unplugging.             *)
(*                                                                         *)
(* A report is the sequence of usages in its slots, or Rollover in every   *)
(* slot when more keys are down than there are slots.  What a usage is as  *)
(* characters is left out: a usage is typed or it is not.  The keyboard    *)
(* reports when its state has changed, and the user is no faster than its  *)
(* reports.                                                                *)
(***************************************************************************)
EXTENDS Integers, Sequences, FiniteSets, SequencesExt

CONSTANTS
  Keys,          \* usages, in the order of their numbers
  Slots,         \* usages in a boot report, 6
  ReportWait,    \* REPORT_WAIT_MS
  RepeatDelay,   \* REPEAT_DELAY_MS
  RepeatPeriod,  \* REPEAT_PERIOD_MS
  MaxPresses, MaxErrors, MaxPlugs    \* bounds on what happens

ASSUME KeyboardAssumption ==
  /\ Keys \subseteq Nat \ {0, 1} /\ IsFiniteSet(Keys)
  /\ Slots \in Nat \ {0}
  /\ ReportWait \in Nat \ {0} /\ RepeatDelay \in Nat
  /\ RepeatPeriod \in 1..ReportWait
  /\ MaxPresses \in Nat /\ MaxErrors \in Nat /\ MaxPlugs \in Nat

NoKey == 0
RollOver == 1      \* the usage ErrorRollOver

VARIABLES
  plugged, down,           \* the keyboard; the keys that are down, oldest first
  sent,                    \* the last report it delivered
  urb,                     \* the transfer: idle, armed, or done with a result
  errorcode, buffer,       \* its result, and the report buffer
  done,                    \* the count of the thread's semaphore
  pc, pending,             \* the poll thread
  prev, held, heldMs,      \* kbd_prev, kbd_held, kbd_held_ms
  typed,                   \* history: times typed since the key was last pressed
  handled,                 \* history: last report decoded since it was plugged in
  inherited,               \* history: usages of the keyboard before, in every report since
  presses, errors, plugs

device == <<plugged, down, sent>>
transfer == <<urb, errorcode, buffer, done>>
thread == <<pc, pending>>
decoder == <<prev, held, heldMs, typed, handled, inherited>>
bounds == <<presses, errors, plugs>>
vars == <<device, transfer, thread, decoder, bounds>>

Init ==
  /\ plugged = FALSE /\ down = <<>> /\ sent = <<>>
  /\ urb = "idle" /\ errorcode = "ok" /\ buffer = <<>> /\ done = 0
  /\ pc = "none" /\ pending = FALSE
  /\ prev = <<>> /\ held = NoKey /\ heldMs = 0
  /\ typed = [k \in Keys |-> 0] /\ handled = <<>>
  /\ inherited = {}
  /\ presses = 0 /\ errors = 0 /\ plugs = 0

-----------------------------------------------------------------------------
(* The user, the keyboard and the host controller. *)

ReportOf(d) == IF Len(d) > Slots THEN [i \in 1..Slots |-> RollOver] ELSE d

Press(k) ==
  /\ plugged /\ pc # "none" /\ ~Contains(down, k)
  /\ sent = ReportOf(down)
  /\ presses < MaxPresses /\ presses' = presses + 1
  /\ down' = Append(down, k)
  /\ typed' = [typed EXCEPT ![k] = 0]
  /\ UNCHANGED <<plugged, sent, transfer, thread, prev, held, heldMs, handled,
                 inherited, errors, plugs>>

Release(k) ==
  /\ plugged /\ sent = ReportOf(down)
  /\ \E i \in 1..Len(down) : down[i] = k /\ down' = RemoveAt(down, i)
  /\ UNCHANGED <<plugged, sent, transfer, thread, decoder, bounds>>

\* hyp_kbd_urb_done, from the interrupt: the result is there, the semaphore
\* is given, nothing else.
Complete(result) ==
  /\ urb = "armed"
  /\ urb' = "done" /\ errorcode' = result
  /\ done' = done + 1

DeliverReport ==
  /\ plugged /\ sent # ReportOf(down)
  /\ Complete("ok")
  /\ sent' = ReportOf(down) /\ buffer' = ReportOf(down)
  /\ UNCHANGED <<plugged, down, thread, decoder, bounds>>

\* A stall, babble or runt; the keyboard will repeat the report.
TransferError ==
  /\ plugged /\ errors < MaxErrors /\ errors' = errors + 1
  /\ Complete("error")
  /\ UNCHANGED <<device, buffer, thread, decoder, presses, plugs>>

\* The class driver completes an armed transfer with -USB_ERR_SHUTDOWN.
Unplug ==
  /\ plugged
  /\ plugged' = FALSE /\ down' = <<>> /\ sent' = <<>>
  /\ IF urb = "armed" THEN Complete("gone") ELSE UNCHANGED <<urb, errorcode, done>>
  /\ UNCHANGED <<buffer, thread, decoder, bounds>>

\* usbh_hid_run, and the thread as far as its loop: a semaphore of its own and
\* nothing pending.  What the decoder knew of the keys is static and stays.
Plug ==
  /\ ~plugged /\ pc = "none"
  /\ plugs < MaxPlugs /\ plugs' = plugs + 1
  /\ plugged' = TRUE
  /\ urb' = "idle" /\ done' = 0
  /\ pc' = "submit" /\ pending' = FALSE
  /\ handled' = <<>> /\ inherited' = Range(prev)
  /\ UNCHANGED <<down, sent, errorcode, buffer, prev, held, heldMs, typed,
                 presses, errors>>

-----------------------------------------------------------------------------
(* The poll thread. *)

Submit ==
  /\ pc = "submit" /\ ~pending /\ plugged /\ urb # "armed"
  /\ urb' = "armed"
  /\ pending' = TRUE /\ pc' = "wait"
  /\ UNCHANGED <<device, errorcode, buffer, done, decoder, bounds>>

SubmitGone ==
  /\ pc = "submit" /\ ~pending /\ ~plugged
  /\ pc' = "none"
  /\ UNCHANGED <<device, transfer, pending, decoder, bounds>>

\* Any other refusal: the thread sleeps and tries again.
SubmitFails ==
  /\ pc = "submit" /\ ~pending /\ plugged
  /\ urb = "armed" \/ errors < MaxErrors
  /\ errors' = IF urb = "armed" THEN errors ELSE errors + 1
  /\ UNCHANGED <<device, transfer, thread, decoder, presses, plugs>>

StillPending ==
  /\ pc = "submit" /\ pending
  /\ pc' = "wait"
  /\ UNCHANGED <<device, transfer, pending, decoder, bounds>>

\* Behind the delay the clock is put back by a period at every repeat.
RepeatClock(ms) == IF ms >= RepeatDelay THEN ms - RepeatPeriod ELSE ms

BugForgetTransfer ==
  /\ pc = "wait" /\ done = 0
  /\ pc' = "submit" /\ pending' = FALSE
  /\ UNCHANGED <<device, transfer, decoder, bounds>>

\* No key yet: tick the repeat clock, leave the transfer armed.
WaitTimeout ==
  /\ pc = "wait" /\ done = 0
  /\ heldMs' = IF held = NoKey THEN heldMs ELSE RepeatClock(heldMs + ReportWait)
  /\ pc' = "submit"
  /\ UNCHANGED <<device, transfer, pending, prev, held, typed, handled, inherited, bounds>>

\* The repeat above types the held key.
Repeats == pc = "wait" /\ done = 0 /\ held # NoKey
           /\ heldMs + ReportWait >= RepeatDelay

BugErrorKeepsPending ==
  /\ pc = "wait" /\ done > 0
  /\ done' = done - 1
  /\ pending' = (errorcode = "error")
  /\ \/ errorcode = "gone" /\ pc' = "none"
     \/ errorcode = "error" /\ pc' = "submit"
     \/ errorcode = "ok" /\ pc' = "decode"
  /\ UNCHANGED <<device, urb, errorcode, buffer, decoder, bounds>>

WaitDone ==
  /\ pc = "wait" /\ done > 0
  /\ done' = done - 1
  /\ pending' = FALSE
  /\ \/ errorcode = "gone" /\ pc' = "none"
     \/ errorcode = "error" /\ pc' = "submit"
     \/ errorcode = "ok" /\ pc' = "decode"
  /\ UNCHANGED <<device, urb, errorcode, buffer, decoder, bounds>>

BugNoDiff(keys) == {i \in 1..Len(keys) : keys[i] # RollOver}

\* The slots of a report with a usage that the previous one did not have.
NewPresses(keys) ==
  {i \in 1..Len(keys) : keys[i] # RollOver /\ ~Contains(prev, keys[i])}

BugHeldStays(keys) ==
  IF NewPresses(keys) = {} THEN held ELSE keys[Max(NewPresses(keys))]

\* The last new key wins the repeat, as long as it is down.
HeldAfter(keys) ==
  LET k == IF NewPresses(keys) = {} THEN held ELSE keys[Max(NewPresses(keys))]
  IN  IF Contains(keys, k) THEN k ELSE NoKey

\* A rollover report hides the keys it stands for: those held through it are
\* typed again behind it, which typed leaves out.
Counted(k) == /\ \E i \in NewPresses(buffer) : buffer[i] = k
              /\ typed[k] = 0 \/ ~Contains(prev, RollOver)

\* kbd_handle_report
HandleReport ==
  /\ pc = "decode"
  /\ typed' = [k \in Keys |-> IF Counted(k) /\ typed[k] < 2
                              THEN typed[k] + 1 ELSE typed[k]]
  /\ inherited' = inherited \cap Range(buffer)
  /\ held' = HeldAfter(buffer)
  /\ heldMs' = IF NewPresses(buffer) = {} /\ held' # NoKey THEN heldMs ELSE 0
  /\ prev' = buffer
  /\ handled' = buffer
  /\ pc' = "submit"
  /\ UNCHANGED <<device, transfer, pending, bounds>>

-----------------------------------------------------------------------------
Device == DeliverReport \/ TransferError \/ Unplug \/ Plug
          \/ \E k \in Keys : Press(k) \/ Release(k)
Thread == Submit \/ SubmitGone \/ SubmitFails \/ StillPending \/ WaitTimeout
          \/ WaitDone \/ HandleReport

Next == Device \/ Thread

Spec == Init /\ [][Next]_vars

\* The thread is scheduled; a report that is due is delivered in the end.  An
\* error is not due, so it takes no part in the thread's fairness.
LiveSpec == Spec /\ WF_vars(Submit \/ SubmitGone \/ StillPending \/ WaitTimeout
                            \/ WaitDone \/ HandleReport)
                 /\ SF_vars(DeliverReport)

-----------------------------------------------------------------------------
(* Properties. *)

Reports == SeqOf(Keys \cup {RollOver}, Slots)

TypeOK ==
  /\ plugged \in BOOLEAN
  /\ down \in SeqOf(Keys, Cardinality(Keys)) /\ sent \in Reports
  /\ urb \in {"idle", "armed", "done"} /\ errorcode \in {"ok", "error", "gone"}
  /\ buffer \in Reports /\ done \in 0..1
  /\ pc \in {"none", "submit", "wait", "decode"} /\ pending \in BOOLEAN
  /\ prev \in Reports /\ held \in Keys \cup {NoKey}
  /\ heldMs \in 0..RepeatDelay + ReportWait
  /\ typed \in [Keys -> 0..2] /\ handled \in Reports /\ inherited \subseteq Keys \cup {RollOver}
  /\ presses \in 0..MaxPresses /\ errors \in 0..MaxErrors /\ plugs \in 0..MaxPlugs

\* The controller never writes the buffer that is being decoded, and a given
\* semaphore always stands for a result that was not looked at yet: no stale
\* count (the comment on leaving the transfer pending across a timeout).
BufferStable ==
  /\ pc = "decode" => urb # "armed"
  /\ done > 0 => urb = "done" /\ pending

\* A press is typed once, however many reports the key is held for ("holding a
\* key would type it once per report rather than once per press"), but for once
\* more behind each rollover report it is held through.
OncePerPress == \A k \in Keys : typed[k] <= 1

\* "Repeat only while that exact key is still down": what repeats is down in the
\* last report, which is the last of the keyboard before until this one reports.
RepeatOnlyWhileHeld ==
  Repeats => \/ Contains(handled, held)
             \/ handled = <<>> /\ held \in inherited

\* A key that stays down is typed, unless it is one too many for a report, or the
\* keyboard before was unplugged with the same key down.
EveryPressTyped ==
  \A k \in Keys : Contains(down, k)
    ~> \/ typed[k] > 0 \/ ~Contains(down, k)
       \/ Len(down) > Slots \/ k \in inherited

\* The same two without what the decoder makes of rollover and replugging.
NeverTwice == [][pc = "decode" /\ pc' = "submit"
                 => \A i \in NewPresses(buffer) : typed[buffer[i]] = 0]_vars
NoRepeatOfOldKeys == Repeats => Contains(handled, held)
=============================================================================
