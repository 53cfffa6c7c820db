--------------------------- MODULE KeyboardProofs ---------------------------
(***************************************************************************)
(* Proofs about Keyboard, for any number of keys and slots, any delays and *)
(* any number of presses, errors and unpluggings.                          *)
(*                                                                         *)
(* One transfer and one count of the semaphore go round: while the         *)
(* transfer is armed the thread has it pending and the count is 0          *)
(* (OneTransfer), so that the buffer a thread decodes is at rest.  The key *)
(* that repeats is in the previous report (HeldIsReported), and that       *)
(* report is the last one decoded since the keyboard was plugged in, or    *)
(* the last of the keyboard before (ReportIsRecent).                       *)
(*                                                                         *)
(* A key that was typed is still in the previous report, or a rollover     *)
(* report stands there, or the key is up and in no report on its way       *)
(* (TypedIsKnown).  What takes a key out of the previous report is a       *)
(* report without it, delivered when the key was up; it may be down again  *)
(* when that report is decoded, but only as a new press (MissedIsUp).      *)
(***************************************************************************)
EXTENDS Keyboard, TLAPS

Usages == Keys \cup {RollOver}

Types ==
  /\ down \in Seq(Keys) /\ buffer \in Seq(Usages) /\ prev \in Seq(Usages)
  /\ done \in Nat
  /\ urb \in {"idle", "armed", "done"} /\ errorcode \in {"ok", "error", "gone"}
  /\ pc \in {"none", "submit", "wait", "decode"}

\* The transfer is armed, and the semaphore given, for a pending thread only.
OneTransfer ==
  /\ urb = "armed" => pending /\ done = 0
  /\ done > 0 => urb = "done" /\ pending
  /\ done <= 1
  /\ pc = "wait" => pending
  /\ pc = "decode" => ~pending

HeldIsReported == held # NoKey => Contains(prev, held)

ReportIsRecent ==
  \/ handled = prev
  \/ handled = <<>> /\ (held # NoKey => held \in inherited)

IInv == Types /\ OneTransfer /\ HeldIsReported /\ ReportIsRecent

-----------------------------------------------------------------------------

\* A report has usages only.
LEMMA ReportType ==
  ASSUME NEW d \in Seq(Keys)
  PROVE  ReportOf(d) \in Seq(Usages)
<1>1. CASE Len(d) > Slots
  <2>1. ReportOf(d) = [i \in 1..Slots |-> RollOver]
    BY <1>1 DEF ReportOf
  <2> QED
    BY <2>1, KeyboardAssumption DEF Usages
<1>2. CASE ~(Len(d) > Slots)
  BY <1>2 DEF ReportOf, Usages
<1> QED
  BY <1>1, <1>2

\* A key that is let go leaves the others.
LEMMA RemoveType ==
  ASSUME NEW d \in Seq(Keys), NEW i \in 1..Len(d)
  PROVE  RemoveAt(d, i) \in Seq(Keys)
  BY DEF RemoveAt

\* What is in a report is in its range.
LEMMA ContainsRange ==
  ASSUME NEW S, NEW s \in Seq(S), NEW e, Contains(s, e)
  PROVE  e \in Range(s)
  BY DEF Contains, Range

\* The initial state satisfies the invariant.
LEMMA InitIInv == Init => IInv
<1> SUFFICES ASSUME Init PROVE IInv
  OBVIOUS
<1>1. <<>> \in Seq(Keys) /\ <<>> \in Seq(Usages)
  OBVIOUS
<1>2. Types
  BY <1>1 DEF Init, Types
<1>3. OneTransfer
  BY DEF Init, OneTransfer
<1> QED
  BY <1>2, <1>3 DEF Init, IInv, HeldIsReported, ReportIsRecent

-----------------------------------------------------------------------------

USE DEF device, transfer, thread, decoder, bounds

\* The user, the keyboard and the controller.
LEMMA DeviceStep ==
  ASSUME IInv, Device
  PROVE  IInv'
<1>1. CASE \E k \in Keys : Press(k)
  BY <1>1 DEF Press, IInv, Types, OneTransfer, HeldIsReported, ReportIsRecent
<1>2. CASE \E k \in Keys : Release(k)
  <2>1. down' \in Seq(Keys)
    BY <1>2, RemoveType DEF Release, IInv, Types
  <2> QED
    BY <1>2, <2>1 DEF Release, IInv, Types, OneTransfer, HeldIsReported, ReportIsRecent
<1>3. CASE DeliverReport
  <2>1. buffer' \in Seq(Usages)
    BY <1>3, ReportType DEF DeliverReport, IInv, Types
  <2> QED
    BY <1>3, <2>1 DEF DeliverReport, Complete, IInv, Types, OneTransfer,
       HeldIsReported, ReportIsRecent
<1>4. CASE TransferError
  BY <1>4 DEF TransferError, Complete, IInv, Types, OneTransfer, HeldIsReported,
     ReportIsRecent
<1>5. CASE Unplug
  BY <1>5 DEF Unplug, Complete, IInv, Types, OneTransfer, HeldIsReported,
     ReportIsRecent
<1>6. CASE Plug
  <2>1. held # NoKey => held \in Range(prev)
    BY ContainsRange DEF IInv, Types, HeldIsReported
  <2>2. Types'
    BY <1>6 DEF Plug, IInv, Types
  <2>3. OneTransfer'
    BY <1>6 DEF Plug, OneTransfer
  <2> QED
    BY <1>6, <2>1, <2>2, <2>3 DEF Plug, IInv, HeldIsReported, ReportIsRecent
<1> QED
  BY <1>1, <1>2, <1>3, <1>4, <1>5, <1>6 DEF Device

\* The poll thread.
LEMMA ThreadStep ==
  ASSUME IInv, Thread
  PROVE  IInv'
<1>1. CASE Submit \/ SubmitGone \/ SubmitFails \/ StillPending
  <2>1. Types'
    BY <1>1 DEF Submit, SubmitGone, SubmitFails, StillPending, IInv, Types
  <2>2. OneTransfer'
    BY <1>1 DEF Submit, SubmitGone, SubmitFails, StillPending, IInv, Types, OneTransfer
  <2>3. HeldIsReported' /\ ReportIsRecent'
    BY <1>1 DEF Submit, SubmitGone, SubmitFails, StillPending, IInv, HeldIsReported,
       ReportIsRecent
  <2> QED
    BY <2>1, <2>2, <2>3 DEF IInv
<1> USE DEF IInv, Types, OneTransfer, HeldIsReported, ReportIsRecent
<1>2. CASE WaitTimeout
  BY <1>2 DEF WaitTimeout
<1>3. CASE WaitDone
  BY <1>3 DEF WaitDone
<1>4. CASE HandleReport
  <2>1. held' # NoKey => Contains(prev', held')
    BY <1>4 DEF HandleReport, HeldAfter
  <2> QED
    BY <1>4, <2>1 DEF HandleReport
<1> QED
  BY <1>1, <1>2, <1>3, <1>4 DEF Thread

\* Every step, the stuttering one too, keeps the invariant.
LEMMA NextIInv == IInv /\ [Next]_vars => IInv'
<1> SUFFICES ASSUME IInv, [Next]_vars PROVE IInv'
  OBVIOUS
<1>1. CASE Next
  BY <1>1, DeviceStep, ThreadStep DEF Next
<1>2. CASE UNCHANGED vars
  BY <1>2 DEF vars, IInv, Types, OneTransfer, HeldIsReported, ReportIsRecent
<1> QED
  BY <1>1, <1>2

-----------------------------------------------------------------------------

\* The poll thread and its one transfer (kbd_thread of hyp_kbd.c).
THEOREM Invariant == Spec => []IInv
  BY InitIInv, NextIInv, PTL DEF Spec

\* The report that is decoded is not written, and a count of the semaphore stands
\* for a result nobody looked at (hyp_kbd.c:375-440).
THEOREM BufferIsStable == Spec => []BufferStable
<1>1. IInv => BufferStable
  BY DEF IInv, Types, OneTransfer, BufferStable
<1> QED
  BY <1>1, Invariant, PTL

\* What repeats was down in the last report, or in the last of the keyboard before
\* until this one has reported (kbd_handle_report, hyp_kbd.c:316-350).
THEOREM RepeatIsHeld == Spec => []RepeatOnlyWhileHeld
<1>1. IInv => RepeatOnlyWhileHeld
  BY DEF IInv, HeldIsReported, ReportIsRecent, RepeatOnlyWhileHeld, Repeats
<1> QED
  BY <1>1, Invariant, PTL
-----------------------------------------------------------------------------
-----------------------------------------------------------------------------
(* One press, one key typed. *)

\* A report on its way: delivered and not looked at, or being decoded.
Fresh == pc = "decode" \/ (done > 0 /\ errorcode = "ok")

TypedType == typed \in [Keys -> Nat] /\ \A k \in Keys : typed[k] <= 1

TypedIsKnown ==
  \A k \in Keys : typed[k] > 0 =>
    \/ Contains(prev, k) \/ Contains(prev, RollOver)
    \/ ~Contains(down, k) /\ (Fresh => ~Contains(buffer, k))

MissedIsUp ==
  Fresh /\ ~Contains(buffer, RollOver) =>
    \A k \in Keys : typed[k] > 0 /\ ~Contains(buffer, k) => ~Contains(down, k)

PressInv == TypedType /\ TypedIsKnown /\ MissedIsUp

\* A press adds its key to those that are down.
LEMMA AppendContains ==
  ASSUME NEW d \in Seq(Keys), NEW k \in Keys, NEW o \in Keys \ {k},
         Contains(Append(d, k), o)
  PROVE  Contains(d, o)
<1>1. PICK i \in 1..Len(Append(d, k)) : Append(d, k)[i] = o
  BY DEF Contains
<1>2. i # Len(d) + 1 /\ i \in 1..Len(d) /\ d[i] = o
  BY <1>1
<1>3. QED
  BY <1>2 DEF Contains

\* A release adds none.
LEMMA RemoveContains ==
  ASSUME NEW d \in Seq(Keys), NEW i \in 1..Len(d), NEW o \in Keys,
         Contains(RemoveAt(d, i), o)
  PROVE  Contains(d, o)
<1>1. PICK j \in 1..Len(RemoveAt(d, i)) : RemoveAt(d, i)[j] = o
  BY DEF Contains
<1>2. CASE j < i
  <2>1. j \in 1..Len(d) /\ d[j] = o
    BY <1>1, <1>2 DEF RemoveAt
  <2>2. QED
    BY <2>1 DEF Contains
<1>3. CASE j >= i
  <2> DEFINE front == SubSeq(d, 1, i - 1)
             back == SubSeq(d, i + 1, Len(d))
  <2>1. /\ front \in Seq(Keys) /\ Len(front) = i - 1
        /\ back \in Seq(Keys) /\ Len(back) = Len(d) - i
        /\ \A m \in 1..Len(d) - i : back[m] = d[i + m]
    OBVIOUS
  <2>2. RemoveAt(d, i) = front \o back
    BY DEF RemoveAt
  <2> HIDE DEF front, back
  <2>3. Len(front \o back) = Len(d) - 1
    <3>0. front \in Seq(Keys) /\ back \in Seq(Keys)
      BY <2>1
    <3>1. Len(front \o back) = Len(front) + Len(back)
      BY <3>0
    <3>2. Len(d) \in Nat /\ i \in Nat
      OBVIOUS
    <3>3. QED
      BY <2>1, <3>1, <3>2
  <2>4. j \in i..Len(d) - 1 /\ Len(d) \in Nat /\ i \in Nat
    BY <1>1, <1>3, <2>2, <2>3
  <2>5. (front \o back)[j] = back[j - i + 1]
    BY <2>1, <2>4
  <2>6. back[j - i + 1] = d[j + 1]
    <3>1. j - i + 1 \in 1..Len(d) - i /\ i + (j - i + 1) = j + 1
      BY <2>4
    <3>2. QED
      BY <2>1, <3>1
  <2>7. RemoveAt(d, i)[j] = d[j + 1] /\ Len(RemoveAt(d, i)) = Len(d) - 1
    BY <2>2, <2>3, <2>5, <2>6
  <2>8. j + 1 \in 1..Len(d) /\ d[j + 1] = o
    BY <1>1, <2>7, <2>4
  <2>9. QED
    BY <2>8 DEF Contains
<1>4. QED
  BY <1>2, <1>3

\* A report without rollover has exactly the keys that are down, and a rollover
\* report none.
LEMMA ReportContains ==
  ASSUME NEW d \in Seq(Keys)
  PROVE  /\ \A k \in Keys : Contains(ReportOf(d), k) => Contains(d, k)
         /\ Contains(ReportOf(d), RollOver) \/ ReportOf(d) = d
<1>1. \A k \in Keys : k # RollOver
  BY KeyboardAssumption DEF RollOver
<1>2. CASE Len(d) > Slots
  <2>1. ReportOf(d) = [i \in 1..Slots |-> RollOver] /\ 1 \in 1..Slots
    BY <1>2, KeyboardAssumption DEF ReportOf
  <2>2. Contains(ReportOf(d), RollOver)
    BY <2>1, KeyboardAssumption DEF Contains
  <2>3. ASSUME NEW k \in Keys PROVE ~Contains(ReportOf(d), k)
    BY <1>1, <2>1, KeyboardAssumption DEF Contains
  <2>4. QED
    BY <2>2, <2>3
<1>3. CASE ~(Len(d) > Slots)
  BY <1>3 DEF ReportOf
<1>4. QED
  BY <1>2, <1>3

LEMMA InitPressInv == Init => PressInv
<1> SUFFICES ASSUME Init PROVE PressInv
  OBVIOUS
<1>1. ~Fresh
  BY DEF Init, Fresh
<1>2. QED
  BY <1>1 DEF Init, PressInv, TypedType, TypedIsKnown, MissedIsUp

\* What leaves the decoder alone, makes no report and puts no key down.
LEMMA QuietStep ==
  ASSUME PressInv, Fresh' => Fresh, UNCHANGED <<prev, typed, buffer>>,
         \A k \in Keys : Contains(down', k) => Contains(down, k)
  PROVE  PressInv'
<1>1. TypedType'
  BY DEF PressInv, TypedType
<1>2. TypedIsKnown'
  BY DEF PressInv, TypedIsKnown
<1>3. MissedIsUp'
  BY DEF PressInv, MissedIsUp
<1>4. QED
  BY <1>1, <1>2, <1>3 DEF PressInv

\* The user, the keyboard and the controller.
LEMMA DevicePresses ==
  ASSUME IInv, PressInv, Device
  PROVE  PressInv'
<1>1. ASSUME NEW k \in Keys, Press(k) PROVE PressInv'
  <2>1. /\ down' = Append(down, k) /\ down \in Seq(Keys)
        /\ typed' = [typed EXCEPT ![k] = 0] /\ typed \in [Keys -> Nat]
        /\ UNCHANGED <<prev, buffer>> /\ Fresh' = Fresh
    BY <1>1 DEF Press, Fresh, IInv, Types, PressInv, TypedType
  <2>2. ASSUME NEW o \in Keys, typed'[o] > 0
        PROVE  /\ typed[o] > 0
               /\ Contains(down', o) => Contains(down, o)
    <3>1. o # k /\ typed'[o] = typed[o]
      BY <2>1, <2>2
    <3>2. QED
      BY <2>1, <2>2, <3>1, AppendContains
  <2>3. TypedType'
    BY <2>1 DEF PressInv, TypedType
  <2>4. TypedIsKnown'
    BY <2>1, <2>2 DEF PressInv, TypedIsKnown
  <2>5. MissedIsUp'
    BY <2>1, <2>2 DEF PressInv, MissedIsUp
  <2>6. QED
    BY <2>3, <2>4, <2>5 DEF PressInv
<1>2. ASSUME NEW k \in Keys, Release(k) PROVE PressInv'
  <2>1. PICK i \in 1..Len(down) : down' = RemoveAt(down, i)
    BY <1>2 DEF Release
  <2>2. \A o \in Keys : Contains(down', o) => Contains(down, o)
    BY <2>1, RemoveContains DEF IInv, Types
  <2>3. UNCHANGED <<prev, typed, buffer>> /\ Fresh' = Fresh
    BY <1>2 DEF Release, Fresh
  <2>4. QED
    BY <2>2, <2>3, QuietStep
<1>3. CASE DeliverReport
  <2>1. /\ buffer' = ReportOf(down) /\ down \in Seq(Keys)
        /\ UNCHANGED <<down, prev, typed>>
    BY <1>3 DEF DeliverReport, IInv, Types
  <2>2. /\ \A k \in Keys : Contains(buffer', k) => Contains(down, k)
        /\ Contains(buffer', RollOver) \/ buffer' = down
    BY <2>1, ReportContains
  <2>3. TypedType'
    BY <2>1 DEF PressInv, TypedType
  <2>4. TypedIsKnown'
    BY <2>1, <2>2 DEF PressInv, TypedIsKnown
  <2>5. MissedIsUp'
    BY <2>1, <2>2 DEF MissedIsUp
  <2>6. QED
    BY <2>3, <2>4, <2>5 DEF PressInv
<1>4. CASE TransferError
  <2>1. Fresh' => Fresh
    BY <1>4 DEF TransferError, Complete, Fresh, IInv, OneTransfer
  <2>2. QED
    BY <1>4, <2>1, QuietStep DEF TransferError
<1>5. CASE Unplug
  <2>1. Fresh' => Fresh
    BY <1>5 DEF Unplug, Complete, Fresh, IInv, OneTransfer
  <2>2. \A k \in Keys : ~Contains(down', k)
    BY <1>5 DEF Unplug, Contains
  <2>3. QED
    BY <1>5, <2>1, <2>2, QuietStep DEF Unplug
<1>6. CASE Plug
  <2>1. Fresh' => Fresh
    BY <1>6 DEF Plug, Fresh
  <2>2. QED
    BY <1>6, <2>1, QuietStep DEF Plug
<1>7. QED
  BY <1>1, <1>2, <1>3, <1>4, <1>5, <1>6 DEF Device

\* What a report types was not typed since it was pressed, but for what a rollover
\* report hid; what the report lacks without rollover is up.
LEMMA ReportPresses ==
  ASSUME IInv, PressInv, HandleReport
  PROVE  PressInv'
<1>1. Fresh /\ ~Fresh' /\ prev' = buffer /\ UNCHANGED <<down, buffer>>
  BY DEF HandleReport, Fresh, IInv, Types, OneTransfer
<1>2. ASSUME NEW k \in Keys, Counted(k) PROVE Contains(buffer, k) /\ typed[k] = 0
  <2>1. PICK i \in 1..Len(buffer) : buffer[i] = k /\ ~Contains(prev, buffer[i])
    BY <1>2 DEF Counted, NewPresses
  <2>2. Contains(buffer, k) /\ ~Contains(prev, k)
    BY <2>1 DEF Contains
  <2>3. typed[k] = 0
    BY <1>1, <1>2, <2>2 DEF Counted, PressInv, TypedIsKnown, TypedType
  <2>4. QED
    BY <2>2, <2>3
<1>3. ASSUME NEW k \in Keys
      PROVE  typed'[k] = IF Counted(k) THEN 1 ELSE typed[k]
  <2>1. typed'[k] = IF Counted(k) /\ typed[k] < 2 THEN typed[k] + 1 ELSE typed[k]
    BY DEF HandleReport
  <2>2. QED
    BY <1>2, <2>1
<1>4. TypedType'
  <2>1. typed' \in [Keys -> Nat]
    BY DEF HandleReport, PressInv, TypedType
  <2>2. QED
    BY <1>3, <2>1 DEF PressInv, TypedType
<1>5. TypedIsKnown'
  <2>1. ASSUME NEW k \in Keys, typed'[k] > 0, ~Contains(buffer, k), ~Contains(buffer, RollOver)
        PROVE  ~Contains(down, k)
    <3>1. typed[k] > 0
      BY <1>2, <1>3, <2>1
    <3>2. QED
      BY <1>1, <2>1, <3>1 DEF PressInv, MissedIsUp
  <2>2. QED
    BY <1>1, <2>1 DEF TypedIsKnown
<1>6. MissedIsUp'
  BY <1>1 DEF MissedIsUp
<1>7. QED
  BY <1>4, <1>5, <1>6 DEF PressInv

\* The poll thread.
LEMMA ThreadPresses ==
  ASSUME IInv, PressInv, Thread
  PROVE  PressInv'
<1>1. CASE Submit \/ SubmitGone \/ SubmitFails \/ StillPending \/ WaitTimeout
  <2>1. Fresh' => Fresh
    BY <1>1 DEF Submit, SubmitGone, SubmitFails, StillPending, WaitTimeout, Fresh
  <2>2. UNCHANGED <<prev, typed, buffer, down>>
    BY <1>1 DEF Submit, SubmitGone, SubmitFails, StillPending, WaitTimeout
  <2>3. QED
    BY <2>1, <2>2, QuietStep
<1>2. CASE WaitDone
  <2>1. Fresh' => Fresh
    BY <1>2 DEF WaitDone, Fresh, IInv, Types
  <2>2. UNCHANGED <<prev, typed, buffer, down>>
    BY <1>2 DEF WaitDone
  <2>3. QED
    BY <2>1, <2>2, QuietStep
<1>3. CASE HandleReport
  BY <1>3, ReportPresses
<1>4. QED
  BY <1>1, <1>2, <1>3 DEF Thread

LEMMA NextPressInv == IInv /\ PressInv /\ [Next]_vars => PressInv'
<1> SUFFICES ASSUME IInv, PressInv, [Next]_vars PROVE PressInv'
  OBVIOUS
<1>1. CASE Next
  BY <1>1, DevicePresses, ThreadPresses DEF Next
<1>2. CASE UNCHANGED vars
  BY <1>2, QuietStep DEF vars, Fresh
<1>3. QED
  BY <1>1, <1>2

\* A press is typed once and not once per report, whatever is unplugged, fails or
\* overflows, but for the keys a rollover report hid (kbd_handle_report,
\* hyp_kbd.c:316-336).
THEOREM TypedOnce == Spec => []OncePerPress
<1>1. PressInv => OncePerPress
  BY DEF PressInv, TypedType, OncePerPress
<1>2. QED
  BY <1>1, InitPressInv, NextPressInv, Invariant, PTL DEF Spec
=============================================================================
