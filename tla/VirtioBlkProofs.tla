-------------------------- MODULE VirtioBlkProofs --------------------------
(***************************************************************************)
(* Safety of the hand-over between the two cores, for every ring size and  *)
(* every number of requests, whether or not the driver waits for an idle   *)
(* device before it resets it.                                             *)
(*                                                                         *)
(* NoLostKick and LineIsStatus are inductive.  NoLostCompletion is not: a  *)
(* handler that has claimed the source and finds InterruptStatus zero      *)
(* leaves without reading the used ring.  ClaimHasCause excludes it, and   *)
(* rests in turn on LineIsStatus.                                          *)
(*                                                                         *)
(* For the refinement of AsyncDisk, the requests the driver waits for form *)
(* a window over the two rings: reported, queued, filled in.  No request   *)
(* is in it twice (WindowInv), so it is no longer than the queue, so no    *)
(* slot in use is ever written.  Core 0 works on the oldest queued request *)
(* (TaskInv), the only one that may have been performed (ServedInv).  It   *)
(* needs the driver to reset an idle device only: TornDownQueueUntouched   *)
(* fails otherwise.                                                        *)
(*                                                                         *)
(* The second part is about one request on its way through blk_do_request: *)
(* what a request that reports success has moved, and the length the guest *)
(* is told, for every card, bounce buffer and descriptor chain.            *)
(***************************************************************************)
EXTENDS VirtioBlk, BlkRequest, PlicProofs, SequenceTheorems, FiniteSetTheorems

IInv == TypeOK /\ NoLostKick /\ LineIsStatus /\ ClaimHasCause /\ NoLostCompletion

-----------------------------------------------------------------------------
(* Type correctness *)

\* Ring indices stay indices, and name a slot of the ring.
LEMMA IndexType ==
  ASSUME NEW i \in Index
  PROVE  Succ(i) \in Index /\ Slot(i) \in 0..QueueNum - 1
BY VirtioAssumption DEF Index, Succ, Slot

\* The PLIC as the guest's driver leaves it is one.
LEMMA PlicReadyType == PlicReady \in PlicType /\ PlicReady.pending = {}
<1>1. PlicReset \in PlicType
  BY PlicAssumption DEF PlicReset, PlicType
<1>2. [s \in Source |-> 1] \in [Source -> 0..MaxPriority]
  BY VirtioAssumption, PlicAssumption
<1>3. QED
  BY <1>1, <1>2 DEF PlicReady, PlicReset, PlicType

\* Type correctness holds at the start.
LEMMA InitType == Init => TypeOK
<1>1. EmptyRing \in [0..QueueNum - 1 -> Tag \cup {NoTag}] /\ 0 \in Index
  BY VirtioAssumption DEF EmptyRing, Index
<1>2. 0 \in 0..MaxSetups
  BY VirtioAssumption
<1>3. QED
  BY <1>1, <1>2, PlicReadyType DEF Init, TypeOK

\* The steps of the driver keep every variable in its type.
LEMMA DriverType ==
  ASSUME TypeOK, Submit \/ Finish \/ Handler \/ Lifecycle
  PROVE  TypeOK'
<1> USE DEF TypeOK, ring, driver, device, core0
<1>1. ASSUME NEW t \in Tag, FillSlot(t) PROVE TypeOK'
  BY <1>1, IndexType DEF FillSlot
<1>2. CASE PublishAvail
  BY <1>2, IndexType DEF PublishAvail
<1>3. CASE WriteQueueNotify
  BY <1>3 DEF WriteQueueNotify
<1>4. CASE TakeInterrupt
  BY <1>4 DEF TakeInterrupt
<1>5. CASE PlicClaim
  <2>1. plic' \in PlicType
    BY <1>5, ClaimEffect DEF PlicClaim
  <2>2. drv' \in {"isr", "run"}
    BY <1>5 DEF PlicClaim
  <2>3. QED
    BY <1>5, <2>1, <2>2 DEF PlicClaim
<1>6. CASE ReadInterruptStatus
  BY <1>6 DEF ReadInterruptStatus
<1>7. CASE WriteInterruptAck
  <2>1. SetPending(plic, VirtioSource, FALSE) \in PlicType
    BY SetPendingEffect, VirtioAssumption
  <2>2. QED
    BY <1>7, <2>1 DEF WriteInterruptAck
<1>8. CASE GetBuf
  <2>1. inflight' \in SUBSET Tag
    BY <1>8 DEF GetBuf
  <2>2. lastUsed' \in Index /\ drv' \in {"reap", "eoi"}
    BY <1>8, IndexType DEF GetBuf
  <2>3. QED
    BY <1>8, <2>1, <2>2 DEF GetBuf
<1>9. CASE PlicComplete
  BY <1>9, CompleteEffect, VirtioAssumption DEF PlicComplete
<1>10. CASE WriteQueuePfn
  BY <1>10, VirtioAssumption DEF WriteQueuePfn, EmptyRing, Index
<1>11. CASE WriteStatusZero
  <2>1. SetPending(plic, VirtioSource, FALSE) \in PlicType
    BY SetPendingEffect, VirtioAssumption
  <2>2. 0 \in Index
    BY VirtioAssumption DEF Index
  <2>3. QED
    BY <1>11, <2>1, <2>2 DEF WriteStatusZero
<1>12. CASE WriteQueuePfnZero
  <2>1. 0 \in Index
    BY VirtioAssumption DEF Index
  <2>2. QED
    BY <1>12, <2>1 DEF WriteQueuePfnZero
<1>13. QED
  BY <1>1, <1>2, <1>3, <1>4, <1>5, <1>6, <1>7, <1>8, <1>9, <1>10, <1>11, <1>12
  DEF Submit, Finish, Handler, Lifecycle

\* So do the steps of the monitor and of core 0.
LEMMA ServiceType ==
  ASSUME TypeOK, Core1Poll \/ Core0
  PROVE  TypeOK'
<1> USE DEF TypeOK, ring, driver, device, core0
<1>1. CASE PollSeesIrq
  BY <1>1 DEF PollSeesIrq
<1>2. CASE PollRaise
  BY <1>2, SetPendingEffect, VirtioAssumption DEF PollRaise
<1>3. CASE TaskSeesKick
  BY <1>3 DEF TaskSeesKick
<1>4. CASE TaskClearKick
  BY <1>4 DEF TaskClearKick
<1>5. CASE ServiceEnter
  BY <1>5 DEF ServiceEnter
<1>6. CASE ServiceCheck
  BY <1>6, IndexType DEF ServiceCheck
<1>7. CASE DoRequest
  BY <1>7 DEF DoRequest
<1>8. CASE WriteUsedEntry
  BY <1>8, IndexType DEF WriteUsedEntry
<1>9. CASE BumpUsedIdx
  BY <1>9, IndexType DEF BumpUsedIdx
<1>10. CASE BumpLastAvail
  BY <1>10, IndexType DEF BumpLastAvail
<1>11. CASE ServiceExit
  BY <1>11 DEF ServiceExit
<1>12. QED
  BY <1>1, <1>2, <1>3, <1>4, <1>5, <1>6, <1>7, <1>8, <1>9, <1>10, <1>11
  DEF Core1Poll, Core0

\* The type invariant is inductive.
LEMMA TypeStep == TypeOK /\ [Next]_vars => TypeOK'
<1>1. CASE UNCHANGED vars
  BY <1>1 DEF vars, TypeOK
<1>2. QED
  BY <1>1, DriverType, ServiceType DEF Next
-----------------------------------------------------------------------------
(* The invariants *)

\* Nothing is outstanding when the program starts.
LEMMA InitIInv == Init => IInv
BY InitType, PlicReadyType
DEF Init, IInv, NoLostKick, LineIsStatus, ClaimHasCause, NoLostCompletion

\* The test of s_kick and its clearing do not lose a kick that comes between
\* them, because core 0 looks at the ring after it has cleared the flag.
LEMMA KickStep ==
  ASSUME TypeOK, NoLostKick, [Next]_vars
  PROVE  NoLostKick'
<1> USE DEF NoLostKick, ring, driver, device, core0
<1>1. CASE Submit
  BY <1>1 DEF Submit, FillSlot
<1>2. CASE Finish
  BY <1>2 DEF Finish, PublishAvail, WriteQueueNotify
<1>3. CASE Handler
  BY <1>3 DEF Handler, TakeInterrupt, PlicClaim, ReadInterruptStatus,
              WriteInterruptAck, GetBuf, PlicComplete
<1>4. CASE Lifecycle
  BY <1>4 DEF Lifecycle, WriteQueuePfn, WriteStatusZero, WriteQueuePfnZero
<1>5. CASE Core1Poll
  BY <1>5 DEF Core1Poll, PollSeesIrq, PollRaise
<1>6. CASE Core0
  BY <1>6 DEF Core0, TaskSeesKick, TaskClearKick, ServiceEnter, ServiceCheck,
              DoRequest, WriteUsedEntry, BumpUsedIdx, BumpLastAvail, ServiceExit
<1>7. CASE UNCHANGED vars
  BY <1>7 DEF vars
<1>8. QED
  BY <1>1, <1>2, <1>3, <1>4, <1>5, <1>6, <1>7 DEF Next

\* The pending bit is the status bit outside the handler: the steps that change
\* either are the claim, the acknowledgement, the poll and the reset.
LEMMA LineStep ==
  ASSUME TypeOK, LineIsStatus, ClaimHasCause, [Next]_vars
  PROVE  LineIsStatus' /\ ClaimHasCause'
<1> USE DEF LineIsStatus, ClaimHasCause, ring, driver, device, core0
<1>0. plic \in PlicType /\ intStatus \in BOOLEAN /\ VirtioSource \in Source
  BY VirtioAssumption DEF TypeOK
<1>1. CASE PlicClaim
  <2>1. /\ plic'.pending = plic.pending \ {Peek(plic)}
        /\ Peek(plic) # 0 => Peek(plic) \in plic.pending
    BY <1>0, <1>1, ClaimEffect DEF PlicClaim
  <2>2. VirtioSource # 0
    BY <1>0, PlicAssumption
  <2>3. CASE Peek(plic) = VirtioSource
    BY <1>0, <1>1, <2>1, <2>2, <2>3 DEF PlicClaim
  <2>4. CASE Peek(plic) # VirtioSource
    BY <1>0, <1>1, <2>1, <2>4 DEF PlicClaim
  <2>5. QED
    BY <2>3, <2>4
<1>2. CASE WriteInterruptAck \/ WriteStatusZero
  <2>1. VirtioSource \notin SetPending(plic, VirtioSource, FALSE).pending
    BY <1>0, SetPendingEffect
  <2>2. QED
    BY <1>2, <2>1 DEF WriteInterruptAck, WriteStatusZero
<1>3. CASE PollRaise
  <2>1. VirtioSource \in SetPending(plic, VirtioSource, TRUE).pending
    BY <1>0, SetPendingEffect
  <2>2. QED
    BY <1>3, <2>1 DEF PollRaise
<1>4. CASE PlicComplete
  <2>1. plic'.pending = plic.pending
    BY <1>0, <1>4, CompleteEffect DEF PlicComplete
  <2>2. QED
    BY <1>4, <2>1 DEF PlicComplete
<1>5. CASE Submit
  BY <1>5 DEF Submit, FillSlot
<1>6. CASE Finish
  BY <1>6 DEF Finish, PublishAvail, WriteQueueNotify
<1>7. CASE TakeInterrupt
  BY <1>7 DEF TakeInterrupt
<1>8. CASE ReadInterruptStatus
  BY <1>0, <1>8 DEF ReadInterruptStatus
<1>9. CASE GetBuf
  BY <1>9 DEF GetBuf
<1>10. CASE WriteQueuePfn \/ WriteQueuePfnZero
  BY <1>10 DEF WriteQueuePfn, WriteQueuePfnZero
<1>11. CASE PollSeesIrq
  BY <1>11 DEF PollSeesIrq
<1>12. CASE Core0
  BY <1>12 DEF Core0, TaskSeesKick, TaskClearKick, ServiceEnter, ServiceCheck,
              DoRequest, WriteUsedEntry, BumpUsedIdx, BumpLastAvail, ServiceExit
<1>13. CASE UNCHANGED vars
  BY <1>13 DEF vars
<1>14. QED
  BY <1>1, <1>2, <1>3, <1>4, <1>5, <1>6, <1>7, <1>8, <1>9, <1>10, <1>11, <1>12,
     <1>13 DEF Next, Handler, Lifecycle, Core1Poll

\* A completion is handed from core 0's local to s_irq, from s_irq to the
\* pending bit, and from there to the handler, without a gap.
LEMMA CompletionStep ==
  ASSUME TypeOK, LineIsStatus, ClaimHasCause, NoLostCompletion, [Next]_vars
  PROVE  NoLostCompletion'
<1> USE DEF NoLostCompletion, Serving, ring, driver, device, core0
<1>0. plic \in PlicType /\ VirtioSource \in Source
  BY VirtioAssumption DEF TypeOK
<1>1. CASE PlicClaim
  <2>1. plic'.pending = plic.pending \ {Peek(plic)}
    BY <1>0, <1>1, ClaimEffect DEF PlicClaim
  <2>2. CASE Peek(plic) = VirtioSource
    BY <1>1, <2>2 DEF PlicClaim
  <2>3. CASE Peek(plic) # VirtioSource
    BY <1>1, <2>1, <2>3 DEF PlicClaim
  <2>4. QED
    BY <2>2, <2>3
<1>2. CASE WriteInterruptAck
  BY <1>2 DEF WriteInterruptAck
<1>3. CASE WriteStatusZero \/ WriteQueuePfnZero
  BY <1>3 DEF WriteStatusZero, WriteQueuePfnZero
<1>4. CASE PollRaise
  <2>1. VirtioSource \in SetPending(plic, VirtioSource, TRUE).pending
    BY <1>0, SetPendingEffect
  <2>2. QED
    BY <1>4, <2>1 DEF PollRaise
<1>5. CASE PlicComplete
  <2>1. plic'.pending = plic.pending
    BY <1>0, <1>5, CompleteEffect DEF PlicComplete
  <2>2. QED
    BY <1>5, <2>1 DEF PlicComplete
<1>6. CASE Submit
  BY <1>6 DEF Submit, FillSlot
<1>7. CASE Finish
  BY <1>7 DEF Finish, PublishAvail, WriteQueueNotify
<1>8. CASE TakeInterrupt
  BY <1>8 DEF TakeInterrupt
<1>9. CASE ReadInterruptStatus
  BY <1>9 DEF ReadInterruptStatus, ClaimHasCause
<1>10. CASE GetBuf
  BY <1>10 DEF GetBuf
<1>11. CASE WriteQueuePfn
  BY <1>11 DEF WriteQueuePfn
<1>12. CASE PollSeesIrq
  BY <1>12 DEF PollSeesIrq
<1>13. CASE Core0
  BY <1>13 DEF Core0, TaskSeesKick, TaskClearKick, ServiceEnter, ServiceCheck,
              DoRequest, WriteUsedEntry, BumpUsedIdx, BumpLastAvail, ServiceExit
<1>14. CASE UNCHANGED vars
  BY <1>14 DEF vars
<1>15. QED
  BY <1>1, <1>2, <1>3, <1>4, <1>5, <1>6, <1>7, <1>8, <1>9, <1>10, <1>11, <1>12,
     <1>13, <1>14 DEF Next, Handler, Lifecycle, Core1Poll

\* IInv is an invariant.
LEMMA Invariance == Spec => []IInv
<1>1. IInv /\ [Next]_vars => IInv'
  BY TypeStep, KickStep, LineStep, CompletionStep DEF IInv
<1>2. QED
  BY InitIInv, <1>1, PTL DEF Spec

-----------------------------------------------------------------------------

\* Every reachable state is well typed: ring indices wrap within the ring, and
\* the flags and registers stay in their ranges.
THEOREM TypeCorrect == Spec => []TypeOK
<1>1. IInv => TypeOK
  BY DEF IInv
<1>2. QED
  BY <1>1, Invariance, PTL

\* A request in the available ring is never forgotten, for every ring size,
\* number of requests and number of resets.
THEOREM KickNotLost == Spec => []NoLostKick
<1>1. IInv => NoLostKick
  BY DEF IInv
<1>2. QED
  BY <1>1, Invariance, PTL

\* A completion in the used ring is never forgotten on its way to the driver.
THEOREM CompletionNotLost == Spec => []NoLostCompletion
<1>1. IInv => NoLostCompletion
  BY DEF IInv
<1>2. QED
  BY <1>1, Invariance, PTL

\* The pending bit of the PLIC and InterruptStatus agree outside the handler.
THEOREM LineFollowsStatus == Spec => []LineIsStatus
<1>1. IInv => LineIsStatus
  BY DEF IInv
<1>2. QED
  BY <1>1, Invariance, PTL

-----------------------------------------------------------------------------
(* Ring indices *)

\* How far index b is ahead of index a.
Apart(a, b) == IF b >= a THEN b - a ELSE b - a + IndexSize

\* Indices that wrap, spelled out; a slot survives the wrap because the queue size
\* divides IndexSize.
LEMMA RingShape ==
  ASSUME NEW a \in Index, NEW b \in Index
  PROVE  /\ (b - a) % IndexSize = Apart(a, b)
         /\ Apart(a, b) \in 0..IndexSize - 1
         /\ Succ(a) = IF a = IndexSize - 1 THEN 0 ELSE a + 1
         /\ \A k \in Nat : Slot(Succ(a) + k) = Slot(a + 1 + k)
         /\ Slot(a + Apart(a, b)) = Slot(b)
<1>0. /\ IndexSize \in Nat \ {0} /\ QueueNum \in Nat \ {0} /\ IndexSize > QueueNum
      /\ IndexSize % QueueNum = 0 /\ a \in 0..IndexSize - 1 /\ b \in 0..IndexSize - 1
  BY VirtioAssumption DEF Index
<1>1. \A k \in Int : (IndexSize + k) % QueueNum = k % QueueNum
  BY <1>0, AddMultiple
<1>2. (b - a) % IndexSize = Apart(a, b)
  <2>1. CASE b >= a
    BY <1>0, <2>1 DEF Apart
  <2>2. CASE b < a
    <3>1. (IndexSize * (-1) + (b - a + IndexSize)) % IndexSize = b - a + IndexSize
      BY <1>0, <2>2, ModIs
    <3>2. IndexSize * (-1) + (b - a + IndexSize) = b - a
      BY <1>0
    <3>3. QED
      BY <1>0, <2>2, <3>1, <3>2 DEF Apart
  <2>3. QED
    BY <1>0, <2>1, <2>2
<1>3. Succ(a) = IF a = IndexSize - 1 THEN 0 ELSE a + 1
  <2>1. CASE a = IndexSize - 1
    <3>1. (IndexSize * 1 + 0) % IndexSize = 0
      BY <1>0, ModIs
    <3>2. IndexSize * 1 + 0 = a + 1
      BY <1>0, <2>1
    <3>3. QED
      BY <2>1, <3>1, <3>2 DEF Succ
  <2>2. CASE a # IndexSize - 1
    BY <1>0, <2>2 DEF Succ
  <2>3. QED
    BY <2>1, <2>2
<1>4. ASSUME NEW k \in Nat PROVE Slot(Succ(a) + k) = Slot(a + 1 + k)
  <2>1. CASE a = IndexSize - 1
    <3>1. (IndexSize + k) % QueueNum = k % QueueNum
      BY <1>1
    <3>2. a + 1 + k = IndexSize + k /\ Succ(a) + k = k
      BY <1>0, <1>3, <2>1
    <3>3. QED
      BY <3>1, <3>2 DEF Slot
  <2>2. CASE a # IndexSize - 1
    BY <1>0, <1>3, <2>2
  <2>3. QED
    BY <2>1, <2>2
<1>5. Slot(a + Apart(a, b)) = Slot(b)
  <2>1. CASE b >= a
    BY <1>0, <2>1 DEF Apart
  <2>2. CASE ~(b >= a)
    <3>1. (IndexSize + b) % QueueNum = b % QueueNum
      BY <1>0, <1>1
    <3>2. a + Apart(a, b) = IndexSize + b
      BY <1>0, <2>2 DEF Apart
    <3>3. QED
      BY <3>1, <3>2 DEF Slot
  <2>3. QED
    BY <2>1, <2>2
<1>6. QED
  BY <1>0, <1>2, <1>3, <1>4, <1>5 DEF Apart

\* What the two rings hold.
Entry == Tag \cup {NoTag}
Rings == [0..QueueNum - 1 -> Entry]

\* The entries between two indices are a sequence.
LEMMA BetweenShape ==
  ASSUME NEW r \in Rings, NEW a \in Index, NEW b \in Index
  PROVE  /\ Between(r, a, b) = [k \in 1..Apart(a, b) |-> r[Slot(a + k - 1)]]
         /\ Between(r, a, b) \in Seq(Entry)
         /\ Len(Between(r, a, b)) = Apart(a, b)
<1> DEFINE n == Apart(a, b)
<1>1. n \in Nat /\ (b - a) % IndexSize = n
  BY RingShape, VirtioAssumption
<1>2. ASSUME NEW k \in 1..n PROVE r[Slot(a + k - 1)] \in Entry
  <2>1. a + k - 1 \in Int
    BY VirtioAssumption DEF Index
  <2>2. Slot(a + k - 1) \in 0..QueueNum - 1
    BY <2>1, VirtioAssumption, DivMod DEF Slot
  <2>3. QED
    BY <2>2 DEF Rings
<1> HIDE DEF n
<1>3. [k \in 1..n |-> r[Slot(a + k - 1)]] \in Seq(Entry)
  BY <1>1, <1>2
<1>4. Len([k \in 1..n |-> r[Slot(a + k - 1)]]) = n
  BY <1>1
<1>5. QED
  BY <1>1, <1>3, <1>4 DEF Between, n

\* Moving the index of the producer on appends the entry at the index, ...
LEMMA BetweenAppend ==
  ASSUME NEW r \in Rings, NEW a \in Index, NEW b \in Index, Apart(a, b) < IndexSize - 1
  PROVE  Between(r, a, Succ(b)) = Append(Between(r, a, b), r[Slot(b)])
<1> DEFINE n == Apart(a, b)
           q == Between(r, a, b)
<1>0. IndexSize \in Nat /\ a \in 0..IndexSize - 1 /\ b \in 0..IndexSize - 1
  BY VirtioAssumption DEF Index
<1>1. Succ(b) \in Index /\ Succ(b) = IF b = IndexSize - 1 THEN 0 ELSE b + 1
  BY IndexType, RingShape
<1>2. Apart(a, Succ(b)) = n + 1 /\ n \in Nat
  BY <1>0, <1>1 DEF Apart
<1>3. q = [k \in 1..n |-> r[Slot(a + k - 1)]] /\ q \in Seq(Entry) /\ Len(q) = n
  BY BetweenShape
<1>4. Between(r, a, Succ(b)) = [k \in 1..n + 1 |-> r[Slot(a + k - 1)]]
  <2>1. Between(r, a, Succ(b)) = [k \in 1..Apart(a, Succ(b)) |-> r[Slot(a + k - 1)]]
    BY <1>1, BetweenShape
  <2>2. QED
    BY <1>2, <2>1
<1>5. Slot(a + (n + 1) - 1) = Slot(b)
  <2>1. a + (n + 1) - 1 = a + n
    BY <1>0, <1>2
  <2>2. QED
    BY <2>1, RingShape
<1> HIDE DEF n, q
<1>6. Append(q, r[Slot(b)]) = [k \in 1..n + 1 |-> IF k = n + 1 THEN r[Slot(b)] ELSE q[k]]
  BY <1>2, <1>3
<1>7. \A k \in 1..n + 1 : r[Slot(a + k - 1)] = IF k = n + 1 THEN r[Slot(b)] ELSE q[k]
  BY <1>2, <1>3, <1>5
<1>8. QED
  BY <1>4, <1>6, <1>7 DEF q

\* ... moving that of the consumer on takes the oldest, ...
LEMMA BetweenTail ==
  ASSUME NEW r \in Rings, NEW a \in Index, NEW b \in Index, a # b
  PROVE  /\ Between(r, Succ(a), b) = Tail(Between(r, a, b))
         /\ Between(r, a, b) # <<>>
         /\ Head(Between(r, a, b)) = r[Slot(a)]
<1> DEFINE n == Apart(a, b)
           q == Between(r, a, b)
<1>0. IndexSize \in Nat /\ a \in 0..IndexSize - 1 /\ b \in 0..IndexSize - 1
  BY VirtioAssumption DEF Index
<1>1. Succ(a) \in Index /\ Succ(a) = IF a = IndexSize - 1 THEN 0 ELSE a + 1
  BY IndexType, RingShape
<1>2. Apart(Succ(a), b) = n - 1 /\ n \in Nat /\ n >= 1
  BY <1>0, <1>1 DEF Apart
<1>3. q = [k \in 1..n |-> r[Slot(a + k - 1)]] /\ q \in Seq(Entry) /\ Len(q) = n
  BY BetweenShape
<1>4. Between(r, Succ(a), b) = [k \in 1..n - 1 |-> r[Slot(Succ(a) + k - 1)]]
  <2>1. Between(r, Succ(a), b) = [k \in 1..Apart(Succ(a), b) |-> r[Slot(Succ(a) + k - 1)]]
    BY <1>1, BetweenShape
  <2>2. QED
    BY <1>2, <2>1
<1>5. ASSUME NEW k \in 1..n - 1 PROVE Slot(Succ(a) + k - 1) = Slot(a + (k + 1) - 1)
  <2>1. k - 1 \in Nat /\ Slot(Succ(a) + (k - 1)) = Slot(a + 1 + (k - 1))
    BY <1>2, RingShape
  <2>2. Succ(a) + (k - 1) = Succ(a) + k - 1 /\ a + 1 + (k - 1) = a + (k + 1) - 1
    BY <1>0, <1>1, <1>2
  <2>3. QED
    BY <2>1, <2>2
<1> HIDE DEF n, q
<1>6. Tail(q) = [k \in 1..n - 1 |-> q[k + 1]]
  BY <1>2, <1>3
<1>7. \A k \in 1..n - 1 : q[k + 1] = r[Slot(Succ(a) + k - 1)]
  BY <1>2, <1>3, <1>5
<1>8. q # <<>> /\ Head(q) = r[Slot(a)]
  <2>1. q # <<>> /\ Head(q) = q[1] /\ q[1] = r[Slot(a + 1 - 1)]
    BY <1>2, <1>3
  <2>2. a + 1 - 1 = a
    BY <1>0
  <2>3. QED
    BY <2>1, <2>2
<1>9. QED
  BY <1>4, <1>6, <1>7, <1>8 DEF q

\* ... and writing the slot at the producer's index changes nothing, as long as
\* there is room.
LEMMA BetweenKeep ==
  ASSUME NEW r \in Rings, NEW a \in Index, NEW b \in Index, Apart(a, b) < QueueNum,
         NEW t \in Entry
  PROVE  Between([r EXCEPT ![Slot(b)] = t], a, b) = Between(r, a, b)
<1> DEFINE n == Apart(a, b)
           s == [r EXCEPT ![Slot(b)] = t]
<1>0. /\ IndexSize \in Nat /\ a \in 0..IndexSize - 1 /\ b \in 0..IndexSize - 1
      /\ QueueNum \in Nat \ {0}
  BY VirtioAssumption DEF Index
<1>1. s \in Rings /\ Slot(a + n) = Slot(b) /\ n \in Nat
  BY <1>0, IndexType, RingShape DEF Rings, Entry
<1>2. ASSUME NEW k \in 1..n PROVE s[Slot(a + k - 1)] = r[Slot(a + k - 1)]
  <2> DEFINE x == a + k - 1
             y == a + n
  <2>1. x \in Int /\ y \in Int /\ x < y /\ y < x + QueueNum
    BY <1>0, <1>1
  <2>2. Slot(x) # Slot(y)
    <3> HIDE DEF x, y
    <3>1. QED
      BY <1>0, <2>1, ModApart DEF Slot
  <2>3. Slot(x) \in 0..QueueNum - 1
    <3> HIDE DEF x, y
    <3>1. QED
      BY <1>0, <2>1, DivMod DEF Slot
  <2>4. QED
    BY <1>1, <2>2, <2>3 DEF Rings
<1>3. /\ Between(r, a, b) = [k \in 1..n |-> r[Slot(a + k - 1)]]
      /\ Between(s, a, b) = [k \in 1..n |-> s[Slot(a + k - 1)]]
  BY <1>1, BetweenShape
<1> HIDE DEF n, s
<1>4. QED
  BY <1>2, <1>3 DEF s

-----------------------------------------------------------------------------
(* The window *)

\* The requests the driver waits for, oldest first: reported in the used ring,
\* queued in the available ring, filled in but not published.
Reported == Between(usedRing, lastUsed, usedIdx)
Queued   == Between(availRing, usedIdx, availIdx)
Filled   == IF drv = "publish" THEN <<availRing[Slot(availIdx)]>> ELSE <<>>
Window   == (Reported \o Queued) \o Filled

\* w has each member of S once.
NoRepeats(w, S) ==
  /\ \A i, j \in 1..Len(w) : i # j => w[i] # w[j]
  /\ \A i \in 1..Len(w) : w[i] \in S
  /\ Cardinality(S) = Len(w)

\* The queue is up between WriteQueuePfn and WriteStatusZero, and at rest otherwise.
LiveInv ==
  /\ live <=> drv \notin {"down", "reset"}
  /\ ~live => pc0 = "idle" /\ ~kick /\ inflight = {}

\* Core 0 works on the head of the queue, and is behind the used index by the
\* request it has just reported.
TaskInv ==
  live => /\ usedIdx = IF pc0 = "advance" THEN Succ(lastAvail) ELSE lastAvail
          /\ pc0 \in {"perform", "entry", "index"} =>
               Queued # <<>> /\ cur = Head(Queued)
          /\ pc0 \in {"entry", "index"} => cur \in served
          /\ pc0 = "index" => usedRing[Slot(usedIdx)] = cur

\* The three parts are disjoint and are what the driver waits for: that is what
\* keeps both rings from overflowing.
WindowInv == live => NoRepeats(Window, inflight)

\* Of the queue only the head can have been performed.
ServedInv ==
  live => \A k \in 1..Len(Queued) :
            Queued[k] \in served => k = 1 /\ pc0 \in {"entry", "index"}

QueueInv == LiveInv /\ TaskInv /\ WindowInv /\ ServedInv

\* Taking up a request the driver does not wait for, ...
LEMMA FreshKept ==
  ASSUME NEW w \in Seq(Entry), NEW S \in SUBSET Tag, NoRepeats(w, S),
         NEW t \in Tag \ S
  PROVE  NoRepeats(Append(w, t), S \cup {t})
<1> DEFINE v == Append(w, t)
<1>1. /\ Len(v) = Len(w) + 1 /\ Len(w) \in Nat /\ v[Len(w) + 1] = t
      /\ \A i \in 1..Len(w) : v[i] = w[i]
  BY DEF Entry
<1>2. IsFiniteSet(S)
  BY VirtioAssumption, FS_Subset
<1>3. Cardinality(S \cup {t}) = Cardinality(S) + 1
  BY <1>2, FS_AddElement
<1> HIDE DEF v
<1>4. \A i \in 1..Len(v) : i \in 1..Len(w) \/ i = Len(w) + 1
  BY <1>1
<1>5. NoRepeats(v, S \cup {t})
  BY <1>1, <1>3, <1>4 DEF NoRepeats
<1>6. QED
  BY <1>5 DEF v

\* ... and collecting the oldest.
LEMMA OldestGone ==
  ASSUME NEW w \in Seq(Entry), NEW S \in SUBSET Tag, NoRepeats(w, S), w # <<>>
  PROVE  NoRepeats(Tail(w), S \ {Head(w)})
<1> DEFINE v == Tail(w)
<1>1. /\ Len(v) = Len(w) - 1 /\ Len(w) \in Nat /\ Head(w) = w[1] /\ 1 \in 1..Len(w)
      /\ \A i \in 1..Len(v) : v[i] = w[i + 1] /\ i + 1 \in 1..Len(w) /\ i + 1 # 1
  BY DEF Entry
<1>2. IsFiniteSet(S) /\ Head(w) \in S
  BY <1>1, VirtioAssumption, FS_Subset DEF NoRepeats
<1>3. Cardinality(S \ {Head(w)}) = Cardinality(S) - 1
  BY <1>2, FS_RemoveElement
<1> HIDE DEF v
<1>4. \A i, j \in 1..Len(v) : i # j => v[i] # v[j]
  BY <1>1 DEF NoRepeats
<1>5. \A i \in 1..Len(v) : v[i] \in S \ {Head(w)}
  BY <1>1 DEF NoRepeats
<1>6. NoRepeats(v, S \ {Head(w)})
  BY <1>1, <1>3, <1>4, <1>5 DEF NoRepeats
<1>7. QED
  BY <1>6 DEF v

\* There are no more requests than slots.
LEMMA RoomLeft ==
  ASSUME NEW w \in Seq(Entry), NEW S \in SUBSET Tag, NoRepeats(w, S)
  PROVE  /\ Len(w) <= QueueNum
         /\ S # Tag => Len(w) < QueueNum
         /\ S = {} => Len(w) = 0
<1>1. /\ IsFiniteSet(S) /\ Cardinality(S) <= Cardinality(Tag)
      /\ Cardinality(S) = Cardinality(Tag) => S = Tag
      /\ Cardinality(Tag) \in Nat /\ Cardinality(Tag) <= QueueNum /\ QueueNum \in Nat
  BY VirtioAssumption, FS_Subset, FS_CardinalityType
<1>2. Cardinality(S) = Len(w) /\ Len(w) \in Nat
  BY DEF NoRepeats
<1>3. S = {} => Cardinality(S) = 0
  BY FS_EmptySet
<1>4. QED
  BY <1>1, <1>2, <1>3

\* Filling in, publishing and reporting move a request on within the window, ...
LEMMA WindowLemmas ==
  ASSUME NEW e \in Seq(Entry), NEW q \in Seq(Entry)
  PROVE  /\ \A t \in Entry : (e \o q) \o <<t>> = Append((e \o q) \o <<>>, t)
         /\ \A t \in Entry : (e \o Append(q, t)) \o <<>> = (e \o q) \o <<t>>
         /\ q # <<>> => Append(e, Head(q)) \o Tail(q) = e \o q
<1>1. ASSUME NEW t \in Entry
      PROVE  (e \o q) \o <<t>> = Append((e \o q) \o <<>>, t)
  BY ConcatProperties, ConcatEmptySeq, AppendIsConcat
<1>2. ASSUME NEW t \in Entry
      PROVE  (e \o Append(q, t)) \o <<>> = (e \o q) \o <<t>>
  <2>1. Append(q, t) \in Seq(Entry) /\ Append(q, t) = q \o <<t>> /\ <<t>> \in Seq(Entry)
    BY AppendIsConcat
  <2>2. e \o Append(q, t) \in Seq(Entry)
    BY <2>1, ConcatProperties
  <2>3. (e \o Append(q, t)) \o <<>> = e \o (q \o <<t>>)
    BY <2>1, <2>2, ConcatEmptySeq
  <2>4. QED
    BY <2>1, <2>3, ConcatAssociative
<1>3. ASSUME q # <<>> PROVE Append(e, Head(q)) \o Tail(q) = e \o q
  <2>1. Head(q) \in Entry /\ Tail(q) \in Seq(Entry) /\ <<Head(q)>> \in Seq(Entry)
    BY <1>3
  <2>2. <<Head(q)>> \o Tail(q) = q
    BY <1>3
  <2>3. Append(e, Head(q)) = e \o <<Head(q)>>
    BY <2>1, AppendIsConcat
  <2>4. QED
    BY <2>1, <2>2, <2>3, ConcatAssociative
<1>4. QED
  BY <1>1, <1>2, <1>3

\* ... and collecting takes it out.
LEMMA WindowTake ==
  ASSUME NEW e \in Seq(Entry), NEW q \in Seq(Entry), NEW f \in Seq(Entry), e # <<>>
  PROVE  /\ (Tail(e) \o q) \o f = Tail((e \o q) \o f)
         /\ (e \o q) \o f # <<>>
         /\ Head((e \o q) \o f) = Head(e)
<1> DEFINE g == q \o f
<1>1. g \in Seq(Entry) /\ Tail(e) \in Seq(Entry)
  BY ConcatProperties
<1>2. (e \o q) \o f = e \o g /\ (Tail(e) \o q) \o f = Tail(e) \o g
  BY <1>1, ConcatAssociative
<1> HIDE DEF g
<1>3. Tail(e \o g) = Tail(e) \o g
  BY <1>1
<1>4. e \o g # <<>> /\ Head(e \o g) = Head(e)
  BY <1>1
<1>5. QED
  BY <1>2, <1>3, <1>4

\* What the window says of its parts.
LEMMA WindowParts ==
  ASSUME NEW e \in Seq(Entry), NEW q \in Seq(Entry), NEW f \in Seq(Entry),
         NEW S \in SUBSET Tag, NoRepeats((e \o q) \o f, S)
  PROVE  /\ (e \o q) \o f \in Seq(Entry)
         /\ Len((e \o q) \o f) = Len(e) + Len(q) + Len(f)
         /\ \A i, j \in 1..Len(q) : i # j => q[i] # q[j]
         /\ \A i \in 1..Len(q), j \in 1..Len(f) : q[i] # f[j]
         /\ \A i \in 1..Len(e), j \in 1..Len(f) : e[i] # f[j]
         /\ \A j \in 1..Len(f) : f[j] \in S
<1> DEFINE w == (e \o q) \o f
<1>1. /\ w \in Seq(Entry) /\ Len(w) = Len(e) + Len(q) + Len(f)
      /\ Len(e) \in Nat /\ Len(q) \in Nat /\ Len(f) \in Nat
  BY ConcatProperties
<1>2. /\ \A i \in 1..Len(e) : w[i] = e[i] /\ i \in 1..Len(w)
      /\ \A i \in 1..Len(q) : w[Len(e) + i] = q[i] /\ Len(e) + i \in 1..Len(w)
      /\ \A i \in 1..Len(f) : w[Len(e) + Len(q) + i] = f[i] /\ Len(e) + Len(q) + i \in 1..Len(w)
  BY <1>1
<1>3. NoRepeats(w, S)
  OBVIOUS
<1> HIDE DEF w
<1>4. ASSUME NEW i \in 1..Len(q), NEW j \in 1..Len(q), i # j PROVE q[i] # q[j]
  <2>1. Len(e) + i # Len(e) + j
    BY <1>1, <1>4
  <2>2. w[Len(e) + i] # w[Len(e) + j]
    BY <1>2, <1>3, <2>1 DEF NoRepeats
  <2>3. QED
    BY <1>2, <2>2
<1>5. ASSUME NEW i \in 1..Len(q), NEW j \in 1..Len(f) PROVE q[i] # f[j]
  <2>1. Len(e) + i # Len(e) + Len(q) + j
    BY <1>1
  <2>2. QED
    BY <1>2, <1>3, <2>1 DEF NoRepeats
<1>6. ASSUME NEW i \in 1..Len(e), NEW j \in 1..Len(f) PROVE e[i] # f[j]
  <2>1. i # Len(e) + Len(q) + j
    BY <1>1
  <2>2. QED
    BY <1>2, <1>3, <2>1 DEF NoRepeats
<1>7. \A j \in 1..Len(f) : f[j] \in S
  BY <1>2, <1>3 DEF NoRepeats
<1>8. QED
  BY <1>1, <1>4, <1>5, <1>6, <1>7 DEF w

-----------------------------------------------------------------------------
(* The steps *)

\* The types of the parts.
LEMMA Contents ==
  ASSUME TypeOK
  PROVE  /\ availRing \in Rings /\ usedRing \in Rings
         /\ availIdx \in Index /\ usedIdx \in Index /\ lastUsed \in Index
         /\ Queued \in Seq(Entry) /\ Reported \in Seq(Entry) /\ Filled \in Seq(Entry)
         /\ Len(Queued) = Apart(usedIdx, availIdx)
         /\ Len(Reported) = Apart(lastUsed, usedIdx)
         /\ Slot(availIdx) \in 0..QueueNum - 1 /\ Slot(usedIdx) \in 0..QueueNum - 1
<1>1. /\ availRing \in Rings /\ usedRing \in Rings
      /\ availIdx \in Index /\ usedIdx \in Index /\ lastUsed \in Index
  BY DEF TypeOK, Rings, Entry
<1>2. Slot(availIdx) \in 0..QueueNum - 1 /\ Slot(usedIdx) \in 0..QueueNum - 1
  BY <1>1, IndexType
<1>3. availRing[Slot(availIdx)] \in Entry
  BY <1>1, <1>2 DEF Rings
<1>4. Filled \in Seq(Entry)
  BY <1>3 DEF Filled
<1>5. QED
  BY <1>1, <1>2, <1>4, BetweenShape DEF Queued, Reported

\* With the invariant the refinement mapping is the window, before and after a step.
LEMMA Mapping == QueueInv => /\ Unserved = IF live THEN Queued ELSE <<>>
                             /\ Uncollected = IF live THEN Reported ELSE <<>>
  BY DEF QueueInv, TaskInv, Unserved, Uncollected, Queued, Reported

LEMMA MappingNext == QueueInv' => /\ Unserved' = IF live' THEN Queued' ELSE <<>>
                                  /\ Uncollected' = IF live' THEN Reported' ELSE <<>>
  BY DEF QueueInv, TaskInv, Unserved, Uncollected, Queued, Reported

\* Steps that leave the rings, their indices and the requests alone.
LEMMA QuietStep ==
  ASSUME TypeOK, QueueInv, UNCHANGED <<ring, inflight, lastUsed, live, served>>,
         drv' = "publish" <=> drv = "publish",
         drv' \in {"down", "reset"} <=> drv \in {"down", "reset"},
         ~live => pc0' = "idle" /\ ~kick',
         live => TaskInv',
         pc0' \in {"entry", "index"} <=> pc0 \in {"entry", "index"}
  PROVE  QueueInv' /\ UNCHANGED <<Unserved, Uncollected, served>>
<1>1. /\ Queued' = Queued /\ Reported' = Reported /\ Filled' = Filled
      /\ Window' = Window
  BY DEF Queued, Reported, Filled, Window, ring
<1>2. LiveInv'
  BY DEF QueueInv, LiveInv
<1>3. TaskInv'
  BY DEF TaskInv
<1>4. WindowInv' /\ ServedInv'
  BY <1>1 DEF QueueInv, WindowInv, ServedInv
<1>5. QueueInv'
  BY <1>2, <1>3, <1>4 DEF QueueInv
<1>6. QED
  BY <1>1, <1>5, Mapping, MappingNext

\* The interrupt path does not touch the queue.
LEMMA HandlerQueue ==
  ASSUME TypeOK, QueueInv,
         \/ WriteQueueNotify \/ TakeInterrupt \/ PlicClaim \/ ReadInterruptStatus
         \/ WriteInterruptAck \/ PlicComplete \/ Core1Poll
  PROVE  QueueInv' /\ UNCHANGED <<Unserved, Uncollected, served>>
<1> USE DEF ring, driver, device, core0, Core1Poll
<1>1. /\ UNCHANGED <<ring, inflight, lastUsed, live, served, pc0, cur, lastAvail>>
      /\ drv' = "publish" <=> drv = "publish"
      /\ drv' \in {"down", "reset"} <=> drv \in {"down", "reset"}
      /\ kick' = kick \/ drv = "kick"
  BY DEF WriteQueueNotify, TakeInterrupt, PlicClaim, ReadInterruptStatus,
     WriteInterruptAck, PlicComplete, PollSeesIrq, PollRaise
<1>2. ~live => pc0' = "idle" /\ ~kick'
  BY <1>1 DEF QueueInv, LiveInv
<1>3. TaskInv'
  BY <1>1 DEF QueueInv, TaskInv, Queued
<1>4. QED
  BY <1>1, <1>2, <1>3, QuietStep

\* Nor do the steps of core 0 around a request.
LEMMA TaskQueue ==
  ASSUME TypeOK, QueueInv,
         \/ TaskSeesKick \/ TaskClearKick \/ ServiceEnter \/ ServiceCheck
         \/ BumpLastAvail \/ ServiceExit
  PROVE  QueueInv' /\ UNCHANGED <<Unserved, Uncollected, served>>
<1> USE DEF ring, driver, device, core0
<1>1. /\ UNCHANGED <<ring, inflight, lastUsed, live, served, drv>>
      /\ pc0' \in {"entry", "index"} <=> pc0 \in {"entry", "index"}
      /\ pc0 # "index" /\ pc0' # "index"
  BY DEF TaskSeesKick, TaskClearKick, ServiceEnter, ServiceCheck, BumpLastAvail,
     ServiceExit
<1>2. ~live => pc0' = "idle" /\ ~kick'
  BY DEF QueueInv, LiveInv, TaskSeesKick, TaskClearKick, ServiceEnter, ServiceCheck,
     BumpLastAvail, ServiceExit
<1>3. Queued' = Queued
  BY <1>1 DEF Queued
<1>4. ASSUME live PROVE TaskInv'
  <2>1. CASE ServiceCheck
    <3>1. CASE lastAvail # availIdx
      <4>1. usedIdx = lastAvail
        BY <1>4, <2>1 DEF QueueInv, TaskInv, ServiceCheck
      <4>2. Queued # <<>> /\ Head(Queued) = availRing[Slot(usedIdx)]
        BY <3>1, <4>1, Contents, BetweenTail DEF Queued
      <4>3. QED
        BY <1>1, <1>3, <2>1, <3>1, <4>1, <4>2 DEF TaskInv, ServiceCheck
    <3>2. CASE lastAvail = availIdx
      BY <1>1, <1>4, <2>1, <3>2 DEF QueueInv, TaskInv, ServiceCheck
    <3>3. QED
      BY <3>1, <3>2
  <2>2. CASE BumpLastAvail
    BY <1>1, <1>4, <2>2 DEF QueueInv, TaskInv, BumpLastAvail
  <2>3. CASE TaskSeesKick \/ TaskClearKick \/ ServiceEnter \/ ServiceExit
    BY <1>1, <1>4, <2>3 DEF QueueInv, TaskInv, TaskSeesKick, TaskClearKick, ServiceEnter,
       ServiceExit
  <2>4. QED
    BY <2>1, <2>2, <2>3
<1>5. QED
  BY <1>1, <1>2, <1>4, QuietStep

\* A slot that is filled in is outside the queue.
LEMMA FillQueue ==
  ASSUME TypeOK, QueueInv, NEW t \in Tag, FillSlot(t)
  PROVE  QueueInv' /\ UNCHANGED <<Unserved, Uncollected, served>>
<1> DEFINE e == Reported
           q == Queued
<1>0. /\ drv \in {"run", "kick"} /\ drv' = "publish" /\ live /\ live' /\ t \notin inflight
      /\ availRing' = [availRing EXCEPT ![Slot(availIdx)] = t]
      /\ inflight' = inflight \cup {t} /\ inflight \in SUBSET Tag
      /\ UNCHANGED <<availIdx, usedRing, usedIdx, lastUsed, served, pc0, cur, lastAvail, live>>
  BY DEF FillSlot, device, core0, QueueInv, LiveInv, TypeOK
<1>1. /\ e \in Seq(Entry) /\ q \in Seq(Entry) /\ <<>> \in Seq(Entry) /\ t \in Entry
      /\ Filled = <<>> /\ Window = (e \o q) \o <<>>
  BY <1>0, Contents DEF Filled, Window, Entry
<1>2. NoRepeats((e \o q) \o <<>>, inflight)
  BY <1>0, <1>1 DEF QueueInv, WindowInv
<1>3. Len(q) < QueueNum
  <2>1. (e \o q) \o <<>> \in Seq(Entry) /\ Len((e \o q) \o <<>>) = Len(e) + Len(q) + Len(<<>>)
    BY <1>0, <1>1, <1>2, WindowParts
  <2>2. Len((e \o q) \o <<>>) < QueueNum
    BY <1>0, <1>2, <2>1, RoomLeft
  <2>3. Len(e) \in Nat /\ Len(q) \in Nat /\ Len(<<>>) = 0 /\ QueueNum \in Nat
    BY <1>1, VirtioAssumption
  <2>4. QED
    BY <2>1, <2>2, <2>3
<1>4. Queued' = q /\ Reported' = e
  <2>1. Queued' = Between([availRing EXCEPT ![Slot(availIdx)] = t], usedIdx, availIdx)
    BY <1>0 DEF Queued
  <2>2. Apart(usedIdx, availIdx) < QueueNum
    BY <1>3, Contents
  <2>3. Queued' = q
    BY <1>1, <2>1, <2>2, Contents, BetweenKeep DEF Queued
  <2>4. QED
    BY <1>0, <2>3 DEF Reported
<1>5. Filled' = <<t>>
  BY <1>0, Contents DEF Filled, Rings
<1>6. Window' = Append((e \o q) \o <<>>, t)
  BY <1>1, <1>4, <1>5, WindowLemmas DEF Window
<1>7. WindowInv'
  <2>1. (e \o q) \o <<>> \in Seq(Entry) /\ t \in Tag \ inflight
    BY <1>0, <1>1, <1>2, WindowParts
  <2>2. QED
    BY <1>0, <1>2, <1>6, <2>1, FreshKept DEF WindowInv
<1>8. LiveInv' /\ TaskInv' /\ ServedInv'
  <2>1. LiveInv'
    BY <1>0 DEF LiveInv
  <2>2. TaskInv'
    BY <1>0, <1>4 DEF QueueInv, TaskInv
  <2>3. ServedInv'
    BY <1>0, <1>4 DEF QueueInv, ServedInv
  <2>4. QED
    BY <2>1, <2>2, <2>3
<1>9. QueueInv'
  BY <1>7, <1>8 DEF QueueInv
<1>10. QED
  BY <1>0, <1>4, <1>9, Mapping, MappingNext

\* The new index submits it.
LEMMA PublishQueue ==
  ASSUME TypeOK, QueueInv, PublishAvail
  PROVE  QueueInv' /\ \E r \in Tag : Disk!Submit(r)
<1> DEFINE e == Reported
           q == Queued
           r == availRing[Slot(availIdx)]
<1>0. /\ drv = "publish" /\ drv' = "kick" /\ live /\ live' /\ inflight \in SUBSET Tag
      /\ availIdx' = Succ(availIdx) /\ served' = served \ {r}
      /\ UNCHANGED <<availRing, usedRing, usedIdx, lastUsed, pc0, cur, lastAvail, live, inflight>>
  BY DEF PublishAvail, device, QueueInv, LiveInv, TypeOK
<1>1. /\ e \in Seq(Entry) /\ q \in Seq(Entry) /\ <<r>> \in Seq(Entry) /\ r \in Entry
      /\ Filled = <<r>> /\ Window = (e \o q) \o <<r>>
  BY <1>0, Contents DEF Filled, Window, Rings
<1>2. NoRepeats((e \o q) \o <<r>>, inflight)
  BY <1>0, <1>1 DEF QueueInv, WindowInv
<1>3. /\ Len(q) < IndexSize - 1
      /\ r \in Tag
      /\ \A i \in 1..Len(q) : q[i] # r
      /\ \A i \in 1..Len(e) : e[i] # r
  <2>0. Len(<<r>>) = 1 /\ <<r>>[1] = r
    OBVIOUS
  <2>1. /\ (e \o q) \o <<r>> \in Seq(Entry)
        /\ Len((e \o q) \o <<r>>) = Len(e) + Len(q) + Len(<<r>>)
        /\ \A i \in 1..Len(q), j \in 1..Len(<<r>>) : q[i] # <<r>>[j]
        /\ \A i \in 1..Len(e), j \in 1..Len(<<r>>) : e[i] # <<r>>[j]
        /\ \A j \in 1..Len(<<r>>) : <<r>>[j] \in inflight
    <3> DEFINE f == <<r>>
    <3>1. NoRepeats((e \o q) \o f, inflight) /\ f \in Seq(Entry)
      BY <1>1, <1>2
    <3> HIDE DEF e, q, r, f
    <3>2. /\ (e \o q) \o f \in Seq(Entry)
          /\ Len((e \o q) \o f) = Len(e) + Len(q) + Len(f)
          /\ \A i \in 1..Len(q), j \in 1..Len(f) : q[i] # f[j]
          /\ \A i \in 1..Len(e), j \in 1..Len(f) : e[i] # f[j]
          /\ \A j \in 1..Len(f) : f[j] \in inflight
      BY <1>0, <1>1, <3>1, WindowParts
    <3>3. QED
      BY <3>2 DEF f
  <2>2. Len((e \o q) \o <<r>>) <= QueueNum
    BY <1>0, <1>2, <2>1, RoomLeft
  <2>3. Len(e) \in Nat /\ Len(q) \in Nat /\ QueueNum \in Nat /\ IndexSize \in Nat /\ QueueNum < IndexSize
    BY <1>1, VirtioAssumption
  <2>4. Len(q) < IndexSize - 1
    BY <2>0, <2>1, <2>2, <2>3
  <2>5. 1 \in 1..Len(<<r>>)
    BY <2>0
  <2>6. QED
    BY <1>0, <2>0, <2>1, <2>4, <2>5
<1>4. Queued' = Append(q, r) /\ Reported' = e /\ Filled' = <<>>
  <2>1. Queued' = Between(availRing, usedIdx, Succ(availIdx))
    BY <1>0 DEF Queued
  <2>2. Apart(usedIdx, availIdx) < IndexSize - 1
    BY <1>3, Contents
  <2>3. Queued' = Append(q, r)
    BY <2>1, <2>2, Contents, BetweenAppend DEF Queued
  <2>4. QED
    BY <1>0, <2>3 DEF Reported, Filled
<1>5. WindowInv'
  <2>1. Window' = (e \o q) \o <<r>>
    BY <1>1, <1>4, WindowLemmas DEF Window
  <2>2. QED
    BY <1>0, <1>2, <2>1 DEF WindowInv
<1> HIDE DEF e, q, r
<1>6. /\ Len(Append(q, r)) = Len(q) + 1 /\ Len(q) \in Nat /\ Append(q, r)[Len(q) + 1] = r
      /\ \A k \in 1..Len(q) : Append(q, r)[k] = q[k]
      /\ q # <<>> => Head(q) = q[1] /\ 1 \in 1..Len(q)
      /\ Append(q, r) # <<>> /\ (q # <<>> => Head(Append(q, r)) = Head(q))
  <2>1. q \in Seq(Entry) /\ r \in Entry
    BY <1>1
  <2>2. q # <<>> => Head(q) = q[1] /\ 1 \in 1..Len(q)
    BY <2>1
  <2>3. /\ Len(Append(q, r)) = Len(q) + 1 /\ Len(q) \in Nat /\ Append(q, r)[Len(q) + 1] = r
        /\ \A k \in 1..Len(q) : Append(q, r)[k] = q[k]
        /\ Append(q, r) # <<>>
    BY <2>1, AppendProperties
  <2>4. q # <<>> => Head(Append(q, r)) = Head(q)
    BY <2>1, HeadTailAppend
  <2>5. QED
    BY <2>2, <2>3, <2>4
<1>7. ServedInv'
  <2>1. ASSUME NEW k \in 1..Len(Append(q, r)), Append(q, r)[k] \in served'
        PROVE  k = 1 /\ pc0 \in {"entry", "index"}
    <3>1. k # Len(q) + 1
      BY <1>0, <1>6, <2>1
    <3>2. k \in 1..Len(q) /\ q[k] \in served
      BY <1>0, <1>6, <2>1, <3>1
    <3>3. QED
      BY <1>0, <3>2 DEF QueueInv, ServedInv, q
  <2>2. QED
    BY <1>0, <1>4, <2>1 DEF ServedInv
<1>8. TaskInv'
  <2>1. ASSUME pc0 \in {"perform", "entry", "index"}
        PROVE  Queued' # <<>> /\ cur = Head(Queued') /\ cur # r
    <3>1. q # <<>> /\ cur = Head(q)
      BY <1>0, <2>1 DEF QueueInv, TaskInv, q
    <3>2. QED
      BY <1>3, <1>4, <1>6, <3>1
  <2>2. QED
    BY <1>0, <2>1 DEF QueueInv, TaskInv
<1>9. QueueInv'
  BY <1>0, <1>5, <1>7, <1>8 DEF QueueInv, LiveInv
<1>10. Disk!Submit(r)
  <2>1. /\ Unserved = q /\ Uncollected = e
        /\ Unserved' = Append(q, r) /\ Uncollected' = e
    BY <1>0, <1>4, <1>9, Mapping, MappingNext DEF q, e
  <2>2. r \notin Disk!Busy
    BY <1>3, <2>1 DEF Disk!Busy
  <2>3. QED
    BY <1>0, <2>1, <2>2 DEF Disk!Submit
<1>11. QED
  BY <1>3, <1>9, <1>10

\* The driver collects the oldest report, or finds none.
LEMMA GetBufQueue ==
  ASSUME TypeOK, QueueInv, GetBuf
  PROVE  QueueInv' /\ (Disk!Collect \/ UNCHANGED <<Unserved, Uncollected, served>>)
<1> DEFINE e == Reported
           q == Queued
<1>0. /\ drv = "reap" /\ drv' \in {"reap", "eoi"} /\ live /\ live' /\ inflight \in SUBSET Tag
      /\ UNCHANGED <<ring, pc0, cur, lastAvail, live, served, kick>>
  BY DEF GetBuf, device, core0, ring, QueueInv, LiveInv, TypeOK
<1>1. CASE lastUsed = usedIdx
  <2>1. UNCHANGED <<inflight, lastUsed>>
    BY <1>1 DEF GetBuf
  <2>2. TaskInv'
    BY <1>0 DEF QueueInv, TaskInv, Queued, ring
  <2>3. QED
    BY <1>0, <2>1, <2>2, QuietStep
<1>2. CASE lastUsed # usedIdx
  <2>1. /\ lastUsed' = Succ(lastUsed)
        /\ inflight' = inflight \ {usedRing[Slot(lastUsed)]}
    BY <1>2 DEF GetBuf
  <2>2. /\ Reported' = Tail(e) /\ e # <<>> /\ Head(e) = usedRing[Slot(lastUsed)]
        /\ Queued' = q /\ Filled' = Filled
    BY <1>0, <1>2, <2>1, Contents, BetweenTail DEF Reported, Queued, Filled, ring
  <2>3. /\ e \in Seq(Entry) /\ q \in Seq(Entry) /\ Filled \in Seq(Entry)
        /\ NoRepeats((e \o q) \o Filled, inflight)
    BY <1>0, Contents DEF QueueInv, WindowInv, Window
  <2>4. (e \o q) \o Filled \in Seq(Entry)
    BY <1>0, <2>3, WindowParts
  <2>5. /\ (Tail(e) \o q) \o Filled = Tail((e \o q) \o Filled)
        /\ (e \o q) \o Filled # <<>>
        /\ Head((e \o q) \o Filled) = Head(e)
    BY <2>2, <2>3, WindowTake
  <2>6. NoRepeats((Tail(e) \o q) \o Filled, inflight \ {Head(e)})
    BY <1>0, <2>3, <2>4, <2>5, OldestGone
  <2>7. WindowInv'
    BY <2>1, <2>2, <2>6 DEF WindowInv, Window
  <2>8. TaskInv' /\ ServedInv' /\ LiveInv'
    BY <1>0, <2>2 DEF QueueInv, TaskInv, ServedInv, LiveInv, ring
  <2>9. QueueInv'
    BY <2>7, <2>8 DEF QueueInv
  <2>10. Disk!Collect
    BY <1>0, <2>2, <2>9, Mapping, MappingNext DEF Disk!Collect
  <2>11. QED
    BY <2>9, <2>10
<1>3. QED
  BY <1>1, <1>2

\* The transfer performs the head of the queue.
LEMMA PerformQueue ==
  ASSUME TypeOK, QueueInv, DoRequest
  PROVE  QueueInv' /\ Disk!Perform
<1> DEFINE q == Queued
<1>0. /\ pc0 = "perform" /\ pc0' = "entry" /\ live /\ live'
      /\ served' = served \cup {cur}
      /\ UNCHANGED <<ring, inflight, lastUsed, drv, cur, lastAvail, live, kick>>
  BY DEF DoRequest, device, driver, ring, QueueInv, LiveInv
<1>1. Queued' = q /\ Reported' = Reported /\ Window' = Window
  BY <1>0 DEF Queued, Reported, Filled, Window, ring
<1>2. /\ q \in Seq(Entry) /\ q # <<>> /\ cur = Head(q)
  BY <1>0, Contents DEF QueueInv, TaskInv
<1>3. \A i, j \in 1..Len(q) : i # j => q[i] # q[j]
  BY <1>0, Contents, WindowParts DEF QueueInv, WindowInv, Window, TypeOK
<1>4. \A k \in 1..Len(q) : q[k] \notin served
  BY <1>0 DEF QueueInv, ServedInv
<1> HIDE DEF q
<1>5. Head(q) = q[1] /\ 1 \in 1..Len(q)
  BY <1>2
<1>6. ServedInv'
  BY <1>0, <1>1, <1>2, <1>3, <1>4, <1>5 DEF ServedInv
<1>7. LiveInv' /\ TaskInv' /\ WindowInv'
  BY <1>0, <1>1, <1>2 DEF QueueInv, LiveInv, TaskInv, WindowInv, ring, q
<1>8. QueueInv'
  BY <1>6, <1>7 DEF QueueInv
<1>9. /\ Unserved = q /\ Unserved' = q /\ UNCHANGED Uncollected
  BY <1>0, <1>1, <1>8, Mapping, MappingNext DEF q
<1>10. QED
  BY <1>0, <1>2, <1>4, <1>5, <1>8, <1>9 DEF Disk!Perform

\* The used entry is written outside what is reported.
LEMMA EntryQueue ==
  ASSUME TypeOK, QueueInv, WriteUsedEntry
  PROVE  QueueInv' /\ UNCHANGED <<Unserved, Uncollected, served>>
<1> DEFINE e == Reported
           q == Queued
<1>0. /\ pc0 = "entry" /\ pc0' = "index" /\ live /\ live' /\ inflight \in SUBSET Tag
      /\ usedRing' = [usedRing EXCEPT ![Slot(usedIdx)] = cur] /\ cur \in Entry
      /\ UNCHANGED <<availRing, availIdx, usedIdx, inflight, lastUsed, drv, cur, lastAvail, live, served, kick>>
  BY DEF WriteUsedEntry, device, driver, QueueInv, LiveInv, TypeOK, Entry
<1>1. /\ e \in Seq(Entry) /\ q \in Seq(Entry) /\ Filled \in Seq(Entry)
      /\ NoRepeats((e \o q) \o Filled, inflight) /\ q # <<>>
  BY <1>0, Contents DEF QueueInv, WindowInv, Window, TaskInv
<1>2. Len(e) < QueueNum
  <2>1. (e \o q) \o Filled \in Seq(Entry) /\ Len((e \o q) \o Filled) = Len(e) + Len(q) + Len(Filled)
    BY <1>0, <1>1, WindowParts
  <2>2. Len((e \o q) \o Filled) <= QueueNum
    BY <1>0, <1>1, <2>1, RoomLeft
  <2>3. Len(e) \in Nat /\ Len(q) \in Nat /\ Len(q) > 0 /\ Len(Filled) \in Nat /\ QueueNum \in Nat
    BY <1>1, VirtioAssumption
  <2>4. QED
    BY <2>1, <2>2, <2>3
<1>3. Reported' = e /\ Queued' = q /\ Filled' = Filled /\ Window' = Window
  <2>1. Reported' = Between([usedRing EXCEPT ![Slot(usedIdx)] = cur], lastUsed, usedIdx)
    BY <1>0 DEF Reported
  <2>2. Apart(lastUsed, usedIdx) < QueueNum
    BY <1>2, Contents
  <2>3. Reported' = e
    BY <1>0, <2>1, <2>2, Contents, BetweenKeep DEF Reported
  <2>4. Queued' = q /\ Filled' = Filled
    BY <1>0 DEF Queued, Filled
  <2>5. QED
    BY <2>3, <2>4 DEF Window
<1>4. usedRing'[Slot(usedIdx)] = cur
  BY <1>0, Contents DEF Rings
<1>5. TaskInv'
  BY <1>0, <1>3, <1>4 DEF QueueInv, TaskInv
<1>6. QueueInv'
  BY <1>0, <1>3, <1>5 DEF QueueInv, LiveInv, WindowInv, ServedInv
<1>7. QED
  BY <1>0, <1>3, <1>6, Mapping, MappingNext

\* The new used index completes the request, before last_avail passes it.
LEMMA CompleteQueue ==
  ASSUME TypeOK, QueueInv, BumpUsedIdx
  PROVE  QueueInv' /\ Disk!Complete
<1> DEFINE e == Reported
           q == Queued
<1>0. /\ pc0 = "index" /\ pc0' = "advance" /\ live /\ live' /\ inflight \in SUBSET Tag
      /\ usedIdx' = Succ(usedIdx) /\ usedIdx = lastAvail /\ usedRing[Slot(usedIdx)] = cur
      /\ q # <<>> /\ cur = Head(q) /\ cur \in served
      /\ UNCHANGED <<availRing, availIdx, usedRing, inflight, lastUsed, drv, cur, lastAvail, live, served, kick>>
  BY DEF BumpUsedIdx, device, driver, QueueInv, LiveInv, TaskInv, TypeOK
<1>1. /\ e \in Seq(Entry) /\ q \in Seq(Entry) /\ Filled \in Seq(Entry)
      /\ NoRepeats((e \o q) \o Filled, inflight)
  BY <1>0, Contents DEF QueueInv, WindowInv, Window
<1>2. Len(e) < IndexSize - 1
  <2>1. (e \o q) \o Filled \in Seq(Entry) /\ Len((e \o q) \o Filled) = Len(e) + Len(q) + Len(Filled)
    BY <1>0, <1>1, WindowParts
  <2>2. Len((e \o q) \o Filled) <= QueueNum
    BY <1>0, <1>1, <2>1, RoomLeft
  <2>3. /\ Len(e) \in Nat /\ Len(q) \in Nat /\ Len(q) > 0 /\ Len(Filled) \in Nat
        /\ QueueNum \in Nat /\ IndexSize \in Nat /\ QueueNum < IndexSize
    BY <1>0, <1>1, VirtioAssumption
  <2>4. QED
    BY <2>1, <2>2, <2>3
<1>3. Reported' = Append(e, Head(q)) /\ Queued' = Tail(q) /\ Filled' = Filled
  <2>1. Reported' = Between(usedRing, lastUsed, Succ(usedIdx))
    BY <1>0 DEF Reported
  <2>2. Apart(lastUsed, usedIdx) < IndexSize - 1
    BY <1>2, Contents
  <2>3. Reported' = Append(e, Head(q))
    BY <1>0, <2>1, <2>2, Contents, BetweenAppend DEF Reported
  <2>4. Queued' = Between(availRing, Succ(usedIdx), availIdx)
    BY <1>0 DEF Queued
  <2>5. usedIdx # availIdx
    <3>1. Len(q) # 0
      BY <1>0, <1>1
    <3>2. Apart(usedIdx, availIdx) # 0
      BY <3>1, Contents
    <3>3. QED
      BY <3>2, Contents, VirtioAssumption DEF Apart, Index
  <2>6. Queued' = Tail(q)
    BY <2>4, <2>5, Contents, BetweenTail DEF Queued
  <2>7. QED
    BY <1>0, <2>3, <2>6 DEF Filled
<1>4. WindowInv'
  <2>1. Window' = (e \o q) \o Filled
    BY <1>0, <1>1, <1>3, WindowLemmas DEF Window
  <2>2. QED
    BY <1>0, <1>1, <2>1 DEF WindowInv
<1>5. ServedInv'
  <2>1. \A k \in 1..Len(Tail(q)) : Tail(q)[k] = q[k + 1] /\ k + 1 \in 1..Len(q) /\ k + 1 # 1
    BY <1>0, <1>1
  <2>2. \A k \in 1..Len(q) : q[k] \in served => k = 1
    BY <1>0 DEF QueueInv, ServedInv
  <2> HIDE DEF q
  <2>3. QED
    BY <1>0, <1>3, <2>1, <2>2 DEF ServedInv
<1>6. LiveInv' /\ TaskInv'
  BY <1>0 DEF QueueInv, LiveInv, TaskInv
<1>7. QueueInv'
  BY <1>4, <1>5, <1>6 DEF QueueInv
<1>8. /\ Unserved = q /\ Uncollected = e
      /\ Unserved' = Tail(q) /\ Uncollected' = Append(e, Head(q))
  BY <1>0, <1>3, <1>7, Mapping, MappingNext
<1>9. QED
  BY <1>0, <1>7, <1>8 DEF Disk!Complete

\* Bringing an idle queue up or down is no step of the disk.
LEMMA LifecycleQueue ==
  ASSUME QuietReset, TypeOK, QueueInv, Lifecycle
  PROVE  QueueInv' /\ UNCHANGED <<Unserved, Uncollected, served>>
<1> USE DEF driver, device, core0, ring
<1>1. CASE WriteQueuePfn
  <2>0. /\ ~live /\ live' /\ inflight = {} /\ inflight' = {} /\ pc0' = "idle"
        /\ drv' = "run" /\ availIdx' = 0 /\ usedIdx' = 0 /\ lastUsed' = 0 /\ lastAvail' = 0
        /\ availRing' = EmptyRing /\ usedRing' = EmptyRing /\ UNCHANGED served
    BY <1>1 DEF WriteQueuePfn, QueueInv, LiveInv
  <2>1. EmptyRing \in Rings /\ 0 \in Index /\ Apart(0, 0) = 0
    BY VirtioAssumption DEF EmptyRing, Rings, Entry, Index, Apart
  <2>2. Between(EmptyRing, 0, 0) = <<>>
    BY <2>1, BetweenShape
  <2>3. Queued' = <<>> /\ Reported' = <<>> /\ Filled' = <<>>
    BY <2>0, <2>2 DEF Queued, Reported, Filled
  <2>4. Window' = <<>> /\ Len(<<>>) = 0
    BY <2>3 DEF Window
  <2>5. WindowInv' /\ ServedInv'
    BY <2>0, <2>3, <2>4, FS_EmptySet DEF WindowInv, ServedInv, NoRepeats
  <2>6. LiveInv' /\ TaskInv'
    BY <2>0 DEF LiveInv, TaskInv
  <2>7. QueueInv'
    BY <2>5, <2>6 DEF QueueInv
  <2>8. QED
    BY <2>0, <2>3, <2>7, Mapping, MappingNext
<1>2. CASE WriteStatusZero
  <2>0. /\ live /\ ~live' /\ inflight = {} /\ inflight' = {} /\ pc0' = "idle" /\ ~kick'
        /\ drv' = "reset" /\ UNCHANGED served
    BY <1>2 DEF WriteStatusZero, DeviceQuiet, QueueInv, LiveInv
  <2>1. Queued = <<>> /\ Reported = <<>>
    <3>1. /\ Reported \in Seq(Entry) /\ Queued \in Seq(Entry) /\ Filled \in Seq(Entry)
          /\ NoRepeats((Reported \o Queued) \o Filled, {})
      BY <2>0, Contents DEF QueueInv, WindowInv, Window
    <3>2. /\ (Reported \o Queued) \o Filled \in Seq(Entry)
          /\ Len((Reported \o Queued) \o Filled) = Len(Reported) + Len(Queued) + Len(Filled)
      BY <3>1, WindowParts
    <3>3. Len((Reported \o Queued) \o Filled) = 0
      BY <3>1, <3>2, RoomLeft
    <3>4. Len(Reported) \in Nat /\ Len(Queued) \in Nat /\ Len(Filled) \in Nat
      BY <3>1
    <3>5. Len(Reported) = 0 /\ Len(Queued) = 0
      BY <3>2, <3>3, <3>4
    <3>6. QED
      BY <3>1, <3>5
  <2>2. QueueInv'
    BY <2>0 DEF QueueInv, LiveInv, TaskInv, WindowInv, ServedInv
  <2>3. QED
    BY <2>0, <2>1, <2>2, Mapping, MappingNext
<1>3. CASE WriteQueuePfnZero
  <2>0. /\ ~live /\ ~live' /\ inflight = {} /\ inflight' = {} /\ pc0' = "idle" /\ ~kick'
        /\ drv' = "down" /\ UNCHANGED served
    BY <1>3 DEF WriteQueuePfnZero, QueueInv, LiveInv
  <2>1. QueueInv'
    BY <2>0 DEF QueueInv, LiveInv, TaskInv, WindowInv, ServedInv
  <2>2. QED
    BY <2>0, <2>1, Mapping, MappingNext
<1>4. QED
  BY <1>1, <1>2, <1>3 DEF Lifecycle

\* Every step keeps the invariant and is a step of the disk, or none.
LEMMA QueueStep ==
  ASSUME QuietReset, TypeOK, QueueInv, [Next]_vars
  PROVE  QueueInv' /\ [Disk!Next]_<<Unserved, Uncollected, served>>
<1> USE DEF Disk!Next
<1>1. CASE Submit
  BY <1>1, FillQueue DEF Submit
<1>2. CASE Finish
  BY <1>2, PublishQueue, HandlerQueue DEF Finish
<1>3. CASE Handler
  BY <1>3, GetBufQueue, HandlerQueue DEF Handler
<1>4. CASE Lifecycle
  BY <1>4, LifecycleQueue
<1>5. CASE Core1Poll
  BY <1>5, HandlerQueue
<1>6. CASE Core0
  BY <1>6, TaskQueue, PerformQueue, EntryQueue, CompleteQueue DEF Core0
<1>7. CASE UNCHANGED vars
  BY <1>7 DEF vars, QueueInv, LiveInv, TaskInv, WindowInv, ServedInv, Queued, Reported,
     Filled, Window, NoRepeats, Unserved, Uncollected
<1>8. QED
  BY <1>1, <1>2, <1>3, <1>4, <1>5, <1>6, <1>7 DEF Next

\* The rings, indices and flags implement the disk, for every ring size, index size
\* and number of requests, if the driver resets only an idle device: each request
\* performed before it is reported, reported once, in order, and collected once
\* (blk_service, hyp_virtio_blk.c:323-353).
THEOREM RingsImplementDisk == QuietReset => (Spec => ImplementsDisk)
<1>1. Init => QueueInv
  BY DEF Init, QueueInv, LiveInv, TaskInv, WindowInv, ServedInv
<1>2. Init => Disk!Init
  BY DEF Init, Disk!Init, Unserved, Uncollected
<1>3. QuietReset /\ TypeOK /\ QueueInv /\ [Next]_vars => QueueInv'
  BY QueueStep
<1>4. QuietReset /\ TypeOK /\ QueueInv /\ [Next]_vars => [Disk!Next]_<<Unserved, Uncollected, served>>
  BY QueueStep
<1>5. Spec => []TypeOK
  BY TypeCorrect
<1>6. ASSUME QuietReset PROVE Spec => ImplementsDisk
  <2>1. TypeOK /\ QueueInv /\ [Next]_vars => QueueInv'
    BY <1>3, <1>6
  <2>2. TypeOK /\ QueueInv /\ [Next]_vars => [Disk!Next]_<<Unserved, Uncollected, served>>
    BY <1>4, <1>6
  <2>3. QED
    BY <1>1, <1>2, <1>5, <2>1, <2>2, PTL DEF Spec, ImplementsDisk, Disk!Spec
<1>7. QED
  BY <1>6

-----------------------------------------------------------------------------
(* One request: what success and the reported length mean *)

\* A request under way, and one that reported success.
Going == pc \in {"walk", "transfer"}
Success == pc = "done" /\ statusByte = S_OK
Moves == req.type \in {T_IN, T_OUT}

\* The sectors moved of the descriptor in hand, and all guest memory moved.
Here == IF pc = "transfer" THEN off ELSE 0
SoFar == {c \in Cells : \/ c[1] < seg /\ c[2] < Len512(c[1])
                        \/ c[1] = seg /\ c[2] < Here}

\* The first sector as the code has it, and what the code's sector numbers make of
\* each sector of guest memory.
First == req.sector % SectorMod
Place(c) == First + starts[c[1]] \div SectorLen + c[2]

\* The types of a request's state.
RequestTypes ==
  /\ req.type \in Nat /\ req.sector \in Nat
  /\ req.segs \in Seq(Nat) /\ Len(req.segs) <= MaxSegments
  /\ seg \in 1..Len(req.segs) + 1 /\ off \in Nat
  /\ sector \in 0..SectorMod - 1 /\ written \in Nat
  /\ starts \in Seq(Nat) /\ Len(starts) = seg
  /\ mem = [c \in Cells |-> mem[c]] /\ card = [n \in 0..CardSectors - 1 |-> card[n]]
  /\ pc \in {"start", "walk", "transfer", "done"}

\* Where the walk is.
WalkInv ==
  /\ pc = "start" => /\ seg = 1 /\ written = 0
                     /\ mem = GuestData /\ card = OldCard
  /\ pc = "transfer" => /\ Moves /\ seg <= Len(req.segs) /\ off <= Len512(seg)
                        /\ off > 0 => sector + off <= CardSectors
  /\ statusByte = S_OK => pc = "done" /\ seg = Len(req.segs) + 1

\* How far the data goes, in the request, on the card and in the length reported.
CountInv ==
  /\ starts[1] = 0
  /\ \A s \in 1..seg - 1 : starts[s + 1] = starts[s] + req.segs[s]
  /\ Going \/ Success =>
       written = (IF Success THEN 1 ELSE 0)
                 + IF req.type \in {T_IN, T_GET_ID} THEN starts[seg] ELSE 0
  /\ Moves /\ (Going \/ Success) =>
       /\ \A s \in 1..seg : starts[s] % SectorLen = 0
       /\ pc = "transfer" => req.segs[seg] % SectorLen = 0
       /\ sector = First + starts[seg] \div SectorLen

\* What has been moved, and that nothing else was touched.
DataInv ==
  Going \/ Success =>
    /\ req.type # T_OUT => card = OldCard
    /\ req.type = T_IN =>
         /\ \A c \in Cells : mem[c] = IF c \in SoFar THEN OldCard[Place(c)] ELSE GuestData[c]
         /\ \A c \in SoFar : Place(c) \in 0..CardSectors - 1
    /\ req.type = T_OUT =>
         /\ mem = GuestData
         /\ \A c \in SoFar : /\ Place(c) \in 0..CardSectors - 1 /\ Place(c) < sector + Here
                             /\ card[Place(c)] = GuestData[c]
         /\ \A n \in 0..CardSectors - 1 :
              card[n] = OldCard[n] \/ \E c \in SoFar : Place(c) = n

\* The inductive invariant of a request.
RequestInv == RequestTypes /\ WalkInv /\ CountInv /\ DataInv

\* Guest memory is addressed by pairs.
LEMMA CellShape ==
  /\ \A c \in Cells : c[1] \in 1..MaxSegments /\ c[2] \in 0..CardSectors /\ c = <<c[1], c[2]>>
  /\ \A s \in 1..MaxSegments, k \in 0..CardSectors : <<s, k>> \in Cells
  BY DEF Cells

\* A number narrowed to the code's width.
LEMMA Narrowed ==
  /\ SectorMod \in Nat /\ CardSectors \in Nat /\ CardSectors < SectorMod /\ 0 < SectorMod
  /\ \A n \in Nat : /\ n % SectorMod \in 0..SectorMod - 1
                   /\ n < SectorMod => n % SectorMod = n
<1>1. SectorMod \in Nat /\ CardSectors \in Nat /\ CardSectors < SectorMod
  BY BlkAssumption
<1> DEFINE w == SectorMod
<1>2. w \in Nat /\ 0 < w
  BY <1>1
<1> HIDE DEF w
<1>3. \A n \in Nat : n % w \in 0..w - 1 /\ (n < w => n % w = n)
  BY <1>2
<1>4. QED
  BY <1>1, <1>2, <1>3 DEF w

LEMMA FirstShape ==
  /\ RequestTypes => /\ First \in 0..SectorMod - 1 /\ First \in Nat
                     /\ req.sector < SectorMod => First = req.sector
  /\ UNCHANGED req => First' = First
<1>1. ASSUME RequestTypes
      PROVE  /\ First \in 0..SectorMod - 1 /\ First \in Nat
             /\ req.sector < SectorMod => First = req.sector
  <2> DEFINE r == req.sector
  <2>1. r \in Nat /\ First = r % SectorMod
    BY <1>1 DEF RequestTypes, First
  <2> HIDE DEF r
  <2>2. First \in 0..SectorMod - 1 /\ (r < SectorMod => First = r)
    BY <2>1, Narrowed
  <2>3. QED
    BY <2>2, Narrowed DEF r
<1>2. UNCHANGED req => First' = First
  BY DEF First
<1>3. QED
  BY <1>1, <1>2

LEMMA InitRequestInv == RequestInit => RequestInv
<1> SUFFICES ASSUME RequestInit PROVE RequestInv
  OBVIOUS
<1>1. req.type \in Nat /\ req.sector \in Nat /\ req.segs \in SeqOf(Lengths, MaxSegments)
  BY BlkAssumption DEF RequestInit, Requests
<1>2. PICK m \in 0..MaxSegments : req.segs \in [1..m -> Lengths]
  BY <1>1 DEF SeqOf
<1>3. req.segs \in Seq(Nat) /\ Len(req.segs) = m
  <2> DEFINE q == req.segs
  <2>1. q \in [1..m -> Lengths]
    BY <1>2
  <2> HIDE DEF q
  <2>2. q \in [1..m -> Nat]
    BY <2>1, BlkAssumption
  <2>3. q \in Seq(Nat) /\ Len(q) = m
    BY <2>2
  <2>4. QED
    BY <2>3 DEF q
<1>4. <<0>> \in Seq(Nat) /\ Len(<<0>>) = 1 /\ <<0>>[1] = 0
  OBVIOUS
<1>5. RequestTypes
  BY <1>1, <1>2, <1>3, <1>4, BlkAssumption, Narrowed
     DEF RequestInit, RequestTypes, GuestData, OldCard
<1>6. WalkInv
  BY DEF RequestInit, WalkInv, S_OK, Stale
<1>7. CountInv /\ DataInv
  BY <1>4 DEF RequestInit, CountInv, DataInv, Going, Success
<1>8. QED
  BY <1>5, <1>6, <1>7 DEF RequestInv

\* What a sequence of naturals holds.
LEMMA NatAt == ASSUME NEW q \in Seq(Nat), NEW i \in 1..Len(q) PROVE q[i] \in Nat
  OBVIOUS

\* A descriptor's sectors, and its bytes when they are whole sectors.
LEMMA LenShape ==
  ASSUME RequestTypes, NEW s \in 1..Len(req.segs)
  PROVE  /\ req.segs[s] \in Nat /\ Len512(s) \in Nat
         /\ req.segs[s] % SectorLen = 0 => req.segs[s] = 2 * Len512(s)
<1> DEFINE w == req.segs[s]
<1>1. w \in Nat
  BY NatAt DEF RequestTypes
<1> HIDE DEF w
<1>2. w \div 2 \in Nat /\ (w % 2 = 0 => w = 2 * (w \div 2))
  BY <1>1
<1>3. QED
  BY <1>1, <1>2 DEF w, Len512, SectorLen

\* A step that ends the request without success.
LEMMA EndsStep ==
  ASSUME RequestInv, RequestTypes', pc' = "done", statusByte # S_OK,
         UNCHANGED <<req, seg, starts, statusByte>>
  PROVE  RequestInv'
<1>1. ~Going' /\ ~Success'
  BY DEF Going, Success
<1>2. WalkInv'
  BY DEF WalkInv
<1>3. CountInv' /\ DataInv'
  BY <1>1 DEF RequestInv, CountInv, DataInv
<1>4. QED
  BY <1>2, <1>3 DEF RequestInv

\* The walk begins.
LEMMA HeaderStep ==
  ASSUME RequestInv, ReadHeader
  PROVE  RequestInv'
<1>1. /\ pc = "start" /\ pc' \in {"walk", "done"} /\ sector' = First
      /\ UNCHANGED <<req, seg, off, written, statusByte, mem, card, starts>>
  BY DEF ReadHeader, First
<1>2. seg = 1 /\ written = 0 /\ mem = GuestData /\ card = OldCard /\ statusByte # S_OK
  BY <1>1 DEF RequestInv, WalkInv
<1>3. RequestTypes' /\ First \in Nat /\ First' = First
  <2>1. First \in 0..SectorMod - 1 /\ First \in Nat /\ First' = First
    BY <1>1, FirstShape DEF RequestInv
  <2>2. QED
    BY <1>1, <2>1 DEF RequestInv, RequestTypes
<1>4. CASE pc' = "done"
  BY <1>1, <1>2, <1>3, <1>4, EndsStep
<1>5. CASE pc' = "walk"
  <2>1. WalkInv' /\ ~Success' /\ ~Success
    BY <1>1, <1>2, <1>5 DEF WalkInv, Success
  <2>2. starts[1] = 0
    BY DEF RequestInv, CountInv
  <2>3. CountInv'
    BY <1>1, <1>2, <1>3, <1>5, <2>1, <2>2 DEF CountInv, SectorLen
  <2>4. SoFar' = {}
    BY <1>1, <1>2, <1>5, CellShape DEF SoFar, Here
  <2>5. DataInv'
    BY <1>1, <1>2, <2>4 DEF DataInv, OldCard
  <2>6. QED
    BY <1>3, <2>1, <2>3, <2>5 DEF RequestInv
<1>6. QED
  BY <1>1, <1>4, <1>5

\* The walk reaches the status descriptor, or goes into a transfer: no data moves.
LEMMA WalkStep ==
  ASSUME RequestInv, WalkEnd \/ WalkTransfer
  PROVE  RequestInv'
<1>1. /\ pc = "walk" /\ UNCHANGED <<req, seg, sector, mem, card, starts>>
      /\ statusByte # S_OK
  BY DEF WalkEnd, WalkTransfer, RequestInv, WalkInv
<1>2. CASE WalkEnd
  <2>1. /\ statusByte' = S_OK /\ written' = written + 1 /\ pc' = "done"
        /\ seg = Len(req.segs) + 1 /\ UNCHANGED off
    BY <1>2 DEF WalkEnd, RequestInv, RequestTypes
  <2>2. RequestTypes' /\ WalkInv'
    BY <1>1, <2>1 DEF RequestInv, RequestTypes, WalkInv
  <2>3. Going /\ Success' /\ ~Success /\ ~Going'
    BY <1>1, <2>1 DEF Going, Success
  <2>4. CountInv'
    BY <1>1, <2>1, <2>3, FirstShape DEF RequestInv, RequestTypes, CountInv, Moves
  <2>5. SoFar' = SoFar /\ Here' = Here /\ \A c : Place(c)' = Place(c)
    BY <1>1, <2>1 DEF SoFar, Here, Len512, Place, First
  <2>6. DataInv'
    BY <1>1, <2>3, <2>5 DEF RequestInv, DataInv
  <2>7. QED
    BY <2>2, <2>4, <2>6 DEF RequestInv
<1>3. CASE WalkTransfer
  <2>1. CASE req.segs[seg] % SectorLen # 0
    <3>1. pc' = "done" /\ UNCHANGED <<req, seg, off, sector, written, mem, card, starts, statusByte>>
      BY <1>3, <2>1 DEF WalkTransfer, Fail
    <3>2. RequestTypes'
      BY <3>1 DEF RequestInv, RequestTypes
    <3>3. QED
      BY <1>1, <3>1, <3>2, EndsStep
  <2>2. CASE req.segs[seg] % SectorLen = 0
    <3>1. pc' = "transfer" /\ off' = 0 /\ UNCHANGED <<written, statusByte>>
          /\ seg <= Len(req.segs) /\ Moves
      BY <1>3, <2>2 DEF WalkTransfer, Moves
    <3>2. seg \in 1..Len(req.segs)
      BY <3>1 DEF RequestInv, RequestTypes
    <3>3. RequestTypes' /\ WalkInv'
      BY <1>1, <3>1, <3>2, LenShape DEF RequestInv, RequestTypes, WalkInv, Moves, Len512
    <3>4. Going /\ Going' /\ ~Success /\ ~Success'
      BY <1>1, <3>1 DEF Going, Success
    <3>5. CountInv'
      BY <1>1, <2>2, <3>1, <3>4, FirstShape DEF RequestInv, CountInv, Moves
    <3>6. SoFar' = SoFar /\ Here' = Here /\ \A c : Place(c)' = Place(c)
      BY <1>1, <3>1 DEF SoFar, Here, Len512, Place, First
    <3>7. DataInv'
      BY <1>1, <3>4, <3>6 DEF RequestInv, DataInv
    <3>8. QED
      BY <3>3, <3>5, <3>7 DEF RequestInv
  <2>3. QED
    BY <2>1, <2>2
<1>4. QED
  BY <1>2, <1>3

\* The next descriptor starts where the one in hand ends.
LEMMA SegmentEffect ==
  ASSUME RequestTypes, NextSegment, seg <= Len(req.segs), UNCHANGED req
  PROVE  /\ seg' = seg + 1 /\ seg' \in 1..Len(req.segs) + 1
         /\ starts' \in Seq(Nat) /\ Len(starts') = seg'
         /\ \A s \in 1..seg : starts'[s] = starts[s] /\ starts[s] \in Nat
         /\ starts'[seg + 1] = starts[seg] + req.segs[seg]
<1>0. /\ starts \in Seq(Nat) /\ Len(starts) = seg /\ seg \in 1..Len(req.segs)
      /\ req.segs \in Seq(Nat) /\ seg \in 1..seg /\ seg \in Nat
  BY DEF RequestTypes
<1>1. /\ starts \in Seq(Nat) /\ Len(starts) = seg /\ seg \in 1..Len(req.segs)
      /\ starts[seg] \in Nat /\ req.segs[seg] \in Nat /\ seg \in Nat
  BY <1>0, NatAt
<1> DEFINE e == starts[seg] + req.segs[seg]
<1>2. e \in Nat /\ starts' = Append(starts, e) /\ seg' = seg + 1
  BY <1>1 DEF NextSegment
<1> HIDE DEF e
<1>3. /\ starts' \in Seq(Nat) /\ Len(starts') = seg + 1
      /\ \A s \in 1..seg : starts'[s] = starts[s] /\ starts[s] \in Nat
      /\ starts'[seg + 1] = e
  BY <1>1, <1>2
<1>4. QED
  BY <1>1, <1>2, <1>3 DEF e

\* The sums go on.
LEMMA SumsStep ==
  ASSUME RequestInv, NextSegment, seg <= Len(req.segs), UNCHANGED req
  PROVE  /\ starts'[1] = 0
         /\ \A s \in 1..seg' - 1 : starts'[s + 1] = starts'[s] + req.segs[s]
<1>1. /\ seg' = seg + 1 /\ \A s \in 1..seg : starts'[s] = starts[s]
      /\ starts'[seg + 1] = starts[seg] + req.segs[seg] /\ seg \in Nat /\ seg >= 1
  BY SegmentEffect DEF RequestInv, RequestTypes
<1>2. ASSUME NEW s \in 1..seg' - 1
      PROVE  starts'[s + 1] = starts'[s] + req.segs[s]
  <2>1. s \in 1..seg
    BY <1>1
  <2>2. CASE s = seg
    BY <1>1, <2>1, <2>2
  <2>3. CASE s # seg
    <3>1. s \in 1..seg - 1 /\ s + 1 \in 1..seg
      BY <1>1, <2>1, <2>3
    <3>2. starts[s + 1] = starts[s] + req.segs[s]
      BY <3>1 DEF RequestInv, CountInv
    <3>3. QED
      BY <1>1, <2>1, <3>1, <3>2
  <2>4. QED
    BY <2>2, <2>3
<1>3. starts'[1] = 0
  BY <1>1 DEF RequestInv, CountInv
<1>4. QED
  BY <1>2, <1>3

\* A descriptor that moves no sectors.
LEMMA SkipStep ==
  ASSUME RequestInv, WalkGetId \/ WalkFlush
  PROVE  RequestInv'
<1>1. /\ pc = "walk" /\ pc' = "walk" /\ seg <= Len(req.segs) /\ NextSegment
      /\ UNCHANGED <<req, off, sector, statusByte, card>>
      /\ ~Moves /\ req.type \notin {T_IN, T_OUT}
      /\ written' = IF req.type = T_GET_ID THEN written + req.segs[seg] ELSE written
      /\ mem' = [c \in Cells |-> mem'[c]]
  BY DEF WalkGetId, WalkFlush, Moves, T_IN, T_OUT, T_GET_ID, T_FLUSH, RequestInv, RequestTypes
<1>2. RequestTypes'
  <2>1. req.segs[seg] \in Nat
    BY <1>1, LenShape DEF RequestInv, RequestTypes
  <2>2. written' \in Nat
    BY <1>1, <2>1 DEF RequestInv, RequestTypes
  <2>3. /\ seg' \in 1..Len(req.segs) + 1 /\ starts' \in Seq(Nat) /\ Len(starts') = seg'
    BY <1>1, SegmentEffect DEF RequestInv
  <2>4. QED
    BY <1>1, <2>2, <2>3 DEF RequestInv, RequestTypes
<1>3. WalkInv' /\ statusByte # S_OK
  BY <1>1 DEF RequestInv, WalkInv
<1>4. Going /\ Going' /\ ~Success /\ ~Success'
  BY <1>1 DEF Going, Success
<1>5. CountInv'
  <2>0. seg \in 1..Len(req.segs) /\ RequestTypes
    BY <1>1 DEF RequestInv, RequestTypes
  <2>1. starts'[seg'] = starts[seg] + req.segs[seg] /\ starts[seg] \in Nat /\ req.segs[seg] \in Nat
    BY <1>1, <2>0, SegmentEffect, LenShape
  <2>2. written = IF req.type = T_GET_ID THEN starts[seg] ELSE 0
    BY <1>1, <1>4, <2>1 DEF RequestInv, CountInv
  <2>3. written' = IF req.type = T_GET_ID THEN starts'[seg'] ELSE 0
    BY <1>1, <2>1, <2>2
  <2>4. QED
    BY <1>1, <1>4, <2>1, <2>3, SumsStep DEF CountInv, Moves
<1>6. DataInv'
  BY <1>1, <1>4 DEF RequestInv, DataInv
<1>7. QED
  BY <1>2, <1>3, <1>5, <1>6 DEF RequestInv

\* A chunk lies on the descriptor and on the card, behind what has been moved.
LEMMA ChunkShape ==
  ASSUME RequestInv, pc = "transfer", off < Len512(seg), OnCard(Chunk)
  PROVE  /\ Moves /\ seg \in 1..Len(req.segs) /\ seg \in 1..MaxSegments
         /\ off \in Nat /\ Chunk \in Nat /\ Chunk > 0
         /\ off + Chunk <= Len512(seg)
         /\ sector \in Nat /\ sector + off + Chunk <= CardSectors
         /\ CardSectors \in Nat /\ From = sector + off
         /\ \A c \in Cells : c[1] = seg => Place(c) = sector + c[2]
<1>1. /\ Moves /\ seg \in 1..Len(req.segs) /\ off \in Nat /\ sector \in Nat
      /\ Len(req.segs) <= MaxSegments /\ MaxSegments \in Nat /\ CardSectors \in Nat
      /\ BounceSectors \in Nat \ {0} /\ Len(req.segs) \in Nat
  BY BlkAssumption DEF RequestInv, RequestTypes, WalkInv
<1>2. Len512(seg) \in Nat
  BY <1>1, LenShape DEF RequestInv
<1>3. Chunk \in Nat /\ Chunk > 0 /\ off + Chunk <= Len512(seg)
  BY <1>1, <1>2 DEF Chunk
<1>4. From = sector + off
  <2>1. sector < SectorMod /\ (off > 0 => sector + off <= CardSectors)
    BY <1>1, Narrowed DEF RequestInv, RequestTypes, WalkInv
  <2>2. sector + off \in Nat /\ sector + off < SectorMod
    BY <1>1, <2>1, Narrowed
  <2>3. QED
    BY <2>2, Narrowed DEF From
<1>5. sector + off + Chunk <= CardSectors
  BY <1>1, <1>4 DEF OnCard
<1>6. sector = First + starts[seg] \div SectorLen
  BY <1>1 DEF RequestInv, CountInv, Going
<1>7. QED
  BY <1>1, <1>3, <1>4, <1>5, <1>6 DEF Place

\* One bounce buffer of a read.
LEMMA ReadStep ==
  ASSUME RequestInv, ReadChunk
  PROVE  RequestInv'
<1>1. /\ pc = "transfer" /\ off < Len512(seg) /\ OnCard(Chunk) /\ req.type = T_IN
      /\ UNCHANGED <<req, pc, seg, sector, written, statusByte, card, starts>>
      /\ off' = off + Chunk
      /\ mem' = [c \in Cells |-> IF c[1] = seg /\ c[2] \in off..off + Chunk - 1
                                 THEN card[From + c[2] - off] ELSE mem[c]]
  BY DEF ReadChunk
<1> DEFINE n == off + Chunk
<1>0. /\ Moves /\ seg \in 1..Len(req.segs) /\ off \in Nat /\ Chunk \in Nat /\ Chunk > 0
      /\ off + Chunk <= Len512(seg) /\ sector \in Nat
      /\ sector + off + Chunk <= CardSectors /\ CardSectors \in Nat
      /\ From = sector + off
      /\ \A c \in Cells : c[1] = seg => Place(c) = sector + c[2]
  BY <1>1, ChunkShape
<1>2. /\ Moves /\ seg \in 1..Len(req.segs) /\ off \in Nat /\ n \in Nat /\ off < n
      /\ n <= Len512(seg) /\ sector \in Nat /\ sector + n <= CardSectors
      /\ CardSectors \in Nat
      /\ \A c \in Cells : c[1] = seg => Place(c) = sector + c[2]
  BY <1>0
<1>3. off' = n /\ \A k \in Int : k \in off..n - 1 <=> off <= k /\ k < n
  BY <1>1, <1>2
<1>4. mem' = [c \in Cells |-> IF c[1] = seg /\ c[2] \in off..n - 1
                              THEN card[sector + c[2]] ELSE mem[c]]
  <2>1. off + Chunk - 1 = n - 1
    BY <1>0
  <2>2. mem' = [c \in Cells |-> IF c[1] = seg /\ c[2] \in off..n - 1
                                THEN card[From + c[2] - off] ELSE mem[c]]
    BY <1>1, <2>1, Zenon
  <2>3. ASSUME NEW c \in Cells PROVE From + c[2] - off = sector + c[2]
    BY <1>0, CellShape, BlkAssumption, <2>3
  <2>4. QED
    BY <2>2, <2>3
<1> HIDE DEF n
<1>5. RequestTypes'
  <2>1. mem' = [c \in Cells |-> mem'[c]]
    BY <1>1
  <2>2. QED
    BY <1>1, <1>2, <1>3, <2>1 DEF RequestInv, RequestTypes
<1>6. WalkInv'
  BY <1>1, <1>2, <1>3 DEF RequestInv, WalkInv, Moves, Len512
<1>7. Going /\ Going' /\ ~Success /\ ~Success'
  BY <1>1 DEF Going, Success
<1>8. CountInv'
  BY <1>1, <1>7, FirstShape DEF RequestInv, CountInv, Moves
<1>9. ASSUME NEW c \in Cells
      PROVE  c \in SoFar' <=> c \in SoFar \/ (c[1] = seg /\ c[2] \in off..n - 1)
  <2>1. c[2] \in Nat /\ c[1] \in Nat /\ seg \in Nat
    BY <1>2, CellShape, BlkAssumption
  <2>2. QED
    BY <1>1, <1>2, <1>3, <2>1 DEF SoFar, Here, Len512
<1>10. ASSUME NEW c \in Cells
       PROVE  mem'[c] = IF c \in SoFar' THEN OldCard[Place(c)] ELSE GuestData[c]
  <2>1. CASE c[1] = seg /\ c[2] \in off..n - 1
    <3>1. mem'[c] = card[Place(c)] /\ card = OldCard
      BY <1>1, <1>2, <1>4, <1>7, <2>1 DEF RequestInv, DataInv, T_IN, T_OUT
    <3>2. QED
      BY <1>9, <2>1, <3>1
  <2>2. CASE ~(c[1] = seg /\ c[2] \in off..n - 1)
    <3>1. mem'[c] = mem[c]
      BY <1>4, <2>2
    <3>2. QED
      BY <1>1, <1>7, <1>9, <2>2, <3>1 DEF RequestInv, DataInv
  <2>3. QED
    BY <2>1, <2>2
<1>11. ASSUME NEW c \in SoFar'
       PROVE  Place(c) \in 0..CardSectors - 1
  <2>1. c \in Cells /\ c[2] \in Nat
    BY CellShape, BlkAssumption DEF SoFar
  <2>2. CASE c \in SoFar
    BY <1>1, <1>7, <2>2 DEF RequestInv, DataInv
  <2>3. CASE c[1] = seg /\ c[2] \in off..n - 1
    BY <1>2, <2>1, <2>3
  <2>4. QED
    BY <1>9, <2>1, <2>2, <2>3
<1>12. DataInv'
  <2>1. \A c : Place(c)' = Place(c)
    BY <1>1 DEF Place, First
  <2>2. \A c \in SoFar' : Place(c)' \in 0..CardSectors - 1
    BY <1>11, <2>1
  <2>3. QED
    BY <1>1, <1>7, <1>10, <2>1, <2>2 DEF RequestInv, DataInv, T_IN, T_OUT
<1>13. QED
  BY <1>5, <1>6, <1>8, <1>12 DEF RequestInv

\* One bounce buffer of a write.
LEMMA WriteStep ==
  ASSUME RequestInv, WriteChunk
  PROVE  RequestInv'
<1>1. /\ pc = "transfer" /\ off < Len512(seg) /\ OnCard(Chunk) /\ req.type = T_OUT
      /\ UNCHANGED <<req, pc, seg, sector, written, statusByte, mem, starts>>
      /\ off' = off + Chunk
      /\ card' = [k \in DOMAIN card |->
                   IF k \in From..From + Chunk - 1
                   THEN mem[<<seg, off + k - From>>] ELSE card[k]]
  BY DEF WriteChunk
<1> DEFINE n == off + Chunk
<1>0. /\ Moves /\ seg \in 1..Len(req.segs) /\ seg \in 1..MaxSegments
      /\ off \in Nat /\ Chunk \in Nat /\ Chunk > 0
      /\ off + Chunk <= Len512(seg) /\ sector \in Nat
      /\ sector + off + Chunk <= CardSectors /\ CardSectors \in Nat
      /\ From = sector + off
      /\ \A c \in Cells : c[1] = seg => Place(c) = sector + c[2]
  BY <1>1, ChunkShape
<1>2. /\ Moves /\ seg \in 1..Len(req.segs) /\ seg \in 1..MaxSegments
      /\ off \in Nat /\ n \in Nat /\ off < n
      /\ n <= Len512(seg) /\ sector \in Nat /\ sector + n <= CardSectors
      /\ CardSectors \in Nat
      /\ \A c \in Cells : c[1] = seg => Place(c) = sector + c[2]
  BY <1>0
<1>3. off' = n /\ From + Chunk - 1 = sector + n - 1
  BY <1>0, <1>1
<1>4. DOMAIN card = 0..CardSectors - 1 /\ mem = GuestData
  BY <1>1 DEF RequestInv, RequestTypes, DataInv, Going
<1>5. ASSUME NEW k \in 0..CardSectors - 1
      PROVE  card'[k] = IF sector + off <= k /\ k < sector + n
                        THEN GuestData[<<seg, k - sector>>] ELSE card[k]
  <2>1. /\ k \in From..From + Chunk - 1 <=> sector + off <= k /\ k < sector + n
        /\ off + k - From = k - sector
    BY <1>0, <1>2, <1>3
  <2>2. QED
    BY <1>1, <1>4, <2>1
<1> HIDE DEF n
<1>6. RequestTypes'
  <2>1. card' = [k \in 0..CardSectors - 1 |-> card'[k]]
    BY <1>1, <1>4
  <2>2. QED
    BY <1>1, <1>2, <1>3, <2>1 DEF RequestInv, RequestTypes
<1>7. WalkInv'
  BY <1>1, <1>2, <1>3 DEF RequestInv, WalkInv, Moves, Len512
<1>8. Going /\ Going' /\ ~Success /\ ~Success' /\ Here = off /\ Here' = n
  BY <1>1, <1>3 DEF Going, Success, Here
<1>9. CountInv'
  BY <1>1, <1>8, FirstShape DEF RequestInv, CountInv, Moves
<1>10. ASSUME NEW c \in Cells
       PROVE  c \in SoFar' <=> c \in SoFar \/ (c[1] = seg /\ off <= c[2] /\ c[2] < n)
  <2>1. c[2] \in Nat /\ c[1] \in Nat /\ seg \in Nat
    BY <1>2, CellShape, BlkAssumption
  <2>2. QED
    BY <1>1, <1>2, <1>8, <2>1 DEF SoFar, Len512
<1>11. ASSUME NEW c \in SoFar'
       PROVE  /\ Place(c) \in 0..CardSectors - 1 /\ Place(c) < sector + n
              /\ card'[Place(c)] = GuestData[c]
  <2>0. c \in Cells /\ c[2] \in Nat /\ c = <<c[1], c[2]>>
    BY <1>2, CellShape DEF SoFar
  <2>1. CASE c \in SoFar
    <3>1. Place(c) \in 0..CardSectors - 1 /\ Place(c) < sector + off /\ card[Place(c)] = GuestData[c]
      BY <1>1, <1>8, <2>1 DEF RequestInv, DataInv
    <3> DEFINE k == Place(c)
    <3>2. k \in 0..CardSectors - 1 /\ k < sector + off /\ card[k] = GuestData[c]
      BY <3>1
    <3> HIDE DEF k
    <3>3. k < sector + n /\ ~(sector + off <= k)
      BY <1>2, <3>2
    <3>4. card'[k] = card[k]
      BY <1>5, <3>2, <3>3
    <3>5. QED
      BY <3>2, <3>3, <3>4 DEF k
  <2>2. CASE c[1] = seg /\ off <= c[2] /\ c[2] < n
    <3>1. Place(c) = sector + c[2] /\ Place(c) - sector = c[2]
      BY <1>2, <2>0, <2>2
    <3>2. Place(c) \in 0..CardSectors - 1 /\ sector + off <= Place(c) /\ Place(c) < sector + n
      BY <1>2, <2>0, <2>2, <3>1
    <3>3. card'[Place(c)] = GuestData[<<seg, Place(c) - sector>>]
      BY <1>5, <3>2
    <3>4. QED
      BY <2>0, <2>2, <3>1, <3>2, <3>3
  <2>3. c \in SoFar \/ (c[1] = seg /\ off <= c[2] /\ c[2] < n)
    BY <1>10, <2>0
  <2>4. QED
    BY <2>1, <2>2, <2>3
<1>12. ASSUME NEW k \in 0..CardSectors - 1
       PROVE  card'[k] = OldCard[k] \/ \E c \in SoFar' : Place(c) = k
  <2>1. CASE sector + off <= k /\ k < sector + n
    <3> DEFINE c == <<seg, k - sector>>
    <3>1. c \in Cells /\ c[1] = seg /\ c[2] = k - sector
      BY <1>2, <2>1, CellShape
    <3>2. off <= c[2] /\ c[2] < n
      BY <1>2, <2>1, <3>1
    <3>3. Place(c) = k
      BY <1>2, <3>1
    <3> HIDE DEF c
    <3>4. c \in SoFar'
      BY <1>10, <3>1, <3>2
    <3>5. QED
      BY <3>3, <3>4
  <2>2. CASE ~(sector + off <= k /\ k < sector + n)
    <3>1. card'[k] = card[k]
      BY <1>5, <2>2
    <3>2. card[k] = OldCard[k] \/ \E c \in SoFar : Place(c) = k
      BY <1>1, <1>8 DEF RequestInv, DataInv
    <3>3. \A c \in SoFar : c \in SoFar'
      BY <1>10 DEF SoFar
    <3>4. QED
      BY <3>1, <3>2, <3>3
  <2>3. QED
    BY <2>1, <2>2
<1>13. DataInv'
  <2>1. \A c : Place(c)' = Place(c)
    BY <1>1 DEF Place, First
  <2>2. \A c \in SoFar' : /\ Place(c)' \in 0..CardSectors - 1 /\ Place(c)' < (sector + Here)'
                         /\ card'[Place(c)'] = GuestData[c]
    BY <1>1, <1>8, <1>11, <2>1
  <2>3. \A k \in 0..CardSectors - 1 : card'[k] = OldCard[k] \/ \E c \in SoFar' : Place(c)' = k
    BY <1>12, <2>1
  <2>4. req'.type = T_OUT /\ T_OUT # T_IN /\ mem' = GuestData
    BY <1>1, <1>4 DEF T_IN, T_OUT
  <2>5. QED
    BY <2>2, <2>3, <2>4 DEF DataInv
<1>14. QED
  BY <1>6, <1>7, <1>9, <1>13 DEF RequestInv

\* The end of a descriptor.
LEMMA SegmentStep ==
  ASSUME RequestInv, TransferDone
  PROVE  RequestInv'
<1>1. /\ pc = "transfer" /\ pc' = "walk" /\ off = Len512(seg) /\ NextSegment
      /\ written' = IF req.type = T_IN THEN written + req.segs[seg] ELSE written
      /\ UNCHANGED <<req, off, statusByte, mem, card>>
  BY DEF TransferDone, CountSegment
<1>2. /\ Moves /\ seg \in 1..Len(req.segs) /\ seg <= Len(req.segs) /\ sector \in Nat
      /\ starts[seg] \in Nat /\ req.type \in {T_IN, T_OUT} /\ First \in Nat
      /\ written \in Nat /\ req.segs[seg] \in Nat /\ Len512(seg) \in Nat
  <2>1. /\ Moves /\ seg \in 1..Len(req.segs) /\ sector \in Nat /\ starts \in Seq(Nat)
        /\ Len(starts) = seg /\ seg \in 1..seg /\ First \in Nat /\ written \in Nat
        /\ req.segs \in Seq(Nat) /\ RequestTypes
    BY <1>1, FirstShape, Narrowed DEF RequestInv, RequestTypes, WalkInv
  <2>2. starts[seg] \in Nat /\ req.segs[seg] \in Nat /\ Len512(seg) \in Nat
    BY <2>1, NatAt, LenShape
  <2>3. QED
    BY <1>1, <2>1, <2>2 DEF Moves
<1>3. Going /\ Going' /\ ~Success /\ ~Success' /\ Here = off /\ Here' = 0
  BY <1>1 DEF Going, Success, Here
<1>4. /\ seg' = seg + 1 /\ seg' \in 1..Len(req.segs) + 1
      /\ starts' \in Seq(Nat) /\ Len(starts') = seg'
      /\ \A s \in 1..seg : starts'[s] = starts[s]
      /\ starts'[seg + 1] = starts[seg] + req.segs[seg]
  BY <1>1, <1>2, SegmentEffect DEF RequestInv
<1>0. sector' = sector + Len512(seg) /\ sector' \in 0..SectorMod - 1
  <2> DEFINE l == Len512(seg)
  <2>1. sector < SectorMod /\ (l > 0 => sector + l <= CardSectors)
    BY <1>1, <1>2, Narrowed DEF RequestInv, RequestTypes, WalkInv
  <2>2. sector' = (sector + l) % SectorMod /\ l \in Nat
    BY <1>2 DEF TransferDone, CountSegment
  <2> HIDE DEF l
  <2>3. sector + l \in Nat /\ sector + l < SectorMod
    BY <1>2, <2>1, <2>2, Narrowed
  <2>4. sector' = sector + l /\ sector' \in 0..SectorMod - 1
    BY <2>2, <2>3, Narrowed
  <2>5. QED
    BY <2>4 DEF l
<1>5. RequestTypes'
  <2>0. written' \in Nat
    BY <1>1, <1>2
  <2>1. sector' \in 0..SectorMod - 1 /\ written' \in Nat
    BY <1>0, <2>0
  <2>2. QED
    BY <1>1, <1>4, <2>1 DEF RequestInv, RequestTypes
<1>6. WalkInv'
  BY <1>1 DEF RequestInv, WalkInv
<1>7. req.segs[seg] = 2 * Len512(seg) /\ starts[seg] % 2 = 0
      /\ sector = First + starts[seg] \div 2
  <2>1. /\ req.segs[seg] % SectorLen = 0
        /\ \A s \in 1..seg : starts[s] % SectorLen = 0
        /\ sector = First + starts[seg] \div SectorLen
    BY <1>1, <1>2, <1>3 DEF RequestInv, CountInv
  <2>2. req.segs[seg] = 2 * Len512(seg)
    BY <1>2, <2>1, LenShape DEF RequestInv
  <2>3. seg \in 1..seg
    BY <1>2
  <2>4. QED
    BY <2>1, <2>2, <2>3 DEF SectorLen
<1>8. starts'[seg'] % 2 = 0 /\ sector' = First + starts'[seg'] \div 2
  <2> DEFINE a == starts[seg]
             l == Len512(seg)
  <2>1. a \in Nat /\ l \in Nat /\ a % 2 = 0 /\ starts'[seg'] = a + 2 * l
    BY <1>2, <1>4, <1>7
  <2>0. sector' = First + a \div 2 + l /\ First \in Nat
    BY <1>0, <1>2, <1>7
  <2> HIDE DEF a, l
  <2>2. (a + 2 * l) % 2 = 0 /\ (a + 2 * l) \div 2 = a \div 2 + l
    BY <2>1
  <2>3. QED
    BY <2>0, <2>1, <2>2
<1>9. CountInv'
  <2>1. \A s \in 1..seg' : starts'[s] % SectorLen = 0
    <3>1. \A s \in 1..seg : starts[s] % SectorLen = 0
      BY <1>2, <1>3 DEF RequestInv, CountInv
    <3>2. \A s \in 1..seg' : s \in 1..seg \/ s = seg'
      BY <1>2, <1>4
    <3>3. QED
      BY <1>4, <1>8, <3>1, <3>2 DEF SectorLen
  <2>2. written' = IF req.type \in {T_IN, T_GET_ID} THEN starts'[seg'] ELSE 0
    BY <1>1, <1>2, <1>3, <1>4 DEF RequestInv, CountInv, T_IN, T_OUT, T_GET_ID
  <2>3. /\ starts'[1] = 0
        /\ \A s \in 1..seg' - 1 : starts'[s + 1] = starts'[s] + req.segs[s]
    BY <1>1, <1>2, SumsStep
  <2>4. QED
    BY <1>1, <1>3, <1>8, <2>1, <2>2, <2>3, FirstShape DEF CountInv, SectorLen
<1>10. SoFar' = SoFar
  <2>1. ASSUME NEW c \in Cells PROVE c \in SoFar' <=> c \in SoFar
    <3>1. c[2] \in Nat /\ c[1] \in Nat /\ seg \in Nat
      BY <1>2, CellShape, BlkAssumption
    <3>2. Len512(c[1])' = Len512(c[1])
      BY <1>1 DEF Len512
    <3>3. c \in SoFar' <=> ((c[1] < seg + 1 /\ c[2] < Len512(c[1]))
                             \/ (c[1] = seg + 1 /\ c[2] < 0))
      BY <1>3, <1>4, <3>2 DEF SoFar
    <3>4. c \in SoFar <=> ((c[1] < seg /\ c[2] < Len512(c[1]))
                            \/ (c[1] = seg /\ c[2] < Len512(seg)))
      BY <1>1, <1>3 DEF SoFar
    <3>5. c[1] < seg + 1 <=> c[1] < seg \/ c[1] = seg
      BY <3>1
    <3>6. QED
      BY <3>1, <3>3, <3>4, <3>5
  <2>2. QED
    BY <2>1 DEF SoFar
<1>11. \A c \in SoFar : Place(c)' = Place(c)
  <2>1. ASSUME NEW c \in SoFar PROVE c[1] \in 1..seg
    BY <1>2, CellShape DEF SoFar
  <2>2. QED
    BY <1>1, <1>4, <2>1 DEF Place, First
<1>12. DataInv'
  <2>1. sector' + Here' = sector + Here
    BY <1>0, <1>1, <1>2, <1>3
  <2>2. req.type = T_IN =>
          /\ \A c \in Cells :
               mem[c] = IF c \in SoFar THEN OldCard[Place(c)'] ELSE GuestData[c]
          /\ \A c \in SoFar : Place(c)' \in 0..CardSectors - 1
    BY <1>3, <1>11 DEF RequestInv, DataInv
  <2>3. req.type = T_OUT =>
          /\ mem = GuestData
          /\ \A c \in SoFar : /\ Place(c)' \in 0..CardSectors - 1 /\ Place(c)' < sector' + Here'
                              /\ card[Place(c)'] = GuestData[c]
          /\ \A n \in 0..CardSectors - 1 :
               card[n] = OldCard[n] \/ \E c \in SoFar : Place(c)' = n
    BY <1>3, <1>11, <2>1 DEF RequestInv, DataInv
  <2>4. QED
    BY <1>1, <1>3, <1>10, <2>2, <2>3 DEF RequestInv, DataInv
<1>13. QED
  BY <1>5, <1>6, <1>9, <1>12 DEF RequestInv

\* A request that is refused or fails on the card.
LEMMA FailStep ==
  ASSUME RequestInv, WalkUnsupported \/ ChunkFails
  PROVE  RequestInv'
<1>1. /\ pc' = "done" /\ UNCHANGED <<req, seg, off, starts, statusByte, mem>>
      /\ statusByte # S_OK
  BY DEF WalkUnsupported, ChunkFails, Fail, RequestInv, WalkInv
<1>2. sector' \in 0..SectorMod - 1 /\ written' \in Nat
  <2>1. CASE WalkUnsupported
    BY <2>1 DEF WalkUnsupported, RequestInv, RequestTypes
  <2>2. CASE ChunkFails
    <3>1. seg \in 1..Len(req.segs) /\ sector \in Nat /\ written \in Nat
      BY <2>2 DEF ChunkFails, RequestInv, RequestTypes, WalkInv
    <3>2. Len512(seg) \in Nat /\ req.segs[seg] \in Nat
      BY <3>1, LenShape DEF RequestInv
    <3>3. QED
      BY <2>2, <3>1, <3>2, Narrowed DEF ChunkFails, CountSegment
  <2>3. QED
    BY <2>1, <2>2
<1>3. card' = [n \in 0..CardSectors - 1 |-> card'[n]]
  <2>1. DOMAIN card = 0..CardSectors - 1 /\ card = [n \in DOMAIN card |-> card[n]]
    BY DEF RequestInv, RequestTypes
  <2>2. CASE UNCHANGED card
    BY <2>1, <2>2
  <2>3. CASE ChunkFails /\ req.type = T_OUT
    <3>1. PICK n \in 0..Chunk : card' = [m \in DOMAIN card |->
                        IF m \in From..From + n - 1
                        THEN mem[<<seg, off + m - From>>] ELSE card[m]]
      BY <2>3 DEF ChunkFails
    <3>2. QED
      BY <2>1, <3>1
  <2>4. QED
    BY <2>2, <2>3 DEF WalkUnsupported, ChunkFails
<1>4. RequestTypes'
  BY <1>1, <1>2, <1>3 DEF RequestInv, RequestTypes
<1>5. QED
  BY <1>1, <1>4, EndsStep

LEMMA NextRequestInv == RequestInv /\ [RequestNext]_requestVars => RequestInv'
<1> SUFFICES ASSUME RequestInv, [RequestNext]_requestVars PROVE RequestInv'
  OBVIOUS
<1>1. CASE UNCHANGED requestVars
  <2>1. /\ RequestTypes' <=> RequestTypes
        /\ WalkInv' <=> WalkInv
        /\ CountInv' <=> CountInv
    BY <1>1 DEF requestVars, RequestTypes, WalkInv, CountInv, Going, Success, Moves, Len512, First
  <2>2. DataInv'
    <3>1. SoFar' = SoFar /\ Here' = Here /\ \A c : Place(c)' = Place(c)
      BY <1>1 DEF requestVars, SoFar, Here, Len512, Place, First
    <3>2. UNCHANGED <<req, pc, sector, statusByte, mem, card>>
      BY <1>1 DEF requestVars
    <3>3. QED
      BY <3>1, <3>2 DEF RequestInv, DataInv, Going, Success
  <2>3. QED
    BY <2>1, <2>2 DEF RequestInv
<1>2. QED
  BY <1>1, HeaderStep, WalkStep, SkipStep, ReadStep, WriteStep, SegmentStep, FailStep
     DEF RequestNext

\* Where the walk is, and what it has moved so far.
LEMMA RequestInvariance == RequestSpec => []RequestInv
  BY InitRequestInv, NextRequestInv, PTL DEF RequestSpec

\* At the status descriptor all of the request has been moved.
LEMMA AllMoved ==
  ASSUME RequestInv, Success
  PROVE  SoFar = Moved /\ StartsAreSums /\ seg = Len(req.segs) + 1
<1>1. seg = Len(req.segs) + 1 /\ Here = 0 /\ Len(req.segs) \in Nat
  BY DEF RequestInv, RequestTypes, WalkInv, Success, Here
<1>2. ASSUME NEW c \in Cells PROVE c \in SoFar <=> c \in Moved
  <2>1. c[1] \in Nat /\ c[2] \in Nat
    BY CellShape, BlkAssumption
  <2>2. QED
    BY <1>1, <2>1 DEF SoFar, Moved
<1>3. SoFar = Moved
  BY <1>2 DEF SoFar, Moved
<1>4. StartsAreSums
  BY <1>1 DEF RequestInv, CountInv, StartsAreSums
<1>5. QED
  BY <1>1, <1>3, <1>4

\* A request that reports success, for a sector number of 32 bits, has moved exactly
\* the sectors it names, for every card with fewer than 2^32 sectors, bounce buffer
\* and chain of descriptors (blk_do_request and blk_transfer,
\* hyp_virtio_blk.c:192-308).
THEOREM SuccessMovesExactly == RequestSpec => []SuccessIsExact
<1>1. RequestInv => SuccessIsExact
  <2> SUFFICES ASSUME RequestInv, Success, req.sector < SectorMod PROVE MovedExactly
    BY DEF SuccessIsExact, Success
  <2>1. SoFar = Moved /\ StartsAreSums
    BY AllMoved
  <2>2. DOMAIN card = 0..CardSectors - 1 /\ mem = [c \in Cells |-> mem[c]]
    BY DEF RequestInv, RequestTypes
  <2>3. First = req.sector
    BY FirstShape DEF RequestInv
  <2>4. \A c : Place(c) = At(c)
    BY <2>3 DEF Place, At
  <2>5. /\ req.type # T_OUT => card = OldCard
        /\ req.type = T_IN =>
             /\ \A c \in Cells : mem[c] = IF c \in Moved THEN OldCard[At(c)] ELSE GuestData[c]
             /\ \A c \in Moved : At(c) \in 0..CardSectors - 1
        /\ req.type = T_OUT =>
             /\ mem = GuestData
             /\ \A c \in Moved : At(c) \in 0..CardSectors - 1 /\ card[At(c)] = GuestData[c]
             /\ \A n \in 0..CardSectors - 1 :
                  card[n] = OldCard[n] \/ \E c \in Moved : At(c) = n
    BY <2>1, <2>4 DEF RequestInv, DataInv
  <2>6. QED
    BY <2>1, <2>2, <2>5 DEF MovedExactly
<1>2. QED
  BY <1>1, RequestInvariance, PTL

\* The used ring is told the bytes the device wrote (blk_do_request,
\* hyp_virtio_blk.c:220-308).
THEOREM LengthIsExact == RequestSpec => []UsedLength
<1>1. RequestInv => UsedLength
  <2> SUFFICES ASSUME RequestInv, Success PROVE UsedLength
    BY DEF UsedLength, Success
  <2>1. StartsAreSums /\ seg = Len(req.segs) + 1
    BY AllMoved
  <2>2. QED
    BY <2>1 DEF RequestInv, CountInv, UsedLength
<1>2. QED
  BY <1>1, RequestInvariance, PTL
=============================================================================
