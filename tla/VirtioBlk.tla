----------------------------- MODULE VirtioBlk -----------------------------
(***************************************************************************)
(* The block device between the two cores (main/hyp_virtio_blk.c).         *)
(*                                                                         *)
(*   core 1, guest    the Linux driver: rings in guest memory, MMIO        *)
(*   core 1, monitor  hyp_virtio_blk_write, hyp_virtio_blk_poll            *)
(*   core 0           blk_task and blk_service                             *)
(*                                                                         *)
(* The cores share the rings, the struct blk and the two flags s_kick and  *)
(* s_irq, and no lock.  Core 0 takes one step per access to shared memory; *)
(* core 1 is in the guest or in the monitor, where a handler runs to its   *)
(* end before the guest continues.  Memory is sequentially consistent (the *)
(* code fences its ring writes; s_kick is taken to be ordered too).        *)
(*                                                                         *)
(* Ring indices are 16-bit in the code and wrap; here they wrap at         *)
(* IndexSize, a multiple of the queue size, like there.                    *)
(***************************************************************************)
EXTENDS Plic, Integers, Sequences, FiniteSets

CONSTANTS
  VirtioSource,   \* PLIC_VIRTIO_BLK_SOURCE
  QueueNum,       \* queue_num: the ring size the driver sets
  IndexSize,      \* 2^16 in the code
  Tag,            \* head descriptors the driver may use, one per request
  NoTag,          \* no request
  MaxSetups,      \* bound: times the driver brings the queue up
  QuietReset      \* TRUE: the driver resets only an idle device

ASSUME VirtioAssumption ==
  /\ VirtioSource \in Source
  /\ MaxPriority >= 1
  /\ QueueNum \in Nat \ {0}
  /\ IndexSize \in Nat /\ IndexSize > QueueNum /\ IndexSize % QueueNum = 0
  /\ NoTag \notin Tag
  /\ IsFiniteSet(Tag) /\ Tag # {} /\ Cardinality(Tag) <= QueueNum
  /\ MaxSetups \in Nat
  /\ QuietReset \in BOOLEAN

VARIABLES
  \* guest memory
  availRing, availIdx,    \* struct vring_avail
  usedRing, usedIdx,      \* struct vring_used
  \* the driver
  drv,                    \* where the guest is
  inflight,               \* tags of requests the driver waits for
  lastUsed,               \* its position in the used ring
  setups,                 \* how often it brought the queue up
  \* the device
  live, lastAvail,        \* blk.live, blk.last_avail
  intStatus,              \* blk.interrupt_status, bit 0
  plic,
  kick, irq,              \* s_kick, s_irq
  mon,                    \* core 1: the guest runs, or the poll clears s_irq
  \* core 0
  pc0,                    \* where blk_task is
  cur,                    \* head: the request in hand
  published,              \* the local of blk_service
  served                  \* history: requests whose I/O is done

ring    == <<availRing, availIdx, usedRing, usedIdx>>
driver  == <<drv, inflight, lastUsed, setups>>
device  == <<live, lastAvail, intStatus, plic>>
core0   == <<pc0, cur, published, served>>
vars    == <<availRing, availIdx, usedRing, usedIdx, drv, inflight, lastUsed,
             setups, live, lastAvail, intStatus, plic, kick, irq, mon, pc0, cur,
             published, served>>

\* Definitions named Bug... are a mistake the definition after them could have;
\* the checks are shown to notice it.
Index     == 0..IndexSize - 1
Succ(i)   == (i + 1) % IndexSize
Slot(i)   == i % QueueNum
EmptyRing == [s \in 0..QueueNum - 1 |-> NoTag]

\* The guest's PLIC driver has run; the block driver has not.
PlicReady ==
  [PlicReset EXCEPT !.priority = [s \in Source |-> 1], !.enable = Source]

Init ==
  /\ availRing = EmptyRing /\ availIdx = 0
  /\ usedRing = EmptyRing /\ usedIdx = 0
  /\ drv = "down" /\ inflight = {} /\ lastUsed = 0 /\ setups = 0
  /\ live = FALSE /\ lastAvail = 0 /\ intStatus = FALSE
  /\ plic = PlicReady
  /\ kick = FALSE /\ irq = FALSE
  /\ mon = "guest"
  /\ pc0 = "idle" /\ cur = NoTag /\ published = FALSE /\ served = {}

-----------------------------------------------------------------------------
(* The guest's driver.  Its code is external; the registers it writes are    *)
(* the cases of hyp_virtio_blk_write.                                        *)

\* Probe: zeroed rings, then a non-zero QueuePFN (sizes were set before).
WriteQueuePfn ==
  /\ mon = "guest" /\ drv = "down" /\ setups < MaxSetups
  /\ availRing' = EmptyRing /\ availIdx' = 0
  /\ usedRing' = EmptyRing /\ usedIdx' = 0
  /\ lastUsed' = 0 /\ setups' = setups + 1
  /\ live' = TRUE /\ lastAvail' = 0
  /\ drv' = "run"
  /\ UNCHANGED <<inflight, intStatus, plic, kick, irq, mon, core0>>

\* virtqueue_add: the slot first, then the index.
FillSlot(t) ==
  /\ mon = "guest" /\ drv \in {"run", "kick"}
  /\ t \notin inflight
  /\ inflight' = inflight \cup {t}
  /\ availRing' = [availRing EXCEPT ![Slot(availIdx)] = t]
  /\ drv' = "publish"
  /\ UNCHANGED <<availIdx, usedRing, usedIdx, lastUsed, setups, device, kick,
                 irq, mon, core0>>

PublishAvail ==
  /\ mon = "guest" /\ drv = "publish"
  /\ availIdx' = Succ(availIdx)
  /\ served' = served \ {availRing[Slot(availIdx)]}
  /\ drv' = "kick"
  /\ UNCHANGED <<availRing, usedRing, usedIdx, inflight, lastUsed, setups,
                 device, kick, irq, mon, pc0, cur, published>>

\* QueueNotify.
WriteQueueNotify ==
  /\ mon = "guest" /\ drv = "kick"
  /\ kick' = TRUE
  /\ drv' = "run"
  /\ UNCHANGED <<ring, inflight, lastUsed, setups, device, irq, mon, core0>>

\* The external interrupt, and the claim loop of the PLIC driver.
TakeInterrupt ==
  /\ mon = "guest" /\ drv = "run"
  /\ MeipPending(plic)
  /\ drv' = "claim"
  /\ UNCHANGED <<ring, inflight, lastUsed, setups, device, kick, irq, mon, core0>>

PlicClaim ==
  /\ mon = "guest" /\ drv = "claim"
  /\ plic' = Claim(plic)
  /\ drv' = IF Peek(plic) = VirtioSource THEN "isr" ELSE "run"
  /\ UNCHANGED <<ring, inflight, lastUsed, setups, live, lastAvail, intStatus,
                 kick, irq, mon, core0>>

\* vm_interrupt reads InterruptStatus; zero would be no interrupt of ours.
ReadInterruptStatus ==
  /\ mon = "guest" /\ drv = "isr"
  /\ drv' = IF intStatus THEN "ack" ELSE "eoi"
  /\ UNCHANGED <<ring, inflight, lastUsed, setups, device, kick, irq, mon, core0>>

BugAckKeepsPending ==
  /\ mon = "guest" /\ drv = "ack"
  /\ intStatus' = FALSE
  /\ drv' = "reap"
  /\ UNCHANGED <<ring, inflight, lastUsed, setups, live, lastAvail, plic, kick,
                 irq, mon, core0>>

WriteInterruptAck ==
  /\ mon = "guest" /\ drv = "ack"
  /\ intStatus' = FALSE
  /\ plic' = SetPending(plic, VirtioSource, FALSE)
  /\ drv' = "reap"
  /\ UNCHANGED <<ring, inflight, lastUsed, setups, live, lastAvail, kick, irq,
                 mon, core0>>

\* virtqueue_get_buf, until the index the device published is reached.
GetBuf ==
  /\ mon = "guest" /\ drv = "reap"
  /\ IF lastUsed # usedIdx
       THEN /\ inflight' = inflight \ {usedRing[Slot(lastUsed)]}
            /\ lastUsed' = Succ(lastUsed)
            /\ UNCHANGED drv
       ELSE drv' = "eoi" /\ UNCHANGED <<inflight, lastUsed>>
  /\ UNCHANGED <<ring, setups, device, kick, irq, mon, core0>>

\* The virtio source is not re-sampled on completion.
PlicComplete ==
  /\ mon = "guest" /\ drv = "eoi"
  /\ plic' = Complete(plic, VirtioSource)
  /\ drv' = "claim"
  /\ UNCHANGED <<ring, inflight, lastUsed, setups, live, lastAvail, intStatus,
                 kick, irq, mon, core0>>

\* Driver removal: Status = 0, then QueuePFN = 0.  Linux removes the driver
\* only with no request outstanding.
DeviceQuiet == pc0 = "idle" /\ ~kick /\ ~irq /\ ~intStatus

WriteStatusZero ==
  /\ mon = "guest" /\ drv = "run" /\ inflight = {}
  /\ QuietReset => DeviceQuiet
  /\ live' = FALSE /\ intStatus' = FALSE /\ lastAvail' = 0
  /\ plic' = SetPending(plic, VirtioSource, FALSE)
  /\ drv' = "reset"
  /\ UNCHANGED <<ring, inflight, lastUsed, setups, kick, irq, mon, core0>>

WriteQueuePfnZero ==
  /\ mon = "guest" /\ drv = "reset"
  /\ live' = FALSE /\ lastAvail' = 0
  /\ drv' = "down"
  /\ UNCHANGED <<ring, inflight, lastUsed, setups, intStatus, plic, kick, irq,
                 mon, core0>>

-----------------------------------------------------------------------------
(* Core 1, monitor: hyp_virtio_blk_poll, the test of s_irq and what follows. *)

PollSeesIrq ==
  /\ mon = "guest" /\ irq
  /\ mon' = "pollClear"
  /\ UNCHANGED <<ring, driver, device, kick, irq, core0>>

PollRaise ==
  /\ mon = "pollClear"
  /\ irq' = FALSE
  /\ intStatus' = TRUE
  /\ plic' = SetPending(plic, VirtioSource, TRUE)
  /\ mon' = "guest"
  /\ UNCHANGED <<ring, driver, live, lastAvail, kick, core0>>

-----------------------------------------------------------------------------
(* Core 0: blk_task and blk_service. *)

TaskSeesKick ==
  /\ pc0 = "idle" /\ kick
  /\ pc0' = "clear"
  /\ UNCHANGED <<ring, driver, device, kick, irq, mon, cur, published, served>>

TaskClearKick ==
  /\ pc0 = "clear"
  /\ kick' = FALSE
  /\ pc0' = "enter"
  /\ UNCHANGED <<ring, driver, device, irq, mon, cur, published, served>>

ServiceEnter ==
  /\ pc0 = "enter"
  /\ pc0' = IF live THEN "check" ELSE "idle"
  /\ published' = FALSE
  /\ UNCHANGED <<ring, driver, device, kick, irq, mon, cur, served>>

\* while (blk.last_avail != avail->idx)
ServiceCheck ==
  /\ pc0 = "check"
  /\ IF lastAvail # availIdx
       THEN pc0' = "perform" /\ cur' = availRing[Slot(lastAvail)]
       ELSE pc0' = "exit" /\ UNCHANGED cur
  /\ UNCHANGED <<ring, driver, device, kick, irq, mon, published, served>>

\* blk_do_request: the transfer itself (BlkRequest models what is inside).
DoRequest ==
  /\ pc0 = "perform"
  /\ served' = served \cup {cur}
  /\ pc0' = "entry"
  /\ UNCHANGED <<ring, driver, device, kick, irq, mon, cur, published>>

BugEntryAfterIndex ==
  /\ pc0 = "entry"
  /\ usedRing' = [usedRing EXCEPT ![Slot(Succ(usedIdx))] = cur]
  /\ pc0' = "index"
  /\ UNCHANGED <<availRing, availIdx, usedIdx, driver, device, kick, irq, mon,
                 cur, published, served>>

WriteUsedEntry ==
  /\ pc0 = "entry"
  /\ usedRing' = [usedRing EXCEPT ![Slot(usedIdx)] = cur]
  /\ pc0' = "index"
  /\ UNCHANGED <<availRing, availIdx, usedIdx, driver, device, kick, irq, mon,
                 cur, published, served>>

BumpUsedIdx ==
  /\ pc0 = "index"
  /\ usedIdx' = Succ(usedIdx)
  /\ pc0' = "advance"
  /\ UNCHANGED <<availRing, availIdx, usedRing, driver, device, kick, irq, mon,
                 cur, published, served>>

BumpLastAvail ==
  /\ pc0 = "advance"
  /\ lastAvail' = Succ(lastAvail)
  /\ published' = TRUE
  /\ pc0' = "check"
  /\ UNCHANGED <<ring, driver, live, intStatus, plic, kick, irq, mon, cur, served>>

BugKickClearedLast ==
  /\ pc0 = "exit"
  /\ irq' = (irq \/ published)
  /\ kick' = FALSE
  /\ pc0' = "idle"
  /\ UNCHANGED <<ring, driver, device, mon, cur, published, served>>

BugIrqOverwritten ==
  /\ pc0 = "exit"
  /\ irq' = published
  /\ pc0' = "idle"
  /\ UNCHANGED <<ring, driver, device, kick, mon, cur, published, served>>

ServiceExit ==
  /\ pc0 = "exit"
  /\ irq' = (irq \/ published)
  /\ pc0' = "idle"
  /\ UNCHANGED <<ring, driver, device, kick, mon, cur, published, served>>

-----------------------------------------------------------------------------

Submit == (\E t \in Tag : FillSlot(t))
Finish == PublishAvail \/ WriteQueueNotify
Handler == TakeInterrupt \/ PlicClaim \/ ReadInterruptStatus
           \/ WriteInterruptAck \/ GetBuf \/ PlicComplete
Lifecycle == WriteQueuePfn \/ WriteStatusZero \/ WriteQueuePfnZero
Core1Poll == PollSeesIrq \/ PollRaise
Core0 == TaskSeesKick \/ TaskClearKick \/ ServiceEnter \/ ServiceCheck
         \/ DoRequest \/ WriteUsedEntry \/ BumpUsedIdx \/ BumpLastAvail
         \/ ServiceExit

Next == Submit \/ Finish \/ Handler \/ Lifecycle \/ Core1Poll \/ Core0

Spec == Init /\ [][Next]_vars

(***************************************************************************)
(* Core 0's task busy-polls and is scheduled round-robin with the idle     *)
(* task; the guest finishes a submission and a handler it has begun; the   *)
(* monitor polls on every host interrupt, and the guest's periodic tick    *)
(* keeps those coming.                                                     *)
(***************************************************************************)
Fairness == WF_vars(Core0) /\ WF_vars(Core1Poll) /\ WF_vars(Finish) /\ WF_vars(Handler)

FairSpec == Spec /\ Fairness

-----------------------------------------------------------------------------
(* Properties *)

TypeOK ==
  /\ availRing \in [0..QueueNum - 1 -> Tag \cup {NoTag}] /\ availIdx \in Index
  /\ usedRing \in [0..QueueNum - 1 -> Tag \cup {NoTag}] /\ usedIdx \in Index
  /\ drv \in {"down", "run", "publish", "kick", "claim", "isr", "ack", "reap",
              "eoi", "reset"}
  /\ inflight \in SUBSET Tag
  /\ lastUsed \in Index
  /\ setups \in 0..MaxSetups
  /\ live \in BOOLEAN /\ lastAvail \in Index
  /\ intStatus \in BOOLEAN
  /\ plic \in PlicType
  /\ kick \in BOOLEAN /\ irq \in BOOLEAN
  /\ mon \in {"guest", "pollClear"}
  /\ pc0 \in {"idle", "clear", "enter", "check", "perform", "entry", "index",
              "advance", "exit"}
  /\ cur \in Tag \cup {NoTag}
  /\ published \in BOOLEAN
  /\ served \in SUBSET (Tag \cup {NoTag})

Serving == pc0 \in {"check", "perform", "entry", "index", "advance"}

\* A request in the available ring is never forgotten: if core 0 is not about
\* to look at the ring, the kick flag is up or the driver is about to raise it.
\* The window is the one between the test of s_kick and its clearing, and the
\* one between the loop's last look at avail->idx and the next test
\* (hyp_virtio_blk.c:333-353, 364-374).
NoLostKick ==
  live /\ lastAvail # availIdx /\ pc0 \in {"idle", "exit"} =>
    kick \/ drv \in {"publish", "kick"}

\* A completion in the used ring is never forgotten: it is on its way to an
\* interrupt, or the interrupt is pending, or the handler has still to read the
\* ring.  Core 0 sets s_irq, core 1 clears it, and either may come between two
\* steps of the other (hyp_virtio_blk.c:343-352, 496-503).
NoLostCompletion ==
  live /\ usedIdx # lastUsed =>
    \/ Serving /\ (published \/ pc0 = "advance")
    \/ pc0 = "exit" /\ published
    \/ irq \/ mon = "pollClear"
    \/ VirtioSource \in plic.pending
    \/ drv \in {"isr", "ack", "reap"}

\* The PLIC line and InterruptStatus agree although completion does not
\* re-sample this source: outside the handler's window between claim and
\* acknowledgement the pending bit is the status bit, so a poll that comes in
\* the middle of a handler neither loses nor invents an interrupt
\* (hyp_virtio_blk.c:471-476, 496-503; hyp_plic.c:127-138).
LineIsStatus ==
  /\ VirtioSource \in plic.pending => intStatus
  /\ intStatus /\ drv \notin {"isr", "ack"} => VirtioSource \in plic.pending

\* A handler that claimed the source finds its reason in InterruptStatus, so it
\* never leaves without reading the used ring (hyp_virtio_blk.c:436).
ClaimHasCause == drv \in {"isr", "ack"} => intStatus

\* The entries of a ring from one index to another, across the wrap.
Between(r, from, to) ==
  [k \in 1..(to - from) % IndexSize |-> r[Slot(from + k - 1)]]

\* A request leaves the abstract queue when used->idx publishes it, which is
\* before blk.last_avail passes it.
Unserved ==
  IF live THEN Between(availRing,
                       IF pc0 = "advance" THEN Succ(lastAvail) ELSE lastAvail,
                       availIdx)
  ELSE <<>>
Uncollected == IF live THEN Between(usedRing, lastUsed, usedIdx) ELSE <<>>

\* The rings, indices and flags implement a queue of requests: each is
\* performed before it is reported, reported once, in order, and collected once,
\* across index wrap and slot reuse (hyp_virtio_blk.c:323-353).
Disk == INSTANCE AsyncDisk WITH
  Request <- Tag, queued <- Unserved, done <- Uncollected, performed <- served
ImplementsDisk == Disk!Spec

\* Every request the driver waits for is collected
\* (hyp_virtio_blk.c:25-33, "how a request crosses the cores").
EveryRequestCompletes == \A t \in Tag : t \in inflight ~> t \notin inflight

\* A queue that is torn down is left alone: the device writes the used ring
\* only while the queue is up.  hyp_virtio_blk.c:457: "A zero PFN tears the
\* queue down".
TornDownQueueUntouched ==
  [][<<usedRing, usedIdx>>' # <<usedRing, usedIdx>> /\ setups' = setups
       => live]_vars
=============================================================================
