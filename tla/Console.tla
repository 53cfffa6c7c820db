------------------------------ MODULE Console ------------------------------
(***************************************************************************)
(* The guest's console input path and its interrupt line.                  *)
(*                                                                         *)
(*   serial wire -> UART0 receive FIFO (hardware)                          *)
(*     -> hyp_poll_host_devices (core 1, inside a trap)                    *)
(*       -> receive ring of the emulated 16550 -> RBR reads of the guest   *)
(*   16550 interrupt line -> emulated PLIC -> external-interrupt input     *)
(*                                                                         *)
(* Core 1 runs either the guest or the monitor, never both: the variable   *)
(* cpu says where in hyp_poll_host_devices the monitor is, and the guest's *)
(* MMIO accesses, each one trap, happen only at "guest".  The wire, the    *)
(* UART's interrupt latch and core 0 run at any time, in particular        *)
(* between two steps of the poll.                                          *)
(*                                                                         *)
(* The guest here is arbitrary: any byte-wide access to the modelled       *)
(* registers, in any order.  ConsoleDriver restricts it to the Linux       *)
(* driver.                                                                 *)
(***************************************************************************)
EXTENDS Plic, Integers, Sequences, FiniteSets

CONSTANTS
  UartSource,     \* PLIC_UART_SOURCE
  VirtioSource,   \* PLIC_VIRTIO_BLK_SOURCE
  RingSize,       \* UART_RX_RING_SIZE; the ring holds one byte less
  FifoSize,       \* bytes the hardware receive FIFO holds
  MaxBytes        \* bound: bytes the wire carries in a behaviour

ASSUME ConsoleAssumption ==
  /\ UartSource \in Source
  /\ VirtioSource \in Source
  /\ UartSource # VirtioSource
  /\ RingSize \in Nat /\ RingSize >= 2
  /\ FifoSize \in Nat \ {0}
  /\ MaxBytes \in Nat

\* Bytes of the wire are told apart by their number.  KeyStats stands for the
\* byte 0x1e the monitor keeps for itself, Looped for a byte the guest writes
\* to itself in loopback mode.
KeyStats == 0
Looped   == MaxBytes + 1
Byte     == 0..MaxBytes + 1
IsWire(b) == b \in 1..MaxBytes

VARIABLES
  sent,           \* bytes the wire has carried so far
  fifo,           \* UART0 receive FIFO
  fifoInt,        \* UART0 RXFIFO_FULL | TOUT | OVF interrupt status
  cpu,            \* what core 1 executes: the guest or a step of the poll
  left,           \* n of the poll: bytes of the FIFO snapshot still to read
  ring, head, tail, \* uart16550.ring, .head, .tail
  ier,            \* uart16550.ier: "rx" is ERBFI, "tx" is ETBEI
  dlab,           \* uart16550.lcr bit 7
  loop,           \* uart16550.mcr bit 4
  plic,           \* struct plic
  statsWanted,    \* hyp_stats_wanted
  lastGot         \* history: number of the last wire byte the guest read

uart == <<ring, head, tail, ier, dlab, loop>>
host == <<sent, fifo, fifoInt>>
poll == <<cpu, left>>
vars == <<sent, fifo, fifoInt, cpu, left, ring, head, tail, ier, dlab, loop,
          plic, statsWanted, lastGot>>

\* Definitions named Bug... are a mistake the definition after them could have;
\* the checks below are shown to notice it.
BugNextSlotNoWrap(i) == i + 1
NextSlot(i) == (i + 1) % RingSize

RingEmpty == head = tail
BugRingNeverFull == (head - tail + RingSize) % RingSize = RingSize
RingFull  == NextSlot(head) = tail

BugPreIncrement == ring[NextSlot(tail)]
Oldest == ring[tail]

\* The condition v16550_reeval drives onto the PLIC, from the receive ring's
\* emptiness and the interrupt enables.
BugNoTransmitLevel(e, empty) == "rx" \in e /\ ~empty
LineOf(e, empty) == ("rx" \in e /\ ~empty) \/ "tx" \in e
Line == LineOf(ier, RingEmpty)

\* v16550_reeval, over the values the handler has just assigned.
BugRaiseOnly(p) ==
  IF LineOf(ier', head' = tail') THEN SetPending(p, UartSource, TRUE) ELSE p
Reeval(p) == SetPending(p, UartSource, LineOf(ier', head' = tail'))

\* uart_rx_push: a full ring drops the byte, the handler never waits.
Push(b) ==
  /\ IF RingFull THEN UNCHANGED <<ring, head>>
     ELSE /\ ring' = [ring EXCEPT ![head] = b]
          /\ head' = NextSlot(head)
  /\ UNCHANGED tail

Init ==
  /\ sent = 0 /\ fifo = <<>> /\ fifoInt = FALSE
  /\ cpu = "guest" /\ left = 0
  /\ ring = [i \in 0..RingSize - 1 |-> 0] /\ head = 0 /\ tail = 0
  /\ ier = {} /\ dlab = FALSE /\ loop = FALSE
  /\ plic = PlicReset
  /\ statsWanted = FALSE
  /\ lastGot = 0

-----------------------------------------------------------------------------
(* The hardware side, external to the monitor. *)

\* A byte arrives on the wire; the receive FIFO drops it when it is full.
WireByte ==
  /\ sent < MaxBytes
  /\ sent' = sent + 1
  /\ \E b \in {KeyStats, sent + 1} :
       fifo' = IF Len(fifo) < FifoSize THEN Append(fifo, b) ELSE fifo
  /\ UNCHANGED <<fifoInt, poll, uart, plic, statsWanted, lastGot>>

\* RXFIFO_FULL has a threshold of one byte: the status is raised, and raised
\* again after it was cleared, as long as the FIFO holds something.
FifoRaise ==
  /\ ~fifoInt
  /\ fifo # <<>>
  /\ fifoInt' = TRUE
  /\ UNCHANGED <<sent, fifo, poll, uart, plic, statsWanted, lastGot>>

-----------------------------------------------------------------------------
(* hyp_poll_host_devices.  It runs on any host interrupt, so it also runs    *)
(* with no UART status raised.                                               *)

BugOneMore == Len(fifo) + 1
Snapshot == Len(fifo)

PollStart ==
  /\ cpu = "guest"
  /\ IF fifoInt THEN cpu' = "drain" /\ left' = Snapshot
                ELSE cpu' = "finish" /\ UNCHANGED left
  /\ UNCHANGED <<host, uart, plic, statsWanted, lastGot>>

\* One iteration of while (n-- > 0).
PollDrain ==
  /\ cpu = "drain"
  /\ left > 0
  /\ left' = left - 1
  /\ fifo' = Tail(fifo)
  /\ IF Head(fifo) = KeyStats
       THEN statsWanted' = TRUE /\ UNCHANGED <<ring, head, tail>>
       ELSE Push(Head(fifo)) /\ UNCHANGED statsWanted
  /\ UNCHANGED <<sent, fifoInt, cpu, ier, dlab, loop, plic, lastGot>>

\* uart_ll_clr_intsts_mask, after the drain.
PollAck ==
  /\ cpu = "drain"
  /\ left = 0
  /\ fifoInt' = FALSE
  /\ cpu' = "finish"
  /\ UNCHANGED <<sent, fifo, left, uart, plic, statsWanted, lastGot>>

\* hyp_virtio_blk_poll may raise the other source; then v16550_reeval.
BugPollNoReeval ==
  /\ cpu = "finish"
  /\ cpu' = "guest"
  /\ UNCHANGED <<host, left, uart, statsWanted, lastGot, plic>>

PollFinish ==
  /\ cpu = "finish"
  /\ cpu' = "guest"
  /\ UNCHANGED <<host, left, uart, statsWanted, lastGot>>
  /\ \E irq \in BOOLEAN :
       plic' = Reeval(IF irq THEN SetPending(plic, VirtioSource, TRUE) ELSE plic)

-----------------------------------------------------------------------------
(* The guest's accesses to the 16550.  DLAB turns offsets 0 and 1 into the   *)
(* divisor latches, which nothing reads but the guest.                       *)

\* uart_reg_read(0).
ReadRBR ==
  /\ cpu = "guest"
  /\ ~dlab
  /\ IF RingEmpty THEN UNCHANGED <<tail, lastGot>>
     ELSE /\ tail' = NextSlot(tail)
          /\ lastGot' = IF IsWire(Oldest) THEN Oldest ELSE lastGot
  /\ UNCHANGED <<host, poll, ring, head, ier, dlab, loop, statsWanted>>
  /\ plic' = Reeval(plic)

\* uart_reg_write(0).  Outside loopback the byte goes to the host's transmit
\* FIFO or is dropped, and the receive side does not change.
WriteTHR ==
  /\ cpu = "guest"
  /\ ~dlab
  /\ IF loop THEN Push(Looped) ELSE UNCHANGED <<ring, head, tail>>
  /\ UNCHANGED <<host, poll, ier, dlab, loop, statsWanted, lastGot>>
  /\ plic' = Reeval(plic)

\* uart_reg_write(1).
WriteIER(e) ==
  /\ cpu = "guest"
  /\ ~dlab
  /\ ier' = e
  /\ UNCHANGED <<host, poll, ring, head, tail, dlab, loop, statsWanted, lastGot>>
  /\ plic' = Reeval(plic)

\* uart_reg_write(3) and uart_reg_write(4): storage.
WriteLCR(d) ==
  /\ cpu = "guest"
  /\ dlab' = d
  /\ UNCHANGED <<host, poll, ring, head, tail, ier, loop, plic, statsWanted, lastGot>>

WriteMCR(l) ==
  /\ cpu = "guest"
  /\ loop' = l
  /\ UNCHANGED <<host, poll, ring, head, tail, ier, dlab, plic, statsWanted, lastGot>>

-----------------------------------------------------------------------------
(* The guest's accesses to the PLIC, and the acknowledgement of the virtio   *)
(* device, which drops the other source.                                     *)

PlicClaim ==
  /\ cpu = "guest"
  /\ plic' = Claim(plic)
  /\ UNCHANGED <<host, poll, uart, statsWanted, lastGot>>

\* The end of service re-samples the UART's source and no other.
BugNoResample(p, s) == Complete(p, s)
Completed(p, s) ==
  IF s = UartSource THEN Reeval(Complete(p, s)) ELSE Complete(p, s)

PlicComplete(s) ==
  /\ cpu = "guest"
  /\ s \in plic.claimed
  /\ UNCHANGED <<host, poll, uart, statsWanted, lastGot>>
  /\ plic' = Completed(plic, s)

PlicConfigure ==
  /\ cpu = "guest"
  /\ \/ \E e \in SUBSET Source : plic' = SetEnable(plic, e)
     \/ \E v \in 0..MaxPriority : plic' = SetThreshold(plic, v)
     \/ \E s \in Source, v \in 0..MaxPriority : plic' = SetPriority(plic, s, v)
  /\ UNCHANGED <<host, poll, uart, statsWanted, lastGot>>

VirtioAck ==
  /\ cpu = "guest"
  /\ plic' = SetPending(plic, VirtioSource, FALSE)
  /\ UNCHANGED <<host, poll, uart, statsWanted, lastGot>>

-----------------------------------------------------------------------------
\* Core 0's service loop takes the request for a statistics dump.
TakeStatsRequest ==
  /\ statsWanted
  /\ statsWanted' = FALSE
  /\ UNCHANGED <<host, poll, uart, plic, lastGot>>

GuestAccess ==
  \/ ReadRBR
  \/ WriteTHR
  \/ \E e \in SUBSET {"rx", "tx"} : WriteIER(e)
  \/ \E d \in BOOLEAN : WriteLCR(d)
  \/ \E l \in BOOLEAN : WriteMCR(l)
  \/ PlicClaim
  \/ \E s \in Source : PlicComplete(s)
  \/ PlicConfigure
  \/ VirtioAck

Monitor == PollStart \/ PollDrain \/ PollAck \/ PollFinish

Next == WireByte \/ FifoRaise \/ Monitor \/ GuestAccess \/ TakeStatsRequest

Spec == Init /\ [][Next]_vars

-----------------------------------------------------------------------------
(* Properties *)

TypeOK ==
  /\ sent \in 0..MaxBytes
  /\ fifo \in Seq(Byte) /\ Len(fifo) <= FifoSize
  /\ fifoInt \in BOOLEAN
  /\ cpu \in {"guest", "drain", "finish"}
  /\ left \in 0..FifoSize
  /\ ring \in [0..RingSize - 1 -> Byte]
  /\ head \in 0..RingSize - 1
  /\ tail \in 0..RingSize - 1
  /\ ier \in SUBSET {"rx", "tx"}
  /\ dlab \in BOOLEAN
  /\ loop \in BOOLEAN
  /\ plic \in PlicType
  /\ statsWanted \in BOOLEAN
  /\ lastGot \in 0..MaxBytes

\* The UART's request is never lost in the PLIC: whenever the guest runs and
\* the source is not in service, its pending bit is exactly the level of the
\* line -- after any mix of polls, RBR reads, loopback writes, IER writes and
\* claims, and in particular after a completion, which must re-sample
\* (hyp_plic.c:127-138, hyp_uart.c:110-115).
LevelNotLost ==
  cpu = "guest" /\ UartSource \notin plic.claimed =>
    (UartSource \in plic.pending <=> Line)

\* The PLIC never offers a UART interrupt the 16550 has no reason for, not
\* even while the poll runs or the source is in service: a claim whose IIR
\* reads "no interrupt pending" is what makes Linux report "nobody cared" and
\* disable the line (hyp_uart.c:132-145).
NoStalePending == UartSource \in plic.pending => Line

\* The poll drains no more bytes than the hardware FIFO holds, although the
\* length was read before the drain and bytes keep arriving during it
\* (hyp_intr.c:113-116).
SnapshotCovered == cpu = "drain" => left <= Len(fifo)

\* The contents of the receive ring, oldest first.
RingContents ==
  [i \in 1..(head - tail + RingSize) % RingSize |->
     ring[(tail + i - 1) % RingSize]]

\* Wire bytes cross the FIFO, the ring and the guest's reads in the order they
\* were sent, none twice, whatever is dropped on the way and whatever loopback
\* bytes come between (hyp_intr.c:113-122, hyp_uart.c:82-101).
WireOrder ==
  LET s == <<lastGot>> \o RingContents \o fifo
  IN  \A i, j \in 1..Len(s) : i < j /\ IsWire(s[i]) /\ IsWire(s[j]) => s[i] < s[j]

\* The ring with its head and tail indices, driven by the poll and by loopback
\* writes on one side and by RBR reads on the other, implements a bounded FIFO
\* (hyp_uart.c:77-101).
RxChannel == INSTANCE ByteChannel WITH
  Tracked <- 1..MaxBytes, Capacity <- RingSize - 1,
  queue <- RingContents, got <- lastGot
RingIsChannel == RxChannel!Spec
=============================================================================
