--------------------------- MODULE ConsoleDriver ---------------------------
(***************************************************************************)
(* Console with the guest restricted to what its Linux drivers do: the     *)
(* PLIC driver's claim loop, the 8250 driver's handler (receive until LSR  *)
(* reports no data, then transmit) and its start_tx, and the virtio        *)
(* driver's acknowledgement.  The guest's code is not in this repository:  *)
(* it is modelled from how main/hyp_plic.c and main/hyp_uart.c say it      *)
(* behaves.  That an asserted external-interrupt input interrupts the      *)
(* guest is HypTrap's business; here it is one step.                       *)
(***************************************************************************)
EXTENDS Console

CONSTANT MaxTx      \* bound: bytes the guest's user writes in a behaviour

ASSUME DriverAssumption == MaxTx \in Nat /\ MaxPriority >= 1

VARIABLES
  drv,        \* where the guest's kernel is
  txq,        \* bytes in the 8250 driver's transmit buffer
  written     \* bytes the user has written so far

drvVars == <<drv, txq, written>>
allVars == <<vars, drvVars>>

DriverInit == Init /\ drv = "setup" /\ txq = 0 /\ written = 0

\* IIR as uart_reg_read(2) computes it; LSR.DR is ~RingEmpty.
Iir == IF "rx" \in ier /\ ~RingEmpty THEN "rx"
       ELSE IF "tx" \in ier THEN "tx" ELSE "none"

\* plic_init and request_irq: priorities, then enable bits, then IER.
SetupPlic ==
  /\ drv = "setup" /\ cpu = "guest"
  /\ \/ \E s \in Source : plic.priority[s] = 0 /\ plic' = SetPriority(plic, s, 1)
     \/ /\ \A s \in Source : plic.priority[s] # 0
        /\ \E s \in Source \ plic.enable : plic' = SetEnable(plic, plic.enable \cup {s})
  /\ UNCHANGED <<host, poll, uart, statsWanted, lastGot, drvVars>>

SetupIer ==
  /\ drv = "setup"
  /\ plic.enable = Source
  /\ WriteIER({"rx"})
  /\ drv' = "idle"
  /\ UNCHANGED <<txq, written>>

\* The external interrupt is taken, and the handler starts its claim loop.
TakeInterrupt ==
  /\ drv = "idle" /\ cpu = "guest"
  /\ MeipPending(plic)
  /\ drv' = "claim"
  /\ UNCHANGED <<vars, txq, written>>

ClaimLoop ==
  /\ drv = "claim"
  /\ PlicClaim
  /\ drv' = IF Peek(plic) = UartSource THEN "iirFirst"
            ELSE IF Peek(plic) = VirtioSource THEN "blk" ELSE "idle"
  /\ UNCHANGED <<txq, written>>

ReadIir ==
  /\ drv \in {"iirFirst", "iir"} /\ cpu = "guest"
  /\ drv' = IF Iir = "none" THEN "eoi" ELSE "rx"
  /\ UNCHANGED <<vars, txq, written>>

\* serial8250_rx_chars: LSR.DR guards every read of RBR.
ReceiveChar ==
  /\ drv = "rx" /\ ~RingEmpty
  /\ ReadRBR
  /\ UNCHANGED drvVars

ReceiveDone ==
  /\ drv = "rx" /\ RingEmpty /\ cpu = "guest"
  /\ drv' = IF "tx" \in ier THEN "tx" ELSE "iir"
  /\ UNCHANGED <<vars, txq, written>>

\* serial8250_tx_chars: one load at least, then back to IIR or on with the load.
TransmitChar ==
  /\ drv = "tx" /\ txq > 0
  /\ WriteTHR
  /\ txq' = txq - 1
  /\ drv' \in {"tx", "iir"}
  /\ UNCHANGED written

StopTx ==
  /\ drv = "tx" /\ txq = 0
  /\ WriteIER(ier \ {"tx"})
  /\ drv' = "iir"
  /\ UNCHANGED <<txq, written>>

AckVirtio ==
  /\ drv = "blk"
  /\ VirtioAck
  /\ drv' = "blkEoi"
  /\ UNCHANGED <<txq, written>>

EndOfInterrupt ==
  /\ \/ drv = "eoi" /\ PlicComplete(UartSource)
     \/ drv = "blkEoi" /\ PlicComplete(VirtioSource)
  /\ drv' = "claim"
  /\ UNCHANGED <<txq, written>>

\* A write(2) to the terminal: the byte is buffered, then start_tx.
UserWrite ==
  /\ drv = "idle" /\ cpu = "guest"
  /\ written < MaxTx
  /\ written' = written + 1
  /\ txq' = txq + 1
  /\ drv' = "startTx"
  /\ UNCHANGED vars

StartTx ==
  /\ drv = "startTx"
  /\ WriteIER(ier \cup {"tx"})
  /\ drv' = "idle"
  /\ UNCHANGED <<txq, written>>

Environment == (WireByte \/ FifoRaise \/ Monitor \/ TakeStatsRequest) /\ UNCHANGED drvVars

DriverStep == \/ SetupPlic \/ SetupIer \/ TakeInterrupt \/ ClaimLoop \/ ReadIir
              \/ ReceiveChar \/ ReceiveDone \/ TransmitChar \/ StopTx
              \/ AckVirtio \/ EndOfInterrupt \/ StartTx

DriverNext == Environment \/ DriverStep \/ UserWrite

(***************************************************************************)
(* The hardware raises its status and a raised status interrupts core 1;   *)
(* the poll is straight-line code.  The guest runs between two polls --    *)
(* each poll clears what caused it -- so a driver step that is possible    *)
(* again and again is taken.                                               *)
(***************************************************************************)
DriverFairness ==
  /\ WF_allVars(FifoRaise /\ UNCHANGED drvVars)
  /\ WF_allVars(PollStart /\ fifoInt /\ UNCHANGED drvVars)
  /\ WF_allVars((PollDrain \/ PollAck \/ PollFinish) /\ UNCHANGED drvVars)
  /\ SF_allVars(DriverStep)

DriverSpec == DriverInit /\ [][DriverNext]_allVars /\ DriverFairness

-----------------------------------------------------------------------------
(* Properties *)

\* The first IIR the handler reads after a claim names a reason: no claim of
\* the UART source is spurious, so Linux never disables the line with "nobody
\* cared" (hyp_uart.c:132-145, hyp_plic.c:127-138).
NobodyCaredNever == drv = "iirFirst" => Iir # "none"

\* Every byte that reached the hardware FIFO is read by the guest or dropped by
\* a full ring: the buffers always drain again (hyp_intr.c:110-131,
\* hyp_uart.c:110-115).
InputDrains == (fifo # <<>> \/ ~RingEmpty) ~> (fifo = <<>> /\ RingEmpty)

\* Output never stops after the first chunk: ETBEI holds the line up until the
\* driver has nothing left to send (hyp_uart.c:103-109).
OutputDrains == txq > 0 ~> txq = 0
=============================================================================
