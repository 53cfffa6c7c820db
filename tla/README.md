# A TLA+ model of the ESP32-P4 Linux hypervisor

The repository is a machine-mode monitor for the ESP32-P4.  Core 1 runs a NOMMU
Linux in user mode; every privileged instruction and every device access of the
guest traps into the monitor, which emulates it.  Core 0 runs FreeRTOS, the SD
card driver and a service loop.  This directory models the monitor's own logic:
what it keeps, what each trap does to it, and how the two cores and the hardware
interleave with it.  TLC checks small instances, TLAPS proves the central
invariants for all of them.

## 1. Inventory

| component | state | operations | interacts with |
|---|---|---|---|
| interrupt controller, `hyp_plic.c` | `plic`: priority, enable, pending, claimed, threshold | claim, complete, configure, `plic_set_pending` | driven by UART and block device, read by `hyp_intr.c`, `hyp_csr.c` |
| console UART, `hyp_uart.c` | 16550 registers, receive ring | register reads and writes, `uart_rx_push`, `v16550_reeval` | fed by the device poll, drives the PLIC |
| virtual timer, `hyp_clint.c` | `shadow_mtimecmp`, the host alarm | `hyp_mtime`, `clint_read`, `clint_write`, `hyp_arm_timer`, `mtip_pending` | alarm fires a host interrupt; core 0 snapshots the same counter |
| delivery and poll, `hyp_intr.c` | `hyp_stats_wanted` | `hyp_pending_cause`, `hyp_inject`, `hyp_deliver_pending`, `hyp_poll_host_devices` | called at the end of every trap |
| shadow CSRs, `hyp_csr.c` | `shadow`, `guest_priv`, PMP storage | CSR instructions, `mret`, `wfi` | dispatched by `hyp_core.c` |
| trap dispatch, `hyp_core.c` | the trap frame | `hypervisor`, `hypervisor_trap` | everything above |
| MMIO dispatch, `hyp_mmio.c` | the device table | `mmio_find`, `hypervisor_mmio` | PLIC, CLINT, UART, virtio |
| block device, `hyp_virtio_blk.c` | `blk`, `s_kick`, `s_irq`, the rings in guest memory | register accesses (core 1), `blk_task` (core 0), `hyp_virtio_blk_poll` (core 1) | PLIC, SD card; two cores, no lock |
| SD card, `hyp_sd.c` | card handle | read, write | called by core 0 only |
| decoder, `hyp_decode.c` | none | fetch by halfwords, expansion of compressed instructions, register file access | CSR and MMIO emulation |
| start-up and service loop, `main.c` | `quiet_ticks`, `reported` | release of the guest, statistics, liveness check | flags written by core 1 |
| boot, `hyp_boot.c` | `guest_image_ready`, load state | image and device tree, interrupt set-up, launch | both cores at start |
| trace and statistics, `hyp_trace.c` | ring of the last traps, counters, dump budget | record (core 1), dump (both) | diagnostics |
| USB keyboard, `hyp_kbd.c` | report state, byte ring, repeat clock | transfer completion, decode, poll | not in the build |
| trap vector, `hyp_vectors.S` | saved registers | entry, exit | `hypervisor` |
| native boot shim, `native/linux-native/main/main.c` | peripheral registers, PSRAM through the data cache, the cache window | register bring-up, page-wise load, tree patch, jump; any failure restarts the chip | boots Linux without the monitor |
| `tools/`, `buildroot/`, rest of `native/` | | host tools, image scripts, panel, init shim | none at run time |

Where the difficulty lies, and what makes each part correct:

* **Two cores and no lock** (block device).  A kick may fall between core 0's
  last look at the ring and its next test of the flag; a completion may fall
  between core 1's test and clearing of `s_irq`, or between the driver's claim
  and its acknowledgement.  Correct means: requests are performed and reported
  once, in order, and no kick or completion is forgotten.
* **Level interrupts through an edge-like controller** (UART and PLIC).  The
  pending bit is stored, the level is computed, and a claimed source is masked.
  Correct means: the bit is the level whenever the guest could claim it.
* **One delivery site** (trap dispatch).  Interrupts are injected only at the end
  of a trap.  Correct means: whatever opened the gate was a trap, or a host
  interrupt is about to be one; and what the guest sees is a RISC-V hart.
* **A one-shot alarm behind a level timer.**  Correct means: no tick is lost when
  the alarm fires while the guest reprograms it; a `wfi` for it ends.
* **Sixty-four bits in halves.**  The guest reads the clock and writes its
  deadline a half per trap; the monitor reads the counter in halves from a
  snapshot core 0 may renew in between.  Correct means: the time is a real one,
  no tick is early, none is lost.
* **Emulation of an instruction from nothing but its bits.**  Correct means: the
  hart, the device and the CSR end as the instruction set says, for every
  register, compressed or not, and `mepc` lands on the next instruction.
* **Errors inside a request.**  Correct means: what reports success is exact,
  what fails says so.
* **Bounded buffers** (hardware FIFO, rings) that drop when full.  Correct means:
  what is not dropped stays in order.
* **Two cores that wait for each other** (boot).  Correct means: core 1 enters a
  complete guest, on a stack of its own, with no interrupt of the vendor's left;
  and it does enter it.
* **A check that must neither cry nor sleep** (liveness check).  Correct means: a
  guest that stops is named with its last traps, one that does not is left alone.
* **States reported as events** (USB keyboard).  Correct means: a press is typed
  once, whatever transfers, timeouts and errors fall between two reports.
* **Attempts that fail half-way** (native boot).  Correct means: Linux is entered
  with all that the shim prepares or not at all, over whatever an attempt before
  left in PSRAM and registers.

`PROJECT.json` lists the hazards line by line, with the properties that cover them.

## 2. Modules

| module | models | abstract counterpart |
|---|---|---|
| `Plic` | the operators of `hyp_plic.c` on a record; bitmaps are sets | |
| `Console` | wire, hardware FIFO, `hyp_poll_host_devices`, 16550, PLIC, arbitrary guest | `ByteChannel` |
| `ConsoleDriver` | `Console` with the guest restricted to Linux's PLIC and 8250 drivers | |
| `VirtioBlk` | the queue between driver, monitor and core 0 | `AsyncDisk` |
| `BlkRequest` | one request inside `blk_do_request` and `blk_transfer` | |
| `HypTrap` | dispatch, shadow CSRs, delivery, timer, `wfi`, block completions | `VirtHart` |
| `Access` | one trapped load, store or CSR instruction from vector to vector | `GuestIsa` |
| `RvWord` | words as sets of bits | |
| `GuestTimer` | `mtime` and `mtimecmp` in halves, the alarm, core 0's snapshots, Linux's timer driver | |
| `Boot` | `hyp_load_guest`, `app_main` to the release, core 1 to its `mret` | |
| `Watchdog` | the liveness check on core 0 and the trace ring both cores print | |
| `Keyboard` | the poll thread: transfer, semaphore, report difference, repeat | |
| `NativeBoot` | `app_main` of the native boot shim | |
| `PlicProofs` | proofs about `Plic` | |
| `ConsoleProofs` | proofs about `Console` and `ConsoleDriver` | |
| `VirtioBlkProofs` | proofs about `VirtioBlk` and `BlkRequest` | |
| `HypTrapProofs` | proofs about `HypTrap` and `Watchdog` | |
| `AccessProofs` | proofs about `Access` and `GuestTimer` | |
| `BootProofs`, `KeyboardProofs`, `NativeBootProofs` | proofs about these modules | |
| `MC...` | values of the constants for TLC | |

A specification that shares its proof module with another has names of its own:
`RequestSpec`, `WatchSpec` (with fairness `WatchLiveSpec`), `AccessSpec`.

`Console` and `VirtioBlk` use the operators of `Plic` on their own `plic`
variable, in the order the C handlers call them.  `HypTrap` reduces the PLIC to
its output wire, which the other two modules drive.

### State and steps

* `Console`: core 1 is in the guest or inside the poll (`cpu`).  The poll is four
  steps, because bytes arrive, and the UART raises its status, between the read
  of the FIFO length, each byte of the drain and the clearing of the status.  A
  guest access is one trap and one step.  Bytes of the wire carry their number,
  so that loss, duplication and reordering can be told apart.
* `VirtioBlk`: core 0 takes one step per access to shared memory: test and clear
  of `s_kick`, test of `blk.live`, the read of `avail->idx` with the slot, the
  transfer, the used entry, `used->idx`, `last_avail`, `s_irq`.  Core 1 is either
  in the guest's driver or in the poll, whose test and clearing of `s_irq` are
  two steps.  A register write of the guest is one.
* `BlkRequest`: one step per descriptor, one per bounce buffer, and one for a
  transfer that fails, which may have written some of its sectors.  `starts` is
  no variable of the code: it records at which sector each descriptor began.
  The header's sector number is of 64 bits, `sector` of 32 (`SectorMod`): what is
  read of it, and every sum on it, is cut to that.
* `HypTrap`: a trap is the handler with the advance of `mepc`, then the delivery;
  time passes, the alarm fires, the UART raises and core 0 completes a block
  request between them.  The loop of `wfi` is a step per iteration.  The guest
  executes any instruction.  Time has no end: `mtimecmp` and the alarm are the
  ticks that are left until them, at most `MaxAhead` when they are set, and `Tick`
  counts both down.
* `Access`: three steps per instruction: the vector saves the registers, which the
  monitor then uses for itself; the handler works on the frame, the devices and
  the shadow bank; the vector restores.  What the handler knows of the
  instruction is `mcause`, `mtval` and the halfwords at `mepc`.  `GuestIsa` is the
  hart as its manual has it: it executes the instruction, its memory the device's
  registers.  An instruction is assembled, and perhaps compressed, on the guest's
  side; `DecodedIsMeant` compares what the decoder makes of the bits with it.
  Three assumptions on the constants say which programs, devices and addresses are
  meant, see section 5.
* `GuestTimer`: `hyp_mtime` is three steps (snapshot, low, high), so that core 0's
  snapshot and the clock fall between them; each access of the driver, and each
  host interrupt, is a trap that ends in the delivery with its own `hyp_mtime`.
* `NativeBoot`: a step per register write, per page, per write-back; `Restart`
  keeps registers and what PSRAM has beyond the cache.  A dirty cache line may
  be written back at any time (`Evict`).  A tree without the placeholder gets a
  warning that Linux will fail to mount root, and the shim jumps all the same:
  `LinuxIsPrepared` says that Linux finds its root file system in the tree if and
  only if the flashed tree has the placeholder.
* `Boot`: what a board has is chosen once (`board`): partitions that are absent,
  cannot be mapped, or are mapped where the guest may not read; a device tree
  with the placeholder at some place or none, that states any size, up to and
  beyond the window of 1 MB (`Window`) the code bounds it by; what PSRAM held
  behind the copy, which the scan reaches with such a size (`behind`); card,
  memory, PMP entry.  Core 0 takes one step per call of `hyp_load_guest` and `app_main`,
  core 1 one per change of its stack, flags, interrupt enable, vector, lines.
  `HostInterrupt` is any interrupt the hardware would deliver to the monitor's
  vector then.
* `Watchdog`: a step is one access to what the cores share (ring, index, count,
  budget, `hyp_in_wfi`); the guest computes, sleeps or stops for good in between.
  `hyp_trace_total` is read once a second, though the source names it twice
  (`main.c:76`, `82`): it is not volatile, nothing is called between its uses, and
  the build optimises for speed (`CONFIG_COMPILER_OPTIMIZATION_PERF`), which makes
  one load of them.  A build that loads it twice is not covered.  A handler is much shorter than that second.  The count
  wraps at `TotalMod`, 2^32 in the code; the history a dump is compared with does
  not.  `DumpIsHistory` says that a dump is the traps up to the newest without a
  gap, all that the ring holds until the count first wraps; behind a wrap the code
  prints no more than the count says, and nothing where it is zero.
* `Keyboard`: the user, the keyboard, the host controller and the poll thread.
  A report is the sequence of keys that are down, or rollover in every slot.
  The decoder keeps what it knows of the keys when the keyboard is unplugged:
  `inherited` are the keys the next one has had down in every report so far.  A
  key held through a rollover report is typed again behind it, which `typed` does
  not count.  Section 4 shows both without these exceptions.

Definitions whose name begins with `Bug` are mistakes the definition next to
them could contain, one for each property; replacing the definition by the
mistake makes TLC report that property.  They take no part in any specification.

### Abstractions

* Memory is sequentially consistent.  The code fences its ring writes; it does
  not fence the clearing of `s_kick` against the following read of `avail->idx`
  (`hyp_virtio_blk.c:369-370`), which the model takes to be ordered.
* Guest accesses to the UART are byte wide, as the driver makes them.
* The transmit side of the host UART is left out: a byte is sent or dropped and
  nothing else depends on it.
* The `RXFIFO_FULL` threshold is one byte (`hyp_boot.c`, `setup_interrupts`), so
  the status is raised again while the FIFO holds something.
* `HypTrap` writes `mtimecmp` as a whole, among all else a guest can do;
  `GuestTimer` has the halves, and a guest that does nothing but keep time.
* `Access` has three of the hart's registers (x2, x8, x15) and a few instructions
  of each shape, chosen for `x0`, `rd = rs1`, signs, the compressed register file,
  every bit of a compressed offset and the ends of a window.  The device behind a
  window is storage, by words or by bytes, as CLINT, PLIC and virtio, and the
  UART, take accesses: a word register ignores the width and so does its model.
  The exchange of the stack pointer through `mscratch` is part of `TrapEntry`.
* `NativeBoot` counts PSRAM in cells of the device tree, and the placeholder is
  two of them; a field of several bits is one bit when it is written as one.
* `MPP` is U or M, and an instruction advances `mepc` by one or two units, for
  two and four bytes.
* The block device exists and the card is ready: `QueuePFN` brings the queue up.
* 16-bit indices wrap at `IndexSize`, a multiple of the ring size, as there.
* A device tree is a sequence of address pairs; `patch_dtb_window` looks for a
  pair at any offset and overwrites the first it finds.  That the placeholder
  occurs once at most is what the code's comment leaves to the build.
* What a key is as characters is left out of `Keyboard`, and a key typed more than
  twice counts as twice.
* The driver's code is Linux's and is marked external; it follows what the
  comments of the monitor's sources say of it.

## 3. Runs

| run | question | bounds |
|---|---|---|
| `console_line` | is the UART's pending bit its level, and the ring a bounded FIFO, under any guest? | ring 3, FIFO 1, one wire byte and any loopback bytes, two sources, priorities 0 and 1 |
| `console_driver` | with Linux's drivers, do input and output drain in order, is no claim spurious, is the snapshot of the FIFO length safe? | ring 3, FIFO 2, four bytes in, two out |
| `virtio_blk` | does the hand-over implement an ordered queue, lose nothing, complete everything? | ring 2, indices 0..3, two tags, two set-ups |
| `blk_request` | is a successful request exact? | two data descriptors of 0 to 3 sectors, bounce buffer 2, card 6, sector numbers of 3 bits and one beyond, any chunk may fail |
| `blk_request_status` | does a failure reach the status byte? (it does not) | the same |
| `hyp_trap` | is trap and emulate a hart, is nothing stranded, no tick lost, does a `wfi` with an armed timer end and a completion reach the guest? | addresses 0..1, deadlines up to 2 ticks ahead, `mie` with all sources or one |
| `access` | does a trapped instruction leave hart, device and CSR as the instruction set says? | registers x2, x8, x15; every instruction shape; windows of word and of byte registers |
| `guest_timer` | is the clock read in halves a real time, no tick early, none lost? | halves of 3, alarm up to 8, clock 0..5, deadlines 1 and 2 ahead, core 0 reading too |
| `watchdog` | is a stopped guest named with its last traps, and only after real silence? | trace of 3, budget 2, limit of 2 seconds, 7 traps counted modulo 5 |
| `keyboard` | is a press typed once, a held key repeated, whatever the transfers do? | three keys, two slots, five presses, an error, two pluggings; delay 5, period 2, wait 2 |
| `boot` | does core 1 enter a complete guest, and always when there is one? | every board: three device trees of two pairs in a window of three, of any stated size up to 4 |
| `native_boot` | is Linux entered with all that the shim prepares in place, after any failures? | page of 2 cells, image sizes 0..6, five trees with stated sizes 3..7, each partition missing in turn, two restarts |

Why the bounds suffice.

* Rings: with three slots head and tail of the receive ring wrap past each other,
  and it is full, and empty, at each of them; a FIFO of two lets bytes arrive
  between the reading of its length and the drain.  With two tags the virtio ring
  is full, its slots are reused and the index of size four wraps within a set-up;
  the second set-up meets whatever the first left behind.
* Descriptors of three sectors over a bounce buffer of two take a whole and a
  partial chunk, and six sectors let a request end exactly at the end of the card.
* With three entries and seven traps the trace ring wraps, and so does the count
  of them; with a budget of two it is spent before the guest stops.
* Two slots and three keys roll over and come back; the second plugging meets the
  first keyboard's keys; five presses hold one key across presses of the others.
* `boot` and `native_boot` have no counters but the cells copied: their instances
  are combinations of what a board may have.  Sizes are below, at and above a
  page and a partition; the placeholder is behind the header, at the end, across a
  page, twice, and torn.  The first restart meets a first attempt's halves, the
  second what a repeated bring-up leaves in the registers.
* In `hyp_trap` a deadline is due, one tick ahead, or two, so that it can be moved
  ahead before the alarm fires, for ever; all three sources compete.  Its safety
  properties are proved for every `MaxAhead`.
* With halves of three, six times have two high halves, and a deadline can be in
  the same high half, in the next, and beyond the alarm's reach.
* `access` has one instruction at a time, as nothing but the frame, the devices
  and the CSRs outlives one.

Deadlock is checked except where the system may stop: `virtio_blk` (the driver
may be finished for good), `blk_request` (a request ends), `hyp_trap` (a panic),
`boot` and `native_boot` (they end), `keyboard` (nothing is typed any more),
`access` (the program ends).

### Fairness

* `ConsoleDriver`: the UART raises its status while the FIFO holds something, the
  status interrupts core 1, and the poll is straight-line code (weak fairness).
  Each poll clears what caused it, so the guest runs between two polls: a driver
  step that is possible again and again is taken (strong fairness).
* `VirtioBlk`: core 0's task polls and shares core 0 round robin with the idle
  task; the guest finishes a submission and a handler it has begun; core 1
  polls, since the guest's tick keeps host interrupts coming.  The last is an
  assumption on the guest: a completion by itself interrupts nobody.
  `CompletionSeen` of `HypTrap` examines it, without an assumption on when core 1
  polls: a guest whose timer is armed sees every completion, unless it moves its
  deadline ahead before the alarm fires again and again (`PostponesAlarm`), which
  nothing in the monitor prevents.  Linux's tick sets the next deadline when the
  last has come.
* `HypTrap`: the clock runs, a due alarm fires, core 1 executes its handlers, and
  a host interrupt that is raised again and again between instructions is taken
  (strong fairness: a trap in between withdraws it for a moment).
* `GuestTimer`: the clock runs, a due alarm fires, core 1 executes its handlers
  and the guest its timer handler.  Nothing is asked of the guest's programs,
  which may never trap.
* `Watchdog`: the service loop runs (its task delays 100 ms) and a handler that
  core 1 has entered goes on; nothing makes a guest trap.  A `wfi` that never
  ends is never reported, nor meant to be.
* `Keyboard`: the poll thread is scheduled; a keyboard that has a report to
  deliver is asked again and again, so that it delivers one in the end (strong
  fairness).  Errors are not fair, and at most one happens.
* `Boot`: each core executes its code.

## 4. What disagrees with the text

**A failed block request has no status** (`blk_request_status`).  The walk breaks
at the failing descriptor, before the last one, so `status_byte` is null and the
code that would write IOERR or UNSUPP is never reached.

More configurations are kept beside the runs and end in a counterexample; each
marks the edge of what the passing run of its module claims:

| configuration | property | what it shows |
|---|---|---|
| `MCBlkRequestSector` | `SectorsAreNamed` | the sector number of a request is cut to 32 bits (`hyp_virtio_blk.c:234`): 2^32 + n moves sector n and reports success, where a driver that keeps to the capacity never goes |
| `MCVirtioBlkReset` | `TornDownQueueUntouched` | a reset does not stop core 0: `blk.live` is tested on entry to `blk_service` only, and a reset while its loop runs clears `last_avail` under it |
| `MCWatchdogIdle` | `NoCryAtIdle` | seconds asleep count as quiet; `hyp_in_wfi` is looked at only when they are judged |
| `MCWatchdogWrap` | `DumpEndsWithTrap` | right after `hyp_trace_total` wraps to zero, the dump is empty and leaves out the trap being reported, which `hyp_trace.c:65` puts on the last line |
| `MCBootOffered` | `OfferedIsServed` | device id and capacity do not depend on whether the block device could be started |
| `MCBootStale` | `NoStalePlaceholder` | a window mapped where the guest may not read is taken for a missing one, and the guest runs with the placeholder |
| `MCHypTrapWfiHang` | `WfiCanEnd` | a `wfi` with the timer disarmed and no PLIC source enabled blocks when `mie.MEIE` is set |
| `MCKeyboardRollover` | `NeverTwice` | a rollover report replaces `kbd_prev`, so keys held through it are typed again |
| `MCKeyboardReplug` | `NoRepeatOfOldKeys` | the decoder's statics outlive the keyboard, and a key held while it was unplugged repeats on the next one |
| `MCGuestTimerTorn` | `MtimeIsNow` | `hyp_mtime` reads low, then high, once; `systimer_hal_get_counter_value`, which the comment at `hyp_clint.c:17` says it matches, reads low again until it stands still.  A snapshot of core 0 in between makes a time that never was, a tick too early by at most a trap's length before the low half wraps |

Two more without a configuration.  `hyp.h:249-251` says that `guest_fetch` returns
false outside the guest's window; `hyp_decode.c:51-67` has no such test, and its
callers need none, since `mepc` comes from a trap.  `hyp_panic` resets the dump
budget while core 0 may stand between loading and storing it
(`hyp_trace.c:221`): the reset can be lost, which costs a dump and no more.

## 5. Proofs

For every value of the constants allowed by the named assumptions:

* `PlicProofs`: what `plic_peek` returns is claimable; what claim, complete,
  set-pending and the configuration registers leave alone.
* `ConsoleProofs`: `TypeOK`, `LevelNotLost`, `NoStalePending`,
  `SnapshotCovered`.  Their conjunction is inductive.  A handler that
  re-samples restores both line invariants at once (`Sampled`); between, the
  poll only pushes, and a push never empties the ring (`PushEffect`), so a line
  that is up stays up until the poll re-samples.  `SnapshotCovered` is what
  makes the drain's reads well typed.
  Then the bytes: what the ring holds is a sequence read off its two indices
  (`ContentsOf`); a push appends to it and a pop takes its head, wherever the
  indices wrap.  Hence `RingIsChannel`, the refinement of `ByteChannel`, and
  `WireOrder`: guest, ring and FIFO together hold bytes of the wire in growing
  order, none twice (`Ordered`).
  Last, each step of `ConsoleDriver` is a step of `Console` or leaves it alone
  (`DriverIsGuest`), so all this holds with Linux's drivers, and
  `NobodyCaredNever` follows from the line invariants.
* `VirtioBlkProofs`: `TypeOK`, `NoLostKick`, `LineIsStatus`,
  `NoLostCompletion`, with and without the assumption that the driver resets an
  idle device only.  `NoLostCompletion` needs `ClaimHasCause`: a handler that
  claimed the source finds InterruptStatus set, so it reads the ring before it
  leaves; that in turn rests on `LineIsStatus`.
  `ImplementsDisk` is proved with that assumption (`QuietReset`) and is false
  without it, as `TornDownQueueUntouched` in section 4 shows.  What a driver waits
  for is a window over the two rings, reported before queued before filled in, in
  which no request occurs twice (`WindowInv`); so it is never longer than the
  queue, and no slot in use is written.  Core 0 works on the oldest queued
  request (`TaskInv`), the only one that may have been performed already
  (`ServedInv`).
  About one request: `SuccessIsExact` and `UsedLength`, for every chain, bounce
  buffer and card of fewer sectors than `sector` counts (`RequestInv`); the first
  is about requests whose sector number fits 32 bits, and is false of others, see
  section 4.  Where a descriptor begins is the sum of those
  before it; the history `starts` has it, so that no induction over the chain is
  needed.
* `HypTrapProofs`: `TypeOK`, `NoLostTick`, `NoStrandedInterrupt`, and that
  `HypTrap` implements `VirtHart`.  The invariant is `TypeOK` with
  `AlarmFollowsDeadline` (the alarm is the deadline, or is off because the
  deadline has passed; what fired was due) and `NothingUndelivered` (what the
  one delivery leaves behind).  The refinement maps every step to a step of the
  hart or to one of its devices.
  About `Watchdog`: `DumpIsHistory` and `QuietIsReal`, for every size of the ring,
  budget, limit and wrapping of the count.  Between any two steps of the cores
  ring and index are the last traps (`RingIsHistory`), the count is theirs up to a
  wrap (`CountIsHistory`), and every quiet second counted had no trap in it.
* `BootProofs`: `NoStrayTrap`, `StackNotReused`, `GuestIsWhole` and
  `NothingMovesUnderGuest`, for every set of boards and every device tree.  The
  invariant says what core 1 has behind it at each place (`Core1Path`), what core
  0 has made of the image (`ImageSoFar`), and what either may conclude about the
  other from the flags they share (`Rendezvous`); the last is what none of the
  properties says and all of them need.  That the first placeholder is found and
  replaced uses that a set of naturals has a least element (`FirstIsLeast`).
  Of the size a tree states only the code's bound is used, and of PSRAM only that
  the window is there (`BoardAssumption`).
* `AccessProofs`, first part: `DecodedIsMeant` and `ImplementsIsa`, for every program,
  device table and set of CSRs.  The compressed form is followed bit by bit
  (`CompressedBits`, `ShortFields`, `OffsetParts`) until `Expand` of it is the
  long form (`ExpandIsLong`).  The fields of the long form are the operands
  (`FormatI`, `FormatS`), an instruction that is not on the list has no key the
  monitor knows (`ForeignUnknown`), and a device register is the bytes that
  make it up (`FourBytes`).  So each handler's step is the instruction's
  (`LoadStep`, `StoreStep`, `CsrStep`), the vector's two halves are none, and what
  stops the guest is an access fault or a foreign instruction (`HaltStep`).  The
  invariant `Machine` says that the state is well typed and that the trap is the
  one reported for the instruction at `pc`.
  `ProgramAssumption` is what an assembler and Linux's drivers make: operands fit
  their fields, and a register of a device is accessed as a whole, within the
  device.  `DeviceAssumption` says that windows, and registers, do not overlap.
  `AccessAssumption` keeps `pc`, and `ProgramAssumption` addresses, below 2^31, as
  the windows (below 0x10002000) and the guest's RAM (0x48000000 to 0x4A000000,
  `hyp_boot.c:26`) are; a stray access beyond is not covered.
* `AccessProofs`, second part: `TimeReadIsReal` and `NoEarlyTick`, for every width of a half
  and every choice of deadlines, whether core 0 reads the counter or not.  What
  core 1 can have read of the snapshot never goes back, whoever made it
  (`SeenGrows`), so between two equal high halves the low half belongs to a time
  with that high half (`ReadSoFar`).  What stands in `mtimecmp` is a deadline, or
  the old or the new high half over ones, which is no earlier than the deadline
  it was made from (`CompareSoFar`).
* `KeyboardProofs`: `BufferStable`, `RepeatOnlyWhileHeld` and `OncePerPress`.  The
  transfer is armed, and its semaphore given, for a thread that has it pending
  only (`OneTransfer`); the held key is in the last report, of this keyboard or of
  the one before.  A key that was typed stays in the previous report until a
  report without it is decoded, and such a report was delivered while it was up
  (`PressInv`).
* `NativeBootProofs`: `LinuxIsPrepared`, for every content of the flash, every page
  size and any number of restarts.  Each register has a conjunct that says after
  which write it is what it should be, each copy one that says which cells are in
  place (`RootfsIsNamed` gets from there to the root file system in the tree); a
  restart makes all of them claim nothing, except that the divider's
  update strobe is down again, without which it would not rise the next time.

The assumptions are on constants only, and TLC evaluates them in the runs.  The one
hypothesis beside them is `QuietReset` of `RingsImplementDisk`, a constant too.

Only model-checked: the liveness properties, since fairness and ENABLED are out of
the prover's reach.  Every invariant, action property and refinement that a passing
run checks is a theorem.  `FailureIsReported` of `blk_request_status` is false.

## 6. Not modelled, and what is left

Not modelled, with the reason part by part in `PROJECT.json`: the panel and its
registers, the initialisation of the SD card, the text of diagnostics, the stub
and the user-space init shim beside the native boot, the build scripts, the host
tools and the programs of the guest image.  Of modelled parts: the
instruction-cache synchronisation of `hyp_csr.c`, the registers of the 16550 that
hold a value and nothing else, the keyboard's tables and its ring to core 1
(the module is not in the build).

What would come next:

1. `VirtioBlk`'s kick with a store buffer, with and without a fence
   (`hyp_virtio_blk.c:369`).
2. The ring from the keyboard's thread to core 1, with the self-test on core 1 as
   a second producer; two keyboards at once.
3. Proofs about the composition of the trap path with one emulated instruction:
   `HypTrap` takes a CSR instruction or an access as one step, `Access` has what is
   inside it.
4. The tables of the keyboard, and the parsers of the host tools, as functions.
