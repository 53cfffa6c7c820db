-------------------------------- MODULE Boot --------------------------------
(***************************************************************************)
(* From the start-up of both cores to the guest's first instruction:       *)
(* hyp_load_guest, the two link-time wraps and hyp_guest_core_entry of     *)
(* main/hyp_boot.c, app_main as far as its release of the guest, and the   *)
(* start of the card and of the block device (main/hyp_sd.c,               *)
(* main/hyp_virtio_blk.c).                                                 *)
(*                                                                         *)
(* Core 0 loads the guest before its scheduler runs.  Core 1 gets onto a   *)
(* stack of its own, says that it has started, waits for the image, takes  *)
(* its interrupts from the vendor's start-up code, and enters the guest.   *)
(* The device tree is a sequence of address pairs, one per node.           *)
(***************************************************************************)
EXTENDS Naturals, Sequences, SequencesExt

CONSTANTS
  Boards,       \* what a board may find at start-up, see BoardType
  Pairs,        \* address pairs of a device tree
  Hole,         \* the placeholder pair of the rootfs node
  Mapping,      \* the pair that names where the rootfs partition is mapped
  Window        \* pairs that fit the 1 MB of PSRAM set aside for the device tree

VARIABLES
  board,                  \* flash partitions, card, memory: fixed
  core0, core1,           \* where each core is
  image,                  \* the kernel in PSRAM: none, built, patched
  dtb,                    \* the window of the device tree, <<>> before the copy
  mapped,                 \* the rootfs partition is mapped
  loaded,                 \* guest_loaded
  card, service,          \* s_ready; the block device's task exists
  ready,                  \* guest_image_ready
  stack1, startupDone,    \* core 1's stack; its port_uxCoreStartupDone
  stacksFreed,            \* the start-up stacks belong to the heap
  mie, vector,            \* core 1: mstatus.MIE, mtvec
  idfArmed, ownArmed,     \* its lines routed by the vendor, by the monitor
  running,                \* linux_running
  trap                    \* the monitor's first trap: none, expected, stray

guest == <<image, dtb, mapped, loaded>>
devices == <<card, service, ready>>
hart1 == <<stack1, startupDone, mie, vector, idfArmed, ownArmed, running, trap>>
vars == <<board, core0, core1, guest, devices, stacksFreed, hart1>>

\* The partitions: absent, present but not mappable, mapped outside the window
\* the guest may read.  blob is what the partition of the device tree holds,
\* behind what PSRAM held behind its copy, and total the size the device tree
\* states for itself, whatever was flashed.
BoardType ==
  [ kernel : {"absent", "nommap", "ok"}, dtb : {"absent", "nommap", "ok"},
    rootfs : {"absent", "nommap", "outside", "ok"},
    cmdline : {"old", "own"}, blob : Seq(Pairs), behind : Seq(Pairs), total : Nat,
    card : BOOLEAN, bounce : BOOLEAN, task : BOOLEAN, pmp : BOOLEAN ]

ASSUME BoardAssumption ==
  /\ Boards \subseteq BoardType
  /\ Hole \in Pairs /\ Mapping \in Pairs /\ Hole # Mapping
  /\ Window \in Nat /\ \A b \in Boards : Len(b.blob \o b.behind) = Window

Init ==
  /\ board \in Boards
  /\ core0 = "kernel" /\ core1 = "startup"
  /\ image = "none" /\ dtb = <<>> /\ mapped = FALSE /\ loaded = FALSE
  /\ card = FALSE /\ service = FALSE /\ ready = FALSE
  /\ stack1 = "startup" /\ startupDone = FALSE /\ stacksFreed = FALSE
  /\ mie \in BOOLEAN /\ vector = "idf" /\ idfArmed = TRUE /\ ownArmed = FALSE
  /\ running = FALSE /\ trap = "none"

-----------------------------------------------------------------------------
(* Core 0, before the scheduler: hyp_load_guest. *)

\* A missing partition, or one that cannot be mapped to be copied, ends the
\* load; guest_loaded stays false and core 0 boots on.
BugLoadGoesOn == core0' = "scheduler" /\ loaded' = TRUE

LoadFails == core0' = "scheduler" /\ UNCHANGED loaded

CopyKernel ==
  /\ core0 = "kernel"
  /\ IF board.kernel = "ok"
       THEN image' = "built" /\ core0' = "dtb" /\ UNCHANGED loaded
       ELSE LoadFails /\ UNCHANGED image
  /\ UNCHANGED <<board, core1, dtb, mapped, devices, stacksFreed, hart1>>

CopyDtb ==
  /\ core0 = "dtb"
  /\ IF board.dtb = "ok"
       THEN dtb' = board.blob \o board.behind /\ core0' = "rootfs" /\ UNCHANGED loaded
       ELSE LoadFails /\ UNCHANGED dtb
  /\ UNCHANGED <<board, core1, image, mapped, devices, stacksFreed, hart1>>

\* Without the partition, or with its mapping outside the window the guest may
\* read, there is a warning and the load goes on.
SkipRootfs ==
  /\ core0 = "rootfs" /\ board.rootfs # "ok"
  /\ mapped' = (board.rootfs = "outside")
  /\ core0' = "cmdline"
  /\ UNCHANGED <<board, core1, image, dtb, loaded, devices, stacksFreed, hart1>>

\* The places the scan of patch_dtb_window reaches and finds the pair at: it
\* trusts the blob's own size up to the window, even beyond what was copied.
Holes(tree, total) == {i \in 1..total : total <= Window /\ tree[i] = Hole}

First(S) == CHOOSE i \in S : \A j \in S : i <= j

MapRootfs ==
  /\ core0 = "rootfs" /\ board.rootfs = "ok"
  /\ mapped' = TRUE
  /\ IF Holes(dtb, board.total) # {}
       THEN /\ dtb' = [dtb EXCEPT ![First(Holes(dtb, board.total))] = Mapping]
            /\ core0' = "cmdline" /\ UNCHANGED loaded
       ELSE LoadFails /\ UNCHANGED dtb
  /\ UNCHANGED <<board, core1, image, devices, stacksFreed, hart1>>

\* patch_guest_cmdline: only the old command line, when the new one fits.
PatchCmdline ==
  /\ core0 = "cmdline"
  /\ image' = IF board.cmdline = "old" THEN "patched" ELSE image
  /\ loaded' = TRUE /\ core0' = "scheduler"
  /\ UNCHANGED <<board, core1, dtb, mapped, devices, stacksFreed, hart1>>

-----------------------------------------------------------------------------
(* Core 0 from its scheduler to the release of the guest. *)

\* __real_xPortStartScheduler, and the vendor's main task, which waits for the
\* other core and then gives the start-up stacks of both to the heap.
StartScheduler ==
  /\ core0 = "scheduler"
  /\ core0' = "wait"
  /\ UNCHANGED <<board, core1, guest, devices, stacksFreed, hart1>>

AllCoresReady ==
  /\ core0 = "wait" /\ startupDone
  /\ stacksFreed' = TRUE
  /\ core0' = "app_main"
  /\ UNCHANGED <<board, core1, guest, devices, hart1>>

AppMain ==
  /\ core0 = "app_main"
  /\ core0' = IF loaded THEN "card" ELSE "returned"
  /\ UNCHANGED <<board, core1, guest, devices, stacksFreed, hart1>>

BugReleaseEarly ==
  /\ core0 = "card"
  /\ card' = board.card /\ ready' = TRUE
  /\ core0' = IF board.card THEN "vblk" ELSE "release"
  /\ UNCHANGED <<board, core1, guest, service, stacksFreed, hart1>>

\* hyp_sd_init: power, host, slot or card may fail, which is all one.
InitCard ==
  /\ core0 = "card"
  /\ card' = board.card
  /\ core0' = IF board.card THEN "vblk" ELSE "release"
  /\ UNCHANGED <<board, core1, guest, service, ready, stacksFreed, hart1>>

\* hyp_virtio_blk_init: no memory for the bounce buffer, or no task.
InitVirtioBlk ==
  /\ core0 = "vblk"
  /\ service' = (board.bounce /\ board.task)
  /\ core0' = "release"
  /\ UNCHANGED <<board, core1, guest, card, ready, stacksFreed, hart1>>

Release ==
  /\ core0 = "release"
  /\ ready' = TRUE
  /\ core0' = "service"
  /\ UNCHANGED <<board, core1, guest, card, service, stacksFreed, hart1>>

-----------------------------------------------------------------------------
(* Core 1. *)

\* The vendor's start-up of core 1 reaches the wrapped xPortStartScheduler
\* once core 0 has started its scheduler; its interrupts may be on.
Arrive ==
  /\ core1 = "startup" /\ core0 \notin {"kernel", "dtb", "rootfs", "cmdline",
                                       "scheduler"}
  /\ core1' = "wrap"
  /\ UNCHANGED <<board, core0, guest, devices, stacksFreed, hart1>>

BugReportOnOldStack ==
  /\ core1 = "wrap"
  /\ startupDone' = TRUE
  /\ core1' = "entry"
  /\ UNCHANGED <<board, core0, guest, devices, stacksFreed, stack1, mie, vector,
                 idfArmed, ownArmed, running, trap>>

SwitchStack ==
  /\ core1 = "wrap"
  /\ stack1' = "own"
  /\ core1' = "entry"
  /\ UNCHANGED <<board, core0, guest, devices, stacksFreed, startupDone, mie,
                 vector, idfArmed, ownArmed, running, trap>>

BugNotReported ==
  /\ core1 = "entry"
  /\ core1' = "spin"
  /\ UNCHANGED <<board, core0, guest, devices, stacksFreed, hart1>>

ReportReady ==
  /\ core1 = "entry"
  /\ startupDone' = TRUE
  /\ core1' = "spin"
  /\ UNCHANGED <<board, core0, guest, devices, stacksFreed, stack1, mie, vector,
                 idfArmed, ownArmed, running, trap>>

BugMieLeft ==
  /\ core1 = "spin" /\ ready
  /\ core1' = "pmp"
  /\ UNCHANGED <<board, core0, guest, devices, stacksFreed, hart1>>

\* The wait ends; interrupts are masked before the vector changes hands.
MaskInterrupts ==
  /\ core1 = "spin" /\ ready
  /\ mie' = FALSE
  /\ core1' = "pmp"
  /\ UNCHANGED <<board, core0, guest, devices, stacksFreed, stack1, startupDone,
                 vector, idfArmed, ownArmed, running, trap>>

SetPmp ==
  /\ core1 = "pmp"
  /\ core1' = IF board.pmp THEN "vector" ELSE "halted"
  /\ UNCHANGED <<board, core0, guest, devices, stacksFreed, hart1>>

SetVector ==
  /\ core1 = "vector"
  /\ vector' = "hyp"
  /\ core1' = "interrupts"
  /\ UNCHANGED <<board, core0, guest, devices, stacksFreed, stack1, startupDone,
                 mie, idfArmed, ownArmed, running, trap>>

\* hyp_clic_sanitize, then the two lines of the monitor.
SetupInterrupts ==
  /\ core1 = "interrupts"
  /\ idfArmed' = FALSE /\ ownArmed' = TRUE
  /\ core1' = "start"
  /\ UNCHANGED <<board, core0, guest, devices, stacksFreed, stack1, startupDone,
                 mie, vector, running, trap>>

SetRunning ==
  /\ core1 = "start"
  /\ running' = TRUE
  /\ core1' = "mret"
  /\ UNCHANGED <<board, core0, guest, devices, stacksFreed, stack1, startupDone,
                 mie, vector, idfArmed, ownArmed, trap>>

LinuxStart ==
  /\ core1 = "mret"
  /\ core1' = "guest"
  /\ UNCHANGED <<board, core0, guest, devices, stacksFreed, hart1>>

\* An interrupt reaches the monitor's vector: in user mode machine interrupts
\* are on whatever mstatus says.  One that comes before linux_running, or from
\* a line of the vendor's, is none hypervisor() can handle.
HostInterrupt ==
  /\ vector = "hyp" /\ trap = "none"
  /\ mie \/ core1 = "guest"
  /\ idfArmed \/ ownArmed
  /\ trap' = IF running /\ ~idfArmed THEN "expected" ELSE "stray"
  /\ UNCHANGED <<board, core0, core1, guest, devices, stacksFreed, stack1,
                 startupDone, mie, vector, idfArmed, ownArmed, running>>

-----------------------------------------------------------------------------
Core0 == CopyKernel \/ CopyDtb \/ SkipRootfs \/ MapRootfs \/ PatchCmdline
         \/ StartScheduler \/ AllCoresReady \/ AppMain \/ InitCard
         \/ InitVirtioBlk \/ Release
Core1 == Arrive \/ SwitchStack \/ ReportReady \/ MaskInterrupts \/ SetPmp
         \/ SetVector \/ SetupInterrupts \/ SetRunning \/ LinuxStart

Next == Core0 \/ Core1 \/ HostInterrupt

Spec == Init /\ [][Next]_vars
LiveSpec == Spec /\ WF_vars(Core0) /\ WF_vars(Core1)

-----------------------------------------------------------------------------
(* Properties. *)

TypeOK ==
  /\ board \in Boards
  /\ core0 \in {"kernel", "dtb", "rootfs", "cmdline", "scheduler", "wait",
                "app_main", "card", "vblk", "release", "service", "returned"}
  /\ core1 \in {"startup", "wrap", "entry", "spin", "pmp", "vector",
                "interrupts", "start", "mret", "guest", "halted"}
  /\ image \in {"none", "built", "patched"}
  /\ dtb = <<>> \/ Len(dtb) = Window
  /\ {mapped, loaded, card, service, ready, startupDone, stacksFreed, mie,
      idfArmed, ownArmed, running} \subseteq BOOLEAN
  /\ stack1 \in {"startup", "own"} /\ vector \in {"idf", "hyp"}
  /\ trap \in {"none", "expected", "stray"}

\* Can the guest be put together from what the board has?  The placeholder must
\* stand within the size the device tree states, and that within the window.
Complete ==
  /\ board.kernel = "ok" /\ board.dtb = "ok"
  /\ board.rootfs = "ok" =>
       /\ board.total <= Window
       /\ Contains(SubSeq(board.blob \o board.behind, 1, board.total), Hole)

\* Core 1 enters the guest behind everything core 0 does for it: from then on
\* neither the image nor the device tree nor what stands behind the block
\* device changes under it ("core 1 must not mret into a half-copied image").
NothingMovesUnderGuest ==
  [][core1 = "guest" => UNCHANGED <<guest, card, service>>]_vars

\* A guest that runs was complete, and its device tree, within the size it
\* states, names the mapping.
GuestIsWhole ==
  core1 = "guest" =>
    /\ Complete /\ image # "none"
    /\ board.rootfs = "ok" => Contains(SubSeq(dtb, 1, board.total), Mapping)

\* Core 1 is off its start-up stack before the heap may hand it out.
StackNotReused == stacksFreed => stack1 = "own"

\* No interrupt reaches the monitor's vector before it can handle it.
NoStrayTrap == trap # "stray"

\* The cores do not wait for each other for ever: a complete guest starts.
GuestStarts == (Complete /\ board.pmp) ~> (core1 = "guest")

\* "What IS fatal is mapping one and then failing to tell the guest where it
\* went": no guest runs with a mapped partition and the placeholder in its
\* device tree (hyp_load_guest).
NoStalePlaceholder == core1 = "guest" /\ mapped => ~Contains(dtb, Hole)

\* A block device the guest finds, with a capacity, has a task to serve it
\* ("virtio-blk: not offered to the guest", app_main).
Offered == card
OfferedIsServed == core1 = "guest" /\ Offered => service
=============================================================================
