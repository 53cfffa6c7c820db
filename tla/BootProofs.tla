----------------------------- MODULE BootProofs -----------------------------
(***************************************************************************)
(* Proofs about Boot, for every set of boards and every device tree.       *)
(*                                                                         *)
(* Each of the safety properties rests on where the cores are.  What core  *)
(* 1 has behind it at each place is Core1Path, what core 0 has made of the *)
(* image is ImageSoFar, and what either may conclude about the other from  *)
(* the flags they share is Rendezvous.                                     *)
(***************************************************************************)
EXTENDS Boot, WellFoundedInduction, TLAPS

Loading == {"kernel", "dtb", "rootfs", "cmdline"}
Released == {"pmp", "vector", "interrupts", "start", "mret", "guest", "halted"}
Reported == Released \cup {"spin"}

\* Core 1 alone changes these, in the order of its places.
Core1Path ==
  /\ core1 \in {"startup", "wrap", "entry"} \cup Reported
  /\ core1 \notin {"startup", "wrap"} => stack1 = "own"
  /\ startupDone => core1 \in Reported
  /\ core1 \in Released => mie = FALSE
  /\ vector = "hyp" => core1 \in {"interrupts", "start", "mret", "guest"}
  /\ core1 \in {"start", "mret", "guest"} => idfArmed = FALSE
  /\ core1 \in {"mret", "guest"} => running = TRUE

\* What each core may conclude of the other.
Rendezvous ==
  /\ stacksFreed => startupDone
  /\ core0 \in {"card", "vblk", "release", "service"} => loaded
  /\ ready => loaded /\ core0 = "service"
  /\ core1 \in Released => ready

\* The guest as far as core 0 has it.
ImageSoFar ==
  /\ core0 \in Loading => ~loaded
  /\ core0 \in Loading \ {"kernel"} \/ loaded => board.kernel = "ok" /\ image # "none"
  /\ core0 \in {"rootfs", "cmdline"} \/ loaded => board.dtb = "ok"
  /\ core0 = "rootfs" => dtb = board.blob \o board.behind
  /\ (core0 = "cmdline" \/ loaded) /\ board.rootfs = "ok" =>
       /\ Contains(SubSeq(dtb, 1, board.total), Mapping)
       /\ board.total <= Window
       /\ Contains(SubSeq(board.blob \o board.behind, 1, board.total), Hole)

IInv == board \in Boards /\ Core1Path /\ Rendezvous /\ ImageSoFar /\ NoStrayTrap

-----------------------------------------------------------------------------

USE DEF Loading, Released, Reported

\* The initial states satisfy the inductive invariant.
LEMMA InitIInv == Init => IInv
  BY DEF Init, IInv, Core1Path, Rendezvous, ImageSoFar, NoStrayTrap

\* A set of naturals has a least element; this is what First chooses.
LEMMA FirstIsLeast ==
  ASSUME NEW S \in SUBSET Nat, S # {}
  PROVE  First(S) \in S /\ \A j \in S : First(S) <= j
<1> DEFINE R == {p \in Nat \X Nat : p[1] < p[2]}
<1>1. IsWellFoundedOn(R, Nat)
  BY NatLessThanWellFounded DEF OpToRel
<1> HIDE DEF R
<1>2. PICK i \in S : \A j \in S : <<j, i>> \notin R
  <2>1. S \subseteq Nat
    OBVIOUS
  <2> QED
    BY <1>1, <2>1, WFMin
<1>3. \A j \in S : ~(j < i)
  BY <1>2 DEF R
<1>4. \A j \in S : i <= j
  BY <1>3
<1> QED
  BY <1>4 DEF First

\* The placeholder patch_dtb_window finds lies within the size the device tree
\* states, and the mapping stands in its place afterwards.
LEMMA Patched ==
  ASSUME IInv, MapRootfs, Holes(dtb, board.total) # {}
  PROVE  /\ Contains(SubSeq(dtb', 1, board.total), Mapping)
         /\ board.total <= Window
         /\ Contains(SubSeq(board.blob \o board.behind, 1, board.total), Hole)
<1> DEFINE tree == board.blob \o board.behind
           H == Holes(dtb, board.total)
           i == First(H)
<1>1. /\ dtb = tree /\ tree \in Seq(Pairs) /\ Len(tree) = Window
      /\ board.total \in Nat /\ Window \in Nat
  <2>1. board \in Boards /\ board \in BoardType
    BY BoardAssumption DEF IInv
  <2>2. board.blob \in Seq(Pairs) /\ board.behind \in Seq(Pairs) /\ board.total \in Nat
    BY <2>1 DEF BoardType
  <2>3. tree \in Seq(Pairs)
    BY <2>2
  <2>4. Len(tree) = Window /\ Window \in Nat
    BY <2>1, BoardAssumption
  <2>5. dtb = tree
    BY DEF IInv, ImageSoFar, MapRootfs
  <2> QED
    BY <2>2, <2>3, <2>4, <2>5
<1> HIDE DEF tree
<1>2. H \subseteq 1..board.total /\ H \in SUBSET Nat /\ board.total <= Window
  BY <1>1 DEF Holes
<1>3. i \in 1..board.total /\ tree[i] = Hole
  <2>1. i \in H
    BY <1>2, FirstIsLeast
  <2> QED
    BY <2>1, <1>1 DEF Holes
<1>4. dtb' = [tree EXCEPT ![i] = Mapping]
  BY <1>1 DEF MapRootfs
<1> HIDE DEF i, H
<1>5. dtb' \in Seq(Pairs) /\ Len(dtb') = Window /\ dtb'[i] = Mapping
  BY <1>1, <1>2, <1>3, <1>4, BoardAssumption
<1>6. ASSUME NEW s \in Seq(Pairs), Len(s) = Window, NEW p, s[i] = p
      PROVE  Contains(SubSeq(s, 1, board.total), p)
  <2> DEFINE t == SubSeq(s, 1, board.total)
  <2>1. i \in 1..Len(t) /\ t[i] = p
    BY <1>1, <1>2, <1>3, <1>6
  <2> HIDE DEF t
  <2>2. Contains(t, p)
    BY <2>1 DEF Contains
  <2> QED
    BY <2>2 DEF t
<1>7. Contains(SubSeq(dtb', 1, board.total), Mapping)
  BY <1>5, <1>6
<1>8. Contains(SubSeq(tree, 1, board.total), Hole)
  BY <1>1, <1>3, <1>6
<1> QED
  BY <1>2, <1>7, <1>8 DEF tree

-----------------------------------------------------------------------------
(* Each step keeps the invariant. *)

\* The load.
LEMMA LoadStep ==
  ASSUME IInv, CopyKernel \/ CopyDtb \/ SkipRootfs \/ MapRootfs \/ PatchCmdline
  PROVE  IInv'
<1>1. /\ board' = board /\ core0 \in Loading
      /\ UNCHANGED <<core1, devices, stacksFreed, hart1>>
  BY DEF CopyKernel, CopyDtb, SkipRootfs, MapRootfs, PatchCmdline
<1>2. Core1Path' /\ NoStrayTrap'
  BY <1>1 DEF IInv, Core1Path, NoStrayTrap, hart1
<1>3. Rendezvous'
  <2>1. ~ready /\ core1 \notin Released
    BY <1>1 DEF IInv, Rendezvous
  <2>2. core0' \in Loading \cup {"scheduler"}
    BY DEF CopyKernel, CopyDtb, SkipRootfs, MapRootfs, PatchCmdline, LoadFails
  <2> QED
    BY <1>1, <2>1, <2>2 DEF IInv, Rendezvous, devices, hart1
<1>4. ImageSoFar'
  <2>1. CASE CopyKernel
    BY <2>1 DEF IInv, ImageSoFar, CopyKernel, LoadFails
  <2>2. CASE CopyDtb
    BY <2>2 DEF IInv, ImageSoFar, CopyDtb, LoadFails
  <2>3. CASE SkipRootfs
    BY <2>3 DEF IInv, ImageSoFar, SkipRootfs
  <2>4. CASE MapRootfs
    <3>1. CASE Holes(dtb, board.total) = {}
      BY <2>4, <3>1 DEF IInv, ImageSoFar, MapRootfs, LoadFails
    <3>2. CASE Holes(dtb, board.total) # {}
      BY <2>4, <3>2, Patched DEF IInv, ImageSoFar, MapRootfs
    <3> QED
      BY <3>1, <3>2
  <2>5. CASE PatchCmdline
    BY <2>5 DEF IInv, ImageSoFar, PatchCmdline
  <2> QED
    BY <2>1, <2>2, <2>3, <2>4, <2>5
<1> QED
  BY <1>1, <1>2, <1>3, <1>4 DEF IInv

\* Core 0 from its scheduler on.
LEMMA ServiceStep ==
  ASSUME IInv, StartScheduler \/ AllCoresReady \/ AppMain \/ InitCard
                 \/ InitVirtioBlk \/ Release
  PROVE  IInv'
<1> USE DEF StartScheduler, AllCoresReady, AppMain, InitCard, InitVirtioBlk, Release
<1>1. board' = board /\ UNCHANGED <<core1, guest, hart1>>
  OBVIOUS
<1>2. Core1Path' /\ NoStrayTrap'
  BY <1>1 DEF IInv, Core1Path, NoStrayTrap, hart1
<1>3. Rendezvous'
  BY <1>1 DEF IInv, Rendezvous, devices, guest, hart1
<1>4. ImageSoFar'
  BY <1>1 DEF IInv, ImageSoFar, guest
<1> QED
  BY <1>1, <1>2, <1>3, <1>4 DEF IInv

\* Core 1, and the interrupts that reach it.
LEMMA Core1Step ==
  ASSUME IInv, Core1 \/ HostInterrupt
  PROVE  IInv'
<1> USE DEF Core1, Arrive, SwitchStack, ReportReady, MaskInterrupts, SetPmp,
            SetVector, SetupInterrupts, SetRunning, LinuxStart, HostInterrupt
<1>1. UNCHANGED <<board, core0, guest, devices, stacksFreed>>
  OBVIOUS
<1>2. Core1Path'
  BY DEF IInv, Core1Path, hart1
<1>3. NoStrayTrap'
  BY DEF IInv, Core1Path, NoStrayTrap, hart1
<1>4. Rendezvous'
  BY <1>1 DEF IInv, Rendezvous, devices, guest, hart1
<1>5. ImageSoFar'
  BY <1>1 DEF IInv, ImageSoFar, guest
<1> QED
  BY <1>1, <1>2, <1>3, <1>4, <1>5 DEF IInv

\* The invariant is inductive.
LEMMA NextIInv == IInv /\ [Next]_vars => IInv'
<1> SUFFICES ASSUME IInv, [Next]_vars PROVE IInv'
  OBVIOUS
<1>1. CASE Next
  BY <1>1, LoadStep, ServiceStep, Core1Step DEF Next, Core0
<1>2. CASE UNCHANGED vars
  BY <1>2 DEF IInv, Core1Path, Rendezvous, ImageSoFar, NoStrayTrap, vars, guest,
              devices, hart1
<1> QED
  BY <1>1, <1>2

THEOREM Invariant == Spec => []IInv
  BY InitIInv, NextIInv, PTL DEF Spec

-----------------------------------------------------------------------------

\* No interrupt of the vendor's start-up, and none before linux_running, ever
\* reaches the monitor's vector (hyp_boot.c:533-560).
THEOREM StrayTrapNever == Spec => []NoStrayTrap
<1>1. IInv => NoStrayTrap
  BY DEF IInv
<1> QED
  BY <1>1, Invariant, PTL

\* Core 1 has left its start-up stack when core 0 gives it to the heap
\* (hyp_boot.c:517-531, 572-588).
THEOREM StackKept == Spec => []StackNotReused
<1>1. IInv => StackNotReused
  BY DEF IInv, Rendezvous, Core1Path, StackNotReused
<1> QED
  BY <1>1, Invariant, PTL

\* Core 1 enters complete guests only: kernel and device tree were copied and,
\* with a root file system the guest can read, the device tree names its mapping
\* (hyp_load_guest), whatever size the tree states and whatever PSRAM held.
THEOREM GuestWhole == Spec => []GuestIsWhole
<1>1. IInv => GuestIsWhole
  BY DEF IInv, Rendezvous, ImageSoFar, GuestIsWhole, Complete
<1> QED
  BY <1>1, Invariant, PTL

\* Once the guest runs, core 0 touches neither the image nor the device tree nor
\* what stands behind the block device (app_main).
THEOREM NothingMoves == Spec => NothingMovesUnderGuest
<1>1. IInv /\ [Next]_vars => [core1 = "guest" => UNCHANGED <<guest, card, service>>]_vars
  <2> SUFFICES ASSUME IInv, Next, core1 = "guest"
               PROVE  UNCHANGED <<guest, card, service>>
    OBVIOUS
  <2>1. core0 = "service"
    BY DEF IInv, Rendezvous
  <2> QED
    BY <2>1 DEF Next, Core0, Core1, CopyKernel, CopyDtb, SkipRootfs, MapRootfs,
       PatchCmdline, StartScheduler, AllCoresReady, AppMain, InitCard, InitVirtioBlk,
       Release, Arrive, SwitchStack, ReportReady, MaskInterrupts, SetPmp, SetVector,
       SetupInterrupts, SetRunning, LinuxStart, HostInterrupt, devices
<1> QED
  BY <1>1, Invariant, PTL DEF Spec, NothingMovesUnderGuest
=============================================================================
