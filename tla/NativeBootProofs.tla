-------------------------- MODULE NativeBootProofs --------------------------
(***************************************************************************)
(* Proofs about NativeBoot, for every content of the flash, every page     *)
(* size and any number of failed attempts.                                 *)
(*                                                                         *)
(* Every restart begins again at the first register write with nothing     *)
(* loaded, so what is to be shown is that each stage establishes its part  *)
(* over whatever it finds: the registers that the writes so far have made  *)
(* what they should be (BringUpSoFar), the cells copied so far             *)
(* (KernelSoFar, TreeSoFar).  Only one thing is needed of what an attempt  *)
(* leaves: the divider's update strobe is down again, or it would not rise *)
(* the next time.                                                          *)
(***************************************************************************)
EXTENDS NativeBoot, TLAPS

Stages == {"bringUp", "kernel", "tree", "rootfs", "patch", "jump", "linux"}

Types ==
  /\ board \in Boards /\ at \in Stages
  /\ n \in 1..21 /\ size \in Nat /\ done \in Nat /\ done <= size
  /\ DOMAIN data = Memory /\ DOMAIN ram = Memory /\ DOMAIN reg = Register
  /\ at # "bringUp" => n = 21

KernelLoaded ==
  \A a \in 0..(ProbeKernelSize - 1) :
    ram[a] = board.kernel[a + 1] /\ data[a] = ram[a]

KernelSoFar ==
  /\ at # "bringUp" => board.isImage
  /\ at = "kernel" => /\ size = ProbeKernelSize
                      /\ \A a \in 0..(done - 1) : data[a] = board.kernel[a + 1]
  /\ at \in {"tree", "rootfs", "patch", "jump", "linux"} => KernelLoaded

TotalFits == board.total <= Len(board.tree)

TreeSoFar ==
  /\ at = "tree" => /\ size = Len(board.tree)
                    /\ \A i \in 0..(done - 1) : data[DtbPa + i] = board.tree[i + 1]
  /\ at \in {"rootfs", "patch"} =>
       \A i \in 0..(Len(board.tree) - 1) : data[DtbPa + i] = board.tree[i + 1]
  /\ at \in {"jump", "linux"} => TreeInPlace /\ TotalFits
  /\ at \in {"patch", "jump", "linux"} => mapped

RadioSoFar ==
  /\ n > 1 => "pin13" \in reg["gpio"]
  /\ n = 4 => "pin12" \notin reg["gpio"]
  /\ n > 4 => c6 = "app"

CardSoFar ==
  /\ n > 5 => {"xpd", "force_tieh_sel", "tieh"} \subseteq reg["ldo4"]
  /\ n > 6 => "sdmmc_sys" \in reg["soc_clk"]
  /\ n > 8 => "sdmmc" \notin reg["reset"]
  /\ n > 9 => "ls_clk" \in reg["ctrl01"]

DividerSoFar ==
  /\ n # 12 => "update" \notin reg["ctrl02"]
  /\ n > 10 => /\ "edges" \notin reg["ctrl02"] /\ "edge_sel" \notin reg["ctrl02"]
               /\ "div4" \in reg["ctrl02"] /\ "drv1" \in reg["ctrl02"]
  /\ n > 11 => divider = {"div4", "drv1"}

PanelSoFar ==
  /\ n > 14 => "bus" \in reg["dsi"]
  /\ n > 16 => "reset" \notin reg["dsi"]
  /\ n > 17 => "dsi_src" \notin reg["ctrl02"]
  /\ n > 18 => "phy_cfg" \in reg["dsi"]
  /\ n > 20 => "pll_ref" \in reg["dsi"]

OthersKept == \A r, q \in Register : reg[r] \cap Others = reg[q] \cap Others

BringUpSoFar ==
  RadioSoFar /\ CardSoFar /\ DividerSoFar /\ PanelSoFar /\ OthersKept

HartSoFar ==
  pmp = [e \in 8..11 |-> IF e = 9 /\ at = "linux" THEN "rwx" ELSE "none"]
    /\ (at = "linux" => ~interrupts /\ ~stackGuard /\ synced)

IInv == Types /\ KernelSoFar /\ TreeSoFar /\ BringUpSoFar /\ HartSoFar

-----------------------------------------------------------------------------
(* The register writes *)

\* What they are.
LEMMA Writes ==
  /\ Len(BringUpWrites) = 20
  /\ BringUpWrites[1] = Write("gpio", {}, {"pin13"})
  /\ BringUpWrites[2] = Write("gpio", {}, {"pin12"})
  /\ BringUpWrites[3] = Write("gpio", {"pin12"}, {})
  /\ BringUpWrites[4] = Write("gpio", {}, {"pin12"})
  /\ BringUpWrites[5] = Write("ldo4", {"tieh_sel"}, {"xpd", "force_tieh_sel", "tieh"})
  /\ BringUpWrites[6] = Write("soc_clk", {}, {"sdmmc_sys"})
  /\ BringUpWrites[7] = Write("reset", {}, {"sdmmc"})
  /\ BringUpWrites[8] = Write("reset", {"sdmmc"}, {})
  /\ BringUpWrites[9] = Write("ctrl01", {"ls_src", "hs_mode"}, {"ls_clk"})
  /\ BringUpWrites[10] = Write("ctrl02", {"edges", "edge_sel"},
                               {"div4", "drv1", "drv", "sam", "slf"})
  /\ BringUpWrites[11] = Write("ctrl02", {}, {"update"})
  /\ BringUpWrites[12] = Write("ctrl02", {"update"}, {})
  /\ BringUpWrites[13] = Write("iomux", {"pulldown"}, {"pullup", "input", "sdmmc"})
  /\ BringUpWrites[14] = Write("dsi", {}, {"bus"})
  /\ BringUpWrites[15] = Write("dsi", {}, {"reset"})
  /\ BringUpWrites[16] = Write("dsi", {"reset"}, {})
  /\ BringUpWrites[17] = Write("ctrl02", {"dsi_src"}, {})
  /\ BringUpWrites[18] = Write("dsi", {}, {"phy_cfg"})
  /\ BringUpWrites[19] = Write("dsi", {"ref_src", "ref_div"}, {})
  /\ BringUpWrites[20] = Write("dsi", {}, {"pll_ref"})
  BY DEF BringUpWrites, KickC6, InitSdmmc, InitDsiClocks

\* What a write does to its register and to the others.
LEMMA WriteEffect ==
  ASSUME IInv, BringUp,
         NEW r, NEW clear, NEW set, BringUpWrites[n] = Write(r, clear, set)
  PROVE  /\ reg' = [reg EXCEPT ![r] = (reg[r] \ clear) \cup set]
         /\ divider' = IF r = "ctrl02" /\ "update" \in set \ reg[r]
                         THEN ((reg[r] \ clear) \cup set)
                                \cap {"edges", "edge_sel", "div4", "drv1"}
                         ELSE divider
         /\ r = "gpio" /\ "pin12" \in set \ reg[r] /\ "pin13" \in (reg[r] \ clear) \cup set
              => c6' = "app"
         /\ r # "gpio" \/ "pin12" \notin set => c6' = c6
         /\ n' = n + 1
  BY DEF BringUp, Write

\* The invariant of the registers over one of the writes.
LEMMA BringUpKeeps ==
  ASSUME IInv, BringUp
  PROVE  BringUpSoFar'
<1> USE DEF IInv, Types, BringUpSoFar
<1>1. n \in 1..20 /\ n' = n + 1 /\ DOMAIN reg = Register
  BY Writes DEF BringUp
<1>2. RadioSoFar'
  BY <1>1, Writes, WriteEffect DEF RadioSoFar, Register
<1>3. CardSoFar'
  BY <1>1, Writes, WriteEffect DEF CardSoFar, Register
<1>4. DividerSoFar'
  BY <1>1, Writes, WriteEffect DEF DividerSoFar, Register
<1>5. PanelSoFar'
  BY <1>1, Writes, WriteEffect DEF PanelSoFar, Register
<1>6. OthersKept'
  <2> DEFINE w == BringUpWrites[n]
  <2>1. Others \cap (w.clear \cup w.set) = {}
    BY <1>1, Writes, OthersAssumption
  <2>2. reg' = [reg EXCEPT ![w.reg] = (reg[w.reg] \ w.clear) \cup w.set]
    BY DEF BringUp
  <2> HIDE DEF w
  <2>3. \A r \in Register : reg'[r] \cap Others = reg[r] \cap Others
    BY <1>1, <2>1, <2>2
  <2> QED
    BY <2>3 DEF OthersKept
<1> QED
  BY <1>2, <1>3, <1>4, <1>5, <1>6

-----------------------------------------------------------------------------
(* The steps *)

\* The partition the header is read from lies below the tree.
LEMMA KernelFits ==
  ASSUME Types
  PROVE  /\ ProbeKernelSize \in Nat /\ ProbeKernelSize <= Len(board.kernel)
         /\ Len(board.kernel) \in Nat /\ Len(board.kernel) <= DtbPa
         /\ Len(board.tree) \in Nat /\ DtbPa \in Nat /\ Page \in Nat \ {0}
         /\ ProbeKernelSize # 0 => board.isImage
         /\ Memory = 0..(DtbPa + Len(board.tree) - 1)
<1>1. /\ board.kernel \in Seq(Flash) /\ Len(board.kernel) <= DtbPa
      /\ board.tree \in Seq(Flash) /\ board.imageSize \in Nat
      /\ Page \in Nat \ {0}
  BY BoardAssumption DEF Types
<1>2. Len(board.kernel) \in Nat /\ Len(board.tree) \in Nat
  BY <1>1
<1>3. DtbPa \in Nat
  BY BoardAssumption
<1>4. /\ ProbeKernelSize \in Nat /\ ProbeKernelSize <= Len(board.kernel)
      /\ ProbeKernelSize # 0 => board.isImage
  BY <1>1, <1>2 DEF ProbeKernelSize
<1> QED
  BY <1>1, <1>2, <1>3, <1>4 DEF Memory

\* The initial state satisfies the invariant.
LEMMA InitIInv == Init => IInv
<1> SUFFICES ASSUME Init PROVE IInv
  OBVIOUS
<1> USE DEF Init
<1>1. Types
  BY DEF Types, Stages
<1>2. KernelSoFar /\ TreeSoFar /\ HartSoFar
  BY DEF KernelSoFar, TreeSoFar, HartSoFar
<1>3. "update" \notin reg["ctrl02"]
  <2>1. BringUpWrites[11].set = {"update"} /\ 11 \in 1..Len(BringUpWrites)
    BY Writes DEF Write
  <2>2. "update" \notin Others
    BY <2>1, OthersAssumption
  <2> QED
    BY <2>2 DEF Left, Register
<1>4. BringUpSoFar
  BY <1>3 DEF BringUpSoFar, RadioSoFar, CardSoFar, DividerSoFar, PanelSoFar, OthersKept
<1> QED
  BY <1>1, <1>2, <1>4 DEF IInv

USE DEF psram, hardware, hart

\* A restart leaves nothing that the next attempt builds on.
LEMMA RestartKeeps ==
  ASSUME IInv, Restart, at # "linux", at = "bringUp" => n = 21
  PROVE  IInv'
<1> USE DEF Restart
<1>1. Types'
  BY DEF IInv, Types, Stages, Memory
<1>2. KernelSoFar' /\ TreeSoFar' /\ HartSoFar'
  BY DEF IInv, KernelSoFar, TreeSoFar, HartSoFar
<1>3. n = 21
  BY DEF IInv, Types
<1>4. BringUpSoFar'
  BY <1>3 DEF IInv, BringUpSoFar, RadioSoFar, CardSoFar, DividerSoFar, PanelSoFar, OthersKept
<1> QED
  BY <1>1, <1>2, <1>4 DEF IInv

\* The steps behind the bring-up touch no register of it.
LEMMA HardwareRests ==
  ASSUME IInv, UNCHANGED <<hardware, n>>
  PROVE  BringUpSoFar'
  BY DEF IInv, BringUpSoFar, RadioSoFar, CardSoFar, DividerSoFar, PanelSoFar, OthersKept

\* The tree stays what it is.
LEMMA TreeRests ==
  ASSUME UNCHANGED <<data, board>>
  PROVE  TreeInPlace' <=> TreeInPlace
<1>1. \A i : HoleInFlash(i)' <=> HoleInFlash(i)
  BY DEF HoleInFlash
<1>2. \A i : FirstHole(i)' <=> FirstHole(i)
  BY <1>1 DEF FirstHole
<1> QED
  BY <1>2 DEF TreeInPlace

\* Everything before the jump leaves the hart alone.
LEMMA HartRests ==
  ASSUME IInv, UNCHANGED hart, at # "linux", at' # "linux"
  PROVE  HartSoFar'
  BY DEF IInv, HartSoFar

\* The partitions and the header are there.
LEMMA StartLoadKeeps ==
  ASSUME IInv, StartLoad
  PROVE  IInv'
<1> USE DEF StartLoad
<1>1. BringUpSoFar' /\ HartSoFar'
  BY HardwareRests, HartRests
<1>2. Types'
  <2>1. n = 21
    BY Writes DEF IInv, Types
  <2>2. size' \in Nat
    BY KernelFits DEF IInv
  <2> QED
    BY <2>1, <2>2 DEF IInv, Types, Stages, Memory
<1>3. KernelSoFar' /\ TreeSoFar'
  BY KernelFits DEF IInv, KernelSoFar, TreeSoFar, ProbeKernelSize
<1> QED
  BY <1>1, <1>2, <1>3 DEF IInv

\* A page goes where the cells before it end, and nowhere else.
LEMMA LoadPageKeeps ==
  ASSUME IInv, LoadPage
  PROVE  IInv'
<1>1. BringUpSoFar' /\ HartSoFar'
  BY HardwareRests, HartRests DEF LoadPage
<1> DEFINE count == Least(Page - (done % Page), size - done)
<1>2. /\ count \in Nat /\ count <= size - done
      /\ data' = [a \in Memory |->
                   IF a \in (Base + done)..(Base + done + count - 1)
                     THEN Partition[a - Base + 1] ELSE data[a]]
      /\ done' = done + count
      /\ UNCHANGED <<board, at, n, size, ram, mapped, hardware, hart, restarts>>
      /\ at \in {"kernel", "tree"}
  <2>1. done % Page \in 0..(Page - 1)
    BY KernelFits DEF IInv, Types
  <2>2. Page - (done % Page) \in Nat /\ size - done \in Nat
    BY <2>1, KernelFits DEF IInv, Types, LoadPage
  <2>3. count \in Nat /\ count <= size - done
    BY <2>2 DEF Least
  <2> QED
    BY <2>3 DEF LoadPage
<1> HIDE DEF count
<1>3. Types'
  BY <1>2 DEF IInv, Types, Memory
<1>4. CASE at = "kernel"
  <2>1. Base = 0 /\ Partition = board.kernel
    BY <1>4 DEF Base, Partition
  <2>2. KernelSoFar'
    <3>1. size = ProbeKernelSize /\ ProbeKernelSize' = ProbeKernelSize /\ size' = size
      BY <1>2, <1>4 DEF IInv, KernelSoFar, ProbeKernelSize
    <3>2. ASSUME NEW a \in 0..(done' - 1)
          PROVE  data'[a] = board.kernel[a + 1]
      <4>1. a \in Nat /\ a < done + count /\ done \in Nat /\ count \in Nat
              /\ count <= size - done /\ size \in Nat
        BY <1>2 DEF IInv, Types
      <4>2. a \in Memory
        BY <3>1, <4>1, KernelFits DEF IInv
      <4>3. CASE a < done
        <5>1. a \notin (Base + done)..(Base + done + count - 1)
          BY <2>1, <4>1, <4>3
        <5>2. data[a] = board.kernel[a + 1]
          BY <1>4, <4>1, <4>3 DEF IInv, KernelSoFar
        <5> QED
          BY <1>2, <4>2, <5>1, <5>2
      <4>4. CASE a >= done
        <5>1. /\ a \in (Base + done)..(Base + done + count - 1)
              /\ a - Base + 1 = a + 1
          BY <2>1, <4>1, <4>4
        <5> QED
          BY <1>2, <2>1, <4>2, <5>1
      <4> QED
        BY <4>1, <4>3, <4>4
    <3> QED
      BY <1>2, <1>4, <3>1, <3>2 DEF IInv, KernelSoFar
  <2>3. TreeSoFar'
    BY <1>2, <1>4 DEF TreeSoFar
  <2> QED
    BY <1>1, <1>3, <2>2, <2>3 DEF IInv
<1>5. CASE at = "tree"
  <2>1. Base = DtbPa /\ Partition = board.tree
    BY <1>5 DEF Base, Partition
  <2>2. KernelSoFar'
    <3>1. ProbeKernelSize' = ProbeKernelSize
      BY <1>2 DEF ProbeKernelSize
    <3>2. KernelLoaded /\ board.isImage
      BY <1>5 DEF IInv, KernelSoFar
    <3>3. ASSUME NEW a \in 0..(ProbeKernelSize - 1)
          PROVE  data'[a] = data[a]
      <4>1. a \in Memory /\ a < DtbPa /\ DtbPa \in Nat /\ done \in Nat /\ count \in Nat
        BY <1>2, KernelFits DEF IInv, Types
      <4>2. a \notin (Base + done)..(Base + done + count - 1)
        BY <2>1, <4>1
      <4> QED
        BY <1>2, <4>1, <4>2
    <3>4. KernelLoaded'
      BY <1>2, <3>1, <3>2, <3>3 DEF KernelLoaded
    <3> QED
      BY <1>2, <1>5, <3>2, <3>4 DEF KernelSoFar
  <2>3. ASSUME NEW i \in 0..(done' - 1)
        PROVE  data'[DtbPa + i] = board.tree[i + 1]
    <3>1. done' <= size /\ size = Len(board.tree) /\ i \in Nat /\ done' \in Nat
            /\ count \in Nat /\ done \in Nat
      BY <1>2, <1>5 DEF IInv, Types, TreeSoFar
    <3>0. DtbPa \in Nat /\ Len(board.tree) \in Nat /\ i < done'
            /\ Memory = 0..(DtbPa + Len(board.tree) - 1) /\ done' = done + count
      BY <1>2, <3>1, KernelFits DEF IInv
    <3>2. DtbPa + i \in Memory
      BY <3>0, <3>1
    <3>3. CASE i < done
      <4>1. DtbPa + i \notin (Base + done)..(Base + done + count - 1)
        BY <2>1, <3>0, <3>1, <3>3
      <4>2. data[DtbPa + i] = board.tree[i + 1]
        BY <1>5, <3>1, <3>3 DEF IInv, TreeSoFar
      <4> QED
        BY <1>2, <3>2, <4>1, <4>2
    <3>4. CASE i >= done
      <4>1. DtbPa + i \in (Base + done)..(Base + done + count - 1)
        BY <2>1, <3>0, <3>1, <3>4
      <4>2. (DtbPa + i) - Base + 1 = i + 1
        BY <2>1, <3>0, <3>1
      <4>3. data'[DtbPa + i] = Partition[(DtbPa + i) - Base + 1]
        BY <1>2, <3>2, <4>1
      <4> QED
        BY <2>1, <4>2, <4>3
    <3> QED
      BY <3>1, <3>3, <3>4
  <2>4. TreeSoFar'
    BY <1>2, <1>5, <2>3 DEF IInv, TreeSoFar
  <2> QED
    BY <1>1, <1>3, <2>2, <2>4 DEF IInv
<1> QED
  BY <1>2, <1>4, <1>5

\* What was copied is written back before it counts as loaded.
LEMMA LoadedKeeps ==
  ASSUME IInv, Loaded
  PROVE  IInv'
<1>1. BringUpSoFar' /\ HartSoFar'
  BY HardwareRests, HartRests DEF Loaded
<1>2. Types'
  BY KernelFits DEF Loaded, Writeback, IInv, Types, Stages, Memory
<1>3. CASE at = "kernel"
  <2>1. KernelLoaded'
    <3>1. ProbeKernelSize' = ProbeKernelSize /\ Base = 0
      BY <1>3 DEF Loaded, Base, ProbeKernelSize
    <3>2. size = ProbeKernelSize /\ done = size
      BY <1>3 DEF Loaded, IInv, KernelSoFar
    <3>3. ASSUME NEW a \in 0..(ProbeKernelSize - 1)
          PROVE  ram'[a] = data[a] /\ data'[a] = data[a]
      <4>1. a \in Memory /\ a \in Base..(Base + size - 1)
        BY <3>1, <3>2, KernelFits DEF IInv
      <4> QED
        BY <4>1 DEF Loaded, Writeback
    <3>4. \A a \in 0..(ProbeKernelSize - 1) : data[a] = board.kernel[a + 1]
      BY <1>3, <3>2 DEF IInv, KernelSoFar
    <3> QED
      BY <3>1, <3>3, <3>4 DEF Loaded, KernelLoaded
  <2>2. KernelSoFar' /\ TreeSoFar'
    BY <1>3, <2>1, KernelFits DEF Loaded, IInv, KernelSoFar, TreeSoFar
  <2> QED
    BY <1>1, <1>2, <2>2 DEF IInv
<1>4. CASE at = "tree"
  <2>1. KernelLoaded'
    <3>1. ProbeKernelSize' = ProbeKernelSize
      BY <1>4 DEF Loaded, ProbeKernelSize
    <3>2. KernelLoaded
      BY <1>4 DEF IInv, KernelSoFar
    <3>3. ASSUME NEW a \in 0..(ProbeKernelSize - 1)
          PROVE  ram'[a] \in {data[a], ram[a]} /\ data'[a] = data[a]
      <4>1. a \in Memory
        BY KernelFits DEF IInv
      <4> QED
        BY <4>1 DEF Loaded, Writeback
    <3> QED
      BY <3>1, <3>2, <3>3 DEF Loaded, KernelLoaded
  <2>2. KernelSoFar' /\ TreeSoFar'
    BY <1>4, <2>1, KernelFits DEF Loaded, IInv, KernelSoFar, TreeSoFar
  <2> QED
    BY <1>1, <1>2, <2>2 DEF IInv
<1> QED
  BY <1>3, <1>4 DEF Loaded

\* The root file system is mapped.
LEMMA MapRootfsKeeps ==
  ASSUME IInv, MapRootfs
  PROVE  IInv'
<1> USE DEF MapRootfs
<1>1. BringUpSoFar' /\ HartSoFar'
  BY HardwareRests, HartRests
<1>2. Types'
  BY DEF IInv, Types, Stages, Memory
<1>3. KernelSoFar' /\ TreeSoFar'
  BY DEF IInv, KernelSoFar, KernelLoaded, ProbeKernelSize, TreeSoFar
<1> QED
  BY <1>1, <1>2, <1>3 DEF IInv

\* A line that leaves the cache changes nothing that is loaded.
LEMMA EvictKeeps ==
  ASSUME IInv, Evict
  PROVE  IInv'
<1>1. BringUpSoFar' /\ HartSoFar'
  BY HardwareRests, HartRests DEF Evict
<1>2. PICK a \in Memory : data[a] # ram[a] /\ ram' = [ram EXCEPT ![a] = data[a]]
  BY DEF Evict
<1>3. Types'
  BY <1>2 DEF Evict, IInv, Types, Memory
<1>4. KernelSoFar'
  BY <1>2, KernelFits DEF Evict, IInv, Types, KernelSoFar, KernelLoaded, ProbeKernelSize
<1>5. TreeSoFar'
  BY TreeRests DEF Evict, IInv, TreeSoFar, TotalFits
<1> QED
  BY <1>1, <1>3, <1>4, <1>5 DEF IInv

\* The jump.
LEMMA DoBootKeeps ==
  ASSUME IInv, DoBoot
  PROVE  IInv'
<1> USE DEF DoBoot
<1>1. BringUpSoFar'
  BY HardwareRests
<1>2. HartSoFar'
  BY DEF IInv, HartSoFar
<1>3. Types'
  BY DEF IInv, Types, Stages, Memory
<1>4. KernelSoFar'
  BY DEF IInv, KernelSoFar, KernelLoaded, ProbeKernelSize
<1>5. TreeSoFar'
  BY TreeRests DEF IInv, TreeSoFar, TotalFits
<1> QED
  BY <1>1, <1>2, <1>3, <1>4, <1>5 DEF IInv

\* What the patch takes for the placeholder is the flash's.
LEMMA HoleIsInFlash ==
  ASSUME IInv, at = "patch", ~TreeIsBad, NEW i \in Nat
  PROVE  Hole(i) <=> HoleInFlash(i)
<1>1. /\ board.total \in Nat /\ board.total <= Len(board.tree)
      /\ Len(board.tree) \in Nat /\ DtbPa \in Nat
  BY BoardAssumption, KernelFits DEF IInv, Types, TreeIsBad
<1>2. ASSUME i + 2 <= board.total, NEW k \in 0..1
      PROVE  data[DtbPa + i + k] = board.tree[i + k + 1]
  <2>1. i + k \in 0..(Len(board.tree) - 1)
    BY <1>1, <1>2
  <2>2. data[DtbPa + (i + k)] = board.tree[i + k + 1]
    BY <2>1 DEF IInv, TreeSoFar
  <2>3. DtbPa + (i + k) = DtbPa + i + k
    BY <1>1, <2>1
  <2> QED
    BY <2>2, <2>3
<1>3. i + 2 <= board.total <=> i + 1 < board.total
  BY <1>1
<1> QED
  BY <1>2, <1>3 DEF Hole, HoleInFlash

\* The tree has its addresses, in the first placeholder only.
LEMMA PatchTreeKeeps ==
  ASSUME IInv, PatchTree
  PROVE  IInv'
<1>1. BringUpSoFar' /\ HartSoFar'
  BY HardwareRests, HartRests DEF PatchTree
<1>2. /\ at = "patch" /\ ~TreeIsBad /\ at' = "jump"
      /\ UNCHANGED <<board, n, size, done, mapped>>
  BY DEF PatchTree
<1>3. /\ board.total \in Nat /\ board.total <= Len(board.tree)
      /\ Len(board.tree) \in Nat /\ DtbPa \in Nat
      /\ Memory = 0..(DtbPa + Len(board.tree) - 1)
      /\ ProbeKernelSize \in Nat /\ ProbeKernelSize <= DtbPa
  BY <1>2, BoardAssumption, KernelFits DEF IInv, Types, TreeIsBad
<1>4. \A i \in Nat : FirstHole(i)' <=> FirstHole(i)
  <2>1. \A i : HoleInFlash(i)' <=> HoleInFlash(i)
    BY <1>2 DEF HoleInFlash
  <2> QED
    BY <2>1 DEF FirstHole
<1>5. \A a \in 0..(DtbPa - 1) : data'[a] = data[a] /\ ram'[a] = ram[a]
  <2>1. ASSUME NEW a \in 0..(DtbPa - 1) PROVE data'[a] = data[a]
    <3>1. a \in Memory /\ DOMAIN data = Memory
      BY <1>3 DEF IInv, Types
    <3>2. ASSUME NEW h \in 0..board.total PROVE a # DtbPa + h /\ a # DtbPa + h + 1
      BY <1>3
    <3> QED
      BY <3>1, <3>2 DEF PatchTree
  <2>2. \A a \in 0..(DtbPa - 1) : ram'[a] = ram[a]
    BY <1>3 DEF PatchTree
  <2> QED
    BY <2>1, <2>2
<1>6. Types'
  <2>1. DOMAIN data' = Memory /\ DOMAIN ram' = Memory
    BY DEF PatchTree, IInv, Types
  <2> QED
    BY <1>2, <2>1 DEF PatchTree, IInv, Types, Stages, Memory
<1>7. KernelSoFar'
  <2>1. ProbeKernelSize' = ProbeKernelSize
    BY <1>2 DEF ProbeKernelSize
  <2>2. KernelLoaded
    BY <1>2 DEF IInv, KernelSoFar
  <2>3. KernelLoaded'
    BY <1>2, <1>3, <1>5, <2>1, <2>2 DEF KernelLoaded
  <2> QED
    BY <1>2, <2>3 DEF IInv, KernelSoFar
<1>8. \A i \in 0..(Len(board.tree) - 1) : data[DtbPa + i] = board.tree[i + 1]
  BY <1>2 DEF IInv, TreeSoFar
<1>9. TreeInPlace'
  <2>1. ASSUME NEW h \in 0..board.total, Hole(h), \A j \in 0..(h-1) : ~Hole(j),
               data' = [data EXCEPT ![DtbPa + h] = <<"rootfs", 0>>,
                                    ![DtbPa + h + 1] = <<"rootfs", 1>>]
        PROVE  TreeInPlace'
    <3>1. h \in Nat /\ h + 2 <= board.total
      BY <1>3, <2>1 DEF Hole
    <3>2. FirstHole(h)
      BY <1>2, <2>1, <3>1, HoleIsInFlash DEF FirstHole
    <3>3. \A i \in Nat : FirstHole(i) => i = h
      BY <3>1, <3>2 DEF FirstHole
    <3> SUFFICES ASSUME NEW i \in 0..(Len(board.tree) - 1)
                 PROVE  data'[DtbPa + i] =
                          IF FirstHole(i) THEN <<"rootfs", 0>>
                          ELSE IF i > 0 /\ FirstHole(i - 1) THEN <<"rootfs", 1>>
                          ELSE board.tree[i + 1]
      BY <1>2, <1>4 DEF TreeInPlace
    <3>4. DOMAIN data = Memory /\ DtbPa + i \in Memory
      BY <1>3 DEF IInv, Types
    <3>5. CASE i = h
      BY <1>3, <2>1, <3>1, <3>2, <3>4, <3>5
    <3>6. CASE i = h + 1
      <4>1. ~FirstHole(i) /\ FirstHole(i - 1) /\ i > 0
        BY <3>1, <3>2, <3>3, <3>6
      <4>2. DtbPa + i = DtbPa + h + 1
        BY <1>3, <3>1, <3>6
      <4> QED
        BY <2>1, <3>4, <4>1, <4>2
    <3>7. CASE i # h /\ i # h + 1
      <4>1. ~FirstHole(i) /\ ~(i > 0 /\ FirstHole(i - 1))
        BY <3>1, <3>3, <3>7
      <4>2. DtbPa + i # DtbPa + h /\ DtbPa + i # DtbPa + h + 1
        BY <1>3, <3>1, <3>7
      <4> QED
        BY <1>8, <2>1, <3>4, <4>1, <4>2
    <3> QED
      BY <3>5, <3>6, <3>7
  <2>2. ASSUME \A i \in 0..board.total : ~Hole(i), data' = data
        PROVE  TreeInPlace'
    <3>1. \A i \in Nat : ~FirstHole(i)
      <4>1. \A i \in Nat : HoleInFlash(i) => i \in 0..board.total
        BY <1>3 DEF HoleInFlash
      <4> QED
        BY <1>2, <2>2, <4>1, HoleIsInFlash DEF FirstHole
    <3>2. \A i \in 0..(Len(board.tree) - 1) : ~FirstHole(i)
                                               /\ ~(i > 0 /\ FirstHole(i - 1))
      BY <1>3, <3>1
    <3> QED
      BY <1>2, <1>3, <1>4, <1>8, <2>2, <3>2 DEF TreeInPlace
  <2> QED
    BY <2>1, <2>2 DEF PatchTree
<1>10. TreeSoFar'
  BY <1>2, <1>3, <1>9 DEF IInv, TreeSoFar, TotalFits
<1> QED
  BY <1>1, <1>6, <1>7, <1>10 DEF IInv

-----------------------------------------------------------------------------

\* Every step, the stuttering one too, keeps the invariant.
LEMMA NextIInv == IInv /\ [Next]_vars => IInv'
<1> SUFFICES ASSUME IInv, [Next]_vars PROVE IInv'
  OBVIOUS
<1>1. CASE BringUp
  <2>1. Types'
    BY <1>1, Writes DEF BringUp, IInv, Types, Memory
  <2>2. KernelSoFar' /\ TreeSoFar'
    BY <1>1 DEF BringUp, IInv, KernelSoFar, TreeSoFar
  <2>3. HartSoFar'
    BY <1>1, HartRests DEF BringUp
  <2> QED
    BY <1>1, <2>1, <2>2, <2>3, BringUpKeeps DEF IInv
<1>2. CASE StartFails \/ MmapFails \/ NoRootfs \/ BadTree
  <2>1. Restart /\ at # "linux" /\ (at = "bringUp" => n = 21)
    BY <1>2, Writes DEF StartFails, MmapFails, NoRootfs, BadTree, IInv, Types
  <2> QED
    BY <2>1, RestartKeeps
<1>3. CASE StartLoad \/ LoadPage \/ Loaded \/ MapRootfs
  BY <1>3, StartLoadKeeps, LoadPageKeeps, LoadedKeeps, MapRootfsKeeps
<1>4. CASE PatchTree \/ DoBoot \/ Evict
  BY <1>4, PatchTreeKeeps, DoBootKeeps, EvictKeeps
<1>5. CASE UNCHANGED vars
  <2>1. TreeInPlace' <=> TreeInPlace
    BY <1>5, TreeRests DEF vars
  <2>2. BringUpSoFar'
    BY <1>5, HardwareRests DEF vars
  <2> QED
    BY <1>5, <2>1, <2>2 DEF vars, IInv, Types, Memory, KernelSoFar, KernelLoaded,
       ProbeKernelSize, TreeSoFar, TotalFits, HartSoFar
<1> QED
  BY <1>1, <1>2, <1>3, <1>4, <1>5 DEF Next

\* Every stage of app_main has done its part, whatever it found (main.c:384-555).
THEOREM Invariant == Spec => []IInv
  BY InitIInv, NextIInv, PTL DEF Spec

\* The tree that Linux is given says where the root file system is exactly when the
\* flash's tree has the placeholder.
LEMMA RootfsIsNamed ==
  ASSUME IInv, at = "linux"
  PROVE  NamesRootfs <=> HasPlaceholder
<1>1. /\ board.tree \in Seq(Flash) /\ Len(board.tree) \in Nat /\ board.total \in Nat
      /\ TreeInPlace /\ DtbPa \in Nat
  BY BoardAssumption DEF IInv, Types, TreeSoFar
<1>2. ASSUME NEW i \in 0..(Len(board.tree) - 1)
      PROVE  data[DtbPa + i] = IF FirstHole(i) THEN <<"rootfs", 0>>
                               ELSE IF i > 0 /\ FirstHole(i - 1) THEN <<"rootfs", 1>>
                               ELSE board.tree[i + 1]
  BY <1>1 DEF TreeInPlace
<1>3. ASSUME NamesRootfs PROVE HasPlaceholder
  <2>1. PICK i \in 0..(Len(board.tree) - 2) : data[DtbPa + i] = <<"rootfs", 0>>
    BY <1>3 DEF NamesRootfs
  <2>2. i \in 0..(Len(board.tree) - 1) /\ i + 1 \in 1..Len(board.tree)
    BY <1>1, <2>1
  <2>3. board.tree[i + 1] \in Flash
    <3> DEFINE t == board.tree
    <3>1. t \in Seq(Flash) /\ i + 1 \in 1..Len(t)
      BY <1>1, <2>2
    <3> HIDE DEF t
    <3>2. t[i + 1] \in Flash
      BY <3>1
    <3> QED
      BY <3>2 DEF t
  <2>4. <<"rootfs", 0>> \notin Flash /\ <<"rootfs", 0>> # <<"rootfs", 1>>
    BY DEF Flash
  <2>5. FirstHole(i)
    BY <1>2, <2>1, <2>2, <2>3, <2>4
  <2>6. i \in 0..board.total
    BY <1>1, <2>2, <2>5 DEF FirstHole, HoleInFlash
  <2> QED
    BY <2>5, <2>6 DEF HasPlaceholder
<1>4. ASSUME HasPlaceholder PROVE NamesRootfs
  <2>1. PICK i \in 0..board.total : FirstHole(i)
    BY <1>4 DEF HasPlaceholder
  <2>2. board.total <= Len(board.tree)
    BY DEF IInv, TreeSoFar, TotalFits
  <2>3. i + 1 < board.total /\ i \in Nat
    BY <1>1, <2>1 DEF FirstHole, HoleInFlash
  <2>4. /\ i \in 0..(Len(board.tree) - 2) /\ i \in 0..(Len(board.tree) - 1)
        /\ i + 1 \in 0..(Len(board.tree) - 1) /\ i + 1 > 0 /\ (i + 1) - 1 = i
    BY <1>1, <2>2, <2>3
  <2>5. ~FirstHole(i + 1)
    <3>1. i \in 0..((i + 1) - 1) /\ HoleInFlash(i)
      BY <2>1, <2>3 DEF FirstHole
    <3> QED
      BY <3>1 DEF FirstHole
  <2>6. data[DtbPa + i] = <<"rootfs", 0>>
    BY <1>2, <2>1, <2>4
  <2>7. data[DtbPa + (i + 1)] = <<"rootfs", 1>>
    BY <1>2, <2>1, <2>4, <2>5
  <2>8. DtbPa + (i + 1) = DtbPa + i + 1
    BY <1>1, <2>3
  <2> QED
    BY <2>4, <2>6, <2>7, <2>8 DEF NamesRootfs
<1> QED
  BY <1>3, <1>4

\* Linux is entered with kernel, tree, mapping, registers, PMP entry and hart as they
\* are to be, or not at all; and with a tree that names the root file system exactly
\* when the flash's has the placeholder for it (main.c:58-127, 384-555).
THEOREM LinuxPrepared == Spec => []LinuxIsPrepared
<1>1. IInv => LinuxIsPrepared
  <2> SUFFICES ASSUME IInv, at = "linux" PROVE LinuxIsPrepared
    BY DEF LinuxIsPrepared
  <2>1. KernelInPlace /\ TreeInPlace /\ mapped
    BY DEF IInv, KernelSoFar, KernelLoaded, KernelInPlace, TreeSoFar
  <2>2. n = 21
    BY DEF IInv, Types
  <2>3. HardwareReady
    BY <2>2 DEF IInv, BringUpSoFar, RadioSoFar, CardSoFar, DividerSoFar, PanelSoFar,
       OthersKept, HardwareReady
  <2>4. /\ ~interrupts /\ ~stackGuard /\ synced
        /\ pmp = [e \in 8..11 |-> IF e = 9 THEN "rwx" ELSE "none"]
    BY DEF IInv, HartSoFar
  <2>5. NamesRootfs <=> HasPlaceholder
    BY RootfsIsNamed
  <2> QED
    BY <2>1, <2>3, <2>4, <2>5 DEF LinuxIsPrepared
<1> QED
  BY <1>1, Invariant, PTL
=============================================================================
