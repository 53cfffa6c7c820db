----------------------------- MODULE NativeBoot -----------------------------
(***************************************************************************)
(* The boot shim of the port without a monitor                             *)
(* (native/linux-native/main/main.c): it brings up the hardware Linux has  *)
(* no drivers for, copies kernel and device tree from flash to PSRAM page  *)
(* by page, maps the root file system and writes its address into the      *)
(* tree, and jumps.  Whatever fails restarts the chip, and the shim runs   *)
(* again over what the attempt before left in PSRAM and registers.         *)
(*                                                                         *)
(* Memory is counted in cells of the device tree; a value says what it is  *)
(* and of which place.  Stores go to the data cache; instruction fetch and *)
(* a restarted chip see what was written back.  The first two cells of a   *)
(* tree are its magic and its total size; the placeholder, two cells, is   *)
(* looked for at whole cells, where the tree compiler puts it.             *)
(***************************************************************************)
EXTENDS Naturals, Sequences

CONSTANTS
  Boards,       \* what a board's flash may hold, see BoardAssumption
  Page,         \* CONFIG_MMU_PAGE_SIZE
  DtbPa,        \* DTB_LOAD_PA, when KERNEL_LOAD_PA is 0
  Others,       \* bits of the registers below that are not the shim's
  MaxRestarts   \* bound on the failures a board meets

Value == {"kernel", "tree", "placeholder", "rootfs", "junk"} \X Nat

\* A partition that is missing has no cells.  image_size and totalsize are what
\* the headers say; by partitions.csv the kernel's partition ends below the tree.
\* No tree in flash has the address of the mapping, which is made at every boot.
Flash == {"kernel", "tree", "placeholder"} \X Nat

ASSUME BoardAssumption ==
  /\ Page \in Nat \ {0} /\ DtbPa \in Nat /\ MaxRestarts \in Nat
  /\ \A b \in Boards :
       /\ b.kernel \in Seq(Flash) /\ Len(b.kernel) <= DtbPa
       /\ b.isImage \in BOOLEAN /\ b.imageSize \in Nat
       /\ b.tree \in Seq(Flash) /\ b.isTree \in BOOLEAN /\ b.total \in Nat
       /\ b.hasRootfs \in BOOLEAN

VARIABLES
  board,        \* which board it is
  at,           \* where app_main is
  n,            \* write of the bring-up that comes next
  size, done,   \* of the copy under way, in cells
  data, ram,    \* PSRAM as loads, and as instruction fetch, see it
  mapped,       \* the root file system is in the cache window
  reg,          \* the bits set in each register
  divider,      \* the SD clock's divider settings in force
  c6,           \* what the radio chip runs
  pmp,          \* bytes of pmpcfg2, entries 8..11
  interrupts, stackGuard, synced,
  restarts

psram == <<data, ram>>
hardware == <<reg, divider, c6>>
hart == <<pmp, interrupts, stackGuard, synced>>
vars == <<board, at, n, size, done, psram, mapped, hardware, hart, restarts>>

Memory == 0..(DtbPa + Len(board.tree) - 1)
Register == {"gpio", "ldo4", "soc_clk", "reset", "ctrl01", "ctrl02", "iomux", "dsi"}

\* What the start-up of ESP-IDF may have left of the shim's own bits.
Left == {"tieh_sel", "ls_src", "hs_mode", "edges", "edge_sel", "pulldown",
         "dsi_src", "ref_src", "ref_div"}

Init ==
  /\ board \in Boards
  /\ at = "bringUp" /\ n = 1 /\ size = 0 /\ done = 0
  /\ data = [a \in Memory |-> <<"junk", a>>] /\ ram = data
  /\ mapped = FALSE
  /\ reg \in {[r \in Register |-> o] : o \in {{}, Others, Others \cup Left}}
  /\ divider = {"edges"} /\ c6 = "none"
  /\ pmp = [e \in 8..11 |-> "none"]
  /\ interrupts = TRUE /\ stackGuard = TRUE /\ synced = FALSE
  /\ restarts = 0

\* esp_restart.  PSRAM keeps its cells, the cache does not.
Restart ==
  /\ restarts < MaxRestarts /\ restarts' = restarts + 1
  /\ at' = "bringUp" /\ n' = 1 /\ size' = 0 /\ done' = 0
  /\ data' = ram /\ mapped' = FALSE
  /\ UNCHANGED <<board, ram, hardware, hart>>

-----------------------------------------------------------------------------
(* Bring-up: read-modify-writes of registers that are not the shim's alone   *)

Write(r, clear, set) == [reg |-> r, clear |-> clear, set |-> set]

KickC6 ==
  <<Write("gpio", {}, {"pin13"}), Write("gpio", {}, {"pin12"}),
    Write("gpio", {"pin12"}, {}), Write("gpio", {}, {"pin12"})>>

\* edges stands for a field of three numbers, edge_sel of three more.
InitSdmmc ==
  <<Write("ldo4", {"tieh_sel"}, {"xpd", "force_tieh_sel", "tieh"}),
    Write("soc_clk", {}, {"sdmmc_sys"}),
    Write("reset", {}, {"sdmmc"}), Write("reset", {"sdmmc"}, {}),
    Write("ctrl01", {"ls_src", "hs_mode"}, {"ls_clk"}),
    Write("ctrl02", {"edges", "edge_sel"}, {"div4", "drv1", "drv", "sam", "slf"}),
    Write("ctrl02", {}, {"update"}), Write("ctrl02", {"update"}, {}),
    Write("iomux", {"pulldown"}, {"pullup", "input", "sdmmc"})>>

InitDsiClocks ==
  <<Write("dsi", {}, {"bus"}), Write("dsi", {}, {"reset"}), Write("dsi", {"reset"}, {}),
    Write("ctrl02", {"dsi_src"}, {}), Write("dsi", {}, {"phy_cfg"}),
    Write("dsi", {"ref_src", "ref_div"}, {}), Write("dsi", {}, {"pll_ref"})>>

BringUpWrites == KickC6 \o InitSdmmc \o InitDsiClocks

ASSUME OthersAssumption ==
  \A i \in 1..Len(BringUpWrites) :
    Others \cap (BringUpWrites[i].clear \cup BringUpWrites[i].set) = {}

\* boot_shim_reg_setbits, boot_shim_reg_clrsetbits; and what the edge does.
BringUp ==
  /\ at = "bringUp" /\ n <= Len(BringUpWrites)
  /\ LET w   == BringUpWrites[n]
         new == (reg[w.reg] \ w.clear) \cup w.set
         rises(b) == b \in new \ reg[w.reg]
     IN  /\ reg' = [reg EXCEPT ![w.reg] = new]
         /\ divider' = IF w.reg = "ctrl02" /\ rises("update")
                         THEN new \cap {"edges", "edge_sel", "div4", "drv1"} ELSE divider
         /\ c6' = IF w.reg = "gpio" /\ rises("pin12")
                    THEN IF "pin13" \in new THEN "app" ELSE "download" ELSE c6
  /\ n' = n + 1
  /\ UNCHANGED <<board, at, size, done, psram, mapped, hart, restarts>>

-----------------------------------------------------------------------------
(* Loading *)

\* The partitions are looked up, and the kernel's header is read.
ProbeKernelSize ==
  IF ~board.isImage THEN 0
  ELSE IF board.imageSize = 0 \/ board.imageSize > Len(board.kernel)
         THEN Len(board.kernel) ELSE board.imageSize

StartLoad ==
  /\ at = "bringUp" /\ n > Len(BringUpWrites)
  /\ board.kernel # <<>> /\ board.tree # <<>>
  /\ ProbeKernelSize # 0
  /\ at' = "kernel" /\ size' = ProbeKernelSize /\ done' = 0
  /\ UNCHANGED <<board, n, psram, mapped, hardware, hart, restarts>>

StartFails ==
  /\ at = "bringUp" /\ n > Len(BringUpWrites)
  /\ board.kernel = <<>> \/ board.tree = <<>> \/ ProbeKernelSize = 0
  /\ Restart

Partition == IF at = "kernel" THEN board.kernel ELSE board.tree
Base == IF at = "kernel" THEN 0 ELSE DtbPa

Least(a, b) == IF a < b THEN a ELSE b

\* One page of load_partition_mmap.  (Definitions named Bug... are a mistake the
\* one after them could have; the checks are shown to notice it.)
LoadPage ==
  /\ at \in {"kernel", "tree"} /\ done < size
  /\ LET intra == done % Page
         count == Least(Page - intra, size - done)
     IN  /\ data' = [a \in Memory |->
              IF a \in (Base + done)..(Base + done + count - 1)
                THEN Partition[a - Base + 1] ELSE data[a]]
         /\ done' = done + count
  /\ UNCHANGED <<board, at, n, size, ram, mapped, hardware, hart, restarts>>

\* cache_hal_writeback_addr
Writeback(a, cells) ==
  ram' = [c \in Memory |-> IF c \in a..(a + cells - 1) THEN data[c] ELSE ram[c]]

Loaded ==
  /\ at \in {"kernel", "tree"} /\ done = size
  /\ Writeback(Base, size)
  /\ IF at = "kernel"
       THEN at' = "tree" /\ size' = Len(board.tree) /\ done' = 0
       ELSE at' = "rootfs" /\ UNCHANGED <<size, done>>
  /\ UNCHANGED <<board, n, data, mapped, hardware, hart, restarts>>

\* esp_partition_mmap of a page, of the header or of the root file system fails.
MmapFails ==
  /\ \/ at = "bringUp" /\ n > Len(BringUpWrites)
     \/ at \in {"kernel", "tree"} /\ done < size
     \/ at = "rootfs"
  /\ Restart

\* It stays mapped.  The prewalk reads all of it.
MapRootfs ==
  /\ at = "rootfs" /\ board.hasRootfs
  /\ at' = "patch" /\ mapped' = TRUE
  /\ UNCHANGED <<board, n, size, done, psram, hardware, hart, restarts>>

NoRootfs == at = "rootfs" /\ ~board.hasRootfs /\ Restart

-----------------------------------------------------------------------------
(* The patch and the jump *)

\* The magic, and a total size of at least 16 bytes that the partition holds.
TreeIsBad == ~board.isTree \/ board.total < 4 \/ board.total > Len(board.tree)

BadTree == at = "patch" /\ TreeIsBad /\ Restart

\* Where the placeholder is, at offset i of a tree of so many cells.
BugHole(i) == i + 2 < board.total
                /\ \A k \in 0..1 : data[DtbPa + i + k] = <<"placeholder", k>>
Hole(i) == i + 2 <= board.total
             /\ \A k \in 0..1 : data[DtbPa + i + k] = <<"placeholder", k>>

\* The first one is replaced by address and size, and the cache written back;
\* without one the boot goes on with a warning.
PatchTree ==
  /\ at = "patch" /\ ~TreeIsBad
  /\ \/ \E i \in 0..board.total :
          /\ Hole(i) /\ \A j \in 0..(i-1) : ~Hole(j)
          /\ data' = [data EXCEPT ![DtbPa + i] = <<"rootfs", 0>>,
                                  ![DtbPa + i + 1] = <<"rootfs", 1>>]
     \/ (\A i \in 0..board.total : ~Hole(i)) /\ UNCHANGED data
  /\ IF data' # data
       THEN ram' = [c \in Memory |->
              IF c \in DtbPa..(DtbPa + board.total - 1) THEN data'[c] ELSE ram[c]]
       ELSE UNCHANGED ram
  /\ at' = "jump"
  /\ UNCHANGED <<board, n, size, done, mapped, hardware, hart, restarts>>

\* The stack guard is stopped; do_boot, with pmp_grant_psram_umode.
DoBoot ==
  /\ at = "jump"
  /\ stackGuard' = FALSE /\ interrupts' = FALSE /\ synced' = TRUE
  /\ pmp' = [pmp EXCEPT ![9] = "rwx"]
  /\ at' = "linux"
  /\ UNCHANGED <<board, n, size, done, psram, mapped, hardware, restarts>>

\* A dirty line leaves the cache by itself.
Evict ==
  /\ at \notin {"bringUp", "linux"}
  /\ \E a \in Memory : data[a] # ram[a] /\ ram' = [ram EXCEPT ![a] = data[a]]
  /\ UNCHANGED <<board, at, n, size, done, data, mapped, hardware, hart, restarts>>

-----------------------------------------------------------------------------

Next ==
  \/ BringUp \/ StartLoad \/ StartFails \/ LoadPage \/ Loaded \/ MmapFails
  \/ MapRootfs \/ NoRootfs \/ BadTree \/ PatchTree \/ DoBoot \/ Evict

Spec == Init /\ [][Next]_vars

-----------------------------------------------------------------------------
(* Properties *)

TypeOK ==
  /\ board \in Boards
  /\ at \in {"bringUp", "kernel", "tree", "rootfs", "patch", "jump", "linux"}
  /\ n \in 1..(Len(BringUpWrites) + 1)
  /\ size \in Nat /\ done \in 0..size
  /\ data \in [Memory -> Value] /\ ram \in [Memory -> Value]
  /\ mapped \in BOOLEAN /\ reg \in [Register -> SUBSET STRING]
  /\ c6 \in {"none", "app", "download"} /\ restarts \in 0..MaxRestarts

\* The kernel is fetched as the flash has it, to the end its header gives.
KernelInPlace ==
  /\ board.isImage
  /\ \A a \in 0..(ProbeKernelSize - 1) :
       ram[a] = board.kernel[a + 1] /\ data[a] = ram[a]

\* The tree is the flash's, but for the first placeholder within its total size.
HoleInFlash(i) == i + 1 < board.total
                    /\ \A k \in 0..1 : board.tree[i + k + 1] = <<"placeholder", k>>
FirstHole(i) == HoleInFlash(i) /\ \A j \in 0..(i-1) : ~HoleInFlash(j)

TreeInPlace ==
  \A i \in 0..(Len(board.tree) - 1) :
    data[DtbPa + i] = IF FirstHole(i) THEN <<"rootfs", 0>>
                      ELSE IF i > 0 /\ FirstHole(i - 1) THEN <<"rootfs", 1>>
                      ELSE board.tree[i + 1]

\* Whether the flash's tree has a placeholder, and whether the tree that Linux is
\* given says where the root file system is.
HasPlaceholder == \E i \in 0..board.total : FirstHole(i)
NamesRootfs ==
  \E i \in 0..(Len(board.tree) - 2) :
    data[DtbPa + i] = <<"rootfs", 0>> /\ data[DtbPa + i + 1] = <<"rootfs", 1>>

\* Card, panel and radio chip are as Linux takes them to be, on the divider that
\* was asked for, and no bit of anyone else has moved.
HardwareReady ==
  /\ {"xpd", "force_tieh_sel", "tieh"} \subseteq reg["ldo4"]
  /\ "sdmmc_sys" \in reg["soc_clk"] /\ "sdmmc" \notin reg["reset"]
  /\ "ls_clk" \in reg["ctrl01"] /\ divider = {"div4", "drv1"}
  /\ {"bus", "phy_cfg", "pll_ref"} \subseteq reg["dsi"] /\ "reset" \notin reg["dsi"]
  /\ c6 = "app"
  /\ {"edges", "edge_sel", "dsi_src", "update"} \cap reg["ctrl02"] = {}
  /\ \A r, q \in Register : reg[r] \cap Others = reg[q] \cap Others

\* After any number of attempts that failed at any page and left their half behind,
\* Linux is entered only with the kernel, the tree, the mapping, the hardware and the
\* hart it is to have (main.c:58-127, 384-555).  A root file system it has if the
\* flash's tree has the placeholder, and only then: without one the shim warns that
\* Linux will fail to mount root, and jumps (main.c:446-448, 543-544).
LinuxIsPrepared ==
  at = "linux" =>
    /\ KernelInPlace /\ TreeInPlace /\ mapped
    /\ NamesRootfs <=> HasPlaceholder
    /\ HardwareReady
    /\ ~interrupts /\ ~stackGuard /\ synced
    /\ pmp = [e \in 8..11 |-> IF e = 9 THEN "rwx" ELSE "none"]
=============================================================================
