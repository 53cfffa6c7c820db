------------------------------ MODULE MCAccess ------------------------------
(***************************************************************************)
(* Access with two windows of four registers' worth of addresses, and      *)
(* instructions that reach every path of the decoder: each single bit of a *)
(* compressed offset, x0 and sp as destination and source, both ends of a  *)
(* window, CSRs at the ends of their ranges.                               *)
(***************************************************************************)
EXTENDS Access

MCRegs == {2, 8, 15}
MCCsrStore == {832, 931, 959}   \* mscratch, pmpcfg3, pmpaddr15
MCCsrZero == {3860}                  \* mhartid
MCWindows == {[base |-> 16, size |-> 8, kind |-> "words"],
              [base |-> 32, size |-> 4, kind |-> "bytes"]}
MCWordRegs == {16, 20}
MCByteRegs == 32..35
MCSaved == [r \in MCRegs |-> CASE r = 2 -> {2} [] r = 8 -> {0, 7, 8, 15} [] r = 15 -> 0..31]
MCJunk == {3, 5, 9}
MCContents == {{1, 7, 12, 15, 31}, {0, 11, 30}}

Aligned(op) == CASE op \in {"lb", "lbu", "sb"} -> {32, 35}
                 [] op \in {"lh", "lhu", "sh"} -> {32, 34}
                 [] OTHER -> {16, 20, 32}
MCLoads ==
  UNION {[op : {op}, rd : {0, 2, 8}, rs1 : {8}, imm : {100},
          addr : Aligned(op), short : {FALSE}] : op \in {"lb", "lh", "lw", "lbu", "lhu"}}
MCStores ==
  UNION {[op : {op}, rs2 : {0, 15}, rs1 : {2}, imm : {1985},
          addr : Aligned(op), short : {FALSE}] : op \in {"sb", "sh", "sw"}}
Offsets == {0, 4, 8, 16, 32, 64, 124}
ShortLoads  == [op : {"lw"}, rd : {8, 15}, rs1 : {8, 13}, imm : Offsets, addr : {20}, short : {TRUE}]
ShortStores == [op : {"sw"}, rs2 : {8, 15}, rs1 : {9}, imm : Offsets, addr : {32}, short : {TRUE}]
CsrInstr == [op : {"csrrw", "csrrs", "csrrc", "csrrwi", "csrrsi", "csrrci"},
             rd : {0, 8}, rs1 : {0, 15},
             csr : MCCsrStore \cup MCCsrZero \cup {836, 932}]
\* Outside every window, by one.
Outside == [op : {"lw"}, rd : {8}, rs1 : {8}, imm : {0}, addr : {15, 24, 31, 36}, short : {FALSE}]
\* amoadd.w, flw, c.lwsp, a 48-bit instruction, ebreak's word as an illegal one.
Others ==
  [op : {"other"}, word : {{0, 1, 2, 3, 5, 13}, {0, 1, 2, 13}}, short : {FALSE}, cause : {5}, addr : {16}]
  \cup [op : {"other"}, word : {{1, 14}}, short : {TRUE}, cause : {5}, addr : {16}]
  \cup [op : {"other"}, word : {0..5}, short : {FALSE}, cause : {7}, addr : {32}]
  \cup [op : {"other"}, word : {{0, 1, 4, 5, 6, 20}, {0, 1, 4, 5, 6, 14}}, short : {FALSE}, cause : {2}, addr : {0}]

MCInstr == MCLoads \cup MCStores \cup ShortLoads \cup ShortStores \cup CsrInstr
             \cup Outside \cup Others
=============================================================================
