----------------------------- MODULE BlkRequest -----------------------------
(***************************************************************************)
(* One request of the block device, from its descriptor chain to its       *)
(* status byte: blk_do_request and blk_transfer of main/hyp_virtio_blk.c,  *)
(* over a card whose every transfer may fail.                              *)
(*                                                                         *)
(* Lengths are counted in half sectors, so that a length may fail to be a  *)
(* multiple of the sector size; those of one request add up to less than   *)
(* 2^32 bytes.  Guest memory is addressed by <<s, k>>: sector k of data    *)
(* descriptor s, wherever in memory the guest put it.  The header's sector *)
(* number is 64 bits wide, the code's is a uint32_t (hyp_virtio_blk.c:234).*)
(***************************************************************************)
EXTENDS Integers, Sequences, SequencesExt

CONSTANTS
  Types,           \* request types the guest sends
  MaxSegments,     \* bound on data descriptors in a chain
  Lengths,         \* their lengths, in half sectors
  BounceSectors,   \* HYP_BLK_BOUNCE_SECTORS
  CardSectors,     \* capacity of the card
  SectorMod,       \* 2^32: sector numbers of the code are uint32_t
  FirstSectors     \* sector numbers in request headers, of 64 bits

\* virtio-blk request types and status values.
T_IN == 0  T_OUT == 1  T_FLUSH == 4  T_GET_ID == 8
S_OK == 0  S_IOERR == 1  S_UNSUPP == 2
Stale == 255       \* whatever the guest's status byte held before
IdBytes == 999     \* the device's serial
SectorLen == 2

ASSUME BlkAssumption ==
  /\ Types \subseteq Nat
  /\ MaxSegments \in Nat
  /\ Lengths \subseteq Nat
  /\ BounceSectors \in Nat \ {0}
  /\ CardSectors \in Nat
  /\ SectorMod \in Nat /\ CardSectors < SectorMod
  /\ FirstSectors \subseteq Nat

VARIABLES
  req,        \* the chain: header, data descriptors, has it a status descriptor
  pc,
  seg,        \* d: the data descriptor in hand
  off,        \* blk_transfer: sectors of it already moved
  sector,     \* next sector of the card
  ok, written,
  statusByte, \* in guest memory
  mem,        \* guest data buffers
  card,       \* contents of the card
  starts      \* history: where the descriptors so far start in the request's data

requestVars == <<req, pc, seg, off, sector, ok, written, statusByte, mem, card, starts>>

Requests == [ type : Types, sector : FirstSectors,
              segs : SeqOf(Lengths, MaxSegments),
              shortHeader : BOOLEAN, lastHeader : BOOLEAN ]

Cells == {<<s, k>> : s \in 1..MaxSegments, k \in 0..CardSectors}
OldCard   == [n \in 0..CardSectors - 1 |-> n]
GuestData == [c \in Cells |-> 100 + 10 * c[1] + c[2]]

RequestInit ==
  /\ req \in Requests
  /\ pc = "start"
  /\ seg = 1 /\ off = 0 /\ sector = 0
  /\ ok = TRUE /\ written = 0
  /\ statusByte = Stale
  /\ mem = GuestData
  /\ card = OldCard
  /\ starts = <<0>>

Len512(s) == req.segs[s] \div SectorLen

NextSegment ==
  /\ seg' = seg + 1
  /\ starts' = Append(starts, starts[seg] + req.segs[seg])

\* The header: too short a descriptor, or one without a successor, ends the
\* request at once.  The sector number is narrowed to 32 bits.
ReadHeader ==
  /\ pc = "start"
  /\ pc' = IF req.shortHeader \/ req.lastHeader THEN "done" ELSE "walk"
  /\ sector' = req.sector % SectorMod
  /\ UNCHANGED <<req, seg, off, ok, written, statusByte, mem, card, starts>>

\* The last descriptor of the chain is the status byte's.
WalkEnd ==
  /\ pc = "walk" /\ seg > Len(req.segs)
  /\ statusByte' = S_OK
  /\ written' = written + 1
  /\ pc' = "done"
  /\ UNCHANGED <<req, seg, off, sector, ok, mem, card, starts>>

\* The loop is left on an error before it reaches the status descriptor, so
\* status_byte is still null behind it.
Fail ==
  /\ ok' = FALSE
  /\ pc' = "done"

WalkTransfer ==
  /\ pc = "walk" /\ seg <= Len(req.segs)
  /\ req.type \in {T_IN, T_OUT}
  /\ IF req.segs[seg] % SectorLen # 0
       THEN Fail /\ UNCHANGED off
       ELSE pc' = "transfer" /\ off' = 0 /\ UNCHANGED ok
  /\ UNCHANGED <<req, seg, sector, written, statusByte, mem, card, starts>>

WalkGetId ==
  /\ pc = "walk" /\ seg <= Len(req.segs)
  /\ req.type = T_GET_ID
  /\ mem' = [c \in Cells |-> IF c[1] = seg /\ c[2] < Len512(seg)
                             THEN IdBytes ELSE mem[c]]
  /\ written' = written + req.segs[seg]
  /\ NextSegment
  /\ UNCHANGED <<req, pc, off, sector, ok, statusByte, card>>

WalkFlush ==
  /\ pc = "walk" /\ seg <= Len(req.segs)
  /\ req.type = T_FLUSH
  /\ NextSegment
  /\ UNCHANGED <<req, pc, off, sector, ok, written, statusByte, mem, card>>

WalkUnsupported ==
  /\ pc = "walk" /\ seg <= Len(req.segs)
  /\ req.type \notin {T_IN, T_OUT, T_GET_ID, T_FLUSH}
  /\ Fail
  /\ UNCHANGED <<req, seg, off, sector, written, statusByte, mem, card, starts>>

-----------------------------------------------------------------------------
(* blk_transfer, one bounce buffer at a time. *)

Chunk == LET rest == Len512(seg) - off
         IN  IF rest > BounceSectors THEN BounceSectors ELSE rest

\* The sector the chunk in hand starts at, and whether n sectors from it exist.
From == (sector + off) % SectorMod
OnCard(n) == From + n <= CardSectors

ReadChunk ==
  /\ pc = "transfer" /\ off < Len512(seg) /\ req.type = T_IN
  /\ OnCard(Chunk)
  /\ mem' = [c \in Cells |->
               IF c[1] = seg /\ c[2] \in off..off + Chunk - 1
               THEN card[From + c[2] - off] ELSE mem[c]]
  /\ off' = off + Chunk
  /\ UNCHANGED <<req, pc, seg, sector, ok, written, statusByte, card, starts>>

WriteChunk ==
  /\ pc = "transfer" /\ off < Len512(seg) /\ req.type = T_OUT
  /\ OnCard(Chunk)
  /\ card' = [n \in DOMAIN card |->
               IF n \in From..From + Chunk - 1
               THEN mem[<<seg, off + n - From>>] ELSE card[n]]
  /\ off' = off + Chunk
  /\ UNCHANGED <<req, pc, seg, sector, ok, written, statusByte, mem, starts>>

\* The walk counts the descriptor's length even when the transfer failed.
\* (Definitions named Bug... are a mistake the one after them could have; the
\* checks are shown to notice it.)
BugSectorStays ==
  /\ sector' = sector
  /\ written' = IF req.type = T_IN THEN written + req.segs[seg] ELSE written

BugCountsOutput ==
  /\ sector' = (sector + Len512(seg)) % SectorMod
  /\ written' = written + req.segs[seg]

CountSegment ==
  /\ sector' = (sector + Len512(seg)) % SectorMod
  /\ written' = IF req.type = T_IN THEN written + req.segs[seg] ELSE written

\* hyp_sd_read or hyp_sd_write fails, past the end of the card or for any other
\* reason; a failed write may have reached some of its sectors.
ChunkFails ==
  /\ pc = "transfer" /\ off < Len512(seg)
  /\ Fail
  /\ CountSegment
  /\ IF req.type = T_OUT
       THEN \E n \in 0..Chunk :
              card' = [m \in DOMAIN card |->
                        IF m \in From..From + n - 1
                        THEN mem[<<seg, off + m - From>>] ELSE card[m]]
       ELSE UNCHANGED card
  /\ UNCHANGED <<req, seg, off, statusByte, mem, starts>>

TransferDone ==
  /\ pc = "transfer" /\ off = Len512(seg)
  /\ CountSegment
  /\ NextSegment
  /\ pc' = "walk"
  /\ UNCHANGED <<req, off, ok, statusByte, mem, card>>

RequestNext == \/ ReadHeader \/ WalkEnd \/ WalkTransfer \/ WalkGetId \/ WalkFlush
        \/ WalkUnsupported \/ ReadChunk \/ WriteChunk \/ ChunkFails \/ TransferDone

RequestSpec == RequestInit /\ [][RequestNext]_requestVars

-----------------------------------------------------------------------------
(* Properties *)

\* Each data descriptor starts where the one before it ends.
StartsAreSums ==
  /\ starts[1] = 0
  /\ \A s \in 1..Len(req.segs) : starts[s + 1] = starts[s] + req.segs[s]

\* The guest memory of the request, and the sector of the card of each of it.
Moved == {c \in Cells : c[1] <= Len(req.segs) /\ c[2] < Len512(c[1])}
At(c) == req.sector + starts[c[1]] \div SectorLen + c[2]

\* What a request has moved when it reports success: exactly the sectors it
\* names, and nothing else.
MovedExactly ==
  /\ StartsAreSums
  /\ req.type \in {T_IN, T_OUT} => \A c \in Moved : At(c) \in DOMAIN card
  /\ req.type = T_IN =>
       mem = [c \in Cells |-> IF c \in Moved THEN OldCard[At(c)] ELSE GuestData[c]]
  /\ req.type = T_OUT =>
       /\ mem = GuestData
       /\ \A c \in Moved : card[At(c)] = GuestData[c]
       /\ \A n \in DOMAIN card \ {At(c) : c \in Moved} : card[n] = OldCard[n]
  /\ req.type # T_OUT => card = OldCard

\* A request that reports success has moved exactly the sectors it names,
\* however its buffers divide into descriptors and bounce-buffer chunks, and
\* has touched nothing else (hyp_virtio_blk.c:192-218, 258-278).  This is said
\* of a sector number that fits the code's 32 bits, as every one within the
\* capacity the guest is told does.
SuccessIsExact ==
  pc = "done" /\ statusByte = S_OK /\ req.sector < SectorMod => MovedExactly

\* The same of every sector number of 64 bits.  Not so: 2^32 + n is narrowed to
\* n, and the request moves sector n and reports success
\* (hyp_virtio_blk.c:234).
SectorsAreNamed ==
  pc = "done" /\ statusByte = S_OK => MovedExactly

\* The length reported for a request that succeeded is the bytes the device
\* wrote: the data of a read and the status byte (hyp_virtio_blk.c:220-221).
UsedLength ==
  pc = "done" /\ statusByte = S_OK =>
    /\ StartsAreSums
    /\ written = 1 + IF req.type \in {T_IN, T_GET_ID}
                       THEN starts[Len(req.segs) + 1] ELSE 0

\* hyp_virtio_blk.c:310-312 gives a request that failed the status IOERR or
\* UNSUPP: the guest learns of the failure from its status byte.
FailureIsReported ==
  pc = "done" /\ ~ok =>
    statusByte = IF req.type > T_GET_ID THEN S_UNSUPP ELSE S_IOERR
=============================================================================
