--------------------------- MODULE ConsoleProofs ---------------------------
(***************************************************************************)
(* The interrupt line and the bytes of the console, for every ring and     *)
(* FIFO size, every set of sources and priorities, and an arbitrary guest. *)
(*                                                                         *)
(* The handlers that re-sample establish that the pending bit is the line; *)
(* Sampled is that fact.  In between, the poll only adds to the ring, so a *)
(* line that is up stays up (PushKeepsLine), which is what makes           *)
(* NoStalePending inductive through a poll.                                *)
(*                                                                         *)
(* The ring's bytes are a function of its indices (ContentsOf); the two    *)
(* operations at its ends are Append and Tail, and from them follow the    *)
(* refinement of ByteChannel and the order of the bytes.  The Linux        *)
(* drivers of ConsoleDriver are one guest of Console, so all of it holds   *)
(* with them, and the line invariants give what only they can ask for.     *)
(***************************************************************************)
EXTENDS ConsoleDriver, PlicProofs, SequenceTheorems

IInv == TypeOK /\ LevelNotLost /\ NoStalePending /\ SnapshotCovered

-----------------------------------------------------------------------------

\* v16550_reeval makes the pending bit the line, and takes nothing into or out
\* of service.
LEMMA Sampled ==
  ASSUME NEW p \in PlicType, plic' = Reeval(p)
  PROVE  /\ plic' \in PlicType
         /\ UartSource \in plic'.pending <=> Line'
         /\ plic'.claimed = p.claimed
<1>1. LineOf(ier', head' = tail') \in BOOLEAN
  BY DEF LineOf
<1>2. Line' = LineOf(ier', head' = tail')
  BY DEF Line, RingEmpty
<1>3. QED
  BY <1>1, <1>2, SetPendingEffect, ConsoleAssumption DEF Reeval

\* A push into the ring keeps the ring's type and never empties it.
LEMMA PushEffect ==
  ASSUME TypeOK, NEW b \in Byte, Push(b)
  PROVE  /\ ring' \in [0..RingSize - 1 -> Byte]
         /\ head' \in 0..RingSize - 1 /\ tail' \in 0..RingSize - 1
         /\ ~RingEmpty => head' # tail'
<1>1. head \in 0..RingSize - 1 /\ tail \in 0..RingSize - 1 /\ tail' = tail
  BY DEF TypeOK, Push
<1>2. CASE RingFull
  BY <1>1, <1>2 DEF TypeOK, Push, RingEmpty
<1>3. CASE ~RingFull
  <2>1. head' = (head + 1) % RingSize /\ ring' = [ring EXCEPT ![head] = b]
    BY <1>3 DEF Push, NextSlot
  <2>2. head' \in 0..RingSize - 1
    BY <1>1, <2>1, ConsoleAssumption
  <2>3. head' # tail'
    BY <1>1, <1>3, <2>1 DEF RingFull, NextSlot
  <2>4. ring' \in [0..RingSize - 1 -> Byte]
    BY <1>1, <2>1 DEF TypeOK
  <2>5. QED
    BY <1>1, <2>2, <2>3, <2>4
<1>4. QED
  BY <1>2, <1>3

\* So a line that is up stays up through a push.
LEMMA PushKeepsLine ==
  ASSUME TypeOK, NEW b \in Byte, Push(b), UNCHANGED ier, Line
  PROVE  Line'
BY PushEffect DEF Line, LineOf, RingEmpty

\* The drain reads a byte and stores it, or takes it as a request.
LEMMA DrainEffect ==
  ASSUME TypeOK, SnapshotCovered, PollDrain
  PROVE  /\ fifo # <<>> /\ Head(fifo) \in Byte
         /\ fifo' \in Seq(Byte) /\ Len(fifo') = Len(fifo) - 1
         /\ left' = left - 1 /\ left' \in Nat
<1>1. fifo \in Seq(Byte) /\ left \in Nat /\ left > 0 /\ left <= Len(fifo)
  BY DEF TypeOK, SnapshotCovered, PollDrain
<1>2. fifo # <<>>
  BY <1>1
<1>3. Head(fifo) \in Byte /\ Tail(fifo) \in Seq(Byte) /\ Len(Tail(fifo)) = Len(fifo) - 1
  BY <1>1, <1>2
<1>4. QED
  BY <1>1, <1>2, <1>3 DEF PollDrain

-----------------------------------------------------------------------------
(* Type correctness *)

\* The type invariant holds at the start.
LEMMA InitType == Init => TypeOK
<1>1. PlicReset \in PlicType
  BY PlicAssumption DEF PlicReset, PlicType
<1>2. /\ 0 \in 0..MaxBytes /\ 0 \in 0..FifoSize /\ 0 \in 0..RingSize - 1
      /\ 0 \in Byte
  BY ConsoleAssumption DEF Byte
<1>3. <<>> \in Seq(Byte) /\ Len(<<>>) <= FifoSize
  BY ConsoleAssumption
<1>4. QED
  BY <1>1, <1>2, <1>3 DEF Init, TypeOK

\* The wire, the FIFO and the poll keep every variable in its type.
LEMMA HostType ==
  ASSUME TypeOK, SnapshotCovered, WireByte \/ FifoRaise \/ Monitor \/ TakeStatsRequest
  PROVE  TypeOK'
<1> USE DEF TypeOK, host, poll, uart
<1>1. CASE WireByte
  <2>1. PICK b \in {KeyStats, sent + 1} :
          fifo' = IF Len(fifo) < FifoSize THEN Append(fifo, b) ELSE fifo
    BY <1>1 DEF WireByte
  <2>2. b \in Byte /\ sent' \in 0..MaxBytes
    BY <1>1, ConsoleAssumption DEF WireByte, KeyStats, Byte
  <2>3. fifo' \in Seq(Byte) /\ Len(fifo') <= FifoSize
    BY <2>1, <2>2, ConsoleAssumption
  <2>4. QED
    BY <1>1, <2>2, <2>3 DEF WireByte
<1>2. CASE FifoRaise
  BY <1>2 DEF FifoRaise
<1>3. CASE PollStart
  BY <1>3, ConsoleAssumption DEF PollStart, Snapshot
<1>4. CASE PollDrain
  <2>1. fifo' \in Seq(Byte) /\ Len(fifo') <= FifoSize /\ left' \in 0..FifoSize
    BY <1>4, DrainEffect, ConsoleAssumption
  <2>2. CASE Head(fifo) = KeyStats
    BY <1>4, <2>1, <2>2 DEF PollDrain
  <2>3. CASE Head(fifo) # KeyStats
    <3>1. Push(Head(fifo)) /\ Head(fifo) \in Byte
      BY <1>4, <2>3, DrainEffect DEF PollDrain
    <3>2. /\ ring' \in [0..RingSize - 1 -> Byte]
          /\ head' \in 0..RingSize - 1 /\ tail' \in 0..RingSize - 1
      BY <3>1, PushEffect
    <3>3. QED
      BY <1>4, <2>1, <2>3, <3>2 DEF PollDrain
  <2>4. QED
    BY <2>2, <2>3
<1>5. CASE PollAck
  BY <1>5 DEF PollAck
<1>6. CASE PollFinish
  <2>1. PICK irq \in BOOLEAN :
          plic' = Reeval(IF irq THEN SetPending(plic, VirtioSource, TRUE) ELSE plic)
    BY <1>6 DEF PollFinish
  <2>2. (IF irq THEN SetPending(plic, VirtioSource, TRUE) ELSE plic) \in PlicType
    BY SetPendingEffect, ConsoleAssumption
  <2>3. plic' \in PlicType
    BY <2>1, <2>2, Sampled
  <2>4. QED
    BY <1>6, <2>3 DEF PollFinish
<1>7. CASE TakeStatsRequest
  BY <1>7 DEF TakeStatsRequest
<1>8. QED
  BY <1>1, <1>2, <1>3, <1>4, <1>5, <1>6, <1>7 DEF Monitor

\* What the guest's accesses to the PLIC leave: its type, and, unless the UART
\* itself is claimed or completed, the UART's pending and in-service bits.
LEMMA PlicAccess ==
  ASSUME plic \in PlicType, UNCHANGED <<head, tail, ier>>,
         \/ PlicClaim
         \/ \E s \in Source : PlicComplete(s)
         \/ PlicConfigure
         \/ VirtioAck
  PROVE  /\ plic' \in PlicType
         /\ \/ UartSource \in plic'.pending <=> Line'
            \/ /\ UartSource \in plic'.pending => UartSource \in plic.pending
               /\ UartSource \in plic'.claimed
            \/ /\ UartSource \in plic'.pending <=> UartSource \in plic.pending
               /\ UartSource \in plic'.claimed <=> UartSource \in plic.claimed
<1>1. CASE PlicClaim
  <2>1. /\ Claim(plic) \in PlicType
        /\ Claim(plic).pending = plic.pending \ {Peek(plic)}
        /\ Peek(plic) = 0 => Claim(plic) = plic
        /\ Peek(plic) # 0 => Claim(plic).claimed = plic.claimed \cup {Peek(plic)}
    BY ClaimEffect
  <2>2. UartSource # 0
    BY ConsoleAssumption, PlicAssumption
  <2>3. QED
    BY <1>1, <2>1, <2>2 DEF PlicClaim
<1>2. ASSUME NEW s \in Source, PlicComplete(s)
      PROVE  /\ plic' \in PlicType
             /\ \/ UartSource \in plic'.pending <=> Line'
                \/ /\ UartSource \in plic'.pending <=> UartSource \in plic.pending
                   /\ UartSource \in plic'.claimed <=> UartSource \in plic.claimed
  <2>1. /\ Complete(plic, s) \in PlicType
        /\ Complete(plic, s).pending = plic.pending
        /\ Complete(plic, s).claimed = plic.claimed \ {s}
    BY CompleteEffect
  <2>2. CASE s = UartSource
    BY <1>2, <2>1, <2>2, Sampled DEF PlicComplete, Completed
  <2>3. CASE s # UartSource
    BY <1>2, <2>1, <2>3 DEF PlicComplete, Completed
  <2>4. QED
    BY <2>2, <2>3
<1>3. CASE PlicConfigure
  BY <1>3, ConfigureEffect DEF PlicConfigure
<1>4. CASE VirtioAck
  BY <1>4, SetPendingEffect, ConsoleAssumption DEF VirtioAck
<1>5. QED
  BY <1>1, <1>2, <1>3, <1>4

\* So do the guest's accesses.
LEMMA GuestType ==
  ASSUME TypeOK, GuestAccess
  PROVE  TypeOK'
<1> USE DEF TypeOK, host, poll, uart
<1>1. CASE ReadRBR
  <2>1. plic' \in PlicType
    BY <1>1, Sampled DEF ReadRBR
  <2>2. tail' \in 0..RingSize - 1
    BY <1>1, ConsoleAssumption DEF ReadRBR, NextSlot
  <2>3. lastGot' \in 0..MaxBytes
    BY <1>1 DEF ReadRBR, IsWire
  <2>4. QED
    BY <1>1, <2>1, <2>2, <2>3 DEF ReadRBR
<1>2. CASE WriteTHR
  <2>1. plic' \in PlicType
    BY <1>2, Sampled DEF WriteTHR
  <2>2. /\ ring' \in [0..RingSize - 1 -> Byte]
        /\ head' \in 0..RingSize - 1 /\ tail' \in 0..RingSize - 1
    <3>1. CASE loop
      <4>1. Looped \in Byte
        BY ConsoleAssumption DEF Looped, Byte
      <4>2. QED
        BY <1>2, <3>1, <4>1, PushEffect DEF WriteTHR
    <3>2. CASE ~loop
      BY <1>2, <3>2 DEF WriteTHR
    <3>3. QED
      BY <3>1, <3>2
  <2>3. QED
    BY <1>2, <2>1, <2>2 DEF WriteTHR
<1>3. ASSUME NEW e \in SUBSET {"rx", "tx"}, WriteIER(e) PROVE TypeOK'
  <2>1. plic' \in PlicType
    BY <1>3, Sampled DEF WriteIER
  <2>2. QED
    BY <1>3, <2>1 DEF WriteIER
<1>4. ASSUME NEW d \in BOOLEAN, WriteLCR(d) PROVE TypeOK'
  BY <1>4 DEF WriteLCR
<1>5. ASSUME NEW l \in BOOLEAN, WriteMCR(l) PROVE TypeOK'
  BY <1>5 DEF WriteMCR
<1>6. CASE PlicClaim \/ (\E s \in Source : PlicComplete(s)) \/ PlicConfigure \/ VirtioAck
  <2>1. UNCHANGED <<host, poll, uart, statsWanted, lastGot>>
    BY <1>6 DEF PlicClaim, PlicComplete, PlicConfigure, VirtioAck
  <2>2. plic' \in PlicType
    BY <1>6, <2>1, PlicAccess
  <2>3. QED
    BY <2>1, <2>2
<1>7. QED
  BY <1>1, <1>2, <1>3, <1>4, <1>5, <1>6 DEF GuestAccess

\* Every step keeps the types.
LEMMA TypeStep == TypeOK /\ SnapshotCovered /\ [Next]_vars => TypeOK'
<1>1. CASE UNCHANGED vars
  BY <1>1 DEF vars, TypeOK
<1>2. QED
  BY <1>1, HostType, GuestType DEF Next

-----------------------------------------------------------------------------
(* The invariants *)

\* The drain takes one byte for one count; only the wire adds to the FIFO.
LEMMA SnapshotStep ==
  ASSUME TypeOK, SnapshotCovered, [Next]_vars
  PROVE  SnapshotCovered'
<1> USE DEF SnapshotCovered, host, poll, uart
<1>1. CASE WireByte
  <2>1. PICK b \in {KeyStats, sent + 1} :
          fifo' = IF Len(fifo) < FifoSize THEN Append(fifo, b) ELSE fifo
    BY <1>1 DEF WireByte
  <2>2. Len(fifo) <= Len(fifo')
    BY <2>1 DEF TypeOK
  <2>3. left \in Int /\ Len(fifo) \in Int /\ Len(fifo') \in Int
    BY <2>1 DEF TypeOK
  <2>4. QED
    BY <1>1, <2>2, <2>3 DEF WireByte
<1>2. CASE PollStart
  BY <1>2 DEF PollStart, Snapshot, TypeOK
<1>3. CASE PollDrain
  <2>1. Len(fifo') = Len(fifo) - 1 /\ left' = left - 1
    BY <1>3, DrainEffect
  <2>2. left <= Len(fifo)
    BY <1>3 DEF PollDrain
  <2>3. left \in Int /\ Len(fifo) \in Int
    BY DEF TypeOK
  <2>4. QED
    BY <2>1, <2>2, <2>3
<1>4. CASE PollAck \/ PollFinish
  BY <1>4 DEF PollAck, PollFinish
<1>5. CASE FifoRaise \/ TakeStatsRequest
  BY <1>5 DEF FifoRaise, TakeStatsRequest
<1>6. CASE GuestAccess
  BY <1>6 DEF GuestAccess, ReadRBR, WriteTHR, WriteIER, WriteLCR, WriteMCR,
              PlicClaim, PlicComplete, PlicConfigure, VirtioAck
<1>7. CASE UNCHANGED vars
  BY <1>7 DEF vars
<1>8. QED
  BY <1>1, <1>2, <1>3, <1>4, <1>5, <1>6, <1>7 DEF Next, Monitor

\* A handler that re-samples restores both line invariants at once; the others
\* change neither the line nor the UART's bits, except the poll's push, which
\* happens with the guest stopped and keeps a line that is up.
LEMMA LineStep ==
  ASSUME TypeOK, LevelNotLost, NoStalePending, SnapshotCovered, [Next]_vars
  PROVE  LevelNotLost' /\ NoStalePending'
<1> USE DEF LevelNotLost, NoStalePending
<1>0. plic \in PlicType
  BY DEF TypeOK
<1>1. CASE WireByte \/ FifoRaise \/ TakeStatsRequest \/ PollStart \/ PollAck
  <2>1. UNCHANGED <<plic, head, tail, ier>> /\ (cpu' = "guest" => cpu = "guest")
    BY <1>1 DEF WireByte, FifoRaise, TakeStatsRequest, PollStart, PollAck, uart, poll
  <2>2. Line' <=> Line
    BY <2>1 DEF Line, LineOf, RingEmpty
  <2>3. QED
    BY <2>1, <2>2
<1>2. CASE PollDrain
  <2>1. UNCHANGED <<plic, ier>> /\ cpu' # "guest"
    BY <1>2 DEF PollDrain
  <2>2. Line => Line'
    <3>1. CASE Head(fifo) = KeyStats
      BY <1>2, <2>1, <3>1 DEF PollDrain, Line, LineOf, RingEmpty
    <3>2. CASE Head(fifo) # KeyStats
      BY <1>2, <2>1, <3>2, DrainEffect, PushKeepsLine DEF PollDrain
    <3>3. QED
      BY <3>1, <3>2
  <2>3. QED
    BY <2>1, <2>2
<1>3. CASE PollFinish
  <2>1. PICK irq \in BOOLEAN :
          plic' = Reeval(IF irq THEN SetPending(plic, VirtioSource, TRUE) ELSE plic)
    BY <1>3 DEF PollFinish
  <2>2. (IF irq THEN SetPending(plic, VirtioSource, TRUE) ELSE plic) \in PlicType
    BY <1>0, SetPendingEffect, ConsoleAssumption
  <2>3. UartSource \in plic'.pending <=> Line'
    BY <2>1, <2>2, Sampled
  <2>4. QED
    BY <2>3
<1>4. CASE ReadRBR \/ WriteTHR \/ (\E e \in SUBSET {"rx", "tx"} : WriteIER(e))
  <2>1. plic' = Reeval(plic)
    BY <1>4 DEF ReadRBR, WriteTHR, WriteIER
  <2>2. UartSource \in plic'.pending <=> Line'
    BY <1>0, <2>1, Sampled
  <2>3. QED
    BY <2>2
<1>5. CASE \E b \in BOOLEAN : WriteLCR(b) \/ WriteMCR(b)
  <2>1. UNCHANGED <<plic, head, tail, ier, cpu>>
    BY <1>5 DEF WriteLCR, WriteMCR, poll
  <2>2. Line' <=> Line
    BY <2>1 DEF Line, LineOf, RingEmpty
  <2>3. QED
    BY <2>1, <2>2
<1>6. CASE PlicClaim \/ (\E s \in Source : PlicComplete(s)) \/ PlicConfigure \/ VirtioAck
  <2>1. UNCHANGED <<head, tail, ier, cpu>> /\ cpu = "guest"
    BY <1>6 DEF PlicClaim, PlicComplete, PlicConfigure, VirtioAck, uart, poll
  <2>2. Line' <=> Line
    BY <2>1 DEF Line, LineOf, RingEmpty
  <2>3. QED
    BY <1>0, <1>6, <2>1, <2>2, PlicAccess
<1>7. CASE UNCHANGED vars
  BY <1>7 DEF vars, Line, LineOf, RingEmpty
<1>8. QED
  BY <1>1, <1>2, <1>3, <1>4, <1>5, <1>6, <1>7 DEF Next, Monitor, GuestAccess

\* Nothing is pending, and the ring is empty, at the start.
LEMMA InitIInv == Init => IInv
  BY InitType DEF Init, IInv, LevelNotLost, NoStalePending, SnapshotCovered, Line,
     LineOf, RingEmpty, PlicReset

\* Every step keeps the invariants.
LEMMA NextIInv == IInv /\ [Next]_vars => IInv'
  BY TypeStep, LineStep, SnapshotStep DEF IInv

\* IInv is an invariant.
LEMMA Invariance == Spec => []IInv
  BY InitIInv, NextIInv, PTL DEF Spec

-----------------------------------------------------------------------------

\* Every reachable state is well typed: the ring indices stay within the ring,
\* and the poll's count within the FIFO.
THEOREM TypeCorrect == Spec => []TypeOK
<1>1. IInv => TypeOK
  BY DEF IInv
<1>2. QED
  BY <1>1, Invariance, PTL

\* The UART's level is never lost in the PLIC.
THEOREM LevelKept == Spec => []LevelNotLost
<1>1. IInv => LevelNotLost
  BY DEF IInv
<1>2. QED
  BY <1>1, Invariance, PTL

\* The PLIC never offers a UART interrupt that has no reason.
THEOREM PendingHasReason == Spec => []NoStalePending
<1>1. IInv => NoStalePending
  BY DEF IInv
<1>2. QED
  BY <1>1, Invariance, PTL

\* The poll never reads from an empty hardware FIFO.
THEOREM DrainCovered == Spec => []SnapshotCovered
<1>1. IInv => SnapshotCovered
  BY DEF IInv
<1>2. QED
  BY <1>1, Invariance, PTL

-----------------------------------------------------------------------------
(* The ring *)

\* The bytes of a ring with its indices at h and t: how many, where the i-th is, and
\* the bytes.
Held(h, t) == IF h >= t THEN h - t ELSE h - t + RingSize
At(t, i) == IF t + i - 1 < RingSize THEN t + i - 1 ELSE t + i - 1 - RingSize
ContentsOf(r, h, t) == [i \in 1..Held(h, t) |-> r[At(t, i)]]

\* The modulo of the code, spelled out.
LEMMA IndexShape ==
  ASSUME NEW h \in 0..RingSize - 1, NEW t \in 0..RingSize - 1
  PROVE  /\ (h - t + RingSize) % RingSize = Held(h, t)
         /\ Held(h, t) \in 0..RingSize - 1
         /\ Held(h, t) = 0 <=> h = t
         /\ \A i \in 1..RingSize : (t + i - 1) % RingSize = At(t, i) /\ At(t, i) \in 0..RingSize - 1
         /\ NextSlot(h) = IF h = RingSize - 1 THEN 0 ELSE h + 1
<1>0. RingSize \in Nat \ {0} /\ RingSize >= 2
  BY ConsoleAssumption
<1>1. (h - t + RingSize) % RingSize = Held(h, t)
  <2> DEFINE x == h - t + RingSize
  <2>1. x \in 0..2 * RingSize - 1
    BY <1>0
  <2>2. x % RingSize = IF x < RingSize THEN x ELSE x - RingSize
    <3> HIDE DEF x
    <3> QED BY <1>0, <2>1, Wrapped
  <2>3. (IF x < RingSize THEN x ELSE x - RingSize) = Held(h, t)
    BY <1>0 DEF Held
  <2>4. QED
    BY <2>2, <2>3
<1>2. ASSUME NEW i \in 1..RingSize
      PROVE  (t + i - 1) % RingSize = At(t, i) /\ At(t, i) \in 0..RingSize - 1
  <2> DEFINE x == t + i - 1
  <2>1. x \in 0..2 * RingSize - 1
    BY <1>0
  <2>2. x % RingSize = IF x < RingSize THEN x ELSE x - RingSize
    <3> HIDE DEF x
    <3> QED BY <1>0, <2>1, Wrapped
  <2>3. At(t, i) \in 0..RingSize - 1
    BY <1>0 DEF At
  <2>4. (IF x < RingSize THEN x ELSE x - RingSize) = At(t, i)
    BY <1>0 DEF At
  <2>5. QED
    BY <2>2, <2>3, <2>4
<1>3. NextSlot(h) = IF h = RingSize - 1 THEN 0 ELSE h + 1
  <2> DEFINE x == h + 1
  <2>1. x \in 0..2 * RingSize - 1
    BY <1>0
  <2>2. x % RingSize = IF x < RingSize THEN x ELSE x - RingSize
    <3> HIDE DEF x
    <3> QED BY <1>0, <2>1, Wrapped
  <2>3. (IF x < RingSize THEN x ELSE x - RingSize) = IF h = RingSize - 1 THEN 0 ELSE h + 1
    BY <1>0
  <2>4. QED
    BY <2>2, <2>3 DEF NextSlot
<1>4. Held(h, t) \in 0..RingSize - 1 /\ (Held(h, t) = 0 <=> h = t)
  BY <1>0 DEF Held
<1>5. QED
  BY <1>1, <1>2, <1>3, <1>4

\* The contents are a sequence of bytes.
LEMMA ContentsShape ==
  ASSUME NEW h \in 0..RingSize - 1, NEW t \in 0..RingSize - 1,
         NEW r \in [0..RingSize - 1 -> Byte]
  PROVE  /\ ContentsOf(r, h, t) = [i \in 1..(h - t + RingSize) % RingSize |-> r[(t + i - 1) % RingSize]]
         /\ ContentsOf(r, h, t) \in Seq(Byte)
         /\ Len(ContentsOf(r, h, t)) = Held(h, t)
<1> DEFINE n == Held(h, t)
<1>0. RingSize \in Nat
  BY ConsoleAssumption
<1>1. n \in 0..RingSize - 1 /\ (h - t + RingSize) % RingSize = n
  BY IndexShape, Zenon
<1>2. \A i \in 1..n : (t + i - 1) % RingSize = At(t, i) /\ At(t, i) \in 0..RingSize - 1
  <2>1. \A i \in 1..n : i \in 1..RingSize
    BY <1>0, <1>1
  <2>2. QED
    BY <2>1, IndexShape
<1>3. \A i \in 1..n : r[(t + i - 1) % RingSize] = r[At(t, i)] /\ r[At(t, i)] \in Byte
  BY <1>2
<1> HIDE DEF n
<1>4. [i \in 1..n |-> r[At(t, i)]] = [i \in 1..n |-> r[(t + i - 1) % RingSize]]
  BY <1>3, Zenon
<1>5. [i \in 1..n |-> r[At(t, i)]] \in Seq(Byte)
  BY <1>0, <1>1, <1>3
<1>6. Len([i \in 1..n |-> r[At(t, i)]]) = n
  BY <1>0, <1>1
<1>7. QED
  BY <1>1, <1>4, <1>5, <1>6 DEF ContentsOf, n

\* They are what the refinement mapping takes, before and after a step.
LEMMA ContentsAre ==
  /\ TypeOK => RingContents = ContentsOf(ring, head, tail)
  /\ TypeOK' => RingContents' = ContentsOf(ring', head', tail')
<1>1. RingContents = [i \in 1..(head - tail + RingSize) % RingSize |-> ring[(tail + i - 1) % RingSize]]
  BY DEF RingContents
<1>2. RingContents' = [i \in 1..(head' - tail' + RingSize) % RingSize |-> ring'[(tail' + i - 1) % RingSize]]
  BY DEF RingContents
<1>3. QED
  BY <1>1, <1>2, ContentsShape, Zenon DEF TypeOK

\* The two ends of the ring: a byte stored at head is appended, ...
LEMMA PushContents ==
  ASSUME NEW h \in 0..RingSize - 1, NEW t \in 0..RingSize - 1,
         NEW r \in [0..RingSize - 1 -> Byte], NEW b \in Byte, NextSlot(h) # t
  PROVE  /\ ContentsOf([r EXCEPT ![h] = b], NextSlot(h), t) = Append(ContentsOf(r, h, t), b)
         /\ Len(ContentsOf(r, h, t)) < RingSize - 1
<1> DEFINE n == Held(h, t)
           s == [r EXCEPT ![h] = b]
           q == ContentsOf(r, h, t)
<1>1. RingSize \in Nat /\ RingSize >= 2
  BY ConsoleAssumption
<1>2. NextSlot(h) = IF h = RingSize - 1 THEN 0 ELSE h + 1
  BY IndexShape
<1>3. n < RingSize - 1 /\ Held(NextSlot(h), t) = n + 1 /\ At(t, n + 1) = h /\ n \in Nat
  BY <1>1, <1>2 DEF Held, At
<1>4. \A i \in 1..n : At(t, i) \in 0..RingSize - 1 /\ At(t, i) # h
  BY <1>1, <1>3 DEF Held, At
<1>5. q = [i \in 1..n |-> r[At(t, i)]] /\ q \in Seq(Byte) /\ Len(q) = n
  BY ContentsShape DEF ContentsOf
<1>6. ContentsOf(s, NextSlot(h), t) = [i \in 1..n + 1 |-> s[At(t, i)]]
  BY <1>3 DEF ContentsOf
<1>7. \A i \in 1..n : s[At(t, i)] = r[At(t, i)]
  BY <1>1, <1>4
<1>8. s[At(t, n + 1)] = b
  BY <1>1, <1>3
<1> HIDE DEF n, q, s
<1>9. Append(q, b) = [i \in 1..n + 1 |-> IF i = n + 1 THEN b ELSE q[i]]
  BY <1>3, <1>5
<1>10. \A i \in 1..n + 1 : s[At(t, i)] = IF i = n + 1 THEN b ELSE q[i]
  BY <1>3, <1>5, <1>7, <1>8
<1>11. ContentsOf(s, NextSlot(h), t) = Append(q, b)
  BY <1>6, <1>9, <1>10
<1>12. QED
  BY <1>3, <1>5, <1>11 DEF q, s

\* ... and moving tail on takes the oldest.
LEMMA TakeContents ==
  ASSUME NEW h \in 0..RingSize - 1, NEW t \in 0..RingSize - 1,
         NEW r \in [0..RingSize - 1 -> Byte], h # t
  PROVE  /\ ContentsOf(r, h, NextSlot(t)) = Tail(ContentsOf(r, h, t))
         /\ ContentsOf(r, h, t) # <<>>
         /\ Head(ContentsOf(r, h, t)) = r[t]
<1> DEFINE n == Held(h, t)
           q == ContentsOf(r, h, t)
<1>1. RingSize \in Nat /\ RingSize >= 2
  BY ConsoleAssumption
<1>2. NextSlot(t) = IF t = RingSize - 1 THEN 0 ELSE t + 1
  BY IndexShape
<1>3. Held(h, NextSlot(t)) = n - 1 /\ n \in Nat /\ n >= 1 /\ At(t, 1) = t
  BY <1>1, <1>2 DEF Held, At
<1>4. \A i \in 1..n - 1 : At(NextSlot(t), i) = At(t, i + 1)
  BY <1>1, <1>2 DEF Held, At
<1>5. q = [i \in 1..n |-> r[At(t, i)]] /\ q \in Seq(Byte) /\ Len(q) = n
  BY ContentsShape DEF ContentsOf
<1>6. ContentsOf(r, h, NextSlot(t)) = [i \in 1..n - 1 |-> r[At(NextSlot(t), i)]]
  BY <1>3 DEF ContentsOf
<1> HIDE DEF n, q
<1>7. Tail(q) = [i \in 1..n - 1 |-> q[i + 1]]
  BY <1>3, <1>5
<1>8. \A i \in 1..n - 1 : q[i + 1] = r[At(NextSlot(t), i)]
  BY <1>3, <1>4, <1>5
<1>9. ContentsOf(r, h, NextSlot(t)) = Tail(q)
  BY <1>6, <1>7, <1>8
<1>10. q # <<>> /\ Head(q) = r[t]
  BY <1>3, <1>5
<1>11. QED
  BY <1>9, <1>10 DEF q

-----------------------------------------------------------------------------
(* What a step does to the bytes on their way to the guest *)

WireEffect ==
  /\ UNCHANGED <<RingContents, lastGot>> /\ sent' = sent + 1
  /\ \/ fifo' = fifo
     \/ \E b \in {KeyStats, sent + 1} : fifo' = Append(fifo, b)

StoreEffect(b) ==
  \/ UNCHANGED RingContents
  \/ /\ Len(RingContents) < RingSize - 1
     /\ RingContents' = Append(RingContents, b)

DrainedEffect ==
  /\ fifo # <<>> /\ fifo' = Tail(fifo)
  /\ StoreEffect(Head(fifo))
  /\ UNCHANGED <<sent, lastGot>>

LoopEffect == StoreEffect(Looped) /\ UNCHANGED <<sent, fifo, lastGot>>

TakeEffect ==
  /\ RingContents # <<>> /\ RingContents' = Tail(RingContents)
  /\ lastGot' = IF IsWire(Head(RingContents)) THEN Head(RingContents) ELSE lastGot
  /\ UNCHANGED <<sent, fifo>>

NoEffect == UNCHANGED <<RingContents, sent, fifo, lastGot>>

\* uart_rx_push puts the byte behind the others, or drops it.
LEMMA PushEffectOnContents ==
  ASSUME TypeOK, TypeOK', NEW b \in Byte, Push(b)
  PROVE  StoreEffect(b)
<1>1. /\ head \in 0..RingSize - 1 /\ tail \in 0..RingSize - 1 /\ tail' = tail
      /\ ring \in [0..RingSize - 1 -> Byte]
  BY DEF TypeOK, Push
<1>2. CASE RingFull
  BY <1>2 DEF Push, RingContents, StoreEffect
<1>3. CASE ~RingFull
  <2>1. ring' = [ring EXCEPT ![head] = b] /\ head' = NextSlot(head) /\ NextSlot(head) # tail
    BY <1>3 DEF Push, RingFull
  <2>2. ring' \in [0..RingSize - 1 -> Byte] /\ head' \in 0..RingSize - 1
    BY PushEffect
  <2>3. /\ RingContents = ContentsOf(ring, head, tail)
        /\ RingContents' = ContentsOf(ring', head', tail')
    BY ContentsAre
  <2>4. QED
    BY <1>1, <2>1, <2>3, PushContents DEF StoreEffect
<1>4. QED
  BY <1>2, <1>3

\* Every handler has one of these effects on the bytes.
LEMMA Effects ==
  ASSUME TypeOK, SnapshotCovered, [Next]_vars
  PROVE  NoEffect \/ WireEffect \/ DrainedEffect \/ LoopEffect \/ TakeEffect
<1> USE DEF host, poll, uart
<1>0. TypeOK'
  BY TypeStep
<1>1. CASE WireByte
  BY <1>1 DEF WireByte, WireEffect, RingContents
<1>2. CASE PollDrain
  <2>1. fifo # <<>> /\ Head(fifo) \in Byte
    BY <1>2, DrainEffect
  <2>2. StoreEffect(Head(fifo))
    <3>1. CASE Head(fifo) = KeyStats
      BY <1>2, <3>1 DEF PollDrain, StoreEffect, RingContents
    <3>2. CASE Head(fifo) # KeyStats
      BY <1>0, <1>2, <2>1, <3>2, PushEffectOnContents DEF PollDrain
    <3>3. QED
      BY <3>1, <3>2
  <2>3. QED
    BY <1>2, <2>1, <2>2 DEF PollDrain, DrainedEffect
<1>3. CASE ReadRBR
  <2>1. CASE RingEmpty
    BY <1>3, <2>1 DEF ReadRBR, NoEffect, RingContents
  <2>2. CASE ~RingEmpty
    <3>1. /\ head \in 0..RingSize - 1 /\ tail \in 0..RingSize - 1
          /\ ring \in [0..RingSize - 1 -> Byte] /\ head # tail
      BY <2>2 DEF TypeOK, RingEmpty
    <3>2. tail' = NextSlot(tail) /\ NextSlot(tail) \in 0..RingSize - 1 /\ UNCHANGED <<ring, head>>
      BY <1>3, <2>2, ConsoleAssumption, <3>1 DEF ReadRBR, NextSlot
    <3>3. /\ RingContents = ContentsOf(ring, head, tail)
          /\ RingContents' = ContentsOf(ring', head', tail')
      BY <1>0, ContentsAre
    <3>4. QED
      BY <1>3, <2>2, <3>1, <3>2, <3>3, TakeContents DEF ReadRBR, TakeEffect, Oldest
  <2>3. QED
    BY <2>1, <2>2
<1>4. CASE WriteTHR
  <2>1. CASE loop
    <3>1. Looped \in Byte
      BY ConsoleAssumption DEF Looped, Byte
    <3>2. QED
      BY <1>0, <1>4, <2>1, <3>1, PushEffectOnContents DEF WriteTHR, LoopEffect
  <2>2. CASE ~loop
    BY <1>4, <2>2 DEF WriteTHR, NoEffect, RingContents
  <2>3. QED
    BY <2>1, <2>2
<1>5. CASE FifoRaise \/ TakeStatsRequest \/ PollStart \/ PollAck \/ PollFinish
  BY <1>5 DEF FifoRaise, TakeStatsRequest, PollStart, PollAck, PollFinish, NoEffect, RingContents
<1>6. CASE \/ \E e \in SUBSET {"rx", "tx"} : WriteIER(e)
           \/ \E b \in BOOLEAN : WriteLCR(b) \/ WriteMCR(b)
  BY <1>6 DEF WriteIER, WriteLCR, WriteMCR, NoEffect, RingContents
<1>7. CASE PlicClaim \/ (\E s \in Source : PlicComplete(s)) \/ PlicConfigure \/ VirtioAck
  BY <1>7 DEF PlicClaim, PlicComplete, PlicConfigure, VirtioAck, NoEffect, RingContents
<1>8. CASE UNCHANGED vars
  BY <1>8 DEF vars, NoEffect, RingContents
<1>9. QED
  BY <1>1, <1>2, <1>3, <1>4, <1>5, <1>6, <1>7, <1>8 DEF Next, Monitor, GuestAccess

\* The ring, its indices and the modulo implement a bounded FIFO: at most
\* RingSize - 1 bytes, a byte put while it is full lost, every other one taken once
\* and in order (uart_rx_push and uart_reg_read(0), hyp_uart.c:77-101).
THEOREM RingRefinesChannel == Spec => RingIsChannel
<1>1. Init => RxChannel!Init
  <2> SUFFICES ASSUME Init PROVE RxChannel!Init
    OBVIOUS
  <2>1. RingContents = ContentsOf(ring, 0, 0) /\ Held(0, 0) = 0
    BY InitType, ContentsAre, ConsoleAssumption, IndexShape DEF Init, Held
  <2>2. ContentsOf(ring, 0, 0) = <<>>
    BY <2>1 DEF ContentsOf
  <2>3. QED
    BY <2>1, <2>2 DEF Init, RxChannel!Init
<1>2. IInv /\ [Next]_vars => [RxChannel!Next]_<<RingContents, lastGot>>
  <2> SUFFICES ASSUME IInv, [Next]_vars
               PROVE  [RxChannel!Next]_<<RingContents, lastGot>>
    OBVIOUS
  <2> USE DEF RxChannel!Next
  <2>1. ASSUME NEW b \in Byte, StoreEffect(b), UNCHANGED lastGot
        PROVE  [RxChannel!Next]_<<RingContents, lastGot>>
    BY <2>1 DEF StoreEffect, RxChannel!Put
  <2>2. CASE NoEffect \/ WireEffect
    BY <2>2 DEF NoEffect, WireEffect
  <2>3. CASE DrainedEffect
    <3>1. Head(fifo) \in Byte
      BY <2>3 DEF DrainedEffect, IInv, TypeOK
    <3>2. QED
      BY <2>1, <2>3, <3>1 DEF DrainedEffect
  <2>4. CASE LoopEffect
    <3>1. Looped \in Byte
      BY ConsoleAssumption DEF Looped, Byte
    <3>2. QED
      BY <2>1, <2>4, <3>1 DEF LoopEffect
  <2>5. CASE TakeEffect
    BY <2>5 DEF TakeEffect, RxChannel!Take, IsWire
  <2>6. QED
    BY <2>2, <2>3, <2>4, <2>5, Effects DEF IInv
<1>3. QED
  BY <1>1, <1>2, Invariance, PTL DEF Spec, RingIsChannel, RxChannel!Spec

-----------------------------------------------------------------------------
(* The order of the bytes *)

\* Wire bytes come in the order g, q, f, and none of them is after the m-th.
Ordered(g, q, f, m) ==
  /\ \A i \in 1..Len(q) : IsWire(q[i]) => g < q[i] /\ q[i] <= m
  /\ \A j \in 1..Len(f) : IsWire(f[j]) => g < f[j] /\ f[j] <= m
  /\ \A i, j \in 1..Len(q) : i < j /\ IsWire(q[i]) /\ IsWire(q[j]) => q[i] < q[j]
  /\ \A i, j \in 1..Len(f) : i < j /\ IsWire(f[i]) /\ IsWire(f[j]) => f[i] < f[j]
  /\ \A i \in 1..Len(q), j \in 1..Len(f) : IsWire(q[i]) /\ IsWire(f[j]) => q[i] < f[j]
  /\ g <= m

\* The next byte of the wire is behind all the others, whatever the FIFO does.
LEMMA OrderedWire ==
  ASSUME NEW g \in 0..MaxBytes, NEW q \in Seq(Byte), NEW f \in Seq(Byte),
         NEW m \in 0..MaxBytes, Ordered(g, q, f, m)
  PROVE  /\ Ordered(g, q, f, m + 1)
         /\ \A b \in {KeyStats, m + 1} : Ordered(g, q, Append(f, b), m + 1)
<1>0. MaxBytes \in Nat
  BY ConsoleAssumption
<1>1. Ordered(g, q, f, m + 1)
  BY <1>0 DEF Ordered, Byte, IsWire
<1>2. ASSUME NEW b \in {KeyStats, m + 1}
      PROVE  Ordered(g, q, Append(f, b), m + 1)
  <2> DEFINE h == Append(f, b)
  <2>1. /\ Len(h) = Len(f) + 1 /\ h[Len(f) + 1] = b /\ Len(f) \in Nat
        /\ \A i \in 1..Len(f) : h[i] = f[i]
    OBVIOUS
  <2>2. /\ \A i \in 1..Len(q) : q[i] \in Int
        /\ \A i \in 1..Len(f) : f[i] \in Int
    <3>1. Byte \subseteq Int
      BY <1>0 DEF Byte
    <3>2. QED
      BY <3>1, ElementOfSeq
  <2>3. IsWire(b) => b = m + 1
    BY <1>0 DEF IsWire, KeyStats
  <2> HIDE DEF h
  <2>4. \A j \in 1..Len(h) : (j \in 1..Len(f) /\ h[j] = f[j]) \/ (j = Len(f) + 1 /\ h[j] = b)
    BY <2>1
  <2>5. Ordered(g, q, h, m + 1)
    <3> USE DEF Ordered
    <3>1. \A j \in 1..Len(h) : IsWire(h[j]) => g < h[j] /\ h[j] <= m + 1
      BY <2>2, <2>3, <2>4
    <3>2. ASSUME NEW i \in 1..Len(h), NEW j \in 1..Len(h), i < j, IsWire(h[i]), IsWire(h[j])
          PROVE  h[i] < h[j]
      <4>1. i \in 1..Len(f) /\ h[i] = f[i]
        BY <2>1, <2>4, <3>2
      <4>2. CASE j \in 1..Len(f) /\ h[j] = f[j]
        BY <3>2, <4>1, <4>2
      <4>3. CASE j = Len(f) + 1 /\ h[j] = b
        BY <2>2, <2>3, <3>2, <4>1, <4>3
      <4>4. QED
        BY <2>4, <4>2, <4>3
    <3>3. \A i \in 1..Len(q), j \in 1..Len(h) : IsWire(q[i]) /\ IsWire(h[j]) => q[i] < h[j]
      BY <2>1, <2>2, <2>3, <2>4
    <3>4. QED
      BY <1>1, <3>1, <3>2, <3>3
  <2>6. QED
    BY <2>5 DEF h
<1>3. QED
  BY <1>1, <1>2

\* Bytes put behind q keep the order when they are no wire bytes, or between q
\* and f.
LEMMA OrderedBehind ==
  ASSUME NEW g \in 0..MaxBytes, NEW q \in Seq(Byte), NEW f \in Seq(Byte),
         NEW m \in 0..MaxBytes, Ordered(g, q, f, m), NEW b \in Byte,
         IsWire(b) => /\ g < b /\ b <= m
                      /\ \A i \in 1..Len(q) : IsWire(q[i]) => q[i] < b
                      /\ \A j \in 1..Len(f) : IsWire(f[j]) => b < f[j]
  PROVE  Ordered(g, Append(q, b), f, m)
<1> DEFINE h == Append(q, b)
<1>1. /\ Len(h) = Len(q) + 1 /\ h[Len(q) + 1] = b /\ Len(q) \in Nat
      /\ \A i \in 1..Len(q) : h[i] = q[i]
  OBVIOUS
<1>2. /\ \A i \in 1..Len(q) : q[i] \in Int
      /\ \A i \in 1..Len(f) : f[i] \in Int
  BY ConsoleAssumption DEF Byte
<1> HIDE DEF h
<1>3. \A j \in 1..Len(h) : (j \in 1..Len(q) /\ h[j] = q[j]) \/ (j = Len(q) + 1 /\ h[j] = b)
  BY <1>1
<1>4. Ordered(g, h, f, m)
  <2> USE DEF Ordered
  <2>1. \A j \in 1..Len(h) : IsWire(h[j]) => g < h[j] /\ h[j] <= m
    BY <1>2, <1>3
  <2>2. \A i, j \in 1..Len(h) : i < j /\ IsWire(h[i]) /\ IsWire(h[j]) => h[i] < h[j]
    BY <1>1, <1>2, <1>3
  <2>3. \A i \in 1..Len(h), j \in 1..Len(f) : IsWire(h[i]) /\ IsWire(f[j]) => h[i] < f[j]
    BY <1>1, <1>2, <1>3
  <2>4. QED
    BY <2>1, <2>2, <2>3
<1>5. QED
  BY <1>4 DEF h

\* The oldest byte of f may go, or go behind q.
LEMMA OrderedDrained ==
  ASSUME NEW g \in 0..MaxBytes, NEW q \in Seq(Byte), NEW f \in Seq(Byte),
         NEW m \in 0..MaxBytes, Ordered(g, q, f, m), f # <<>>
  PROVE  Ordered(g, q, Tail(f), m) /\ Ordered(g, Append(q, Head(f)), Tail(f), m)
<1>0. MaxBytes \in Nat
  BY ConsoleAssumption
<1>1. Ordered(g, q, Tail(f), m)
  BY <1>0 DEF Ordered, Byte, IsWire
<1>2. Ordered(g, Append(q, Head(f)), Tail(f), m)
  <2>1. /\ Tail(f) \in Seq(Byte) /\ Head(f) \in Byte /\ Head(f) = f[1] /\ 1 \in 1..Len(f)
        /\ \A j \in 1..Len(Tail(f)) : Tail(f)[j] = f[j + 1] /\ j + 1 \in 1..Len(f) /\ 1 < j + 1
    OBVIOUS
  <2>2. IsWire(Head(f)) => /\ g < Head(f) /\ Head(f) <= m
                           /\ \A i \in 1..Len(q) : IsWire(q[i]) => q[i] < Head(f)
                           /\ \A j \in 1..Len(Tail(f)) : IsWire(Tail(f)[j]) => Head(f) < Tail(f)[j]
    BY <2>1 DEF Ordered
  <2>3. QED
    BY <1>1, <2>1, <2>2, OrderedBehind
<1>3. QED
  BY <1>1, <1>2

\* A loopback byte may come anywhere.
LEMMA OrderedLooped ==
  ASSUME NEW g \in 0..MaxBytes, NEW q \in Seq(Byte), NEW f \in Seq(Byte),
         NEW m \in 0..MaxBytes, Ordered(g, q, f, m)
  PROVE  Ordered(g, Append(q, Looped), f, m)
<1>0. MaxBytes \in Nat
  BY ConsoleAssumption
<1>1. Looped \in Byte /\ ~IsWire(Looped)
  BY <1>0 DEF Looped, Byte, IsWire
<1>2. QED
  BY <1>1, OrderedBehind

\* The oldest byte of q may go, and be the last one that went.
LEMMA OrderedTaken ==
  ASSUME NEW g \in 0..MaxBytes, NEW q \in Seq(Byte), NEW f \in Seq(Byte),
         NEW m \in 0..MaxBytes, Ordered(g, q, f, m), q # <<>>
  PROVE  Ordered(IF IsWire(Head(q)) THEN Head(q) ELSE g, Tail(q), f, m)
<1>0. MaxBytes \in Nat
  BY ConsoleAssumption
<1>1. QED
  BY <1>0 DEF Ordered, Byte, IsWire

\* The order is inductive once it bounds the bytes by what the wire has carried.
OrderInv == IInv /\ Ordered(lastGot, RingContents, fifo, sent)

\* Each effect keeps the order.
LEMMA OrderStep ==
  ASSUME OrderInv, [Next]_vars
  PROVE  Ordered(lastGot, RingContents, fifo, sent)'
<1>1. /\ lastGot \in 0..MaxBytes /\ fifo \in Seq(Byte) /\ sent \in 0..MaxBytes
      /\ RingContents \in Seq(Byte)
  BY ContentsAre, ContentsShape DEF OrderInv, IInv, TypeOK
<1>2. CASE NoEffect
  BY <1>2 DEF NoEffect, OrderInv
<1>3. CASE WireEffect
  BY <1>1, <1>3, OrderedWire DEF WireEffect, OrderInv
<1>4. CASE DrainedEffect
  BY <1>1, <1>4, OrderedDrained DEF DrainedEffect, StoreEffect, OrderInv
<1>5. CASE LoopEffect
  BY <1>1, <1>5, OrderedLooped DEF LoopEffect, StoreEffect, OrderInv
<1>6. CASE TakeEffect
  BY <1>1, <1>6, OrderedTaken DEF TakeEffect, OrderInv
<1>7. QED
  BY <1>2, <1>3, <1>4, <1>5, <1>6, Effects DEF OrderInv, IInv

\* In the three parts one behind the other the order is WireOrder.
LEMMA OrderGivesWireOrder == OrderInv => WireOrder
<1> SUFFICES ASSUME OrderInv PROVE WireOrder
  OBVIOUS
<1> DEFINE q == RingContents
           s == <<lastGot>> \o q \o fifo
<1>1. lastGot \in 0..MaxBytes /\ fifo \in Seq(Byte) /\ q \in Seq(Byte) /\ sent \in 0..MaxBytes
  BY ContentsAre, ContentsShape DEF OrderInv, IInv, TypeOK
<1>2. Ordered(lastGot, q, fifo, sent)
  BY DEF OrderInv
<1> HIDE DEF q
<1>3. /\ Len(s) = 1 + Len(q) + Len(fifo)
      /\ s[1] = lastGot
      /\ \A i \in 1..Len(q) : s[1 + i] = q[i]
      /\ \A i \in 1..Len(fifo) : s[1 + Len(q) + i] = fifo[i]
  BY <1>1
<1>4. ASSUME NEW i \in 1..Len(s)
      PROVE  \/ i = 1 /\ s[i] = lastGot
             \/ i - 1 \in 1..Len(q) /\ s[i] = q[i - 1]
             \/ i - 1 - Len(q) \in 1..Len(fifo) /\ s[i] = fifo[i - 1 - Len(q)]
  BY <1>1, <1>3
<1> HIDE DEF s
<1>5. ASSUME NEW i \in 1..Len(s), NEW j \in 1..Len(s), i < j, IsWire(s[i]), IsWire(s[j])
      PROVE  s[i] < s[j]
  <2>0. Len(q) \in Nat /\ Len(fifo) \in Nat
    BY <1>1
  <2>1. CASE i = 1 /\ s[i] = lastGot
    <3>1. \/ j - 1 \in 1..Len(q) /\ s[j] = q[j - 1]
          \/ j - 1 - Len(q) \in 1..Len(fifo) /\ s[j] = fifo[j - 1 - Len(q)]
      BY <1>4, <1>5, <2>1
    <3>2. QED
      BY <1>2, <1>5, <2>1, <3>1 DEF Ordered
  <2>2. CASE i - 1 \in 1..Len(q) /\ s[i] = q[i - 1]
    <3>1. CASE j - 1 \in 1..Len(q) /\ s[j] = q[j - 1]
      BY <1>2, <1>5, <2>0, <2>2, <3>1 DEF Ordered
    <3>2. CASE j - 1 - Len(q) \in 1..Len(fifo) /\ s[j] = fifo[j - 1 - Len(q)]
      BY <1>2, <1>5, <2>0, <2>2, <3>2 DEF Ordered
    <3>3. QED
      BY <1>4, <1>5, <2>2, <3>1, <3>2
  <2>3. CASE i - 1 - Len(q) \in 1..Len(fifo) /\ s[i] = fifo[i - 1 - Len(q)]
    <3>1. j - 1 - Len(q) \in 1..Len(fifo) /\ s[j] = fifo[j - 1 - Len(q)]
      BY <1>4, <1>5, <2>0, <2>3
    <3>2. QED
      BY <1>2, <1>5, <2>0, <2>3, <3>1 DEF Ordered
  <2>4. QED
    BY <1>4, <2>1, <2>2, <2>3
<1>6. QED
  BY <1>5 DEF WireOrder, s, q

\* Wire bytes cross the FIFO, the ring and the guest's reads in the order they were
\* sent, none twice (hyp_poll_host_devices, hyp_intr.c:113-122).
THEOREM OrderKept == Spec => []WireOrder
<1>1. Init => OrderInv
  <2> SUFFICES ASSUME Init PROVE OrderInv
    OBVIOUS
  <2>1. Len(RingContents) = 0
    BY InitType, ContentsAre, ContentsShape, ConsoleAssumption DEF Init, Held, TypeOK
  <2>2. QED
    BY <2>1, InitIInv, ConsoleAssumption DEF Init, OrderInv, Ordered
<1>2. OrderInv /\ [Next]_vars => OrderInv'
  BY OrderStep, NextIInv DEF OrderInv
<1>3. QED
  BY <1>1, <1>2, OrderGivesWireOrder, PTL DEF Spec

-----------------------------------------------------------------------------
(* The Linux drivers *)

\* The Linux drivers are one of the guests of Console.
LEMMA DriverStepIsStep == TypeOK /\ [DriverNext]_allVars => [Next]_vars
<1> SUFFICES ASSUME TypeOK, [DriverNext]_allVars PROVE [Next]_vars
  OBVIOUS
<1>1. CASE Environment
  BY <1>1 DEF Environment, Next
<1>2. CASE SetupPlic
  <2>1. 1 \in 0..MaxPriority
    BY DriverAssumption, PlicAssumption
  <2>2. \A s \in Source : plic.enable \cup {s} \in SUBSET Source
    BY DEF TypeOK, PlicType
  <2>3. PlicConfigure
    BY <1>2, <2>1, <2>2 DEF SetupPlic, PlicConfigure
  <2>4. QED
    BY <2>3 DEF Next, GuestAccess
<1>3. CASE SetupIer \/ StopTx \/ StartTx
  <2>1. PICK e \in SUBSET {"rx", "tx"} : WriteIER(e)
    BY <1>3 DEF SetupIer, StopTx, StartTx, TypeOK
  <2>2. QED
    BY <2>1 DEF Next, GuestAccess
<1>4. CASE TakeInterrupt \/ ReadIir \/ ReceiveDone \/ UserWrite
  BY <1>4 DEF TakeInterrupt, ReadIir, ReceiveDone, UserWrite
<1>5. CASE ClaimLoop
  BY <1>5 DEF ClaimLoop, Next, GuestAccess
<1>6. CASE ReceiveChar
  BY <1>6 DEF ReceiveChar, Next, GuestAccess
<1>7. CASE TransmitChar
  BY <1>7 DEF TransmitChar, Next, GuestAccess
<1>8. CASE AckVirtio
  BY <1>8 DEF AckVirtio, Next, GuestAccess
<1>9. CASE EndOfInterrupt
  BY <1>9, ConsoleAssumption DEF EndOfInterrupt, Next, GuestAccess
<1>10. CASE UNCHANGED allVars
  BY <1>10 DEF allVars
<1>11. QED
  BY <1>1, <1>2, <1>3, <1>4, <1>5, <1>6, <1>7, <1>8, <1>9, <1>10
  DEF DriverNext, DriverStep

\* The line invariants carry the driver's.
DriverInv == IInv /\ NobodyCaredNever

\* The first IIR names a reason exactly when the line is up: a claim finds the line
\* up, and until the handler has read IIR only the poll touches the ring.
LEMMA CaredStep ==
  ASSUME DriverInv, [DriverNext]_allVars
  PROVE  NobodyCaredNever'
<1>0. /\ NobodyCaredNever <=> (drv = "iirFirst" => Line)
      /\ NobodyCaredNever' <=> (drv' = "iirFirst" => Line')
  BY DEF NobodyCaredNever, Iir, Line, LineOf
<1> USE DEF DriverInv, IInv, drvVars
<1>1. CASE Environment
  <2>1. drv' = drv
    BY <1>1 DEF Environment
  <2>2. Line => Line'
    <3>1. CASE PollDrain
      <4>1. CASE Head(fifo) = KeyStats
        BY <3>1, <4>1 DEF PollDrain, Line, LineOf, RingEmpty
      <4>2. CASE Head(fifo) # KeyStats
        BY <3>1, <4>2, DrainEffect, PushKeepsLine DEF PollDrain
      <4>3. QED
        BY <4>1, <4>2
    <3>2. CASE ~PollDrain
      BY <1>1, <3>2 DEF Environment, Monitor, WireByte, FifoRaise, PollStart, PollAck,
         PollFinish, TakeStatsRequest, uart, Line, LineOf, RingEmpty
    <3>3. QED
      BY <3>1, <3>2
  <2>3. QED
    BY <1>0, <2>1, <2>2
<1>2. CASE ClaimLoop
  <2>1. CASE Peek(plic) = UartSource
    <3>0. plic \in PlicType /\ UartSource # 0
      BY ConsoleAssumption, PlicAssumption DEF TypeOK
    <3>1. UartSource \in plic.pending
      BY <2>1, <3>0, ClaimEffect
    <3>2. Line
      BY <3>1 DEF NoStalePending
    <3>3. Line'
      BY <1>2, <3>2 DEF ClaimLoop, PlicClaim, uart, Line, LineOf, RingEmpty
    <3>4. QED
      BY <1>0, <3>3
  <2>2. CASE Peek(plic) # UartSource
    BY <1>2, <2>2 DEF ClaimLoop, NobodyCaredNever
  <2>3. QED
    BY <2>1, <2>2
<1>3. CASE DriverStep /\ ~ClaimLoop
  <2>1. drv' # "iirFirst"
    BY <1>3 DEF DriverStep, SetupPlic, SetupIer, TakeInterrupt, ReadIir, ReceiveChar,
       ReceiveDone, TransmitChar, StopTx, AckVirtio, EndOfInterrupt, StartTx
  <2>2. QED
    BY <2>1 DEF NobodyCaredNever
<1>4. CASE UserWrite
  BY <1>4 DEF UserWrite, NobodyCaredNever
<1>5. CASE UNCHANGED allVars
  BY <1>5 DEF allVars, vars, NobodyCaredNever, Iir, RingEmpty
<1>6. QED
  BY <1>1, <1>2, <1>3, <1>4, <1>5 DEF DriverNext

\* What is proved of Console for any guest holds with the Linux drivers: their steps
\* are accesses the arbitrary guest may make.
THEOREM DriverIsGuest == DriverSpec => Spec
<1>1. DriverInit => Init
  BY DEF DriverInit
<1>2. IInv /\ [DriverNext]_allVars => [Next]_vars
  BY DriverStepIsStep DEF IInv
<1>3. IInv /\ [DriverNext]_allVars => IInv'
  BY <1>2, NextIInv
<1>4. QED
  BY <1>1, <1>2, <1>3, InitIInv, PTL DEF DriverSpec, Spec

\* No claim of the UART's source is spurious: the first IIR of the handler names a
\* reason (uart_reg_read(2), hyp_uart.c:132-145).
THEOREM EveryClaimIsCaredFor == DriverSpec => []NobodyCaredNever
<1>1. DriverInit => DriverInv
  BY InitIInv DEF DriverInit, DriverInv, NobodyCaredNever
<1>2. DriverInv /\ [DriverNext]_allVars => DriverInv'
  BY DriverStepIsStep, NextIInv, CaredStep DEF DriverInv, IInv
<1>3. DriverInv => NobodyCaredNever
  BY DEF DriverInv
<1>4. QED
  BY <1>1, <1>2, <1>3, PTL DEF DriverSpec
=============================================================================
