----------------------------- MODULE PlicProofs -----------------------------
(***************************************************************************)
(* Lemmas about what the device models share, the operators of Plic and    *)
(* ring indices that wrap, cited by the proofs about the devices.          *)
(***************************************************************************)
EXTENDS Plic, Integers, TLAPS

\* Quotient and remainder.
LEMMA DivMod ==
  ASSUME NEW R \in Nat \ {0}, NEW x \in Int
  PROVE  x = R * (x \div R) + (x % R) /\ x \div R \in Int /\ x % R \in 0..R - 1
  OBVIOUS

\* A remainder is the only one.
LEMMA ModIs ==
  ASSUME NEW R \in Nat \ {0}, NEW m \in Int, NEW r \in 0..R - 1
  PROVE  (R * m + r) % R = r
<1> DEFINE x == R * m + r
<1>1. x \in Int
  OBVIOUS
<1>2. x = R * (x \div R) + (x % R) /\ x \div R \in Int /\ x % R \in 0..R - 1
  BY <1>1, DivMod
<1>3. R * (m - (x \div R)) = (x % R) - r
  BY <1>2
<1> DEFINE d == m - (x \div R)
           e == (x % R) - r
<1>4. d \in Int /\ e \in Int /\ -R < e /\ e < R /\ R * d = e
  BY <1>2, <1>3
<1> HIDE DEF d, e
<1>5. d = 0
  <2>1. ~(d >= 1)
    BY <1>4
  <2>2. ~(d <= -1)
    BY <1>4
  <2>3. QED
    BY <1>4, <2>1, <2>2
<1>6. e = 0
  BY <1>4, <1>5
<1>7. QED
  BY <1>2, <1>6 DEF e

\* A multiple of the modulus changes no remainder.
LEMMA AddMultiple ==
  ASSUME NEW R \in Nat \ {0}, NEW N \in Nat, N % R = 0, NEW k \in Int
  PROVE  (N + k) % R = k % R
<1> DEFINE m == N \div R
           d == k \div R
           r == k % R
<1>1. N = R * m /\ m \in Int
  BY DivMod
<1>2. k = R * d + r /\ d \in Int /\ r \in 0..R - 1
  BY DivMod
<1> HIDE DEF m, d, r
<1>3. N + k = R * (m + d) + r /\ m + d \in Int
  BY <1>1, <1>2
<1>4. (R * (m + d) + r) % R = r
  BY <1>2, <1>3, ModIs
<1>5. QED
  BY <1>3, <1>4 DEF r

\* Numbers less than the modulus apart have different remainders.
LEMMA ModApart ==
  ASSUME NEW R \in Nat \ {0}, NEW a \in Int, NEW b \in Int, a < b, b < a + R
  PROVE  a % R # b % R
<1> DEFINE m == a \div R
           d == b \div R
           r == a % R
<1>1. SUFFICES ASSUME b % R = r PROVE FALSE
  OBVIOUS
<1>2. a = R * m + r /\ m \in Int /\ r \in 0..R - 1
  BY DivMod
<1>3. b = R * d + r /\ d \in Int
  BY <1>1, DivMod
<1> HIDE DEF m, d, r
<1>4. R * (d - m) = b - a
  BY <1>2, <1>3
<1> DEFINE e == d - m
<1>5. e \in Int /\ 0 < R * e /\ R * e < R
  BY <1>2, <1>3, <1>4
<1> HIDE DEF e
<1>6. ~(e >= 1)
  BY <1>5
<1>7. ~(e <= 0)
  BY <1>5
<1>8. QED
  BY <1>5, <1>6, <1>7

\* A sum of two ring indices wraps once.
LEMMA Wrapped ==
  ASSUME NEW R \in Nat \ {0}, NEW x \in 0..2 * R - 1
  PROVE  x % R = IF x < R THEN x ELSE x - R
<1>1. CASE x < R
  BY <1>1
<1>2. CASE ~(x < R)
  <2>1. x = 1 * R + (x - R) /\ 0 <= x - R /\ x - R < R
    BY <1>2
  <2>2. QED
    BY <1>2, <2>1
<1>3. QED
  BY <1>1, <1>2

\* What plic_peek returns is claimable, and 0 is no source.
LEMMA PeekClaimable ==
  ASSUME NEW p \in PlicType, Peek(p) # 0
  PROVE  Peek(p) \in Claimable(p)
<1>1. Best(p) # {} /\ Peek(p) \in Best(p)
  BY DEF Peek
<1>2. QED
  BY <1>1 DEF Best

\* A claim takes the source it returns out of pending and into service, and
\* changes nothing else.
LEMMA ClaimEffect ==
  ASSUME NEW p \in PlicType
  PROVE  /\ Claim(p) \in PlicType
         /\ Claim(p).pending = p.pending \ {Peek(p)}
         /\ Peek(p) = 0 => Claim(p) = p
         /\ Peek(p) # 0 => /\ Claim(p).claimed = p.claimed \cup {Peek(p)}
                           /\ Peek(p) \in p.pending
                           /\ Peek(p) \notin p.claimed
<1>1. CASE Peek(p) = 0
  <2>1. 0 \notin p.pending
    BY PlicAssumption DEF PlicType
  <2>2. QED
    BY <1>1, <2>1 DEF Claim
<1>2. CASE Peek(p) # 0
  <2>1. Peek(p) \in p.pending /\ Peek(p) \notin p.claimed
    BY <1>2, PeekClaimable DEF Claimable
  <2>2. Peek(p) \in Source
    BY <2>1 DEF PlicType
  <2>3. Claim(p) = [p EXCEPT !.pending = p.pending \ {Peek(p)},
                             !.claimed = p.claimed \cup {Peek(p)}]
    BY <1>2 DEF Claim
  <2>4. /\ p.pending \ {Peek(p)} \in SUBSET Source
        /\ p.claimed \cup {Peek(p)} \in SUBSET Source
    BY <2>2 DEF PlicType
  <2>5. Claim(p) \in PlicType
    BY <2>3, <2>4 DEF PlicType
  <2>6. /\ Claim(p).pending = p.pending \ {Peek(p)}
        /\ Claim(p).claimed = p.claimed \cup {Peek(p)}
    BY <2>3 DEF PlicType
  <2>7. QED
    BY <1>2, <2>1, <2>5, <2>6
<1>3. QED
  BY <1>1, <1>2

\* plic_set_pending changes one pending bit.
LEMMA SetPendingEffect ==
  ASSUME NEW p \in PlicType, NEW s \in Source, NEW b \in BOOLEAN
  PROVE  /\ SetPending(p, s, b) \in PlicType
         /\ s \in SetPending(p, s, b).pending <=> b
         /\ \A t \in Source \ {s} :
              t \in SetPending(p, s, b).pending <=> t \in p.pending
         /\ SetPending(p, s, b).claimed = p.claimed
  BY DEF SetPending, PlicType

\* A completion takes a source out of service and nothing else.
LEMMA CompleteEffect ==
  ASSUME NEW p \in PlicType, NEW s \in Source
  PROVE  /\ Complete(p, s) \in PlicType
         /\ Complete(p, s).pending = p.pending
         /\ Complete(p, s).claimed = p.claimed \ {s}
  BY DEF Complete, PlicType

\* The configuration registers do not touch what is pending or in service.
LEMMA ConfigureEffect ==
  ASSUME NEW p \in PlicType, NEW q,
         \/ \E e \in SUBSET Source : q = SetEnable(p, e)
         \/ \E v \in 0..MaxPriority : q = SetThreshold(p, v)
         \/ \E s \in Source, v \in 0..MaxPriority : q = SetPriority(p, s, v)
  PROVE  q \in PlicType /\ q.pending = p.pending /\ q.claimed = p.claimed
<1>1. ASSUME NEW e \in SUBSET Source, q = SetEnable(p, e)
      PROVE  q \in PlicType /\ q.pending = p.pending /\ q.claimed = p.claimed
  BY <1>1 DEF SetEnable, PlicType
<1>2. ASSUME NEW v \in 0..MaxPriority, q = SetThreshold(p, v)
      PROVE  q \in PlicType /\ q.pending = p.pending /\ q.claimed = p.claimed
  BY <1>2 DEF SetThreshold, PlicType
<1>3. ASSUME NEW s \in Source, NEW v \in 0..MaxPriority, q = SetPriority(p, s, v)
      PROVE  q \in PlicType /\ q.pending = p.pending /\ q.claimed = p.claimed
  BY <1>3 DEF SetPriority, PlicType
<1>4. QED
  BY <1>1, <1>2, <1>3
=============================================================================
