-------------------------------- MODULE Plic --------------------------------
(***************************************************************************)
(* The emulated interrupt controller (main/hyp_plic.c): one context, one   *)
(* record, and the operations the device models and the guest's MMIO       *)
(* accesses apply to it.  The 32-bit bitmaps of the code are sets of       *)
(* source numbers here.  The operators are pure, so that the handlers that *)
(* call them -- an MMIO read, a device poll, a completion that re-samples  *)
(* the UART -- compose them in the order the C code calls them.            *)
(***************************************************************************)
EXTENDS Naturals

CONSTANTS
  Source,        \* the source numbers the guest's driver uses, within 1..31
  MaxPriority    \* bound on the 32-bit priority and threshold registers

ASSUME PlicAssumption ==
  /\ Source \subseteq 1..31
  /\ MaxPriority \in Nat

PlicType == [ priority  : [Source -> 0..MaxPriority],
              enable    : SUBSET Source,
              pending   : SUBSET Source,
              claimed   : SUBSET Source,
              threshold : 0..MaxPriority ]

PlicReset == [ priority  |-> [s \in Source |-> 0],
               enable    |-> {},
               pending   |-> {},
               claimed   |-> {},
               threshold |-> 0 ]

\* A source the guest could claim now: pending, enabled, not in service, and
\* strictly above the threshold.
Claimable(p) ==
  {s \in (p.pending \cap p.enable) \ p.claimed : p.priority[s] > p.threshold}

\* The claimable sources no other one beats: highest priority, ties to the
\* lowest number.  At most one; plic_peek returns it, or 0.
Best(p) ==
  {s \in Claimable(p) : \A t \in Claimable(p) \ {s} :
      \/ p.priority[s] > p.priority[t]
      \/ p.priority[s] = p.priority[t] /\ s < t}

Peek(p) == IF Best(p) = {} THEN 0 ELSE CHOOSE s \in Best(p) : TRUE

\* The wire into the hart's external-interrupt input.
MeipPending(p) == Peek(p) # 0

SetPending(p, s, asserted) ==
  [p EXCEPT !.pending = IF asserted THEN @ \cup {s} ELSE @ \ {s}]

\* A read of the claim register returns Peek(p) and leaves this state.
Claim(p) ==
  LET s == Peek(p)
  IN  IF s = 0 THEN p
      ELSE [p EXCEPT !.pending = @ \ {s}, !.claimed = @ \cup {s}]

\* A write of s to the complete register is ignored unless s is in service.
\* The caller re-samples the UART when s is its source.
Complete(p, s) == [p EXCEPT !.claimed = @ \ {s}]

SetEnable(p, e)      == [p EXCEPT !.enable = e]
SetPriority(p, s, v) == [p EXCEPT !.priority[s] = v]
SetThreshold(p, v)   == [p EXCEPT !.threshold = v]
=============================================================================
