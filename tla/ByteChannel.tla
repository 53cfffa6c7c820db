---------------------------- MODULE ByteChannel ----------------------------
(***************************************************************************)
(* What the receive side of the console promises: a bounded FIFO that      *)
(* never waits.  A byte put while it is full is lost; every other byte is  *)
(* taken once, in the order it was put.                                    *)
(***************************************************************************)
EXTENDS Naturals, Sequences

CONSTANTS Byte, Tracked, Capacity

VARIABLES queue, got    \* got: the last tracked byte taken

Init == queue = <<>> /\ got = 0

Put == /\ Len(queue) < Capacity
       /\ \E b \in Byte : queue' = Append(queue, b)
       /\ UNCHANGED got

Take == /\ queue # <<>>
        /\ queue' = Tail(queue)
        /\ got' = IF Head(queue) \in Tracked THEN Head(queue) ELSE got

Next == Put \/ Take

Spec == Init /\ [][Next]_<<queue, got>>
=============================================================================
