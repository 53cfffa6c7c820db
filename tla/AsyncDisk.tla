----------------------------- MODULE AsyncDisk -----------------------------
(***************************************************************************)
(* What the virtio block device promises its driver, with no ring, index   *)
(* or flag in sight: a submitted request is performed, requests complete   *)
(* in the order they were submitted, each exactly once, and the driver     *)
(* collects completions in that order.                                     *)
(***************************************************************************)
EXTENDS Naturals, Sequences

CONSTANT Request    \* identities of requests, reused once collected

VARIABLES
  queued,     \* submitted, not completed, oldest first
  done,       \* completed, not collected, oldest first
  performed   \* those whose transfer has been done since they were submitted

Busy == {queued[i] : i \in 1..Len(queued)} \cup {done[i] : i \in 1..Len(done)}

Init == queued = <<>> /\ done = <<>> /\ performed = {}

Submit(r) ==
  /\ r \notin Busy
  /\ queued' = Append(queued, r)
  /\ performed' = performed \ {r}
  /\ UNCHANGED done

Perform ==
  /\ queued # <<>>
  /\ Head(queued) \notin performed
  /\ performed' = performed \cup {Head(queued)}
  /\ UNCHANGED <<queued, done>>

Complete ==
  /\ queued # <<>>
  /\ Head(queued) \in performed
  /\ queued' = Tail(queued)
  /\ done' = Append(done, Head(queued))
  /\ UNCHANGED performed

Collect ==
  /\ done # <<>>
  /\ done' = Tail(done)
  /\ UNCHANGED <<queued, performed>>

Next == (\E r \in Request : Submit(r)) \/ Perform \/ Complete \/ Collect

Spec == Init /\ [][Next]_<<queued, done, performed>>
=============================================================================
