------------------------------ MODULE Watchdog ------------------------------
(***************************************************************************)
(* Core 0's liveness check of the guest (app_main of main/main.c) and the  *)
(* trace of the last traps that both cores print (main/hyp_trace.c).       *)
(*                                                                         *)
(* Core 1 records every trap and may print the trace itself, on an access  *)
(* fault or a panic; core 0 looks once a second whether the number of      *)
(* traps has moved.  Nothing is locked.  A step of either core is one      *)
(* access to a shared variable; the guest may compute without a trap,      *)
(* sleep in wfi, or stop for good ("stuck").  The model starts once the      *)
(* guest has been launched (linux_running).                                *)
(***************************************************************************)
EXTENDS Integers, Sequences

CONSTANTS
  TraceLen,     \* HYP_TRACE_LEN
  TraceDumps,   \* HYP_TRACE_DUMPS
  TotalMod,     \* hyp_trace_total is counted modulo this, 2^32
  QuietLimit,   \* seconds without a trap before the guest is reported
  MaxTraps      \* bound on traps taken

ASSUME WatchdogAssumption ==
  /\ TraceLen \in Nat \ {0} /\ TraceDumps \in Nat \ {0}
  /\ TotalMod \in Nat \ {0} /\ QuietLimit \in Nat \ {0}
  /\ MaxTraps \in Nat

VARIABLES
  ring, next, total,         \* hyp_trace, hyp_trace_next, hyp_trace_total
  dumps,                     \* hyp_trace_dumps
  inWfi,                     \* hyp_in_wfi
  cpu, loaded1,              \* core 1; the value of dumps it has loaded
  task, loaded0,             \* core 0; likewise
  last, quiet, reported,     \* app_main: last_traps, quiet_ticks, reported
  count, start, lines,       \* core 0 in hyp_trace_dump, and what it printed
  seq,                       \* history: traps recorded
  sinceTrap,                 \* history: seconds since the last of them
  awake,                     \* history: of these, seconds not spent in wfi
  looked                     \* core 0 has looked during the current trap

trace == <<ring, next, total>>
core1 == <<cpu, loaded1, inWfi>>
check == <<last, quiet, reported>>
print == <<count, start, lines>>
core0 == <<task, loaded0, check, print>>
history == <<seq, sinceTrap, awake, looked>>
watchVars == <<trace, dumps, core1, core0, history>>

Smaller(a, b) == IF a < b THEN a ELSE b

WatchInit ==
  /\ ring = [i \in 0..TraceLen - 1 |-> 0] /\ next = 0 /\ total = 0
  /\ dumps = 0 /\ inWfi = FALSE
  /\ cpu = "guest" /\ loaded1 = 0
  /\ task = "delay" /\ loaded0 = 0
  /\ last = 0 /\ quiet = 0 /\ reported = FALSE
  /\ count = 0 /\ start = 0 /\ lines = <<>>
  /\ seq = 0 /\ sinceTrap = 0 /\ awake = 0 /\ looked = FALSE

-----------------------------------------------------------------------------
(* Core 1. *)

\* hyp_trace_record: the entry, then the index and the count.  TotalMod traps
\* take far longer than core 0 needs to look again.
RecordEntry ==
  /\ cpu = "guest" /\ seq < MaxTraps
  /\ (total + 1) % TotalMod # last
  /\ ring' = [ring EXCEPT ![next] = seq + 1]
  /\ cpu' = "recording" /\ looked' = FALSE
  /\ UNCHANGED <<next, total, dumps, loaded1, inWfi, core0, seq, sinceTrap,
                 awake>>

Following(i) == (i + 1) % TraceLen

RecordCount ==
  /\ cpu = "recording"
  /\ next' = Following(next)
  /\ total' = (total + 1) % TotalMod
  /\ seq' = seq + 1 /\ sinceTrap' = 0 /\ awake' = 0
  /\ cpu' = "handler"
  /\ UNCHANGED <<ring, dumps, loaded1, inWfi, core0, looked>>

HandlerReturns ==
  /\ cpu = "handler"
  /\ cpu' = "guest"
  /\ UNCHANGED <<trace, dumps, loaded1, inWfi, core0, history>>

EnterWfi ==
  /\ cpu = "handler"
  /\ cpu' = "wfi" /\ inWfi' = TRUE
  /\ UNCHANGED <<trace, dumps, loaded1, core0, history>>

LeaveWfi ==
  /\ cpu = "wfi"
  /\ cpu' = "guest" /\ inWfi' = FALSE /\ awake' = 0
  /\ UNCHANGED <<trace, dumps, loaded1, core0, seq, sinceTrap, looked>>

\* An access fault that goes to the guest prints the trace on its way.
InjectFault ==
  /\ cpu = "handler"
  /\ cpu' = "dump"
  /\ UNCHANGED <<trace, dumps, loaded1, inWfi, core0, history>>

Panic ==
  /\ cpu = "handler"
  /\ dumps' = 0
  /\ cpu' = "panic"
  /\ UNCHANGED <<trace, loaded1, inWfi, core0, history>>

AfterDump(c) == IF c \in {"dump", "dumping"} THEN "guest" ELSE "stuck"

DumpBudget ==
  /\ cpu \in {"dump", "panic"}
  /\ loaded1' = dumps
  /\ cpu' = IF dumps >= TraceDumps THEN AfterDump(cpu)
             ELSE IF cpu = "dump" THEN "dumping" ELSE "panicking"
  /\ UNCHANGED <<trace, dumps, inWfi, core0, history>>

\* The lines core 1 prints are those of Lines below: it alone writes the ring.
DumpPrint ==
  /\ cpu \in {"dumping", "panicking"}
  /\ dumps' = loaded1 + 1
  /\ cpu' = AfterDump(cpu)
  /\ UNCHANGED <<trace, loaded1, inWfi, core0, history>>

\* The guest stops taking traps: interrupts masked for good, or the hardware
\* fault the check exists for.
Wedge ==
  /\ cpu = "guest"
  /\ cpu' = "stuck"
  /\ UNCHANGED <<trace, dumps, loaded1, inWfi, core0, history>>

-----------------------------------------------------------------------------
(* Core 0, once a second.                                                   *)

\* quiet_ticks is only compared with the limit, and stays there here.
\* hyp_trace_total is read once: it is no volatile, nothing is called between its
\* two uses (main.c:76, 82), and the build optimises for speed, which makes one
\* load of them.  A handler is over long before the next second, so
\* core 0 looks at most once during it.
InHandler == cpu \notin {"guest", "wfi", "stuck"}

BugQuietKept(t) == IF t = last THEN Smaller(quiet + 1, QuietLimit) ELSE quiet

QuietAfter(t) == IF t = last THEN Smaller(quiet + 1, QuietLimit) ELSE 0

CheckTotal ==
  /\ task = "delay"
  /\ ~(InHandler /\ looked)
  /\ looked' = InHandler
  /\ quiet' = QuietAfter(total)
  /\ reported' = (reported /\ total = last)
  /\ last' = total
  /\ sinceTrap' = Smaller(sinceTrap + 1, QuietLimit)
  /\ awake' = Smaller(awake + 1, QuietLimit)
  /\ task' = "checked"
  /\ UNCHANGED <<trace, dumps, core1, loaded0, print, seq>>

CheckWfi ==
  /\ task = "checked"
  /\ IF quiet >= QuietLimit /\ ~reported /\ ~inWfi
       THEN task' = "report" /\ reported' = TRUE
       ELSE task' = "delay" /\ UNCHANGED reported
  /\ UNCHANGED <<trace, dumps, core1, loaded0, last, quiet, print, history>>

BugBudgetKept ==
  /\ task = "report"
  /\ task' = "dump"
  /\ UNCHANGED <<trace, dumps, core1, loaded0, check, print, history>>

Report ==
  /\ task = "report"
  /\ dumps' = 0
  /\ task' = "dump"
  /\ UNCHANGED <<trace, core1, loaded0, check, print, history>>

ReportBudget ==
  /\ task = "dump"
  /\ loaded0' = dumps
  /\ task' = IF dumps >= TraceDumps THEN "delay" ELSE "dumping"
  /\ UNCHANGED <<trace, dumps, core1, check, print, history>>

LineCount == Smaller(total, TraceLen)

BugStartAtNext == next

FirstLine == (next + TraceLen - LineCount) % TraceLen

Lines == [n \in 1..LineCount |-> ring[(FirstLine + n - 1) % TraceLen]]

ReportHeader ==
  /\ task = "dumping"
  /\ dumps' = loaded0 + 1
  /\ count' = LineCount /\ start' = FirstLine /\ lines' = <<>>
  /\ task' = "lines"
  /\ UNCHANGED <<trace, core1, loaded0, check, history>>

ReportLine ==
  /\ task = "lines" /\ Len(lines) < count
  /\ lines' = Append(lines, ring[(start + Len(lines)) % TraceLen])
  /\ UNCHANGED <<trace, dumps, core1, task, loaded0, check, count, start,
                 history>>

ReportDone ==
  /\ task = "lines" /\ Len(lines) = count
  /\ task' = "delay"
  /\ UNCHANGED <<trace, dumps, core1, loaded0, check, print, history>>

-----------------------------------------------------------------------------
Handler == RecordCount \/ HandlerReturns \/ EnterWfi \/ InjectFault \/ Panic
           \/ DumpBudget \/ DumpPrint
Core1 == RecordEntry \/ Handler \/ LeaveWfi \/ Wedge
Core0 == CheckTotal \/ CheckWfi \/ Report \/ ReportBudget \/ ReportHeader
         \/ ReportLine \/ ReportDone

WatchNext == Core1 \/ Core0

WatchSpec == WatchInit /\ [][WatchNext]_watchVars
WatchLiveSpec == WatchSpec /\ WF_watchVars(Core0) /\ WF_watchVars(Handler)

-----------------------------------------------------------------------------
(* Properties. *)

WatchTypeOK ==
  /\ ring \in [0..TraceLen - 1 -> 0..MaxTraps]
  /\ next \in 0..TraceLen - 1 /\ total \in 0..TotalMod - 1
  /\ dumps \in 0..TraceDumps /\ inWfi \in BOOLEAN
  /\ cpu \in {"guest", "recording", "handler", "wfi", "dump", "dumping",
              "panic", "panicking", "stuck"}
  /\ task \in {"delay", "checked", "report", "dump", "dumping", "lines"}
  /\ loaded0 \in 0..TraceDumps /\ loaded1 \in 0..TraceDumps
  /\ last \in 0..TotalMod - 1 /\ quiet \in 0..QuietLimit
  /\ reported \in BOOLEAN
  /\ count \in 0..TraceLen /\ start \in 0..TraceLen - 1
  /\ lines \in Seq(0..MaxTraps) /\ Len(lines) <= TraceLen
  /\ seq \in 0..MaxTraps /\ sinceTrap \in 0..QuietLimit
  /\ awake \in 0..QuietLimit /\ looked \in BOOLEAN

\* The last of n traps, oldest first.  The 32-bit count says how many of them a
\* dump shows: until it wraps all that the ring holds; from then on as many as its
\* value, up to the ring's length, and so none at all when it is 0.
Shown(n) == Smaller(n % TotalMod, TraceLen)
LastTraps(n) == [i \in 1..Shown(n) |-> n - Shown(n) + i]

\* What core 1 prints about a trap are traps that followed each other, oldest
\* first, and the last of them is the trap being reported; until the 32-bit count
\* first wraps they go as far back as the ring, and the only dump without a line is
\* one at a count of 0 modulo 2^32 (hyp_trace_dump; DumpEndsWithTrap is the claim
\* without that exception, and fails).
DumpIsHistory ==
  cpu \in {"dumping", "panicking"} =>
    /\ \A i \in 1..Len(Lines) : Lines[i] = seq - Len(Lines) + i
    /\ seq < TotalMod => Len(Lines) = Smaller(seq, TraceLen)
    /\ seq % TotalMod # 0 => Lines # <<>>

\* quiet_ticks reaches its limit only after that many whole seconds without a
\* trap, however the traps of core 1 fall between the accesses of the check.
QuietIsReal ==
  [][task = "delay" /\ task' = "checked" /\ quiet' = QuietLimit
       => sinceTrap' = QuietLimit]_watchVars

\* A guest that stops for good, even after earlier reports and after core 1
\* has spent the dump budget on access faults, is reported with the history of
\* its last traps (main.c, "printing the trap ring names it"): one that stops at a
\* count of 0 modulo 2^32 is reported with an empty history.
WedgeReported == (cpu = "stuck") ~> (reported /\ lines = LastTraps(seq))

\* "5 s of no traps at all, and not parked in a wfi": a guest that is reported
\* has been awake for all of that time (main.c, the liveness check).
NoCryAtIdle == [][reported' /\ ~reported => awake = QuietLimit]_watchVars

\* "Oldest first, so the last line is the trap being reported" (hyp_trace_dump):
\* there is a last line, and it is that trap.
DumpEndsWithTrap ==
  cpu \in {"dumping", "panicking"} => Lines # <<>> /\ Lines[Len(Lines)] = seq

=============================================================================
