----------------------------- MODULE BenchClock -----------------------------
(***************************************************************************)
(* A cocotb test and the clock of the design it drives.  A test is a       *)
(* coroutine: it sets inputs, asserts outputs and awaits timers.  script   *)
(* is what it has left to do, one record per statement.  Statements take   *)
(* no time; only Wait lets the clock run.                                  *)
(*                                                                         *)
(* Time is counted in ticks, Ticks of them between two rising edges, so    *)
(* that a bit need not last a whole number of clocks.  When a timer ends   *)
(* at a rising edge, nothing orders the two: the test may run before the   *)
(* edge or after it.                                                       *)
(***************************************************************************)
EXTENDS Naturals, Sequences

CONSTANT Ticks      \* per clock

ASSUME BenchClockAssumption == Ticks \in Nat \ {0}

VARIABLES
    script,     \* what is left of the test
    edge,       \* ticks to the next rising edge
    wake        \* ticks to the end of the timer awaited

benchVars == <<script, edge, wake>>

\* A test starts at a rising edge.
ClockInit == edge = 0 /\ wake = 0

\* await RisingEdge(clock), of the clock that each test starts anew.
RisingEdge == [op |-> "rising"]

\* await ClockCycles(clock, n)
Cycles(n) == [op |-> "cycles", n |-> n]

Wait(ticks) == [op |-> "wait", ticks |-> ticks]
Clocks(n)   == Wait(n * Ticks)

Finished == script = <<>>

Doing(op) == ~Finished /\ Head(script).op = op

Step == Head(script)

\* The statement is done.
Done == script' = Tail(script) /\ UNCHANGED <<edge, wake>>

Restart ==
    /\ Doing("rising")
    /\ edge' = 0
    /\ script' = Tail(script)
    /\ UNCHANGED wake

\* await Timer(...)
Await ==
    /\ Doing("wait")
    /\ wake = 0
    /\ wake' = Step.ticks
    /\ script' = <<[op |-> "asleep"]>> \o Tail(script)
    /\ UNCHANGED edge

\* The n-th edge from now.
AwaitCycles ==
    /\ Doing("cycles")
    /\ wake' = edge + (Step.n - 1) * Ticks
    /\ script' = <<[op |-> "asleep"]>> \o Tail(script)
    /\ UNCHANGED edge

\* The timer ends, before an edge that is due at the same tick or after it.
Resume ==
    /\ Doing("asleep")
    /\ wake <= edge
    /\ edge' = edge - wake
    /\ wake' = 0
    /\ script' = Tail(script)

\* A rising edge while the test sleeps.
Rise ==
    /\ Doing("asleep")
    /\ edge <= wake
    /\ wake' = wake - edge
    /\ edge' = Ticks
    /\ UNCHANGED script
=============================================================================
