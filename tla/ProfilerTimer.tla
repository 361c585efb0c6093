----------------------------- MODULE ProfilerTimer -----------------------------
(***************************************************************************)
(* The timer thread of MemoryProfiler::create and the actor's print loop  *)
(* (src/components/util/memory.rs) against a clock. The timer sleeps     *)
(* period_ms, the period converted to whole milliseconds, then sends     *)
(* Print; the actor receives one Print at a time and is busy for the     *)
(* length of a print cycle (handle_print_msg asking every reporter).     *)
(*                                                                         *)
(* Time is an integer number of microseconds, advanced by Tick to the    *)
(* next deadline only when no thread can act at the current instant.    *)
(* The messages of clients and Exit are left to ProfilerActor: here the  *)
(* mailbox holds the timer's Prints only, and the timer's send succeeds. *)
(***************************************************************************)
EXTENDS Integers, FiniteSetsExt

CONSTANTS
    Periods,    \* periods create() may be given, in microseconds (>= 0)
    Cycles,     \* lengths of one print cycle, in microseconds (> 0)
    MaxSends    \* bound on the timer's sends

ASSUME Periods \subseteq Nat /\ Cycles \subseteq Nat \ {0} /\ MaxSends \in Nat

VARIABLES
    now,        \* the clock
    period,     \* the period create() was given
    cycleLen,   \* how long a print cycle takes in this application
    wake,       \* when the timer's current sleep ends
    sends,      \* Prints the timer sent
    queued,     \* Prints in the mailbox, not yet received
    busy,       \* the actor is inside handle_print_msg
    until       \* when the current print cycle ends

vars == <<now, period, cycleLen, wake, sends, queued, busy, until>>

\* Duration::milliseconds((period * 1000f64) as i64): the float-to-integer
\* cast truncates toward zero, so the sleep is a whole number of
\* milliseconds, 0 for a period under one.
PeriodMs(p) == p \div 1000

SleepUs == PeriodMs(period) * 1000

Init ==
    /\ now = 0
    /\ period \in Periods
    /\ cycleLen \in Cycles
    /\ wake = PeriodMs(period) * 1000
    /\ sends = 0
    /\ queued = 0
    /\ busy = FALSE
    /\ until = 0

\* sleep(period_ms) ended: chan.send(Print), then the next sleep.
TimerWake ==
    /\ sends < MaxSends /\ now = wake
    /\ queued' = queued + 1
    /\ sends' = sends + 1
    /\ wake' = now + SleepUs
    /\ UNCHANGED <<now, period, cycleLen, busy, until>>

\* start(): port.recv() returns the Print; handle_msg calls handle_print_msg.
ActorReceive ==
    /\ ~busy /\ queued > 0
    /\ queued' = queued - 1
    /\ busy' = TRUE
    /\ until' = now + cycleLen
    /\ UNCHANGED <<now, period, cycleLen, wake, sends>>

\* handle_print_msg returned: every reporter asked, the blank line printed.
ActorDone ==
    /\ busy /\ now = until
    /\ busy' = FALSE
    /\ UNCHANGED <<now, period, cycleLen, wake, sends, queued, until>>

Deadlines ==
    (IF sends < MaxSends THEN {wake} ELSE {}) \cup (IF busy THEN {until} ELSE {})

\* Time passes to the next deadline once nothing can happen now.
Tick ==
    /\ ~ENABLED (TimerWake \/ ActorReceive \/ ActorDone)
    /\ Deadlines # {}
    /\ now' = Min(Deadlines)
    /\ UNCHANGED <<period, cycleLen, wake, sends, queued, busy, until>>

Terminated == sends = MaxSends /\ queued = 0 /\ ~busy

Next ==
    \/ TimerWake \/ ActorReceive \/ ActorDone \/ Tick
    \/ (Terminated /\ UNCHANGED vars)

Spec == Init /\ [][Next]_vars

-----------------------------------------------------------------------------
(* Properties.                                                             *)

(* A profiler whose period is at least as long as a print cycle never     *)
(* has more than one timer Print waiting behind the one being handled:    *)
(* the mailbox is unbounded, and spec 5 counts on the timer's volume      *)
(* being low (create's `sleep(period_ms)` loop against handle_print_msg). *)
PrintsDoNotPileUp ==
    period >= cycleLen => queued <= 1

=============================================================================
