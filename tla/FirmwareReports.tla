-------------------------- MODULE FirmwareReports ---------------------------
(***************************************************************************)
(* The input side of the firmware's loop: the debounced position sensor    *)
(* (input_debounce.c) and the schedule of the 100 ms reports (main.c). One *)
(* round of the loop is one action; rounds come at irregular times, and    *)
(* the millisecond counter wraps.                                          *)
(***************************************************************************)
EXTENDS Naturals

CONSTANTS
  ClockMod,    \* 2^32
  DebounceMs,  \* RCR_INPUT_DEBOUNCE_MS
  PeriodMs,    \* RCR_PERIOD_MS
  MaxStall     \* longest time between rounds: the watchdog's period

ASSUME ReportsAssumption ==
  /\ DebounceMs \in Nat \ {0} /\ PeriodMs \in Nat \ {0} /\ MaxStall \in Nat
  /\ ClockMod \in Nat /\ ClockMod > 2 * (DebounceMs + PeriodMs + MaxStall)

VARIABLES
  ms_clock,      \* monotonic_ms
  idle,       \* time since the last round
  debounce,   \* rcr_input_debounce_t
  next_due,   \* next_heartbeat_ms; next_status_ms keeps the same schedule
  last_sent,  \* when a report was last queued
  samples     \* what the last rounds read: [level, age], younger than DebounceMs

rep_vars == <<ms_clock, idle, debounce, next_due, last_sent, samples>>

Elapsed(t, since) == (t + ClockMod - since) % ClockMod

time_after_or_equal(t, deadline) == 2 * Elapsed(t, deadline) < ClockMod

-----------------------------------------------------------------------------
\* Mutant of debounce_update: a change of level does not restart the time.
debounce_update_no_restart(d, reached, t) ==
  IF ~d.armed THEN [d EXCEPT !.armed = TRUE, !.candidate = reached, !.since = t]
  ELSE [d EXCEPT !.candidate = reached,
                 !.stable = IF Elapsed(t, d.since) >= DebounceMs THEN reached ELSE @]

\* rcr_input_debounce_update: a change of level restarts the time.
debounce_update(d, reached, t) ==
  IF ~d.armed \/ reached # d.candidate
    THEN [d EXCEPT !.armed = TRUE, !.candidate = reached, !.since = t]
    ELSE [d EXCEPT !.stable = IF Elapsed(t, d.since) >= DebounceMs THEN d.candidate ELSE @]

\* The next due time keeps its grid, unless a whole period has been missed.
NextDue(due, t) ==
  LET grid == (due + PeriodMs) % ClockMod
  IN  IF time_after_or_equal(t, grid) THEN (t + PeriodMs) % ClockMod ELSE grid

tick ==
  /\ idle < MaxStall
  /\ ms_clock' = (ms_clock + 1) % ClockMod
  /\ idle' = idle + 1
  /\ samples' = {[s EXCEPT !.age = @ + 1] : s \in {x \in samples : x.age + 1 < DebounceMs}}
  /\ UNCHANGED <<debounce, next_due, last_sent>>

round(reached) ==
  /\ debounce' = debounce_update(debounce, reached, ms_clock)
  /\ IF time_after_or_equal(ms_clock, next_due)
       THEN next_due' = NextDue(next_due, ms_clock) /\ last_sent' = ms_clock
       ELSE UNCHANGED <<next_due, last_sent>>
  /\ samples' = samples \cup {[level |-> reached, age |-> 0]}
  /\ idle' = 0
  /\ UNCHANGED ms_clock

\* main() starts both schedules at its first reading of the clock, and the first
\* round finds them due.
RepInit ==
  /\ ms_clock = 0 /\ idle = 0
  /\ debounce = [armed |-> FALSE, candidate |-> FALSE, stable |-> FALSE, since |-> 0]
  /\ next_due = 0 /\ last_sent = 0
  /\ samples = {}

RepNext == tick \/ \E reached \in BOOLEAN : round(reached)

RepSpec == RepInit /\ [][RepNext]_rep_vars

-----------------------------------------------------------------------------
\* Types and bounds of the state; the first conjunct of ReportsAreTrue.
RepTypeOK ==
  /\ ms_clock \in 0 .. ClockMod - 1 /\ idle \in 0 .. MaxStall
  /\ debounce \in [armed : BOOLEAN, candidate : BOOLEAN, stable : BOOLEAN, since : 0 .. ClockMod - 1]
  /\ next_due \in 0 .. ClockMod - 1 /\ last_sent \in 0 .. ClockMod - 1
  /\ samples \subseteq [level : BOOLEAN, age : 0 .. DebounceMs - 1]

(***************************************************************************)
(* Reports are true and on time, however irregular the rounds and across   *)
(* the wrap of the counter. The reported position changes only to a level  *)
(* that every round of the last DebounceMs (that instant excluded) has     *)
(* read. A report is due at most one period after the last one: a stalled  *)
(* loop neither skips ahead nor falls behind by sending a burst of old     *)
(* reports (the round that serves a due time does not leave it in the      *)
(* past).                                                                  *)
(***************************************************************************)
ReportsAreTrue ==
  /\ [](RepTypeOK /\ Elapsed(next_due, last_sent) <= PeriodMs)
  /\ [](idle = 0 /\ debounce.armed => ~time_after_or_equal(ms_clock, next_due))
  /\ [][debounce'.stable # debounce.stable =>
          \A s \in samples' : s.level = debounce'.stable]_rep_vars
=============================================================================
