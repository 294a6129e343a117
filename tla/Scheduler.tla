----------------------------- MODULE Scheduler ------------------------------
(***************************************************************************)
(* PeriodicScheduler: the thread that wakes on an absolute grid of         *)
(* deadlines, the handshake by which start() learns how its start-up went, *)
(* and the stop by which its owner ends it. The callback it runs is        *)
(* LinuxRuntime::on_tick; here it takes any time and may throw.            *)
(***************************************************************************)
EXTENDS Integers

CONSTANTS
  Period,    \* SchedulerConfig::period
  MaxClock   \* bound: the clock stops here

ASSUME SchedulerAssumption == Period \in Nat \ {0} /\ MaxClock \in Nat

VARIABLES
  clock,           \* CLOCK_MONOTONIC
  owner,           \* the owner: "idle", "waiting" in start(), "started", "joining"
  worker,          \* where run() is; "none" when there is no thread
  startup,         \* startup_done_ and startup_error_
  stop_requested,  \* stop_requested_
  running,         \* running_
  worker_error,    \* worker_error_ # 0
  base, next,      \* the instant the grid starts at, and next_ns
  cycles, misses   \* cycles_ and deadline_misses_

flags == <<startup, stop_requested, running, worker_error>>

grid == <<base, next, cycles, misses>>

sc_vars == <<clock, owner, worker, flags, grid>>

-----------------------------------------------------------------------------
(* The owner. *)

\* start() of a scheduler whose last thread has been joined. The creation of
\* the thread may fail; everything has been reset by then.
start ==
  /\ owner = "idle"
  /\ \/ owner' = "waiting" /\ worker' = "startup"
     \/ UNCHANGED <<owner, worker>>
  /\ startup' = [done |-> FALSE, error |-> FALSE]
  /\ stop_requested' = FALSE /\ running' = FALSE /\ worker_error' = FALSE
  /\ cycles' = 0 /\ misses' = 0
  /\ UNCHANGED <<clock, base, next>>

\* Mutant of start_returns: start() does not wait for the start-up.
start_returns_at_once ==
  /\ owner = "waiting"
  /\ owner' = IF startup.error THEN "joining" ELSE "started"
  /\ UNCHANGED <<clock, worker, flags, grid>>

\* A failed start-up is joined before start() returns.
start_returns ==
  /\ owner = "waiting" /\ startup.done
  /\ owner' = IF startup.error THEN "joining" ELSE "started"
  /\ UNCHANGED <<clock, worker, flags, grid>>

request_stop ==
  /\ owner = "started"
  /\ owner' = "joining" /\ stop_requested' = TRUE
  /\ UNCHANGED <<clock, worker, startup, running, worker_error, grid>>

join ==
  /\ owner = "joining" /\ worker = "exited"
  /\ owner' = "idle" /\ worker' = "none"
  /\ UNCHANGED <<clock, flags, grid>>

-----------------------------------------------------------------------------
(* run(). *)

\* Affinity, SCHED_FIFO and the first look at the clock succeed or not; the
\* result is published with running_ in one section.
run_startup ==
  /\ worker = "startup"
  /\ \E ok \in BOOLEAN :
       /\ startup' = [done |-> TRUE, error |-> ~ok]
       /\ running' = ok
       /\ worker' = IF ok THEN "top" ELSE "exited"
  /\ base' = clock /\ next' = clock + Period
  /\ UNCHANGED <<clock, owner, stop_requested, worker_error, cycles, misses>>

run_top ==
  /\ worker = "top"
  /\ worker' = IF stop_requested THEN "leaving" ELSE "sleep"
  /\ UNCHANGED <<clock, owner, flags, grid>>

\* Mutant of run_stopped: the request is looked at only after an interrupted
\* sleep.
run_stopped_when_interrupted ==
  /\ worker = "sleep" /\ stop_requested /\ clock < next
  /\ worker' = "leaving"
  /\ UNCHANGED <<clock, owner, flags, grid>>

\* request_stop() does not wake the sleep: the thread sees it at the deadline.
run_stopped ==
  /\ worker = "sleep" /\ stop_requested /\ clock >= next
  /\ worker' = "leaving"
  /\ UNCHANGED <<clock, owner, flags, grid>>

\* A signal may interrupt the sleep. It goes on to the same deadline, unless a
\* stop was requested.
run_interrupted ==
  /\ worker = "sleep" /\ stop_requested /\ clock < next
  /\ worker' = "leaving"
  /\ UNCHANGED <<clock, owner, flags, grid>>

run_wake ==
  /\ worker = "sleep" /\ ~stop_requested /\ clock >= next
  /\ worker' = "callback"
  /\ cycles' = cycles + 1
  /\ UNCHANGED <<clock, owner, flags, base, next, misses>>

\* The sleep, a look at the clock or the callback fails.
run_fails ==
  /\ worker \in {"sleep", "callback", "finish"}
  /\ worker = "sleep" => ~stop_requested
  /\ worker' = "leaving" /\ worker_error' = TRUE
  /\ UNCHANGED <<clock, owner, startup, stop_requested, running, grid>>

callback_returns ==
  /\ worker = "callback"
  /\ worker' = "finish"
  /\ UNCHANGED <<clock, owner, flags, grid>>

\* The boundaries that the callback ran past.
Missed == IF clock >= next + Period THEN (clock - next) \div Period ELSE 0

\* Mutant of run_finish: the next deadline is one period after the end of the
\* callback.
run_finish_from_now ==
  /\ worker = "finish"
  /\ worker' = "top"
  /\ misses' = misses + Missed
  /\ next' = clock + Period
  /\ UNCHANGED <<clock, owner, flags, base, cycles>>

run_finish ==
  /\ worker = "finish"
  /\ worker' = "top"
  /\ misses' = misses + Missed
  /\ next' = next + (Missed + 1) * Period
  /\ UNCHANGED <<clock, owner, flags, base, cycles>>

run_exit ==
  /\ worker = "leaving"
  /\ worker' = "exited" /\ running' = FALSE
  /\ UNCHANGED <<clock, owner, startup, stop_requested, worker_error, grid>>

Run ==
  \/ run_startup \/ run_top \/ run_stopped \/ run_wake \/ callback_returns
  \/ run_fails \/ run_finish \/ run_exit

clock_advance ==
  /\ clock < MaxClock
  /\ clock' = clock + 1
  /\ UNCHANGED <<owner, worker, flags, grid>>

-----------------------------------------------------------------------------
ScInit ==
  /\ clock = 0 /\ owner = "idle" /\ worker = "none"
  /\ startup = [done |-> FALSE, error |-> FALSE]
  /\ stop_requested = FALSE /\ running = FALSE /\ worker_error = FALSE
  /\ base = 0 /\ next = 0 /\ cycles = 0 /\ misses = 0

ScNext ==
  \/ start \/ start_returns \/ request_stop \/ join
  \/ Run \/ run_interrupted \/ clock_advance

\* Both threads run, callbacks return and time passes; nobody has to call
\* request_stop, and no signal has to interrupt the sleep.
ScSpec ==
  ScInit /\ [][ScNext]_sc_vars
    /\ WF_sc_vars(start_returns \/ join) /\ WF_sc_vars(Run) /\ WF_sc_vars(clock_advance)

-----------------------------------------------------------------------------
Looping == {"top", "sleep", "callback", "finish"}

ScTypeOK ==
  /\ clock \in 0 .. MaxClock
  /\ owner \in {"idle", "waiting", "started", "joining"}
  /\ worker \in Looping \cup {"none", "startup", "leaving", "exited"}
  /\ startup \in [done : BOOLEAN, error : BOOLEAN]
  /\ stop_requested \in BOOLEAN /\ running \in BOOLEAN /\ worker_error \in BOOLEAN
  /\ base \in Nat /\ next \in Nat /\ cycles \in Nat /\ misses \in Nat

(***************************************************************************)
(* Every boundary of the grid since start-up is accounted for once, as a   *)
(* cycle or as a miss: neither late wake-ups nor long callbacks make the   *)
(* deadlines drift.                                                        *)
(***************************************************************************)
GridIsKept ==
  /\ worker \in {"top", "sleep"} => next = base + (cycles + misses + 1) * Period
  /\ worker \in {"callback", "finish"} => next = base + (cycles + misses) * Period

(***************************************************************************)
(* A round ends with the first boundary that is still ahead: no past one   *)
(* is run late in a catch-up storm, and no future one is skipped.          *)
(***************************************************************************)
NextIsFirstAhead ==
  [][worker = "finish" /\ worker' = "top" => clock < next' /\ next' <= clock + Period]_sc_vars

(***************************************************************************)
(* What start() tells its caller is so: a started scheduler has a thread   *)
(* that passed its start-up, and running_ with no thread behind it is      *)
(* never seen by an owner outside start().                                 *)
(***************************************************************************)
HandshakeIsTrue ==
  /\ owner = "started" => worker \notin {"none", "startup"} /\ ~startup.error
  /\ owner = "idle" => worker = "none" /\ ~running
  /\ running => worker \in Looping \cup {"leaving"}

(***************************************************************************)
(* A stop converges although nothing wakes the thread: it meets the        *)
(* deadline it sleeps to, or ends its callback, sees the request and is    *)
(* joined. (Within the horizon of the clock.)                              *)
(***************************************************************************)
StopConverges == (owner = "joining" /\ next <= MaxClock) ~> (owner = "idle")
=============================================================================
