--------------------------- MODULE SchedulerProofs --------------------------
(***************************************************************************)
(* Proofs about the scheduler's grid and handshake, for every period and   *)
(* every horizon of the clock.                                             *)
(***************************************************************************)
EXTENDS Scheduler, TLAPS

\* A callback runs only at or after its boundary.
NeverEarly == worker \in {"callback", "finish"} => clock >= next

\* What the handshake needs of the thread's own steps to be inductive.
HandshakeSupport ==
  /\ worker \in Looping \cup {"leaving"} => startup.done /\ ~startup.error
  /\ worker = "startup" => ~startup.done /\ owner = "waiting" /\ ~running
                           /\ cycles = 0 /\ misses = 0
  /\ worker = "none" => owner = "idle"
  /\ owner = "started" => startup.done
  /\ worker = "exited" => startup.done /\ owner # "idle"

ScInv ==
  /\ ScTypeOK
  /\ GridIsKept
  /\ NeverEarly
  /\ HandshakeIsTrue
  /\ HandshakeSupport

-----------------------------------------------------------------------------
(***************************************************************************)
(* The miss count of run(): with the callback finished at clock >= next,   *)
(* Missed + 1 periods reach past the clock, and Missed periods do not.     *)
(***************************************************************************)
LEMMA MissedBounds ==
  ASSUME clock \in Nat, next \in Nat, clock >= next
  PROVE  /\ Missed \in Nat
         /\ next + Missed * Period <= clock
         /\ clock < next + (Missed + 1) * Period
<1>p. Period \in Nat /\ Period > 0
  BY SchedulerAssumption
<1> DEFINE late == clock - next
<1>1. late \in Nat
  OBVIOUS
<1>2. /\ late \div Period \in Nat
      /\ (late \div Period) * Period <= late
      /\ late < (late \div Period + 1) * Period
  BY <1>1, <1>p, Z3
<1>3. CASE clock >= next + Period
  BY <1>2, <1>3, <1>p DEF Missed
<1>4. CASE ~(clock >= next + Period)
  BY <1>4, <1>p DEF Missed
<1> QED
  BY <1>3, <1>4

(***************************************************************************)
(* Where run() puts next_release_time after a callback, on the grid.       *)
(***************************************************************************)
LEMMA FinishOnGrid ==
  ASSUME base \in Nat, cycles \in Nat, misses \in Nat, NEW k \in Nat,
         next = base + (cycles + misses) * Period
  PROVE  /\ next + (k + 1) * Period = base + (cycles + (misses + k) + 1) * Period
         /\ next + (k + 1) * Period \in Nat
BY SchedulerAssumption, Z3

(***************************************************************************)
(* The constructor leaves a scheduler without a thread and an empty grid.  *)
(***************************************************************************)
LEMMA InitInv == ScInit => ScInv
<1> SUFFICES ASSUME ScInit
             PROVE  ScInv
  OBVIOUS
<1>t. startup \in [done : BOOLEAN, error : BOOLEAN]
  BY DEF ScInit
<1>b. stop_requested \in BOOLEAN /\ running \in BOOLEAN /\ worker_error \in BOOLEAN
  BY DEF ScInit
<1>1. ScTypeOK
  BY <1>t, <1>b, SchedulerAssumption DEF ScInit, ScTypeOK, Looping
<1>2. GridIsKept /\ NeverEarly /\ HandshakeIsTrue /\ HandshakeSupport
  BY DEF ScInit, GridIsKept, NeverEarly, HandshakeIsTrue, HandshakeSupport, Looping
<1> QED
  BY <1>1, <1>2 DEF ScInv

(***************************************************************************)
(* Every step of the owner, the thread and the clock preserves ScInv.      *)
(***************************************************************************)
LEMMA NextInv == ScInv /\ [ScNext]_sc_vars => ScInv'
<1> SUFFICES ASSUME ScInv, [ScNext]_sc_vars
             PROVE  ScInv'
  OBVIOUS
<1> USE DEF ScInv, ScTypeOK, GridIsKept, NeverEarly, HandshakeIsTrue, HandshakeSupport,
            Looping, flags, grid
<1>p. Period \in Nat /\ Period > 0 /\ MaxClock \in Nat
  BY SchedulerAssumption
<1>1. CASE start
  BY <1>1 DEF start
<1>2. CASE start_returns
  BY <1>2 DEF start_returns
<1>3. CASE request_stop
  BY <1>3 DEF request_stop
<1>4. CASE join
  BY <1>4 DEF join
<1>5. CASE run_startup
  <2>1. base' + (cycles' + misses' + 1) * Period = clock + Period /\ next' = clock + Period
    BY <1>5, <1>p DEF run_startup
  <2>2. CASE startup' = [done |-> TRUE, error |-> FALSE] /\ running' = TRUE /\ worker' = "top"
    BY <1>5, <1>p, <2>1, <2>2 DEF run_startup
  <2>3. CASE startup' = [done |-> TRUE, error |-> TRUE] /\ running' = FALSE /\ worker' = "exited"
    BY <1>5, <1>p, <2>1, <2>3 DEF run_startup
  <2>4. PICK ok \in BOOLEAN : /\ startup' = [done |-> TRUE, error |-> ~ok]
                              /\ running' = ok
                              /\ worker' = IF ok THEN "top" ELSE "exited"
    BY <1>5 DEF run_startup
  <2>5. CASE ok = TRUE
    <3>1. startup' = [done |-> TRUE, error |-> FALSE]
      BY <2>4, <2>5, Zenon
    <3>2. running' = TRUE /\ worker' = "top"
      BY <2>4, <2>5, Zenon
    <3> QED
      BY <2>2, <3>1, <3>2
  <2>6. CASE ok = FALSE
    <3>1. startup' = [done |-> TRUE, error |-> TRUE]
      BY <2>4, <2>6, Zenon
    <3>2. running' = FALSE /\ worker' = "exited"
      BY <2>4, <2>6, Zenon
    <3> QED
      BY <2>3, <3>1, <3>2
  <2> QED
    BY <2>5, <2>6
<1>6. CASE run_top
  BY <1>6 DEF run_top
<1>7. CASE run_stopped
  BY <1>7 DEF run_stopped
<1>8. CASE run_wake
  BY <1>8 DEF run_wake
<1>9. CASE run_fails
  BY <1>9 DEF run_fails
<1>10. CASE callback_returns
  BY <1>10 DEF callback_returns
<1>11. CASE run_finish
  <2>1. /\ Missed \in Nat
        /\ next' = next + (Missed + 1) * Period
    BY <1>11, MissedBounds DEF run_finish
  <2>a. next = base + (cycles + misses) * Period
    BY <1>11 DEF run_finish
  <2>b. base \in Nat /\ cycles \in Nat /\ misses \in Nat /\ next \in Nat
    OBVIOUS
  <2>c. /\ next + (Missed + 1) * Period = base + (cycles + (misses + Missed) + 1) * Period
        /\ next + (Missed + 1) * Period \in Nat
    BY <2>1, <2>a, <2>b, FinishOnGrid, Zenon
  <2>2. next' = base + (cycles + (misses + Missed) + 1) * Period /\ next' \in Nat
    BY <2>1, <2>c, Zenon
  <2> QED
    BY <1>11, <2>1, <2>2 DEF run_finish
<1>12. CASE run_exit
  BY <1>12 DEF run_exit
<1>13. CASE run_interrupted
  BY <1>13 DEF run_interrupted
<1>14. CASE clock_advance
  BY <1>14, <1>p DEF clock_advance
<1>15. CASE UNCHANGED sc_vars
  BY <1>15 DEF sc_vars
<1> QED
  BY <1>1, <1>2, <1>3, <1>4, <1>5, <1>6, <1>7, <1>8, <1>9, <1>10, <1>11, <1>12, <1>13, <1>14,
     <1>15 DEF ScNext, Run

(***************************************************************************)
(* The inductive invariant holds in every behaviour of the scheduler.      *)
(***************************************************************************)
THEOREM ScInvariant == ScSpec => []ScInv
BY InitInv, NextInv, PTL DEF ScSpec

(***************************************************************************)
(* The scheduler's fields keep their types: counters and deadlines never   *)
(* go negative.                                                            *)
(***************************************************************************)
THEOREM ScTypeCorrect == ScSpec => []ScTypeOK
BY ScInvariant, PTL DEF ScInv

(***************************************************************************)
(* run() accounts for every boundary of its grid once, whatever the period *)
(* and however late it wakes or long its callback takes.                   *)
(***************************************************************************)
THEOREM GridTheorem == ScSpec => []GridIsKept
BY ScInvariant, PTL DEF ScInv

(***************************************************************************)
(* What start() returns agrees with the thread there is.                   *)
(***************************************************************************)
THEOREM HandshakeTheorem == ScSpec => []HandshakeIsTrue
BY ScInvariant, PTL DEF ScInv

(***************************************************************************)
(* run() ends each round with the first boundary ahead of the clock.       *)
(***************************************************************************)
THEOREM NextAheadTheorem == ScSpec => NextIsFirstAhead
<1>1. ASSUME ScInv, [ScNext]_sc_vars, worker = "finish", worker' = "top"
      PROVE  clock < next' /\ next' <= clock + Period
  <2>1. run_finish
    BY <1>1 DEF ScNext, Run, sc_vars, start, start_returns, request_stop, join, run_startup,
       run_top, run_stopped, run_wake, run_fails, callback_returns, run_exit, clock_advance,
       run_interrupted
  <2>2. clock \in Nat /\ next \in Nat /\ clock >= next
    BY <1>1, SchedulerAssumption DEF ScInv, ScTypeOK, NeverEarly
  <2>3. (Missed + 1) * Period = Missed * Period + Period /\ Missed * Period \in Nat
    BY <2>2, MissedBounds, SchedulerAssumption, Z3
  <2> QED
    BY <2>1, <2>2, <2>3, MissedBounds, SchedulerAssumption DEF run_finish
<1> QED
  BY <1>1, ScInvariant, PTL DEF ScSpec, NextIsFirstAhead
=============================================================================
