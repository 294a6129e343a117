---------------------------- MODULE MockActuator ----------------------------
(***************************************************************************)
(* MockActuatorProfile: the single simulated axis of the workbench. Its    *)
(* state is the record a; an operation maps the record it finds to the     *)
(* record it leaves, and a rejected command leaves it as it was.           *)
(*                                                                         *)
(* Velocities and positions are small integers, and the stopped-velocity   *)
(* epsilon is less than one unit of them. jog_left, jog_max_left and       *)
(* homing_left are jog_deadline_ns_, jog_max_deadline_ns_ and the end of   *)
(* homing seen from monotonic_elapsed_ns_; they are read only while a jog  *)
(* or a homing is active.                                                  *)
(***************************************************************************)
EXTENDS Integers

CONSTANTS
  MaxPosition,     \* max_position_rad; min_position_rad is its negation
  MaxVelocity,     \* max_velocity_rad_s
  HomingDuration,  \* homing_duration
  JogDeadman,      \* jog_deadman
  MaxJog,          \* max_continuous_jog
  TrackingLimit,   \* tracking_error_threshold_rad
  TrackingCycles,  \* tracking_error_cycles
  MaxElapsed,      \* bound: the longest pause between two ticks
  Generations      \* bound: generations are reused modulo this number

ASSUME ActuatorAssumption ==
  /\ {MaxPosition, MaxVelocity, HomingDuration, JogDeadman,
      TrackingCycles, MaxElapsed, Generations} \subseteq Nat \ {0}
  /\ TrackingLimit \in Nat
  /\ MaxJog \in Nat /\ MaxJog >= JogDeadman

Abs(n) == IF n < 0 THEN -n ELSE n

Positions == -MaxPosition .. MaxPosition

\* Velocities the code accepts as a command: finite, nonzero, within the limit.
Commands == (-MaxVelocity .. MaxVelocity) \ {0}

HomingVelocity == -1

Jogs == {"JogPositive", "JogNegative"}

-----------------------------------------------------------------------------
(* Helpers of the operations. *)

NextGeneration(a) == [a EXCEPT !.generation = (@ % Generations) + 1]

begin_stop(a, quick, disable) ==
  [a EXCEPT !.target_v = 0, !.token = 0, !.state = "Stopping", !.mode = "None",
            !.quick = quick, !.disable_after = disable]

\* Mutant of raise_fault: the velocity target survives a fault.
raise_fault_keeps_target(a, reason, persistent) ==
  [a EXCEPT !.fault = reason, !.state = "Fault", !.enabled = FALSE,
            !.homed = FALSE, !.token = 0, !.mode = "None",
            !.quick = TRUE, !.disable_after = FALSE,
            !.blocker = @ \/ persistent]

raise_fault(a, reason, persistent) ==
  [a EXCEPT !.fault = reason, !.state = "Fault", !.enabled = FALSE,
            !.homed = FALSE, !.target_v = 0, !.token = 0, !.mode = "None",
            !.quick = TRUE, !.disable_after = FALSE,
            !.blocker = @ \/ persistent]

\* The constructor; a configuration that is not valid starts in a fault.
Initial(configured) ==
  LET a == [configured |-> configured, state |-> "Disabled", mode |-> "None",
            fault |-> "None", enabled |-> FALSE, homed |-> FALSE,
            target_p |-> 0, actual_p |-> 0, target_v |-> 0, actual_v |-> 0,
            generation |-> Generations, token |-> 0,
            jog_left |-> 0, jog_max_left |-> 0, homing_left |-> 0,
            tracking |-> 0, quick |-> FALSE, disable_after |-> FALSE,
            blocker |-> FALSE]
  IN IF configured THEN a ELSE raise_fault(a, "Configuration", TRUE)

-----------------------------------------------------------------------------
(* The commands. *)

drive_enable(a) ==
  IF a.configured /\ a.state = "Disabled"
  THEN NextGeneration([a EXCEPT !.enabled = TRUE,
                         !.state = IF a.homed THEN "Ready" ELSE "Idle"])
  ELSE a

drive_disable(a) ==
  IF a.state = "Fault" THEN [a EXCEPT !.enabled = FALSE]
  ELSE IF a.state = "Disabled" THEN a
  ELSE IF a.state \in {"Running", "Homing", "Stopping"} \/ a.actual_v # 0
       THEN begin_stop(NextGeneration([a EXCEPT !.homed = FALSE]), TRUE, TRUE)
       ELSE NextGeneration([a EXCEPT !.enabled = FALSE, !.homed = FALSE,
                              !.state = "Disabled", !.mode = "None"])

home(a) ==
  IF a.enabled /\ a.state \in {"Idle", "Ready"}
  THEN NextGeneration([a EXCEPT !.homed = FALSE, !.state = "Homing",
                         !.mode = "Homing", !.target_v = HomingVelocity,
                         !.target_p = a.actual_p,
                         !.homing_left = HomingDuration, !.tracking = 0])
  ELSE a

\* A motion towards a limit the axis already stands on.
Blocked(a, v) ==
  \/ v > 0 /\ a.actual_p >= MaxPosition
  \/ v < 0 /\ a.actual_p <= -MaxPosition

SoftLimit(v) == IF v > 0 THEN "SoftLimitPositive" ELSE "SoftLimitNegative"

MayMove(a) == a.enabled /\ a.homed /\ a.state = "Ready"

Move(a, v, mode) ==
  NextGeneration([a EXCEPT !.state = "Running", !.mode = mode, !.target_v = v,
                    !.target_p = a.actual_p, !.tracking = 0])

start_velocity(a, v) ==
  IF ~MayMove(a) THEN a
  ELSE IF Blocked(a, v) THEN raise_fault(a, SoftLimit(v), FALSE)
  ELSE Move(a, v, "Velocity")

normal_stop(a) ==
  IF a.state \in {"Running", "Homing"}
  THEN begin_stop(NextGeneration(a), FALSE, FALSE) ELSE a

\* A quick stop of a stop that was to disable the drive forgets the disabling.
quick_stop(a) ==
  IF a.state \in {"Running", "Homing", "Stopping"}
  THEN begin_stop(NextGeneration(a), TRUE, FALSE) ELSE a

\* The jog's token is the generation of its own command.
jog_press(a, v) ==
  IF ~MayMove(a) THEN a
  ELSE IF Blocked(a, v) THEN raise_fault(a, SoftLimit(v), FALSE)
  ELSE LET m == Move(a, v, IF v > 0 THEN "JogPositive" ELSE "JogNegative")
       IN [m EXCEPT !.token = m.generation, !.jog_left = JogDeadman,
                    !.jog_max_left = MaxJog]

JogHeld(a, token) ==
  token # 0 /\ token = a.token /\ a.state = "Running" /\ a.mode \in Jogs

\* Mutant of jog_renew: a renewal begins the allowance anew.
jog_renew_extends(a, token) ==
  IF JogHeld(a, token)
  THEN [a EXCEPT !.jog_left = JogDeadman, !.jog_max_left = MaxJog] ELSE a

jog_renew(a, token) ==
  IF ~JogHeld(a, token) THEN a
  ELSE IF a.jog_max_left <= 0 THEN begin_stop(a, FALSE, FALSE)
  ELSE [a EXCEPT !.jog_left = IF JogDeadman < a.jog_max_left
                              THEN JogDeadman ELSE a.jog_max_left]

jog_release(a, token) ==
  IF token # 0 /\ token = a.token
  THEN begin_stop(NextGeneration(a), FALSE, FALSE) ELSE a

reset_fault(a) ==
  IF a.state = "Fault" /\ a.configured /\ ~a.blocker /\ a.actual_v = 0
  THEN NextGeneration([a EXCEPT !.fault = "None", !.enabled = FALSE,
                         !.homed = FALSE, !.state = "Disabled", !.mode = "None",
                         !.target_v = 0, !.target_p = a.actual_p, !.token = 0,
                         !.tracking = 0])
  ELSE a

clear_injected_blocker(a) == [a EXCEPT !.blocker = FALSE]

-----------------------------------------------------------------------------
(* tick(elapsed). *)

\* The clock advances, and a jog whose lease or whole allowance has run out is
\* stopped before the physics of the tick.
Elapse(a, elapsed) ==
  LET left(n) == IF n > elapsed THEN n - elapsed ELSE 0
      b == [a EXCEPT !.jog_left = left(@), !.jog_max_left = left(@),
                     !.homing_left = left(@)]
  IN IF /\ a.state = "Running" /\ a.token # 0
        /\ b.jog_left = 0 \/ b.jog_max_left = 0
     THEN begin_stop(b, FALSE, FALSE) ELSE b

Homed(a) ==
  [a EXCEPT !.actual_p = 0, !.target_p = 0, !.actual_v = 0, !.target_v = 0,
            !.homed = TRUE, !.state = "Ready", !.mode = "None"]

\* The velocity goes part or all of the way to its target. dt is the physics
\* step, which max_physics_step caps: one unit of time, or too little of it to
\* change a position.
Moved(a, v, dt) ==
  [a EXCEPT !.actual_v = v, !.target_p = @ + a.target_v * dt,
            !.actual_p = @ + v * dt]

Nearer(from, to) ==
  IF from = to THEN {to}
  ELSE {v \in -MaxVelocity .. MaxVelocity : Abs(to - v) < Abs(to - from)
                                            /\ (v - to) * (from - to) >= 0}

Limited(a) ==
  IF a.target_p > MaxPosition \/ a.actual_p > MaxPosition
  THEN raise_fault([a EXCEPT !.target_p = MaxPosition,
                      !.actual_p = IF @ > MaxPosition THEN MaxPosition ELSE @],
                   "SoftLimitPositive", FALSE)
  ELSE IF a.target_p < -MaxPosition \/ a.actual_p < -MaxPosition
  THEN raise_fault([a EXCEPT !.target_p = -MaxPosition,
                      !.actual_p = IF @ < -MaxPosition THEN -MaxPosition ELSE @],
                   "SoftLimitNegative", FALSE)
  ELSE a

Tracked(a) ==
  LET off == a.state = "Running" /\ Abs(a.target_p - a.actual_p) > TrackingLimit
      b == [a EXCEPT !.tracking = IF off THEN @ + 1 ELSE 0]
  IN IF b.tracking >= TrackingCycles THEN raise_fault(b, "TrackingError", FALSE)
     ELSE b

Settled(a) ==
  IF a.state = "Stopping" /\ a.actual_v = 0
  THEN [a EXCEPT !.target_v = 0, !.target_p = a.actual_p, !.mode = "None",
                 !.enabled = @ /\ ~a.disable_after,
                 !.homed = @ /\ ~a.disable_after,
                 !.state = IF a.disable_after THEN "Disabled"
                           ELSE IF a.homed THEN "Ready" ELSE "Idle",
                 !.disable_after = FALSE, !.quick = FALSE]
  ELSE a

\* The records a tick may leave.
tick(a, elapsed) ==
  LET b == Elapse(a, elapsed)
  IN IF b.state = "Homing" /\ b.homing_left = 0 THEN {Homed(b)}
     ELSE LET moved == {Moved(b, v, dt) : v \in Nearer(b.actual_v, b.target_v),
                                          dt \in {0, 1}}
              tracked == {Tracked(l) : l \in {Limited(m) : m \in moved}}
          IN {Settled(t) : t \in tracked}
=============================================================================
