---------------------------- MODULE ActuatorPanel ---------------------------
(***************************************************************************)
(* The actuator side of WorkbenchController: the buttons of the panel, the *)
(* 10 ms timer that ticks the simulated axis and the 50 ms timer that      *)
(* renews the lease of a jog whose button is held. All of it runs on the   *)
(* UI thread, which may be busy elsewhere for any time between two steps.  *)
(***************************************************************************)
EXTENDS MockActuator

VARIABLES
  act,              \* actuator_
  active_jog_token, \* active_jog_token_
  renewing          \* jog_renew_timer_ is running

panel_vars == <<act, active_jog_token, renewing>>

ApInit ==
  /\ \E configured \in BOOLEAN : act = Initial(configured)
  /\ active_jog_token = 0 /\ renewing = FALSE

Forget == active_jog_token' = 0 /\ renewing' = FALSE

Keep == UNCHANGED <<active_jog_token, renewing>>

driveEnable == act' = drive_enable(act) /\ Keep

driveDisable == act' = drive_disable(act) /\ Forget

\* Mutant of homeActuator: the panel forgets its jog although homing is refused
\* while the axis runs.
homeActuatorForgets ==
  act' = home(act) /\ Forget

homeActuator == act' = home(act) /\ Keep

startActuatorVelocity ==
  \E v \in Commands : act' = start_velocity(act, v) /\ Keep

normalStopActuator == act' = normal_stop(act) /\ Forget

quickStopActuator == act' = quick_stop(act) /\ Forget

jogPressed ==
  /\ active_jog_token = 0
  /\ \E v \in Commands : act' = jog_press(act, v)
  /\ IF act'.state = "Running" /\ act.state # "Running"
     THEN active_jog_token' = act'.token /\ renewing' = TRUE
     ELSE Keep

jogReleased ==
  /\ act' = jog_release(act, active_jog_token)
  /\ Forget

resetActuatorFault == act' = reset_fault(act) /\ Keep

\* The axis itself fails (inject_fault), and its cause goes away.
deviceFault ==
  /\ \E persistent \in BOOLEAN : act' = raise_fault(act, "DeviceFault", persistent)
  /\ Keep

deviceRecovers == act' = clear_injected_blocker(act) /\ Keep

\* The panel drops the token of a jog that the tick has ended.
tickActuator ==
  /\ \E elapsed \in 1 .. MaxElapsed : act' \in tick(act, elapsed)
  /\ IF active_jog_token # 0 /\ act'.token = 0 THEN Forget ELSE Keep

renewJog ==
  /\ renewing
  /\ act' = jog_renew(act, active_jog_token)
  /\ IF JogHeld(act, active_jog_token) /\ act.jog_max_left > 0
     THEN Keep ELSE Forget

ApNext ==
  \/ driveEnable \/ driveDisable \/ homeActuator \/ startActuatorVelocity
  \/ normalStopActuator \/ quickStopActuator \/ jogPressed \/ jogReleased
  \/ resetActuatorFault \/ deviceFault \/ deviceRecovers
  \/ tickActuator \/ renewJog

\* The timer of the tick fires as long as the UI thread runs.
ApSpec == ApInit /\ [][ApNext]_panel_vars /\ WF_panel_vars(tickActuator)

-----------------------------------------------------------------------------
(* Properties. *)

States ==
  {"Disabled", "Idle", "Homing", "Ready", "Running", "Stopping", "Fault"}

\* Types of the axis and the panel. The axis never leaves its soft limits:
\* actual_position_rad is clamped wherever it is integrated. The first conjunct
\* of MotionIsAuthorised.
ApTypeOK ==
  /\ act.state \in States /\ act.mode \in {"None", "Velocity", "Homing"} \cup Jogs
  /\ {act.configured, act.enabled, act.homed, act.quick, act.disable_after,
      act.blocker, renewing} \subseteq BOOLEAN
  /\ {act.target_p, act.actual_p} \subseteq Positions
  /\ {act.target_v, act.actual_v} \subseteq -MaxVelocity .. MaxVelocity
  /\ {act.token, active_jog_token} \subseteq 0 .. Generations
  /\ act.tracking \in 0 .. TrackingCycles

\* The axis is told to move only while its drive is enabled, and other than for
\* homing only with a valid home: no order of enabling, homing, faults, stops
\* and resets leaves a velocity command standing.
MotionIsAuthorised ==
  /\ ApTypeOK
  /\ act.target_v # 0 =>
       /\ act.enabled
       /\ \/ act.state = "Homing" /\ act.mode = "Homing"
          \/ act.state = "Running" /\ act.homed

\* A jog runs exactly as long as its token is live, within its lease, and the
\* lease never outlasts the continuous-jog allowance, however it is renewed.
\* And it can always be released: the panel holds its token and renews it, so no
\* stop, fault or late timer orphans a jog.
JogIsHeldByPanel ==
  /\ act.token # 0 <=> act.mode \in Jogs
  /\ act.token # 0 =>
       /\ act.state = "Running"
       /\ 0 < act.jog_left /\ act.jog_left <= act.jog_max_left
       /\ active_jog_token = act.token /\ renewing

\* Motion comes to an end: a stop settles, or a soft limit faults the axis, and
\* a held jog button does not keep it moving for ever.
MotionEnds ==
  /\ act.state = "Stopping" ~> act.state # "Stopping"
  /\ act.token # 0 ~> act.token = 0
=============================================================================
