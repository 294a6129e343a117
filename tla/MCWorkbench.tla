---------------------------- MODULE MCWorkbench -----------------------------
(* Pages of the workbench that share no state, for one run: the actuator,   *)
(* the CAN health test and the remote connection. A behaviour exercises one *)
(* of them and leaves the others in an initial state.                       *)
EXTENDS ActuatorPanel, HealthRun, RemoteSession

Seen(hb, rejects, online, age, faulted) ==
  [started |-> TRUE, evidence |-> TRUE, hb |-> hb, rejects |-> rejects,
   seen |-> TRUE, online |-> online, age |-> age, faulted |-> faulted]

\* No status at all, a Runtime that has seen no device, and a device that
\* progresses, is lost, goes stale, is rejected or faults.
MCSnapshots ==
  {NoSnapshot, [NoSnapshot EXCEPT !.started = TRUE, !.evidence = TRUE],
   [NoSnapshot EXCEPT !.started = TRUE],
   Seen(1, 0, TRUE, 0, FALSE), Seen(2, 0, TRUE, 0, FALSE),
   Seen(2, 0, FALSE, 1, FALSE), Seen(2, 1, TRUE, 0, FALSE),
   Seen(2, 0, TRUE, 0, TRUE)}

VARIABLE opened  \* the page this behaviour exercises

mc_vars == <<panel_vars, hr_vars, rs_vars, opened>>

MCInit ==
  /\ ApInit /\ HrInit /\ RsInit
  /\ opened \in {"actuator", "health", "remote"}
  /\ opened # "actuator" => act = Initial(TRUE)
  /\ opened # "remote" => runtime = CHOOSE view \in RuntimeViews : TRUE

MCNext ==
  \/ opened = "actuator" /\ ApNext /\ UNCHANGED <<hr_vars, rs_vars, opened>>
  \/ opened = "health" /\ HrNext /\ UNCHANGED <<panel_vars, rs_vars, opened>>
  \/ opened = "remote" /\ RsNext /\ UNCHANGED <<panel_vars, hr_vars, opened>>

MCSpec ==
  /\ MCInit /\ [][MCNext]_mc_vars
  /\ WF_panel_vars(opened = "actuator" /\ tickActuator)
  /\ WF_hr_vars(Worker) /\ WF_hr_vars(healthCompleted) /\ WF_hr_vars(joined)
=============================================================================
