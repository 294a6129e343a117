----------------------------- MODULE MCServices -----------------------------
(* Components that share no state, for one run: the firmware's session      *)
(* journal and input reports, the periodic scheduler, the simulated node    *)
(* and the life of the daemon. A behaviour exercises one of them and leaves *)
(* the others in an initial state, where nothing is due but the scheduler's *)
(* clock.                                                                   *)
EXTENDS SessionJournal, FirmwareReports, Scheduler, NodeSimulator, RuntimeDaemon

VARIABLE service  \* the one this behaviour exercises

mc_vars == <<sj_vars, rep_vars, sc_vars, sim_vars, dl_vars, service>>

\* What has several initial states varies only where it is exercised.
MCInit ==
  /\ SjInit /\ RepInit /\ ScInit /\ SimInit /\ DlInit
  /\ service \in {"journal", "reports", "scheduler", "simulator", "daemon"}
  /\ service # "journal" => previous = 0
  /\ service # "simulator" => delay_option = 0

MCNext ==
  \/ /\ service = "journal" /\ SjNext
     /\ UNCHANGED <<rep_vars, sc_vars, sim_vars, dl_vars, service>>
  \/ /\ service = "reports" /\ RepNext
     /\ UNCHANGED <<sj_vars, sc_vars, sim_vars, dl_vars, service>>
  \/ /\ service = "scheduler" /\ ScNext
     /\ UNCHANGED <<sj_vars, rep_vars, sim_vars, dl_vars, service>>
  \/ /\ service = "simulator" /\ SimNext
     /\ UNCHANGED <<sj_vars, rep_vars, sc_vars, dl_vars, service>>
  \/ /\ service = "daemon" /\ DlNext
     /\ UNCHANGED <<sj_vars, rep_vars, sc_vars, sim_vars, service>>

MCSpec ==
  /\ MCInit /\ [][MCNext]_mc_vars
  /\ WF_sc_vars(start_returns \/ join) /\ WF_sc_vars(Run)
  /\ WF_sc_vars(service = "scheduler" /\ clock_advance)
  /\ SimFairness /\ DlFairness
=============================================================================
