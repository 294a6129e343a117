------------------------- MODULE MCRuntimeAndPanel --------------------------
(* Components that others call, each under every caller, for one run: the   *)
(* runtime, the workbench's Modbus panel with its worker, and the mock      *)
(* device behind the panel. They share no state: a behaviour exercises one  *)
(* of them and leaves the others in an initial state.                       *)
EXTENDS MCLinuxRuntime, ModbusPanel, MockModbusIo

VARIABLE part  \* the one this behaviour exercises

mc_vars == <<rt_vars, mp_vars, mio_vars, part>>

\* The mock device has several initial states, which vary only where it is
\* exercised.
MCInit ==
  /\ RtInit /\ MpInit /\ MioInit
  /\ part \in {"runtime", "panel", "mock"}
  /\ part # "mock" => primary = "Online"

MCNext ==
  \/ part = "runtime" /\ RtNext /\ UNCHANGED <<mp_vars, mio_vars, part>>
  \/ part = "panel" /\ MpNext /\ UNCHANGED <<rt_vars, mio_vars, part>>
  \/ part = "mock" /\ MioNext /\ UNCHANGED <<rt_vars, mp_vars, part>>

\* Nothing is due from a panel in its initial state.
MCSpec == MCInit /\ [][MCNext]_mc_vars /\ MpFairness
=============================================================================
