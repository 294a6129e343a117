------------------------ MODULE RuntimeStateMachine ------------------------
(***************************************************************************)
(* RuntimeStateMachine (linux/src/core/state_machine.cpp) as a function of *)
(* the machine's three fields and an event. The C++ class holds no other   *)
(* state and is always called under LinuxRuntime's state_mutex_, so one    *)
(* application of HandleEvent is one call of handle().                     *)
(***************************************************************************)

Modes == {"Disabled", "Idle", "Active", "Hold", "Fault", "EStop"}

FaultCodes == {"None", "Watchdog", "InputFault", "CommLoss", "NodeFault",
               "ProtocolReject", "InterlockLost", "Internal", "AckTimeout"}

RuntimeEvents == {"Boot", "ActivateRequest", "DeactivateRequest",
                  "CommandTimeout", "InterlockLost", "InterlockReady",
                  "FaultDetected", "FaultCleared", "EStopTrigger",
                  "EStopReset", "Resume", "Hold"}

Machines == [mode : Modes, interlock : BOOLEAN, fault : FaultCodes]

\* A default-constructed machine.
NewMachine == [mode |-> "Disabled", interlock |-> FALSE, fault |-> "None"]

(***************************************************************************)
(* Moves[e] maps each mode that accepts e to the mode it accepts e into.   *)
(* The interlock events are accepted everywhere and only close the gate.   *)
(***************************************************************************)
Moves ==
  [Boot              |-> [Disabled |-> "Idle"],
   ActivateRequest   |-> [Idle |-> "Active"],
   DeactivateRequest |-> [Disabled |-> "Disabled", Idle |-> "Disabled",
                          Active |-> "Idle", Hold |-> "Disabled",
                          Fault |-> "Disabled"],
   CommandTimeout    |-> [Active |-> "Hold"],
   InterlockLost     |-> [m \in Modes |-> IF m = "Active" THEN "Hold" ELSE m],
   InterlockReady    |-> [m \in Modes |-> m],
   FaultDetected     |-> [Idle |-> "Fault", Active |-> "Fault", Hold |-> "Fault"],
   FaultCleared      |-> [Fault |-> "Idle"],
   EStopTrigger      |-> [m \in Modes |-> "EStop"],
   EStopReset        |-> [EStop |-> "Idle"],
   Resume            |-> [Hold |-> "Idle"],
   Hold              |-> [Active |-> "Hold"]]

\* The faults a Hold may be acknowledged with.
Acknowledgeable == {"Watchdog", "InterlockLost", "AckTimeout", "None"}

\* The guards handle() tests inside a mode's branch.
Permitted(m, e) ==
  /\ e \in {"ActivateRequest", "Resume", "EStopReset"} => m.interlock
  /\ e = "Resume" => m.fault \in Acknowledgeable

\* TransitionResult::accepted.
Accepts(m, e) == m.mode \in DOMAIN Moves[e] /\ Permitted(m, e)

\* The accepted events that erase the recorded fault.
ClearsFault(m, e) ==
  \/ e \in {"EStopTrigger", "ActivateRequest", "Resume", "FaultCleared", "EStopReset"}
  \/ e = "DeactivateRequest" /\ m.mode \in {"Hold", "Fault"}

\* The fault an accepted event leaves behind.
FaultAfter(m, e) ==
  IF ClearsFault(m, e) THEN "None"
  ELSE IF e = "CommandTimeout" THEN "Watchdog"
  ELSE IF e = "InterlockLost" /\ m.mode = "Active" THEN "InterlockLost"
  ELSE m.fault

HandleEvent(m, e) ==
  [mode      |-> IF Accepts(m, e) THEN Moves[e][m.mode] ELSE m.mode,
   interlock |-> e = "InterlockReady" \/ (m.interlock /\ e # "InterlockLost"),
   fault     |-> IF Accepts(m, e) THEN FaultAfter(m, e) ELSE m.fault]

\* set_fault(): the code changes, the mode does not.
SetFault(m, code) == [m EXCEPT !.fault = code]

\* can_accept_output(): the mode and the interlock are the only permission.
CanAccept(m) == m.mode = "Active" /\ m.interlock
=============================================================================
