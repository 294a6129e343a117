---------------------------- MODULE MockModbusIo ----------------------------
(***************************************************************************)
(* MockModbusIoProfile (linux/src/workbench/profile), the digital I/O      *)
(* device behind the panel's Mock backend, as the panel drives it on the   *)
(* UI thread: the scan, whose end is a timer's business, the outputs, and  *)
(* the outcome injected for the next write.                                *)
(*                                                                         *)
(* The panel stamps every call with a QElapsedTimer, which never goes      *)
(* back, so update_time never refuses and times are left out. It checks    *)
(* channel numbers itself before it calls.                                 *)
(***************************************************************************)
CONSTANT Channels  \* the channels of the device

VARIABLES
  device,      \* snapshot_.device_state
  scan,        \* snapshot_.scan_state
  primary,     \* what config_.scan_results says of the primary slave
  outputs,     \* snapshot_.digital_outputs
  next_outcome \* next_write_outcome_

mio_vars == <<device, scan, primary, outputs, next_outcome>>

\* What a write may end in; the other statuses of a reply are no outcomes.
Outcomes == {"Confirmed", "Timeout", "Exception", "Rejected"}

Statuses == Outcomes \cup {"None", "InvalidChannel", "Busy"}

MioInit ==
  /\ device = "Unknown" /\ scan = "Idle"
  /\ primary \in {"Online", "missing"}
  /\ outputs = [c \in Channels |-> [requested |-> FALSE, confirmed |-> FALSE, status |-> "None"]]
  /\ next_outcome = "Confirmed"

\* begin_scan: a second one while the first is under way changes nothing.
begin_scan ==
  /\ scan' = "Scanning"
  /\ UNCHANGED <<device, primary, outputs, next_outcome>>

\* complete_scan, in the next round of the event loop.
complete_scan ==
  /\ scan = "Scanning"
  /\ scan' = IF primary = "missing" THEN "Error" ELSE "Complete"
  /\ device' = IF primary = "missing" THEN "Error" ELSE primary
  /\ UNCHANGED <<primary, outputs, next_outcome>>

\* finish_write: a rejection says nothing about the device.
DeviceAfter(outcome) ==
  CASE outcome = "Confirmed" -> "Online"
    [] outcome = "Timeout"   -> "Timeout"
    [] outcome = "Exception" -> "Error"
    [] OTHER                 -> device

\* Mutant of Written: only a confirmed write sets the status.
WrittenKeepsStatus(output, active) ==
  [requested |-> active,
   confirmed |-> IF next_outcome = "Confirmed" THEN active ELSE output.confirmed,
   status    |-> IF next_outcome = "Confirmed" THEN next_outcome ELSE output.status]

\* An output after a write of it: only a confirmed write moves what is confirmed.
Written(output, active) ==
  [requested |-> active,
   confirmed |-> IF next_outcome = "Confirmed" THEN active ELSE output.confirmed,
   status    |-> next_outcome]

\* One write of some channels; consume_write_outcome spends the injected outcome.
Write(channels, active) ==
  /\ outputs' = [c \in Channels |->
                   IF c \in channels THEN Written(outputs[c], active) ELSE outputs[c]]
  /\ device' = DeviceAfter(next_outcome)
  /\ next_outcome' = "Confirmed"
  /\ UNCHANGED <<scan, primary>>

write_digital_output(c, active) == Write({c}, active)

write_all_outputs_off == Write(Channels, FALSE)

\* set_next_write_outcome: what a write cannot end in is injected as Rejected.
set_next_write_outcome(outcome) ==
  /\ next_outcome' = IF outcome \in Outcomes THEN outcome ELSE "Rejected"
  /\ UNCHANGED <<device, scan, primary, outputs>>

MioNext ==
  \/ begin_scan \/ complete_scan \/ write_all_outputs_off
  \/ \E c \in Channels, active \in BOOLEAN :
       write_digital_output(c, active)
  \/ \E outcome \in Statuses : set_next_write_outcome(outcome)
-----------------------------------------------------------------------------
(***************************************************************************)
(* An output shown other than it was asked to be is one whose last write   *)
(* has failed, and says so: whatever single writes, all-off writes and     *)
(* injected outcomes came in whatever order, an unfulfilled request never  *)
(* keeps the status of an earlier, confirmed one.                          *)
(***************************************************************************)
MockIsHonest ==
  \A c \in Channels :
    outputs[c].confirmed # outputs[c].requested =>
      outputs[c].status \in Outcomes \ {"Confirmed"}
=============================================================================
