--------------------------- MODULE PhysicalModbus ---------------------------
(***************************************************************************)
(* PhysicalModbusIoService, the agent's view of the MR0 relay module: for  *)
(* each coil what the device has confirmed and how the last write of it    *)
(* went. An operation on the service is a set of outcomes, one for each    *)
(* way its transactions on the line can end: the outputs, the device state *)
(* it sets (every operation sets it, so it is not kept) and the coils.     *)
(***************************************************************************)
EXTENDS Naturals

CONSTANT Channels  \* kModbusIoChannelCount; channels are 0 .. Channels - 1

ASSUME ModbusAssumption == Channels \in Nat \ {0}

Channel == 0 .. Channels - 1

\* ModbusIoCommandStatus of a write; Rejected and Exception are both "Failed".
Statuses == {"None", "Confirmed", "Timeout", "Failed"}

DeviceStates == {"Unknown", "Online", "Timeout", "Error"}

\* What was requested is only displayed, and is not kept.
Outputs == [Channel -> [confirmed : BOOLEAN, status : Statuses]]

FreshOutputs == [c \in Channel |-> [confirmed |-> FALSE, status |-> "None"]]

Outcome(device, out, coils) == [device |-> device, out |-> out, coils |-> coils]

(***************************************************************************)
(* One transaction on the line (PosixSerialPort::transact and the decoder  *)
(* of its reply): whether it is answered, and whether the device has done  *)
(* what was asked. "failed" stands for an exception, a reply that does not *)
(* decode and an error of the port; neither it nor a timeout says that the *)
(* device has not acted. A device answers within the timeout or not at all.*)
(***************************************************************************)
transact ==
  [rx : {"timeout", "failed"}, done : BOOLEAN] \cup {[rx |-> "ok", done |-> TRUE]}

StatusOf(rx) ==
  CASE rx = "ok" -> "Confirmed" [] rx = "timeout" -> "Timeout" [] rx = "failed" -> "Failed"

DeviceOf(rx) ==
  CASE rx = "ok" -> "Online" [] rx = "timeout" -> "Timeout" [] rx = "failed" -> "Error"

\* FC02. The inputs themselves are not kept: no decision is taken on them.
read_inputs(out, coils) == {Outcome(DeviceOf(tx.rx), out, coils) : tx \in transact}

\* FC01: the coils as they are, for every channel, or nothing if it fails.
refresh_coils(out, coils) ==
  {out, [c \in Channel |-> [confirmed |-> coils[c], status |-> "Confirmed"]]}

\* FC02 and, if it is answered, FC01, whose failure leaves the device online.
probe(out, coils) ==
  read_inputs(out, coils)
    \cup {Outcome("Online", o, coils) : o \in refresh_coils(out, coils)}

\* FC05: the echo of the request is the confirmation.
write_output(out, coils, c, active) ==
  {Outcome(DeviceOf(tx.rx),
           [out EXCEPT ![c] = [confirmed |-> IF tx.rx = "ok" THEN active ELSE @.confirmed,
                               status |-> StatusOf(tx.rx)]],
           IF tx.done THEN [coils EXCEPT ![c] = active] ELSE coils) :
     tx \in transact}
=============================================================================
