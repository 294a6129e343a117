------------------------- MODULE ModbusPanelProofs --------------------------
(***************************************************************************)
(* When the workbench's panel writes an output of its own accord: for      *)
(* every set of agent addresses and whatever is queued between its two     *)
(* threads. The argument is about mapper.armed alone: everything that ends *)
(* the liveness of the outputs also disarms the mapper, in the same call   *)
(* on the UI thread, but for a scan with an address that does not parse.   *)
(***************************************************************************)
EXTENDS ModbusPanel, TLAPS

\* The fields the argument reads, with their shapes.
PanelShape ==
  /\ backend \in {"Mock", "Physical"}
  /\ blocked \in BOOLEAN
  /\ physical = [device |-> physical.device, scanning |-> physical.scanning]
  /\ mapper = [armed |-> mapper.armed, last_ready |-> mapper.last_ready]
  /\ mapper.armed \in BOOLEAN

\* The strengthening: PanelDoesNotReplay speaks of a moment at which a write is
\* due, ArmedSawNoOther of every moment at which one could become due. Neither now
\* nor since the mapper last looked is there an outage but that of an address.
ArmedSawNoOther ==
  /\ outage \in {"none", "address", "other"}
  /\ mapper.armed => outage # "other" /\ Outage # "other"

PanelInv == PanelShape /\ ArmedSawNoOther

\* What the outputs need for an outage to be no other than that of an address.
OnlyAddress ==
  backend = "Mock" \/ (~blocked /\ physical.device \in {"Online", "Failed"})

LEMMA OutageDefined ==
  ASSUME backend \in {"Mock", "Physical"}
  PROVE  Outage \in {"none", "address", "other"} /\ (Outage # "other" <=> OnlyAddress)
BY DEF Outage, OnlyAddress, Live, physicalOutputsLive

\* The panel starts with a mapper that is not armed.
LEMMA PanelInit == MpInit => PanelInv
<1> SUFFICES ASSUME MpInit PROVE PanelInv  OBVIOUS
<1>1. physical = [device |-> "Unknown", scanning |-> FALSE]
  BY DEF MpInit, Unprobed
<1>2. mapper = [armed |-> FALSE, last_ready |-> FALSE]  BY DEF MpInit
<1>3. backend = "Mock" /\ blocked = FALSE /\ outage = "other"  BY DEF MpInit
<1>4. mapper.armed = FALSE  BY <1>2
<1>5. physical = [device |-> physical.device, scanning |-> physical.scanning]  BY <1>1
<1>6. mapper = [armed |-> mapper.armed, last_ready |-> mapper.last_ready]  BY <1>2
<1>7. QED  BY <1>3, <1>4, <1>5, <1>6 DEF PanelInv, PanelShape, ArmedSawNoOther

\* A step that is noticed keeps the invariant if it leaves the mapper armed only
\* on the same backend, with outputs that are live or miss no more than an address.
LEMMA NoticedKeeps ==
  ASSUME PanelInv, PanelShape', Noticed,
         mapper'.armed => mapper.armed /\ backend' = backend /\ OnlyAddress'
  PROVE  PanelInv'
<1>1. Outage' \in {"none", "address", "other"} /\ (Outage' # "other" <=> OnlyAddress')
  BY OutageDefined DEF PanelShape, Outage, OnlyAddress, Live, physicalOutputsLive
<1>2. outage' \in {"none", "address", "other"}  BY DEF Noticed
<1>3. mapper'.armed => outage' # "other"
  BY <1>1 DEF Noticed, PanelInv, ArmedSawNoOther
<1>4. QED  BY <1>1, <1>2, <1>3 DEF PanelInv, ArmedSawNoOther

\* While the mapper is armed, no more than an address is missing.
LEMMA ArmedOnlyAddress ==
  ASSUME PanelInv, mapper.armed
  PROVE  OnlyAddress
BY OutageDefined DEF PanelInv, PanelShape, ArmedSawNoOther

\* Steps of the worker and the agent leave the UI thread's state alone.
LEMMA ElsewhereKeeps ==
  ASSUME PanelInv, UNCHANGED ui_state, Noticed
  PROVE  PanelInv'
<1>1. PanelShape'  BY DEF PanelInv, PanelShape, ui_state
<1>2. mapper'.armed => mapper.armed /\ backend' = backend /\ OnlyAddress'
  BY ArmedOnlyAddress DEF OnlyAddress, ui_state
<1>3. QED  BY <1>1, <1>2, NoticedKeeps

\* What the worker's steps change is the worker's.
LEMMA WorkerIsElsewhere ==
  WorkerStep \/ agent_handles \/ agent_closes => UNCHANGED ui_state
BY DEF WorkerStep, take_job, client_connect, exchange_send, exchange_reply,
       exchange_timeout, exchange_fails, agent_handles, agent_closes

\* One case per call of the operator: those that disturb disarm, but for a scan,
\* which makes the device "Failed" at worst.
LEMMA OperatorKeeps ==
  ASSUME PanelInv, Operator, Noticed
  PROVE  PanelInv'
<1>1. PanelShape'
  <2> USE DEF PanelInv, PanelShape, note_modbus_offline, Unprobed
  <2>1. CASE requestModbusScan  BY <2>1 DEF requestModbusScan
  <2>2. CASE requestOutput  BY <2>2 DEF requestOutput
  <2>3. CASE selectMockModbusBackend  BY <2>3 DEF selectMockModbusBackend
  <2>4. CASE selectPhysicalModbusBackend  BY <2>4 DEF selectPhysicalModbusBackend
  <2>5. CASE disconnectPhysicalModbus  BY <2>5 DEF disconnectPhysicalModbus
  <2>6. CASE setModbusAgentPeer  BY <2>6 DEF setModbusAgentPeer
  <2>7. QED  BY <2>1, <2>2, <2>3, <2>4, <2>5, <2>6 DEF Operator
<1>2. mapper'.armed => mapper.armed /\ backend' = backend /\ OnlyAddress'
  <2>1. CASE selectMockModbusBackend \/ selectPhysicalModbusBackend \/ disconnectPhysicalModbus
    BY <2>1 DEF selectMockModbusBackend, selectPhysicalModbusBackend,
                disconnectPhysicalModbus, note_modbus_offline, PanelInv, PanelShape
  <2>2. CASE requestModbusScan
    BY <2>2, ArmedOnlyAddress DEF requestModbusScan, OnlyAddress, PanelInv, PanelShape
  <2>3. CASE requestOutput \/ setModbusAgentPeer
    BY <2>3, ArmedOnlyAddress DEF requestOutput, setModbusAgentPeer, OnlyAddress
  <2>4. QED  BY <2>1, <2>2, <2>3 DEF Operator
<1>3. QED  BY <1>1, <1>2, NoticedKeeps

\* A result of whichever request: a failed one disarms.
LEMMA ResultKeeps ==
  ASSUME PanelInv, applyPhysicalTransaction, Noticed
  PROVE  PanelInv'
<1> USE DEF PanelInv, PanelShape, note_modbus_offline
<1>1. CASE backend = "Physical" /\ blocked'
  <2>1. /\ physical' = [device |-> Head(results), scanning |-> FALSE]
        /\ mapper' = [mapper EXCEPT !.armed = FALSE]
        /\ backend' = backend
    BY <1>1 DEF applyPhysicalTransaction
  <2>2. blocked' \in BOOLEAN  BY <1>1 DEF applyPhysicalTransaction
  <2>3. PanelShape' /\ ~mapper'.armed  BY <2>1, <2>2
  <2>4. QED  BY <2>3, NoticedKeeps
<1>2. CASE backend = "Physical" /\ ~blocked'
  <2>1. PanelShape'  BY <1>2 DEF applyPhysicalTransaction
  <2>2. /\ physical' = [device |-> Head(results), scanning |-> FALSE]
        /\ blocked' = (Head(results) # "Online")
        /\ mapper' = mapper /\ backend' = backend
    BY <1>2 DEF applyPhysicalTransaction
  <2>3. Head(results) = "Online"  BY <1>2, <2>2, Zenon
  <2>4. OnlyAddress'  BY <1>2, <2>2, <2>3 DEF OnlyAddress
  <2>5. QED  BY <2>1, <2>2, <2>4, ArmedOnlyAddress, NoticedKeeps
<1>3. CASE backend # "Physical"
  <2>1. PanelShape'  BY <1>3 DEF applyPhysicalTransaction
  <2>2. mapper' = mapper /\ backend' = backend /\ OnlyAddress'
    BY <1>3 DEF applyPhysicalTransaction, OnlyAddress
  <2>3. QED  BY <2>1, <2>2, NoticedKeeps
<1>4. QED  BY <1>1, <1>2, <1>3

\* The poll and a change of CellReady touch neither the mapper nor the outputs.
LEMMA TimersKeep ==
  ASSUME PanelInv, tickPhysicalModbusPoll \/ cell_changes, Noticed
  PROVE  PanelInv'
<1>1. UNCHANGED <<backend, blocked, physical, mapper>>
  BY DEF tickPhysicalModbusPoll, cell_changes
<1>2. PanelShape'  BY <1>1 DEF PanelInv, PanelShape
<1>3. mapper'.armed => mapper.armed /\ backend' = backend /\ OnlyAddress'
  BY <1>1, ArmedOnlyAddress DEF OnlyAddress
<1>4. QED  BY <1>2, <1>3, NoticedKeeps

\* The mapper is armed only over outputs that are live.
LEMMA PublishKeeps ==
  ASSUME PanelInv, publishSnapshot, Looked
  PROVE  PanelInv'
<1>1. UNCHANGED <<backend, blocked, physical>>  BY DEF publishSnapshot
<1>2. CASE ~Live
  <2>1. mapper' = [mapper EXCEPT !.armed = FALSE] /\ outage' = "other"
    BY <1>2 DEF publishSnapshot, note_modbus_offline, Looked
  <2>2. QED  BY <1>1, <2>1 DEF PanelInv, PanelShape, ArmedSawNoOther
<1>3. CASE Live
  <2>1. mapper' = Observed /\ outage' = "none"
    BY <1>3 DEF publishSnapshot, Looked
  <2>2. PanelShape'  BY <1>1, <2>1 DEF PanelInv, PanelShape, Observed
  <2>3. Outage' = "none"
    BY <1>1, <1>3 DEF Outage, Live, physicalOutputsLive
  <2>4. QED  BY <2>1, <2>2, <2>3 DEF PanelInv, ArmedSawNoOther
<1>4. QED  BY <1>2, <1>3

\* Every step keeps the invariant.
LEMMA PanelStep == PanelInv /\ [MpNext]_mp_vars => PanelInv'
<1> SUFFICES ASSUME PanelInv, [MpNext]_mp_vars PROVE PanelInv'  OBVIOUS
<1>1. CASE MpNext
  <2>1. CASE publishSnapshot /\ Looked  BY <2>1, PublishKeeps
  <2>2. CASE Noticed /\ (WorkerStep \/ agent_handles \/ agent_closes)
    BY <2>2, WorkerIsElsewhere, ElsewhereKeeps
  <2>3. CASE Noticed /\ Operator  BY <2>3, OperatorKeeps
  <2>4. CASE Noticed /\ applyPhysicalTransaction  BY <2>4, ResultKeeps
  <2>5. CASE Noticed /\ (tickPhysicalModbusPoll \/ cell_changes)  BY <2>5, TimersKeep
  <2>6. QED  BY <1>1, <2>1, <2>2, <2>3, <2>4, <2>5 DEF MpNext
<1>2. CASE UNCHANGED mp_vars
  BY <1>2 DEF mp_vars, code_vars, ui_state, PanelInv, PanelShape, ArmedSawNoOther, Outage,
              Live, physicalOutputsLive
<1>3. QED  BY <1>1, <1>2

(***************************************************************************)
(* "不把掉线前的 DO 当新命令重放": the panel writes DO0 of its own accord only for  *)
(* a change of CellReady since it last looked, and no change of backend,   *)
(* disconnect or failure of the device lies between, whatever the agent,   *)
(* the worker and the operator do. The outputs may have been out of        *)
(* service in between for one reason only, and unseen by any tick: a scan  *)
(* with an address that did not parse.                                     *)
(***************************************************************************)
THEOREM PanelReplayTheorem == MpSpec => []PanelDoesNotReplay
<1>1. MpInit => PanelInv  BY PanelInit
<1>2. PanelInv /\ [MpNext]_mp_vars => PanelInv'  BY PanelStep
<1>3. PanelInv => PanelDoesNotReplay
  BY DEF PanelInv, ArmedSawNoOther, PanelDoesNotReplay, WantsWrite
<1>4. QED  BY <1>1, <1>2, <1>3, PTL DEF MpSpec
=============================================================================
