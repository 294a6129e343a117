---------------------------- MODULE ModbusPanel -----------------------------
(***************************************************************************)
(* The Modbus side of the Qt workbench: the panel's requests on the UI     *)
(* thread, the worker thread that carries them out over one connection to  *)
(* the agent (ModbusAgentWorker, ModbusAgentClient), the queued signals in *)
(* both directions, and the mapper that writes CellReady to DO0.           *)
(*                                                                         *)
(* Which coil is written, and what inputs and coils are, is shown and      *)
(* decides nothing here: a reply says whether the device is "Online" or    *)
(* "Failed" (a timeout, an exception, an error of the transport). The mock *)
(* profile behind the other backend is MockModbusIo. With a cell peer the  *)
(* edge owns DO0 and the polling: the behaviours of such a panel are those *)
(* here in which tickPhysicalModbusPoll and publishSnapshot never happen.  *)
(***************************************************************************)
EXTENDS Naturals, Sequences

CONSTANTS
  Peers,     \* agent addresses the operator may enter; "bad" does not parse
  MaxQueued, \* bound: signals queued in either direction
  MaxLine    \* bound: requests on the connection whose reply nobody has read

ASSUME PanelAssumption == MaxQueued \in Nat \ {0} /\ MaxLine \in Nat \ {0}

VARIABLES
  backend,      \* modbus_backend_
  request_running, \* modbus_request_running_
  blocked,      \* physical_command_blocked_
  physical,     \* device_state and whether it scans, of physical_snapshot_
  agent_peer,   \* modbus_agent_peer_
  cell,         \* CellReady, as publishSnapshot evaluates it
  mapper,       \* cell_ready_mapper_
  jobs,         \* requests queued to the worker
  job,          \* what the worker does, and how far it is
  conn,         \* fd_ with last_host_, and whether the agent still serves it
  line,         \* requests the agent has not handled yet
  replies,      \* replies that nobody has read
  results,      \* transactionFinished signals queued to the UI
  outage,       \* ghost: what broke off live outputs since the mapper last looked
  last_good     \* ghost: the worker's last exchange found the device online

ui_state == <<backend, request_running, blocked, physical, agent_peer, cell,
              mapper>>

worker_state == <<jobs, job, conn, line, replies, results, last_good>>

code_vars == <<ui_state, worker_state>>

mp_vars == <<code_vars, outage>>

-----------------------------------------------------------------------------
(* The worker thread                                                       *)

NoJob == [kind |-> "none", peer |-> "none", at |-> "idle"]

NoConn == [peer |-> "none", open |-> FALSE, served |-> FALSE]

Request(kind) ==
  jobs' = Append(jobs, [kind |-> kind, peer |-> IF kind = "probe" THEN agent_peer ELSE "none"])

\* emitResult and emitTransportFailure.
Finish(device) ==
  /\ Len(results) < MaxQueued
  /\ results' = Append(results, device)
  /\ job' = NoJob
  /\ last_good' = (device = "Online")

\* Mutant of take_job: a request without a connection is dropped without a
\* result.
take_job_drops ==
  /\ job = NoJob /\ jobs # <<>>
  /\ LET j == Head(jobs) IN
     \/ /\ j.kind = "probe" /\ (~conn.open \/ conn.peer # j.peer)
        /\ job' = [kind |-> j.kind, peer |-> j.peer, at |-> "connect"]
     \/ /\ conn.open /\ (j.kind = "probe" => conn.peer = j.peer)
        /\ job' = [kind |-> j.kind, peer |-> j.peer, at |-> "send"]
     \/ /\ j.kind # "probe" /\ ~conn.open
        /\ UNCHANGED job
  /\ jobs' = Tail(jobs)
  /\ UNCHANGED <<results, last_good, conn, line, replies, ui_state>>

\* A probe opens the connection if there is none or the address has changed;
\* every other request needs one. fd_ stays valid whatever happens to the peer.
take_job ==
  /\ job = NoJob /\ jobs # <<>>
  /\ LET j == Head(jobs) IN
     \/ /\ j.kind = "probe" /\ (~conn.open \/ conn.peer # j.peer)
        /\ job' = [kind |-> j.kind, peer |-> j.peer, at |-> "connect"]
        /\ UNCHANGED <<results, last_good>>
     \/ /\ conn.open /\ (j.kind = "probe" => conn.peer = j.peer)
        /\ job' = [kind |-> j.kind, peer |-> j.peer, at |-> "send"]
        /\ UNCHANGED <<results, last_good>>
     \/ /\ j.kind # "probe" /\ ~conn.open
        /\ Finish("Failed")
  /\ jobs' = Tail(jobs)
  /\ UNCHANGED <<conn, line, replies, ui_state>>

\* ModbusAgentClient::connect drops the old connection first. What the agent has
\* read of it is still carried out, unseen: its replies have nowhere to go.
client_connect ==
  /\ job.at = "connect"
  /\ replies' = <<>>
  /\ line' = <<>>
  /\ \/ /\ conn' = [peer |-> job.peer, open |-> TRUE, served |-> TRUE]
        /\ job' = [job EXCEPT !.at = "send"]
        /\ UNCHANGED <<results, last_good>>
     \/ /\ conn' = NoConn
        /\ Finish("Failed")
  /\ UNCHANGED <<jobs, ui_state>>

exchange_send ==
  /\ job.at = "send"
  /\ \/ /\ conn.open /\ conn.served
        /\ Len(line) + Len(replies) < MaxLine
        /\ line' = Append(line, job.kind)
        /\ job' = [job EXCEPT !.at = "read"]
        /\ UNCHANGED <<results, last_good>>
     \/ /\ ~(conn.open /\ conn.served)
        /\ Finish("Failed")
        /\ UNCHANGED line
  /\ UNCHANGED <<jobs, conn, replies, ui_state>>

\* The rest of a reply whose beginning a read has taken away: it is no frame.
Torn(rs) ==
  IF rs = <<>> THEN rs ELSE [rs EXCEPT ![1] = [kind |-> "torn", device |-> "Failed"]]

\* What a read leaves of the replies behind the one it returns: the others of the
\* same recv go with its buffer, and the last of them may go in part.
LeftBehind(rs) ==
  UNION {{s, Torn(s)} : s \in {SubSeq(rs, k, Len(rs)) : k \in 1 .. Len(rs) + 1}}

\* The type of the reply is compared, its sequence number is not.
exchange_reply ==
  /\ job.at = "read" /\ replies # <<>>
  /\ Finish(IF Head(replies).kind = job.kind THEN Head(replies).device ELSE "Failed")
  /\ replies' \in LeftBehind(Tail(replies))
  /\ UNCHANGED <<jobs, conn, line, ui_state>>

\* The connection stays, with the reply that is still to come, or the half of it.
exchange_timeout ==
  /\ job.at = "read" /\ Len(line) + Len(replies) < MaxLine
  /\ Finish("Failed")
  /\ replies' \in {replies, Torn(replies)}
  /\ UNCHANGED <<jobs, conn, line, ui_state>>

\* recv or poll fails: the agent has closed, or the UI thread has shut it down.
exchange_fails ==
  /\ job.at = "read" /\ replies = <<>> /\ ~(conn.open /\ conn.served)
  /\ Finish("Failed")
  /\ UNCHANGED <<jobs, conn, line, replies, ui_state>>

WorkerStep ==
  take_job \/ client_connect \/ exchange_send \/ exchange_reply \/ exchange_timeout
    \/ exchange_fails

-----------------------------------------------------------------------------
(* The agent: serve_one                                                    *)

\* read_request keeps nothing of what a recv brought behind its first request.
agent_handles ==
  /\ line # <<>>
  /\ \E k \in 2 .. Len(line) + 1 : line' = SubSeq(line, k, Len(line))
  /\ \E device \in {"Online", "Failed"} :
       replies' = Append(replies, [kind |-> Head(line), device |-> device])
  /\ UNCHANGED <<jobs, job, conn, results, last_good, ui_state>>

\* Five seconds without a request, half a request, or its process ends. With
\* requests unread the reset may overtake the replies.
agent_closes ==
  /\ conn.open /\ conn.served
  /\ conn' = [conn EXCEPT !.served = FALSE]
  /\ line' = <<>>
  /\ replies' \in IF line = <<>> THEN {replies} ELSE {replies, <<>>}
  /\ UNCHANGED <<jobs, job, results, last_good, ui_state>>

-----------------------------------------------------------------------------
(* The UI thread: what the operator asks for                               *)

Unprobed == [device |-> "Unknown", scanning |-> FALSE]

physicalOutputsLive == backend = "Physical" /\ ~blocked /\ physical.device = "Online"

Live == backend = "Mock" \/ physicalOutputsLive

note_modbus_offline == mapper' = [mapper EXCEPT !.armed = FALSE]

requestModbusScan ==
  /\ backend = "Physical" /\ ~request_running
  /\ \/ /\ agent_peer = "bad"
        /\ physical' = [physical EXCEPT !.device = "Failed"]
        /\ UNCHANGED <<request_running, jobs>>
     \/ /\ agent_peer # "bad" /\ Len(jobs) < MaxQueued
        /\ physical' = [physical EXCEPT !.scanning = TRUE]
        /\ request_running' = TRUE
        /\ Request("probe")
  /\ UNCHANGED <<backend, blocked, agent_peer, cell, mapper>>
  /\ UNCHANGED <<job, conn, line, replies, results, last_good>>

\* requestDigitalOutput and requestAllOutputsOff once they get past their
\* refusals; a refusal is only reported.
WriteOutputs ==
  \/ /\ physicalOutputsLive /\ ~request_running
     /\ Len(jobs) < MaxQueued
     /\ request_running' = TRUE
     /\ Request("write")
  \/ backend = "Mock" /\ UNCHANGED <<request_running, jobs>>

requestOutput ==
  /\ WriteOutputs
  /\ UNCHANGED <<backend, blocked, physical, agent_peer, cell, mapper>>
  /\ UNCHANGED <<job, conn, line, replies, results, last_good>>

\* disconnectClient on the UI thread, whatever the worker is doing: a reply that
\* is there may have been read already.
DisconnectClient ==
  /\ conn' = NoConn
  /\ line' = <<>>
  /\ replies' \in {replies, <<>>}
  /\ UNCHANGED <<jobs, job, results, last_good>>

selectMockModbusBackend ==
  /\ backend = "Physical"
  /\ DisconnectClient
  /\ backend' = "Mock" /\ request_running' = FALSE /\ blocked' = FALSE
  /\ note_modbus_offline
  /\ UNCHANGED <<physical, agent_peer, cell>>

\* A request that is under way stays so.
selectPhysicalModbusBackend ==
  /\ backend' = "Physical" /\ blocked' = FALSE
  /\ physical' = Unprobed
  /\ note_modbus_offline
  /\ UNCHANGED <<request_running, agent_peer, cell, worker_state>>

disconnectPhysicalModbus ==
  /\ DisconnectClient
  /\ request_running' = FALSE /\ blocked' = FALSE
  /\ physical' = IF backend = "Physical" THEN Unprobed ELSE physical
  /\ note_modbus_offline
  /\ UNCHANGED <<backend, agent_peer, cell>>

setModbusAgentPeer ==
  /\ agent_peer' \in Peers \ {agent_peer}
  /\ UNCHANGED <<backend, request_running, blocked, physical, cell, mapper,
                 worker_state>>

-----------------------------------------------------------------------------
(* The UI thread: timers and queued signals                                *)

\* A tick that finds the panel busy is left out.
tickPhysicalModbusPoll ==
  /\ ~request_running /\ physicalOutputsLive
  /\ Len(jobs) < MaxQueued
  /\ request_running' = TRUE
  /\ Request("read")
  /\ UNCHANGED <<backend, blocked, physical, agent_peer, cell, mapper>>
  /\ UNCHANGED <<job, conn, line, replies, results, last_good>>

\* Mutant of applyPhysicalTransaction: a failed transaction leaves the mapper
\* armed.
applyPhysicalTransaction_keeps_mapper ==
  /\ results # <<>>
  /\ results' = Tail(results)
  /\ request_running' = FALSE
  /\ IF backend = "Physical"
     THEN /\ physical' = [device |-> Head(results), scanning |-> FALSE]
          /\ blocked' = (Head(results) # "Online")
     ELSE UNCHANGED <<physical, blocked>>
  /\ UNCHANGED <<backend, agent_peer, cell, mapper>>
  /\ UNCHANGED <<jobs, job, conn, line, replies, last_good>>

\* Whichever request it answers.
applyPhysicalTransaction ==
  /\ results # <<>>
  /\ results' = Tail(results)
  /\ request_running' = FALSE
  /\ IF backend = "Physical"
     THEN /\ physical' = [device |-> Head(results), scanning |-> FALSE]
          /\ blocked' = (Head(results) # "Online")
          /\ IF blocked' THEN note_modbus_offline ELSE UNCHANGED mapper
     ELSE UNCHANGED <<physical, blocked, mapper>>
  /\ UNCHANGED <<backend, agent_peer, cell>>
  /\ UNCHANGED <<jobs, job, conn, line, replies, last_good>>

\* CellReadyMapper::observe on outputs that are live.
Observed == [armed |-> TRUE, last_ready |-> cell]

WantsWrite == mapper.armed /\ mapper.last_ready # cell

\* publishSnapshot, which ends in applyCellReadyOutput: with outputs that are not
\* live the mapper is disarmed, and while a request runs it does not look.
publishSnapshot ==
  /\ \/ /\ ~Live
        /\ note_modbus_offline
        /\ UNCHANGED <<request_running, jobs>>
     \/ /\ Live /\ ~request_running /\ ~WantsWrite
        /\ mapper' = Observed
        /\ UNCHANGED <<request_running, jobs>>
     \/ /\ Live /\ ~request_running /\ WantsWrite
        /\ WriteOutputs
        /\ mapper' = Observed
  /\ UNCHANGED <<backend, blocked, physical, agent_peer, cell>>
  /\ UNCHANGED <<job, conn, line, replies, results, last_good>>

cell_changes ==
  /\ cell' = ~cell
  /\ UNCHANGED <<backend, request_running, blocked, physical, agent_peer, mapper,
                 worker_state>>

Operator ==
  \/ requestModbusScan \/ requestOutput
  \/ selectMockModbusBackend \/ selectPhysicalModbusBackend \/ disconnectPhysicalModbus
  \/ setModbusAgentPeer

MpInit ==
  /\ backend = "Mock" /\ request_running = FALSE /\ blocked = FALSE
  /\ physical = Unprobed /\ agent_peer \in Peers \ {"bad"}
  /\ cell = FALSE /\ mapper = [armed |-> FALSE, last_ready |-> FALSE] /\ outage = "other"
  /\ jobs = <<>> /\ job = NoJob /\ conn = NoConn /\ line = <<>> /\ replies = <<>>
  /\ results = <<>> /\ last_good = FALSE

\* Ghost: what keeps the outputs from being live: an address that a scan could not
\* parse, or anything else.
Outage ==
  IF Live THEN "none" ELSE IF ~blocked /\ physical.device = "Failed" THEN "address" ELSE "other"

\* Ghost: the worst of what has been since the mapper last looked. It looks when
\* a snapshot is published over live outputs and no request runs.
Noticed ==
  outage' = IF "other" \in {outage, Outage'} \/ backend' # backend THEN "other"
            ELSE IF "address" \in {outage, Outage'} THEN "address" ELSE "none"

Looked ==
  outage' = IF ~Live THEN "other" ELSE IF request_running THEN outage ELSE "none"

MpNext ==
  \/ /\ \/ WorkerStep \/ agent_handles \/ agent_closes \/ Operator \/ applyPhysicalTransaction
        \/ tickPhysicalModbusPoll \/ cell_changes
     /\ Noticed
  \/ publishSnapshot /\ Looked

\* Both threads run, and the agent answers or closes.
MpFairness ==
  /\ WF_code_vars(WorkerStep) /\ WF_code_vars(agent_handles)
  /\ WF_code_vars(applyPhysicalTransaction)

MpSpec == MpInit /\ [][MpNext]_mp_vars /\ MpFairness

-----------------------------------------------------------------------------
(* Properties. *)

(***************************************************************************)
(* "Probe 后先对齐当前值，不把掉线前的 DO 当新命令重放": the panel asks for a DO0  *)
(* of its own accord only when CellReady has changed since it last looked, *)
(* with outputs that have been live ever since. No change of the backend,  *)
(* no disconnect, and no failure, however short and however it falls       *)
(* between two ticks, leaves a change behind that is written afterwards.   *)
(* One break does: a scan with an address that does not parse ends the     *)
(* liveness of the outputs and leaves the mapper armed, so that a change   *)
(* is written if a scan brings them back before the next tick sees it.     *)
(***************************************************************************)
PanelDoesNotReplay ==
  Live /\ ~request_running /\ WantsWrite => outage \in {"none", "address"}

\* The panel is never left busy or scanning.
PanelComesBack ==
  /\ request_running ~> ~request_running
  /\ (physical.scanning /\ backend = "Physical") ~> (~physical.scanning \/ backend = "Mock")

(***************************************************************************)
(* "timeout 后拒绝新 DO（需显式 Probe，不重放）": the worker puts a write on the     *)
(* connection only when its last exchange found the device online.         *)
(***************************************************************************)
DoFollowsGoodExchange ==
  job.at = "read" /\ job.kind = "write" => last_good
=============================================================================
