------------------------------- MODULE CellIo -------------------------------
(***************************************************************************)
(* The edge of the cell: rcr_cell_app's main loop, which maps CellReady to *)
(* the DO0 coil and serves the engineering stations (CEL1), and the Modbus *)
(* agent it writes through, a process that takes one connection at a time  *)
(* and knows nothing of a client that has given up. The edge opens one TCP *)
(* connection per exchange; one it abandons stays queued with its request. *)
(***************************************************************************)
EXTENDS PhysicalModbus, Sequences, FiniteSets

CONSTANTS
  Snapshots,   \* what evaluate_cell_ready may find in the runtime's snapshot
  Clients,     \* engineering stations
  MaxClients,  \* kMaxEngineeringClients
  MaxBacklog   \* connections the kernel queues for the agent

ASSUME CellIoAssumption == MaxClients \in Nat \ {0} /\ MaxBacklog \in Nat \ {0}

VARIABLES
  snap,      \* the runtime's snapshot
  edge,      \* where the main loop is, and the client whose request it serves
  mapper,    \* CellReadyMapper
  io,        \* EdgeCellIoState
  cel,       \* the stations: their connection, request and answer
  backlog,   \* the agent's queue of connections
  agent,     \* where the agent is, with the connection it serves
  answer,    \* what the agent has sent on the edge's connection
  out,       \* digital_outputs of the agent's service
  coils,     \* the relay module's coils
  changed,   \* the snapshot has changed since a write was last asked for
  settled,   \* the device has confirmed a write, and answered in each exchange since
  probed     \* there has been a probe since that write

edge_vars == <<edge, mapper, io, settled, probed>>
agent_vars == <<backlog, agent, answer, out, coils>>
env_vars == <<snap, changed>>
vars == <<edge_vars, agent_vars, env_vars, cel>>

None == "none"

-----------------------------------------------------------------------------
(* CellReadyMapper                                                         *)

evaluate_cell_ready(s) == s.online /\ s.active /\ s.reached /\ ~s.device_fault /\ ~s.runtime_fault

Synchronized(ready) == [armed |-> TRUE, last_ready |-> ready]

\* Mutant of Offline: a write that failed is made due again.
OfflineRetries(m) ==
  [m EXCEPT !.last_ready = ~@]

Offline(m) == [m EXCEPT !.armed = FALSE]

\* Mutant of Edge: only a cell that becomes ready asks for a write.
RisingEdge(m, ready) ==
  m.armed /\ ready /\ ~m.last_ready

\* observe as the edge calls it, with modbus_online true: it asks for a write
\* only of an armed mapper, and only at a change.
Edge(m, ready) == m.armed /\ ready # m.last_ready

-----------------------------------------------------------------------------
(* ModbusAgentClient, as the edge uses it: connect, one exchange, disconnect *)

\* The connection goes to the end of the agent's queue, with its request.
Connect(request) ==
  /\ Len(backlog) < MaxBacklog
  /\ backlog' = Append(backlog, [request |-> request, open |-> TRUE])
  /\ answer' = <<>>
  /\ UNCHANGED <<agent, out, coils>>

\* The edge's connection, wherever it is, loses its reader; what it carries stays.
Disconnect ==
  /\ backlog' = [i \in DOMAIN backlog |-> [backlog[i] EXCEPT !.open = FALSE]]
  /\ agent' = [agent EXCEPT !.open = FALSE]
  /\ answer' = <<>>
  /\ UNCHANGED <<out, coils>>

\* Mutant of NoteOffline: the status of the last write stays as it was.
NoteOfflineKeepsStatus ==
  /\ mapper' = Offline(mapper)
  /\ io' = [io EXCEPT !.online = FALSE]
  /\ settled' = FALSE /\ probed' = FALSE

\* What every failure of a connect or an exchange leaves behind.
NoteOffline ==
  /\ mapper' = Offline(mapper)
  /\ io' = [io EXCEPT !.online = FALSE, !.status = "Timeout"]
  /\ settled' = FALSE /\ probed' = FALSE

\* DO0 as a reply of the agent shows it.
TakeReply ==
  io' = [online |-> TRUE, confirmed |-> answer[1].out.confirmed,
         status |-> answer[1].out.status]

-----------------------------------------------------------------------------
(* The main loop of rcr_cell_app: poll, serve, tick                        *)

ready == evaluate_cell_ready(snap)

NoSession == [conn |-> "none", request |-> None, gone |-> FALSE]

Accepted == {c \in Clients : cel[c].conn = "open"}

Queued == {c \in Clients : cel[c].conn = "queued"}

Min2(a, b) == IF a < b THEN a ELSE b

Readable(c) == cel[c].request # None \/ cel[c].gone

(***************************************************************************)
(* CellAppServer::poll. The poll set is built before accept_pending, so    *)
(* the revents of a session accepted in this call are read past its end:   *)
(* such a session may be served, dropped or left alone.                    *)
(***************************************************************************)
poll ==
  /\ edge.pc = "poll"
  /\ \E new \in SUBSET Queued, lost \in SUBSET Queued, read \in SUBSET Queued :
       /\ Cardinality(Accepted) + Cardinality(new) = Min2(MaxClients, Cardinality(Accepted \cup Queued))
       /\ lost \subseteq new /\ read \subseteq new \ lost
       /\ cel' = [c \in Clients |-> IF c \in lost THEN NoSession
                                    ELSE IF c \in new THEN [cel[c] EXCEPT !.conn = "open"]
                                    ELSE cel[c]]
       /\ edge' = [pc |-> "serve", todo |-> {c \in Accepted : Readable(c)} \cup read, client |-> None]
  /\ UNCHANGED <<mapper, io, settled, probed, agent_vars, env_vars>>

\* The session has been read: its request is answered, and a station that has
\* left is noticed when the answer, or the read, fails.
Served(c) ==
  /\ cel' = [cel EXCEPT ![c] = IF @.gone THEN NoSession ELSE [@ EXCEPT !.request = None]]
  /\ edge' = [pc |-> "serve", todo |-> edge.todo \ {c}, client |-> None]

\* Everything but a probe is answered from the state at hand; a read that finds
\* nothing leaves the session as it is.
service_client(c) ==
  /\ edge.pc = "serve" /\ c \in edge.todo /\ cel[c].request # "probe"
  /\ Served(c)
  /\ UNCHANGED <<mapper, io, settled, probed, agent_vars, env_vars>>

probe_cell_io(c) ==
  /\ edge.pc = "serve" /\ c \in edge.todo /\ cel[c].request = "probe"
  /\ \/ /\ Connect("probe")
        /\ edge' = [edge EXCEPT !.pc = "probing", !.client = c]
        /\ UNCHANGED <<mapper, io, settled, probed, cel>>
     \/ /\ NoteOffline
        /\ Served(c)
        /\ UNCHANGED agent_vars
  /\ UNCHANGED env_vars

\* A successful probe synchronises the mapper with the snapshot of this moment.
probe_returns ==
  /\ edge.pc = "probing" /\ answer # <<>>
  /\ TakeReply
  /\ mapper' = Synchronized(ready)
  /\ settled' = (settled /\ answer[1].device = "Online") /\ probed' = settled'
  /\ Served(edge.client)
  /\ Disconnect
  /\ UNCHANGED env_vars

\* Mutant of probe_fails: the exchange waits without a timeout.
probe_fails_never ==
  /\ edge.pc = "probing" /\ answer = <<>> /\ backlog # <<>>
  /\ NoteOffline
  /\ Served(edge.client)
  /\ Disconnect
  /\ UNCHANGED env_vars

\* Timeout, or the connection is reset.
probe_fails ==
  /\ edge.pc = "probing" /\ answer = <<>>
  /\ NoteOffline
  /\ Served(edge.client)
  /\ Disconnect
  /\ UNCHANGED env_vars

tick_cell_ready ==
  /\ edge.pc = "serve" /\ edge.todo = {}
  /\ \/ /\ ~Edge(mapper, ready)
        /\ mapper' = Synchronized(ready)
        /\ edge' = [edge EXCEPT !.pc = "poll"]
        /\ UNCHANGED <<io, settled, probed, agent_vars, changed>>
     \/ /\ Edge(mapper, ready)
        /\ Connect(IF ready THEN "on" ELSE "off")
        /\ mapper' = Synchronized(ready)
        /\ changed' = FALSE
        /\ edge' = [edge EXCEPT !.pc = "writing"]
        /\ UNCHANGED <<io, settled, probed>>
     \/ /\ Edge(mapper, ready)
        /\ mapper' = Offline(Synchronized(ready))
        /\ io' = [io EXCEPT !.online = FALSE, !.status = "Timeout"]
        /\ settled' = FALSE /\ probed' = FALSE
        /\ edge' = [edge EXCEPT !.pc = "poll"]
        /\ changed' = FALSE
        /\ UNCHANGED agent_vars
  /\ UNCHANGED <<snap, cel>>

write_returns ==
  /\ edge.pc = "writing" /\ answer # <<>>
  /\ TakeReply
  /\ settled' = (answer[1].out.status = "Confirmed") /\ probed' = FALSE
  /\ edge' = [edge EXCEPT !.pc = "poll"]
  /\ Disconnect
  /\ UNCHANGED <<mapper, env_vars, cel>>

write_fails ==
  /\ edge.pc = "writing" /\ answer = <<>>
  /\ NoteOffline
  /\ edge' = [edge EXCEPT !.pc = "poll"]
  /\ Disconnect
  /\ UNCHANGED <<env_vars, cel>>

Started == [pc |-> "poll", todo |-> {}, client |-> None]

FreshIo == [online |-> FALSE, confirmed |-> FALSE, status |-> "None"]

\* The process ends, by the loop's exit or by a crash, and a new one starts with
\* a runtime that is not active. No coil is written on the way.
edge_restart ==
  /\ edge' = Started
  /\ mapper' = [armed |-> FALSE, last_ready |-> FALSE]
  /\ io' = FreshIo
  /\ settled' = FALSE /\ probed' = FALSE
  /\ cel' = [c \in Clients |-> NoSession]
  /\ Disconnect
  /\ snap' \in {s \in Snapshots : ~s.active}
  /\ changed' = (changed \/ snap' # snap)

-----------------------------------------------------------------------------
(* The stations: CellAppClient keeps its connection, has one request at a    *)
(* time, and closes on the first that is not answered in time. A station    *)
(* that has closed comes back as another member of Clients.                 *)

Station(c, session) ==
  /\ cel' = [cel EXCEPT ![c] = session]
  /\ UNCHANGED <<edge_vars, agent_vars, env_vars>>

station_connect(c) ==
  /\ cel[c] = NoSession
  /\ Station(c, [NoSession EXCEPT !.conn = "queued"])

station_request(c, request) ==
  /\ cel[c].conn # "none" /\ cel[c].request = None /\ ~cel[c].gone
  /\ Station(c, [cel[c] EXCEPT !.request = request])

station_disconnect(c) ==
  /\ cel[c].conn # "none" /\ ~cel[c].gone
  /\ Station(c, [cel[c] EXCEPT !.gone = TRUE])

-----------------------------------------------------------------------------
(* The agent: ModbusAgentServer::serve_one in a loop                       *)

Accepting == [pc |-> "accept", request |-> None, open |-> FALSE, device |-> "Unknown"]

agent_accept ==
  /\ agent.pc = "accept" /\ backlog # <<>>
  /\ agent' = [Accepting EXCEPT !.pc = "handle", !.request = Head(backlog).request,
                                !.open = Head(backlog).open]
  /\ backlog' = Tail(backlog)
  /\ UNCHANGED <<answer, out, coils, edge_vars, env_vars, cel>>

\* The reply is an acknowledgement with the service's snapshot, however the
\* operation went.
handle_request ==
  /\ agent.pc = "handle"
  /\ \E o \in IF agent.request = "probe" THEN probe(out, coils)
              ELSE write_output(out, coils, 0, agent.request = "on") :
       /\ out' = o.out /\ coils' = o.coils
       /\ agent' = [agent EXCEPT !.pc = "reply", !.request = None, !.device = o.device]
  /\ UNCHANGED <<backlog, answer, edge_vars, env_vars, cel>>

\* The connection is read on until its client closes it, as the edge does after
\* one reply, or for as long as the agent waits. Meanwhile the queue waits too.
agent_reply ==
  /\ agent.pc = "reply"
  /\ answer' = IF agent.open THEN <<[device |-> agent.device, out |-> out[0]]>> ELSE answer
  /\ agent' = Accepting
  /\ UNCHANGED <<backlog, out, coils, edge_vars, env_vars, cel>>

\* The agent is killed and started again: its queue and its snapshot are lost.
agent_restart ==
  /\ agent' = Accepting
  /\ backlog' = <<>>
  /\ out' = FreshOutputs
  /\ UNCHANGED <<answer, coils, edge_vars, env_vars, cel>>

-----------------------------------------------------------------------------
runtime_changes ==
  /\ snap' \in Snapshots \ {snap}
  /\ changed' = TRUE
  /\ UNCHANGED <<edge_vars, agent_vars, cel>>

-----------------------------------------------------------------------------
CiInit ==
  /\ snap \in {s \in Snapshots : ~s.active} /\ changed = FALSE
  /\ edge = Started /\ mapper = [armed |-> FALSE, last_ready |-> FALSE] /\ io = FreshIo
  /\ cel = [c \in Clients |-> NoSession]
  /\ backlog = <<>> /\ agent = Accepting /\ answer = <<>>
  /\ out = FreshOutputs /\ coils \in [Channel -> BOOLEAN]
  /\ settled = FALSE /\ probed = FALSE

EdgeNext ==
  \/ poll \/ (\E c \in Clients : service_client(c) \/ probe_cell_io(c))
  \/ probe_returns \/ probe_fails \/ tick_cell_ready \/ write_returns \/ write_fails

AgentNext == agent_accept \/ handle_request \/ agent_reply

StationNext ==
  \E c \in Clients : station_connect(c) \/ station_disconnect(c)
                      \/ \E r \in {"status", "probe"} : station_request(c, r)

CiNext ==
  \/ EdgeNext \/ AgentNext \/ StationNext
  \/ edge_restart \/ agent_restart \/ runtime_changes

\* Both processes run; no station, restart or change has to come.
CiSpec == CiInit /\ [][CiNext]_vars /\ WF_vars(EdgeNext) /\ WF_vars(AgentNext)

-----------------------------------------------------------------------------
(* Properties. *)

\* Types; the agent's queue and the engineering sessions keep their limits. The
\* first conjunct of ConfirmedIsTheCoil.
CiTypeOK ==
  /\ snap \in Snapshots /\ changed \in BOOLEAN
  /\ edge.pc \in {"poll", "serve", "probing", "writing"} /\ edge.todo \subseteq Clients
  /\ io.status \in Statuses
  /\ Len(backlog) <= MaxBacklog /\ Cardinality(Accepted) <= MaxClients
  /\ agent.pc \in {"accept", "handle", "reply"}
  /\ out \in Outputs /\ coils \in [Channel -> BOOLEAN]

\* Where a station can be told the state, or a decision is taken on it.
AtRest == edge.pc \in {"poll", "serve"}

(***************************************************************************)
(* A DO0 that GetStatus shows as confirmed is the relay's own state, though *)
(* writes that the edge gave up on are still carried out later, the agent  *)
(* may restart, and replies get lost: a reply of the agent is of this      *)
(* exchange, and whatever was queued before it has been carried out.       *)
(***************************************************************************)
ConfirmedIsTheCoil ==
  CiTypeOK /\ (AtRest /\ io.status = "Confirmed" => coils[0] = io.confirmed)

(***************************************************************************)
(* From a confirmed write on, for as long as the device answers and nobody *)
(* probes, the coil is what CellReady was when the mapper last looked.     *)
(***************************************************************************)
CoilFollowsMapper == AtRest /\ settled /\ ~probed => coils[0] = mapper.last_ready

(***************************************************************************)
(* "重连不自动重放": a write is asked for at a change of the runtime's        *)
(* snapshot that no earlier request was made at. Neither the recovery of   *)
(* the agent, nor a probe, nor a restart of the edge repeats one.          *)
(***************************************************************************)
NoReplayOfDo0 ==
  [][edge.pc # "writing" /\ edge'.pc = "writing" => changed]_vars

(***************************************************************************)
(* A request that the edge has accepted from a station gets its answer, or *)
(* its session is closed: an agent that hangs, dies or is unplugged never  *)
(* stops the main loop.                                                    *)
(***************************************************************************)
StationIsServed ==
  \A c \in Clients : cel[c].conn = "open" /\ cel[c].request # None
                        ~> cel[c].request = None

(***************************************************************************)
(* "false→true 请求 DO0 ON；true→false 或 Fault/Hold 请求 OFF" (freeze gate,  *)
(* section 3): the same with probes, which only read. A probe that the     *)
(* device answers is no reason for a change of CellReady to go unrequested.*)
(***************************************************************************)
EveryEdgeIsRequested == AtRest /\ settled => coils[0] = mapper.last_ready
=============================================================================
