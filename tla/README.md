# TLA+ models of the robot control runtime

This directory holds a formal model of the runtime in this repository: the
Linux daemon that admits output commands and supervises a CAN node, the node's
firmware and its simulator, the threads that tie them together, and the
applications around them (the cell's edge process with its Modbus agent, the
workbench's pages, the Modbus TCP experiment). TLC checks the models on small
instances; TLAPS proves the main safety properties of eight of them for every
value of their constants.

## 1. The system and its parts

| Part | Source | State it keeps | Operations that change it |
|---|---|---|---|
| Mode machine | `linux/src/core/state_machine.cpp` | mode, interlock, fault code | `handle`, `set_fault`, `set_interlock_ready` |
| Output gate | `linux/src/runtime/linux_runtime.cpp` with `mailbox.cpp`, `watchdog.cpp` | mailbox slot, command watchdog, bound session, last sequence, in-flight command | `start`, `stop`, `handle`, `raise_fault`, `set_interlock_ready`, `publish_output_command`, `try_consume_output_command`, `note_output_command_sent`, `observe_output_status`, `on_tick` |
| Scheduler | `linux/src/linux/scheduler.cpp` | thread, start-up result, stop flag, next deadline, counters | `start`, `run`, `request_stop`, `join` |
| Node supervision | `linux/src/supervision/node_supervisor.cpp`, `bounded_input_queue.cpp` | online/restart/overflow/comm-loss latches, identity, last heartbeat; the queue and its overflow latch | `try_push`, `on_tick`, `acknowledge_fault_clear` |
| CAN I/O loop | `linux/src/linux/can_io_loop.cpp` | pending command, thread, stop reason | `pump_output`, `handle_can_ready`, `thread_main`, `start`, `request_stop` |
| Daemon | `linux/src/daemon/runtime_daemon.cpp` | which parts run, stop request, exit code | `start`, `wait_and_stop`, `stop`, `request_stop`, the recovery calls |
| Node logic | `firmware/stm32f103/src/node.c`, mirrored by `linux/src/sim/node_sim.cpp` | output bits, lease, last sequence, fatal latch | `apply_command`, `expire_lease`, `set_bus_ready`, `latch_internal_fault` |
| Firmware loop | `firmware/stm32f103/src/main.c`, `platform_stm32f103.c` | RX ring, overflow flag, pins, watchdog | the loop, two interrupts, reset |
| Session journal | `platform_stm32f103.c` (flash) | the records of one page | `rcr_platform_next_session` |
| Reports and debounce | `input_debounce.c`, `main.c` | candidate level, due times | one round of the loop |
| Node simulator | `linux/apps/rcr_node_sim.cpp` around `node_sim.cpp` | node logic, late answers, one deadline timer, the batch of events | `drain_can`, the timer's handler, the restart, the end |
| Cell edge | `linux/apps/rcr_cell_app.cpp`, `cell_ready_mapper.cpp`, `cell_app_server.cpp` | mapper, last DO0 transaction, engineering sessions | `poll`, `probe_cell_io`, `tick_cell_ready` |
| Modbus agent | `rcr_modbus_rtu_agent.cpp`, `modbus_agent_server.cpp`, `physical_modbus_io_service.cpp` | connection served, confirmed outputs; the relay's coils | `serve_one`, `probe`, `write_output` |
| Modbus panel | `workbench_controller.cpp`, `modbus_agent_client.cpp` | backend, request flag, device state, mapper; the worker's connection | the buttons, the worker's exchanges, `applyPhysicalTransaction`, the timers |
| Mock Modbus device | `mock_modbus_io_profile.cpp` | outputs with their last status, injected outcome, scan | scan, single and all-off writes |
| Connection page | `remote_runtime_client.cpp`, `remote_control_protocol.cpp`, `workbench_controller.cpp` | client's and endpoint's session, counts, status; what the page shows | connect, heartbeat, status, change of mode |
| Modbus TCP experiment | `experiments/modbus_tcp` | the client's connection and transaction, the server's thread, holding registers | `transact_raw` with its retries, the server loop, `start`, `stop` |
| Framing | `modbus_tcp/src/framing.cpp`, `remote_frame.cpp`, the CEL1 and agent decoders | the receive buffer | feed, pop, resynchronise |
| Health test | `test_runner.cpp`, `can_health_test.cpp`, `result_writer.cpp`, `workbench_controller.cpp` | run flags, stage, observation, result, files | `startHealth`, `request_cancel`, `run`, `write` |
| Actuator panel | `mock_actuator_profile.cpp`, `workbench_controller.cpp` | the simulated axis, the panel's jog token and timer | the panel's buttons, `tick`, `renewJog` |

Four kinds of threads meet in `rcrd`. The application (or main) thread publishes
commands and asks for mode changes. The scheduler's worker runs
`LinuxRuntime::on_tick` and, outside `state_mutex_`, the supervisor. One I/O
thread reads and writes the CAN socket. A duration thread may request a stop.
`state_mutex_` makes each runtime operation atomic, but a caller that makes
several of them (the pump, the supervisor, `clear_fault`) is interleaved with
all others between two of them, and the clock is read before the lock is taken.

The edge process runs the daemon and, on its main thread, one loop that serves
engineering stations over TCP (CEL1) and drives the relay coil DO0 from
CellReady. It reaches the relay through the agent, a process of its own on the
other end of a TCP connection, which it opens for one exchange and closes. The
workbench has a UI thread and worker threads; they meet in queued signals and
in the test runner's atomics. Its Modbus worker keeps one connection to the
agent from one request to the next.

What makes the system hard, and where the models put their effort:

- commands that outlive the permission they were given under (mailbox, pending
  command, in-flight command, the node's lease, the pins);
- several critical sections making up one logical step;
- lost, late and repeated frames, and sequence numbers that wrap;
- answers that come after their request was given up, and meet the next one;
- a queue that is full just when the event that matters arrives;
- start-up and shutdown with a failure, a signal and a stop request at once;
- power loss between two flash operations; a clock that wraps;
- requests that were given up and are carried out all the same;
- a cancel, a timeout and a verdict at once, and files of which one fails;
- one timer for several deadlines, and events handled in any order of a batch;
- frames cut by reads that end anywhere.

The hazards are listed one by one, at their source lines, in `PROJECT.json`.

## 2. The modules

| Module | Models |
|---|---|
| `RuntimeStateMachine` | the mode machine as a function of its three fields and an event |
| `LinuxRuntime` | the output gate: one action per public operation, `on_tick`, the clock |
| `OutputGate` | abstract specification of the gate: open or closed, one slot, one flight |
| `Scheduler` | the periodic thread and its owner |
| `NodeSupervision` | supervisor, queue and recovery calls, composed with `LinuxRuntime` |
| `CanV1`, `CanNode` | arithmetic of the wire contract; the node's command handling |
| `OutputPath` | application, `LinuxRuntime`, pump, lossy bus and node composed |
| `FirmwareNode` | the firmware's loop and interrupts around `CanNode` |
| `SessionJournal` | the flash journal of session numbers |
| `FirmwareReports` | debounce and report schedule |
| `NodeSimulator` | the simulator's event loop with its batches and its one timer |
| `RuntimeDaemon` | threads, start, roll-back, stop and exit code of `rcrd` |
| `PhysicalModbus` | operations on the relay module over a line that loses requests and replies |
| `CellIo` | edge loop, mapper, stations and Modbus agent composed, with restarts of both processes |
| `ModbusPanel` | the panel's UI thread, its worker, the connection it keeps and the agent composed |
| `MockModbusIo` | the mock device behind the panel |
| `ModbusTcp` | client, server thread and owner, with the connections left between them |
| `StreamFraming` | four framings of a byte stream and their five readers, with bad frames and noise |
| `RemoteSession` | page, client and endpoint of the Connection page |
| `CanHealth` | the health case's verdict over snapshots |
| `HealthRun` | UI thread, worker, test runner and result writer composed around `CanHealth` |
| `MockActuator` | the axis as a record and its operations |
| `ActuatorPanel` | buttons and timers composed with the axis |
| `*Proofs` | TLAPS proofs about the module they are named after (section 4) |

`MC*` modules only give sets of commands, events or frames to TLC.
`MCRuntimeAndPanel`, `MCServices`, `MCWorkbench` and `MCModbus` let TLC check
components that share no state in one run: a variable says which of them a behaviour exercises, and
the others stay in an initial state. Their specifications carry the fairness of
each component.

Correspondence. A variable carries the name of the field it stands for, noted
beside its declaration; an action carries the name of the function. Where one
function takes the lock several times, each critical section is an action and a
program counter (`pump.pc`, `tick.pc`, `work`, `app`, `main`, `io.thread`,
`job`, `client.pc`) orders them. A parameter `t` is a clock sample that may be
up to `MaxLag` older than `now`. In `NodeSupervision` the sequence `work` holds
the calls that the supervisor still owes to the runtime. `expired_` of the
watchdog is not a variable: the tick that sets it clears it in the same critical
section. Commands carry a session, a sequence, a mask and values as sets of
lines, and a deadline. Wording, logging, counters and byte layout are left out;
`StreamFraming` keeps the fields of a header that a reader looks at, one symbol
each.

Operators such as `write_output` in `PhysicalModbus` and `tick` in
`MockActuator` return the set of outcomes the operation may have. A line
transaction may be lost, refused or unanswered with the coil switched or not;
the axis' velocity may go any part of the way to its target in a tick.

The definitions whose comment begins "Mutant of" are faulty variants of the
definition below them. Nothing uses them; each shows, put in its place, that a
property notices that fault (`PROJECT.json`, "mutants").

Ghost fields, used by properties only: `id`, `deadline`, `at`, `epoch` of frames,
`epoch` and `crossed` in `OutputPath`; `granted` in `FirmwareNode`; `previous`
and `lost` in `SessionJournal`; `samples` and `last_sent` in `FirmwareReports`;
`cause` in `RuntimeDaemon`; `base` in `Scheduler`; `sim_sent` and `granted` in
`NodeSimulator`; `changed`, `settled` and `probed` in `CellIo`; `outage` and
`last_good` in `ModbusPanel`; `forgotten` and the `at` of `popped` in
`StreamFraming`; `known`, `runs` and `lost` in `ModbusTcp`; `whole`
and `cancelled` in `HealthRun`.

## 3. What the runs check

Passing runs:

| Run | Checks |
|---|---|
| `runtime_and_panel` | Gate: a closed path is empty (`ClosedPathIsEmpty`); the gate implements `OutputGate` (`ImplementsOutputGate`). Panel: it writes DO0 of its own accord only for a change since the mapper last looked, and nothing has interrupted the outputs from that look on but a scan with a mistyped address (`PanelDoesNotReplay`); it is never left busy (`PanelComesBack`). Mock: an output that is not as requested reports a failed write (`MockIsHonest`). |
| `node_supervision` | Online, comm-loss and restart latches agree with each other in every state between two critical sections, and an online node was heard within the timeout (`OnlineIsFresh`); each I/O error, node fault or queue overflow leads to a moment outside Active, also when it waits behind another event (`FaultsReachRuntime`). |
| `output_path` | The pump registers a frame only while no other is unanswered, no answer overtakes its registration, and an answer closes the command it answers (`AnswerMeetsItsFrame`); a lease never exceeds the command's deadline by a validity unit plus the time between encoding and reception (`LeaseIsBounded`); sent and admitted commands are resolved (`SentIsResolved`, `AdmittedIsResolved`). |
| `firmware_node` | No authority without a healthy node (`FwAuthority`); pins outlive a lease by less than two watchdog periods (`PinsOutliveLeaseBriefly`); a lost frame latches the fault or ends in a reset (`LostFrameIsFatal`). |
| `services` | Journal: an identity reported ready is on flash, and two consecutive ones differ (`IdentityIsDurable`, `IdentityChanges`). Reports: the debounced level changes only after agreement for the whole time, and reports keep their pace (`ReportsAreTrue`). Scheduler: the grid is kept, the handshake is true, a stop converges (`GridIsKept`, `HandshakeIsTrue`, `StopConverges`). Simulator: the one timer is armed for the first deadline, and an output of a node nobody commands goes neutral (`DeadlineIsWatched`, `OutputFallsBack`). Daemon: a failed start and a finished stop leave no thread, a failure that came first is in the exit code, and every cause brings the daemon down, a stop requested while the I/O loop starts included (`StopIsComplete`, `DaemonComesDown`). |
| `workbench` | Actuator: motion needs an enabled drive and a valid home; a jog has a live token, a lease within its allowance and a panel that can release it; every stop and every jog ends (`MotionIsAuthorised`, `JogIsHeldByPanel`, `MotionEnds`). Health test: a pass saw the whole window, met every criterion and cleaned up; a cancel before the verdict decides; a CSV has its JSON, and neither is ever overwritten; the test comes back and closing the window ends (`PassIsEarned`, `CancelDecides`, `EvidenceIsKept`, `TestComesBack`). Connection: page, client and endpoint agree about the session and the status (`PageIsOfTheSession`). |
| `cell_io` | A DO0 shown as confirmed is the relay's state (`ConfirmedIsTheCoil`); from a confirmed write on, and without probes, the coil is what the mapper last saw (`CoilFollowsMapper`); no write without a new change of the runtime (`NoReplayOfDo0`); an accepted station request is answered or its session closed (`StationIsServed`). |
| `modbus` | TCP: what the client was told of a register stays so until it asks to write it, a request is carried out once and once more per lost connection, `stop()` returns (`ToldIsTrue`, `NoSilentReplay`, `StopReturns`). Framing: the frames handed on are those sent, in order, none merged, cut or left over; none is missing but for the two reasons given below (`FramesAreThoseSent`). |

The types of each component's state are the first conjunct of one of its
properties, or, in `LinuxRuntime` and `Scheduler`, proved (section 4).

Runs that show a disagreement between the code and what a document or comment
says of it (quoted in `PROJECT.json`, "findings"):

| Run | Shows |
|---|---|
| `replay` | a pending command of one activation is sent in the next one |
| `swallowed_edge` | a change of CellReady just before or during a probe becomes the mapper's baseline: DO0 is never asked to follow, although every exchange succeeded |
| `outstanding` | the Modbus TCP client sends a request while the answer to one that timed out is still to come |
| `unanswered_probe` | a result queued before a disconnect unlocks the panel's outputs during the next probe; a DO pressed then is written although that probe fails |

### Behaviour the models show and no property forbids

The code does the following, by reading and in traces of the models. A reader
of the properties above should know of it.

- `publish_output_command` compares a deadline with a clock sample taken before
  the lock; a command that expires while waiting is admitted, and refused later.
- An answer of an earlier activation with the same wire session and sequence
  closes the present command (`linux_runtime.cpp:270`). `AnswerMeetsItsFrame`
  speaks of activations in which this has not happened; after it, later closings
  of that activation may be off by one frame too. That is the ghost `crossed`.
- The pump drops a pending command without disarming the watchdog its admission
  armed: an Active runtime with nothing in flight may go to Hold.
- `clear_fault` succeeds although a blocker appeared between its check and its
  transition; an overflow fault is also left by Deactivate and Boot.
- `activate` needs the interlock, which a status frame alone may set, and no
  heartbeat.
- A signal pending when the mask is restored kills the process; an I/O failure
  that comes after the stop was classified is not in the exit code.
- A `request_stop()` that comes before `start()` has made the I/O loop sets only
  `stop_requested_`, and `start()` takes that back (`runtime_daemon.cpp:178`):
  the request is lost. `daemon_request_stop` lets it happen in every state;
  `DaemonComesDown` speaks of requests from the loop's creation on. No caller in
  the repository makes an earlier one. Nor does one call while `io_` itself is
  being stored or reset, which would be a data race and is not modelled.
- A quick stop during the stop of a disable leaves the drive enabled.
- A cancel between the button and the start of the run is lost.
- A DO0 write that failed is not repeated, and no OFF is written when the edge
  process ends: the coil may stay ON until CellReady changes again.
- The agent acknowledges operations that failed on the line; after such a probe
  the edge shows the device online.
- The panel's agent client does not compare the sequence of a reply: after a
  timeout the late reply answers the next request, and so on until a disconnect.
- That client keeps its descriptor when the agent has closed an idle connection;
  probes then fail until the operator disconnects.
- A poll may queue behind another request after a stale result has cleared the
  request flag (`workbench_controller.cpp:349` says it is skipped when busy).
- A scan with a mistyped address (`workbench_controller.cpp:560`) sets the device
  to Error, so the outputs are not live, but tells the mapper nothing: it stays
  armed. When a good scan follows before the mapper looks again, a change of
  CellReady from before the outage is written. `cell_ready_mapper.cpp:38` says
  that no such change is replayed. `PanelDoesNotReplay` and its theorem make this
  one outage an exception; without it TLC finds the write.
- The agent's server and its client start each read with an empty buffer. What a
  `recv` brings behind the first frame is dropped. After a timeout in the middle
  of a reply the rest of it is taken for the start of the next one.
- The remote parser skips a symbol, a header or a frame at a time. Noise, or the
  middle of something it skipped, may pass for a header: it then waits for, and
  may skip or hand on, as much as that header claims, up to the longest frame.
- A chunk that overflows the remote buffer is dropped with what was in it; the
  session is faulted, and the next chunk is parsed as ever.
- A failed all-off of the mock device reports `confirmed = false` for outputs
  that are off.
- A reconnected Connection page shows the status of the session before until the
  first reply; the count of replies is 0 then. A peer that stops answering
  heartbeats stays established; only the count of missed ones grows.
- The workbench's servo sequence has 16 bits (`workbench_controller.hpp:216`) and
  goes from 65535 to 1: the runtime, which compares whole numbers, refuses what
  follows until the next activation.

### Bounds

All bounds are constants used in guards. `MaxTime` and `MaxClock` are several
timeouts long, so each timeout can expire, and expire again after a recovery.
`MaxLag` 1 lets a sample be older than the state it is compared with.
`MaxSends`, `MaxActivations` 2 suffice for a frame of an earlier activation to
meet a later one, and the sequences 1 and 5 are the same on a wire of `WireMax`
4. In `node_supervision` the queue holds 2 events and a tick takes 1
(`MaxEventsPerTick`), so events are lost to a full queue and faults wait behind
others; `RxCapacity` 1 does the first for the firmware. `ClockMod` and `WireMax`
are small so that wraps happen within a run. `MaxBoots` exceeds the number of
records, so pages are erased. `MaxStarts` 2 covers a start after a failed or
finished one.

Two health runs with two ids cover equal and different file names, and a window
of two samples one that is cut short. The jog's allowance is longer than its
lease and shorter than two of them, and a tick may take as long as the lease.
`MaxReplies` 3 counts replies past the first of a session and a reconnect. One
station, one queued and one served connection let an abandoned request meet a
later one; `CellIo` has no other bound. Snapshots are one in which the cell is
ready and one in which it is not: the mapper tells no others apart.

`MaxCalls` 2 and `MaxBacklog` 2 let a call of the Modbus TCP client meet what the
call before it left on its own connection or on an abandoned one. `MaxItems` 3
is a frame, something bad and a frame; `MaxPayload` 2 makes one frame longer
than another. A payload and two pieces of noise hold the symbol that begins a
header (`Magic`), so that what is left of a skipped frame may look like one;
`Base` keeps checksums small. One queued request and two requests on the line (`MaxQueued`,
`MaxLine`) let a late reply or result of the panel meet the next request; the
address `bad` is one that cannot be parsed. Two commands in the simulator
(`MaxSimCommands`) are one in force and one answered late.

Deadlock checking is off in `output_path`, where the clock's bound stops the
model, and in `services`, where the scheduler's clock, the daemon after its last
stop and the simulator after its end do.

### Fairness

- `NodeSupervision`: weak fairness of the worker; its sleep has an absolute
  deadline and its locks are held for a few assignments.
- `OutputPath`: weak fairness of the clock and of the worker's tick. Nothing is
  assumed of the bus, the node, the pump or the application.
- `FirmwareNode`: the clock ticks; the loop need not come round, because the
  watchdog resets it.
- `NodeSimulator`: the loop handles what is readable, and time passes.
- `RuntimeDaemon`: each thread that can move moves; the application need not.
- `Scheduler`: the thread, the owner's wait and join, and the clock. No signal
  has to interrupt a sleep.
- `ActuatorPanel`: the 10 ms timer of the UI thread fires. No button has to be
  pressed or released, and no renewal has to come.
- `HealthRun`: the worker takes its next step, and the UI thread delivers a
  queued completion and returns from its wait. Nobody has to cancel.
- `CellIo`: edge and agent each take a step they can take. The edge's timeouts
  are steps of its own, so nothing is assumed of the line, the stations, the
  runtime or of a restart.
- `ModbusPanel`: the worker takes its next step (a timeout is one), the agent
  handles what it was sent, and the UI thread delivers queued results.
- `ModbusTcp`: the server's thread takes its next step (its polls time out), and
  the owner in `stop()` goes on. Nothing is assumed of the client.

## 4. What is proved

Every proof is for all values of the constants under the named assumptions of
the module it extends: timeouts, capacities and widths are positive, `None` is
no command, and the events, frames and commands have the fields the code's
records have.

| Module | Theorems | Argument |
|---|---|---|
| `LinuxRuntimeProofs` | `ClosedPathTheorem`, `ActiveHealthyTheorem`, `WaitingSupervisedTheorem`, `InFlightTheorem`, `OnlyActivationTheorem`, `AdmissionTheorem`, `GateRefinement` | `RtInv` joins the types and four invariants with `UnboundIsFresh` (no session, no sequence): without it nothing relates the last sequence to the session, and neither monotonic admission nor the refinement goes through. Each step of the runtime is a step of `OutputGate` or leaves its variables alone. |
| `NodeSupervisionProofs` | `OnlineTheorem` | `NsInv` adds to `RtInv` what the queue holds and which calls the worker may still owe (`Owed`): one that notes a restart only once the node has been seen, and from a sleeping worker nothing but faults. So nothing sets the node online behind the check that ends a tick. |
| `OutputPathProofs` | `AnswerTheorem` | `OpInv` adds to `RtInv` that items in the three channels are in the order of their frames (`InOrder`), that at most the last frame of the present activation is under way (`OnlyLast`), and that none is while the pump may send (`Quiet`). All of it is for activations that have not `crossed`. The wire's 16 bits then need no argument of their own. |
| `FirmwareNodeProofs` | `FwAuthorityTheorem` | `Authority` is kept by each operation of the node, whatever is in the ring; `FwInv` adds that what is in the ring and in the loop has the range of the clock. |
| `SchedulerProofs` | `GridTheorem`, `HandshakeTheorem`, `NextAheadTheorem` | `ScInv` joins the grid and the handshake with `NeverEarly` (a callback runs at or after its boundary, which bounds the miss count from below) and `HandshakeSupport` (what the thread's own steps know of the start-up result). `MissedBounds` is the arithmetic of the miss count. |
| `ModbusPanelProofs` | `PanelReplayTheorem` | `ArmedSawNoOther`: everything that interrupts the outputs, but for a scan with a mistyped address, disarms the mapper in the same call on the UI thread, so the queues between the threads do not matter. |
| `MockModbusIoProofs` | `MockHonestTheorem` | a write leaves each output it touches honest, whatever it was, and the others alone. |
| `RemoteSessionProofs` | `PageTheorem` | `RsInv` says how the three copies of the session follow each other: client and endpoint (`SessionAgrees`), their statuses (`StatusAgrees`), page and client (`PageFollows`). |

`ActiveIsHealthy`, `WaitingIsSupervised`, `InFlightIsOfSession`,
`OnlyActivationOpens`, `AdmissionIsMonotonic` and `NextIsFirstAhead` are proved
and not listed in a run: they hold wherever the module is used.

Only model-checked: all liveness (fairness is beyond the prover); the bounds on
leases and pins, whose ghosts relate three clocks; and everything about
`SessionJournal`, `FirmwareReports`, `NodeSimulator`, `RuntimeDaemon`, `CellIo`,
`HealthRun`, `ActuatorPanel`, `ModbusTcp` and `StreamFraming`. What a parser
makes of every stream would need induction over the stream, which the prover
does not have.

## 5. Not modelled

`PROJECT.json` lists every part with its status and, where it is left out, the
reason.

- Wrappers over system calls (SocketCAN, epoll, eventfd, serial port) appear as
  choices of their callers. Trace and statistics only observe.
- Byte layouts of payloads: no property here tells two layouts apart. The CAN
  codec's arithmetic (sequence order, validity) is in `CanV1`.
- The workbench's runtime adapter and its servo, activation and cell-peer
  commands are sequences of calls that `LinuxRuntime` and `NodeSupervision`
  already make in any order; their return codes are not modelled. Widgets are
  layout.
- Register set-up of the firmware, and the PWM timer behind the servo.
- Deployment scripts, benchmarks, acceptance tools: they act on the system from
  outside and keep no state of it.
- `CellIo` has the edge as the agent's only client and `ModbusPanel` the
  workbench: an engineer who writes coils from the panel while the edge runs is
  in neither. The agent serves one connection at a time, so this is a choice of
  who is served, but a confirmed coil of the one may then be changed by the other.

What remains worth doing: proofs of the axis' authority and jog lease in
`ActuatorPanel`, of `HealthRun`'s verdict and of `ConfirmedIsTheCoil`; edge and
workbench as two clients of one agent.
