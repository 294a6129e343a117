--------------------------- MODULE NodeSupervision --------------------------
(***************************************************************************)
(* NodeSupervisor, the bounded input queue that feeds it and the           *)
(* application's clear_fault, composed with LinuxRuntime.                  *)
(*                                                                         *)
(* Three threads interleave. The CAN I/O thread pushes decoded events. The *)
(* periodic worker runs LinuxRuntime::on_tick and then, outside            *)
(* state_mutex_, NodeSupervisor::on_tick, which takes its own mutex_ in    *)
(* short sections and calls the runtime between them. The application      *)
(* calls the daemon. `work` is what the worker still has to do for the     *)
(* event in hand: each entry is one critical section, executed in order,   *)
(* and the other threads may run between any two.                          *)
(***************************************************************************)
EXTENDS LinuxRuntime, Sequences

CONSTANTS
  InputEvents,        \* the events the I/O thread may decode
  NodeId,             \* NodeSupervisorConfig::node_id
  HeartbeatTimeout,   \* 0 disables the check, as in the code
  MaxEventsPerTick,   \* NodeSupervisorConfig::max_events_per_tick
  Capacity            \* of the BoundedInputQueue

\* A decoded event; a field that its kind does not use is never read.
Inputs ==
  [kind : {"Heartbeat", "NodeStatus", "OutputStatus", "ProtocolReject", "IoError"},
   node : Nat, boot : Nat, sess : Nat, seq : Nat, interlock : BOOLEAN, fault : Nat,
   applied : BOOLEAN]

ASSUME SupervisionAssumption ==
  /\ InputEvents \subseteq Inputs
  /\ HeartbeatTimeout \in Nat
  /\ MaxEventsPerTick \in Nat \ {0}
  /\ Capacity \in Nat \ {0}
  /\ NodeId \in Nat \ {0}

VARIABLES
  queue,     \* BoundedInputQueue, oldest first; entries carry monotonic_ns
  overflow,  \* its overflow_latched_
  sup,       \* the fields of NodeSupervisor that decide anything
  tick,      \* the worker: where it is in its period, tick.actual_ns, the budget left
  work,      \* critical sections it still owes for the current event
  app,       \* the application inside clear_fault(), or "idle"
  io         \* the I/O thread: "running", "failing" (event pushed), "failed"

sup_vars == <<queue, overflow, sup, tick, work, app, io>>

ns_vars == <<rt_vars, sup_vars>>

-----------------------------------------------------------------------------
\* One critical section of the worker, by the call it makes.
RaiseFault(code) == [call |-> "raise_fault", code |-> code]
SetInterlock(ready) == [call |-> "set_interlock_ready", ready |-> ready]
NoteRestart(boot, sess) == [call |-> "note_node_restart", boot |-> boot, sess |-> sess]
RefreshHeartbeat(at) == [call |-> "refresh_heartbeat", at |-> at]
Observe(s, q, applied) ==
  [call |-> "observe_output_status", sess |-> s, seq |-> q, applied |-> applied]

NewSupervisor ==
  [ever_seen |-> FALSE, online |-> FALSE, restart_latched |-> FALSE,
   overflow_latched |-> FALSE, comm_loss_latched |-> FALSE,
   boot |-> 0, sess |-> 0, node_fault |-> 0, status_seen |-> FALSE, last_heartbeat |-> 0]

-----------------------------------------------------------------------------
(* The I/O thread. *)

\* try_push: a full queue drops the new event and latches the overflow.
try_push(e) ==
  IF Len(queue) >= Capacity
    THEN overflow' = TRUE /\ UNCHANGED queue
    ELSE queue' = Append(queue, [event |-> e, at |-> now]) /\ UNCHANGED overflow

push_event(e) ==
  /\ io = "running"
  /\ try_push(e)
  /\ UNCHANGED <<rt_vars, sup, tick, work, app, io>>

IoErrorEvent ==
  [kind |-> "IoError", node |-> NodeId, boot |-> 0, sess |-> 0, seq |-> 0,
   interlock |-> FALSE, fault |-> 0, applied |-> FALSE]

\* A receive or send error: the event is pushed before stop_reason_ is stored.
io_error ==
  /\ io = "running"
  /\ try_push(IoErrorEvent)
  /\ io' = "failing"
  /\ UNCHANGED <<rt_vars, sup, tick, work, app>>

io_stop_reason ==
  /\ io = "failing"
  /\ io' = "failed"
  /\ UNCHANGED <<rt_vars, queue, overflow, sup, tick, work, app>>

-----------------------------------------------------------------------------
(* The periodic worker. *)

tick_wake ==
  /\ tick.pc = "sleep" /\ work = <<>> /\ running
  /\ tick' = [pc |-> "timeouts", t |-> now, budget |-> MaxEventsPerTick]
  /\ UNCHANGED <<rt_vars, queue, overflow, sup, work, app, io>>

tick_timeouts ==
  /\ tick.pc = "timeouts"
  /\ on_tick(tick.t)
  /\ tick' = [tick EXCEPT !.pc = "overflow"]
  /\ UNCHANGED <<queue, overflow, sup, work, app, io>>

\* Mutant of apply_overflow_fault: the overflow is latched and not escalated.
apply_overflow_fault_silently ==
  /\ tick.pc = "overflow"
  /\ tick' = [tick EXCEPT !.pc = "events"]
  /\ sup' = [sup EXCEPT !.overflow_latched = overflow]
  /\ UNCHANGED <<rt_vars, queue, overflow, work, app, io>>

\* The overflow latch is escalated once, even when the queue is empty again.
apply_overflow_fault ==
  /\ tick.pc = "overflow"
  /\ tick' = [tick EXCEPT !.pc = "events"]
  /\ IF overflow /\ ~sup.overflow_latched
       THEN /\ sup' = [sup EXCEPT !.overflow_latched = TRUE]
            /\ work' = <<RaiseFault("Internal")>>
       ELSE UNCHANGED <<sup, work>>
  /\ UNCHANGED <<rt_vars, queue, overflow, app, io>>

\* The supervisor's own section of apply_event, and the calls it leaves.
SeenHeartbeat(e, at) ==
  [sup EXCEPT !.ever_seen = TRUE, !.online = TRUE, !.comm_loss_latched = FALSE,
              !.boot = e.boot, !.sess = e.sess, !.last_heartbeat = at]

HeartbeatRestarts(e) == sup.ever_seen /\ <<e.boot, e.sess>> # <<sup.boot, sup.sess>>

apply_heartbeat(e, at) ==
  /\ e.kind = "Heartbeat"
  /\ IF HeartbeatRestarts(e)
       THEN /\ work' = <<NoteRestart(e.boot, e.sess), RaiseFault("NodeFault"), RefreshHeartbeat(at)>>
            /\ UNCHANGED sup
       ELSE /\ sup' = SeenHeartbeat(e, at)
            /\ UNCHANGED work

\* A status of another session is a restart too, under the boot already known;
\* it does not refresh the heartbeat.
StatusRestarts(e) == sup.ever_seen /\ e.sess \notin {0, sup.sess}

apply_status(e) ==
  /\ e.kind = "NodeStatus"
  /\ sup' = [sup EXCEPT !.node_fault = e.fault, !.status_seen = TRUE]
  /\ work' = (IF StatusRestarts(e)
                THEN <<NoteRestart(sup.boot, e.sess), RaiseFault("NodeFault")>> ELSE <<>>)
             \o <<SetInterlock(e.interlock)>>
             \o (IF e.fault # 0 THEN <<RaiseFault("NodeFault")>> ELSE <<>>)

\* An answer goes to the runtime; a rejected frame is only counted; an I/O error
\* is a fault.
apply_other(e) ==
  /\ e.kind \in {"OutputStatus", "ProtocolReject", "IoError"}
  /\ work' = CASE e.kind = "OutputStatus"   -> <<Observe(e.sess, e.seq, e.applied)>>
               [] e.kind = "ProtocolReject" -> <<>>
               [] e.kind = "IoError"        -> <<RaiseFault("Internal")>>
  /\ UNCHANGED sup

Foreign(e) == e.node \notin {0, NodeId}

apply_event ==
  /\ tick.pc = "events" /\ work = <<>> /\ tick.budget > 0 /\ queue # <<>>
  /\ queue' = Tail(queue)
  /\ tick' = [tick EXCEPT !.budget = @ - 1]
  /\ LET e == Head(queue).event IN
       IF Foreign(e)
         THEN UNCHANGED <<sup, work>>
         ELSE apply_heartbeat(e, Head(queue).at) \/ apply_status(e) \/ apply_other(e)
  /\ UNCHANGED <<rt_vars, overflow, app, io>>

\* Mutant of HeartbeatOverdue: the timeout is off by one.
HeartbeatOverdueLate ==
  sup.ever_seen /\ sup.online /\ HeartbeatTimeout > 0
    /\ tick.t > sup.last_heartbeat + HeartbeatTimeout

\* Ends the event loop and decides whether the heartbeat is overdue.
HeartbeatOverdue ==
  /\ sup.ever_seen /\ sup.online
  /\ HeartbeatTimeout > 0
  /\ tick.t >= sup.last_heartbeat + HeartbeatTimeout

apply_comm_loss ==
  /\ tick.pc = "events" /\ work = <<>> /\ (tick.budget = 0 \/ queue = <<>>)
  /\ tick' = [tick EXCEPT !.pc = "sleep"]
  /\ IF HeartbeatOverdue
       THEN /\ sup' = [sup EXCEPT !.online = FALSE, !.comm_loss_latched = TRUE]
            /\ work' = IF sup.comm_loss_latched THEN <<>> ELSE <<RaiseFault("CommLoss")>>
       ELSE UNCHANGED <<sup, work>>
  /\ UNCHANGED <<rt_vars, queue, overflow, app, io>>

\* note_node_restart's own section; the raise_fault that follows it is next in work.
AfterRestart(boot, sess) ==
  [sup EXCEPT !.boot = boot, !.sess = sess, !.restart_latched = TRUE,
              !.online = TRUE, !.comm_loss_latched = FALSE]

\* The next critical section the worker owes. A sleeping worker with work left
\* is still inside apply_comm_loss.
do_work ==
  /\ work # <<>>
  /\ work' = Tail(work)
  /\ LET w == Head(work) IN
       \/ /\ w.call = "raise_fault"
          /\ raise_fault(w.code) /\ UNCHANGED sup
       \/ /\ w.call = "set_interlock_ready"
          /\ set_interlock_ready(w.ready) /\ UNCHANGED sup
       \/ /\ w.call = "observe_output_status"
          /\ observe_output_status(w.sess, w.seq, w.applied) /\ UNCHANGED sup
       \/ /\ w.call = "note_node_restart"
          /\ sup' = AfterRestart(w.boot, w.sess) /\ UNCHANGED rt_vars
       \/ /\ w.call = "refresh_heartbeat"
          /\ sup' = [sup EXCEPT !.last_heartbeat = w.at] /\ UNCHANGED rt_vars
  /\ UNCHANGED <<queue, overflow, tick, app, io>>

-----------------------------------------------------------------------------
(* The application, through RuntimeDaemon. *)

\* boot, activate, deactivate and resume are one call of handle() each: boot()'s
\* look at the mode first only changes what it returns.
app_handle(e) ==
  /\ app = "idle"
  /\ handle(e)
  /\ UNCHANGED sup_vars

\* clear_fault() takes a snapshot, and only a faulted runtime is asked further.
clear_fault_snapshot ==
  /\ app = "idle"
  /\ app' = IF machine.mode = "Fault" THEN "acknowledge" ELSE "clear"
  /\ UNCHANGED <<rt_vars, queue, overflow, sup, tick, work, io>>

\* The conditions acknowledge_fault_clear() refuses on.
Blocked ==
  \/ sup.overflow_latched \/ overflow
  \/ sup.comm_loss_latched
  \/ (sup.ever_seen \/ sup.status_seen \/ sup.restart_latched) /\ ~sup.online
  \/ sup.node_fault # 0

acknowledge_fault_clear ==
  /\ app = "acknowledge"
  /\ IF io = "failed" \/ Blocked
       THEN app' = "idle" /\ UNCHANGED sup
       ELSE app' = "clear" /\ sup' = [sup EXCEPT !.restart_latched = FALSE]
  /\ UNCHANGED <<rt_vars, queue, overflow, tick, work, io>>

clear_fault_handle ==
  /\ app = "clear"
  /\ handle("FaultCleared")
  /\ app' = "idle"
  /\ UNCHANGED <<queue, overflow, sup, tick, work, io>>

-----------------------------------------------------------------------------
\* As RuntimeDaemon::start() leaves it: worker running, booted to Idle.
NsInit ==
  /\ now = 1 /\ scheduler = "running" /\ machine = HandleEvent(NewMachine, "Boot")
  /\ mailbox = None /\ watchdog = Disarmed /\ session = None /\ last_seq = 0 /\ inflight = None
  /\ queue = <<>> /\ overflow = FALSE
  /\ sup = NewSupervisor
  /\ tick = [pc |-> "sleep", t |-> 0, budget |-> 0]
  /\ work = <<>> /\ app = "idle" /\ io = "running"

Worker ==
  \/ tick_wake \/ tick_timeouts \/ apply_overflow_fault
  \/ apply_event \/ apply_comm_loss \/ do_work

Application ==
  \/ \E e \in {"Boot", "ActivateRequest", "DeactivateRequest", "Resume"} : app_handle(e)
  \/ clear_fault_snapshot \/ acknowledge_fault_clear \/ clear_fault_handle

IoThread == (\E e \in InputEvents : push_event(e)) \/ io_error \/ io_stop_reason

NsNext ==
  \/ Worker
  \/ Application
  \/ IoThread
  \/ clock_advance /\ UNCHANGED sup_vars

\* The worker is a thread that never blocks for long: its mutexes are held for a
\* few assignments and its sleep has an absolute deadline.
NsSpec == NsInit /\ [][NsNext]_ns_vars /\ WF_ns_vars(Worker)

-----------------------------------------------------------------------------
Supervisors ==
  [ever_seen : BOOLEAN, online : BOOLEAN, restart_latched : BOOLEAN,
   overflow_latched : BOOLEAN, comm_loss_latched : BOOLEAN,
   boot : Nat, sess : Nat, node_fault : Nat, status_seen : BOOLEAN, last_heartbeat : Nat]

\* Types and bounds of the state; the first conjunct of OnlineIsFresh.
NsTypeOK ==
  /\ RtTypeOK
  /\ Len(queue) <= Capacity /\ \A i \in DOMAIN queue : queue[i].at \in 1 .. now
  /\ overflow \in BOOLEAN
  /\ sup \in Supervisors
  /\ tick \in [pc : {"sleep", "timeouts", "overflow", "events"}, t : 0 .. now,
                budget : 0 .. MaxEventsPerTick]
  /\ Len(work) <= 4
  /\ app \in {"idle", "acknowledge", "clear"}
  /\ io \in {"running", "failing", "failed"}

(***************************************************************************)
(* What the supervisor says of the link is so. A node that has been seen   *)
(* is online exactly when no communication loss is latched, whatever       *)
(* mixture of heartbeats, statuses, restarts and timeouts led there: a     *)
(* latch left set on an online node would block clear_fault for good, one  *)
(* missing on an offline node would let it through. And when the worker    *)
(* sleeps, an online node was heard within the timeout of the tick just    *)
(* handled: a status that reveals a new session sets online without        *)
(* refreshing the heartbeat, so this rests on apply_comm_loss running      *)
(* after the events of the same tick.                                      *)
(***************************************************************************)
OnlineIsFresh ==
  /\ NsTypeOK
  /\ IF sup.ever_seen THEN sup.online = ~sup.comm_loss_latched
                      ELSE ~sup.online /\ ~sup.comm_loss_latched /\ ~sup.restart_latched
  /\ tick.pc = "sleep" /\ sup.online /\ HeartbeatTimeout > 0 =>
       tick.t < sup.last_heartbeat + HeartbeatTimeout

\* Events whose handling raises a fault whatever the supervisor knows.
FaultEvent(e) ==
  ~Foreign(e) /\ (e.kind = "IoError" \/ (e.kind = "NodeStatus" /\ e.fault # 0))

(***************************************************************************)
(* Every fault the I/O thread reports closes the output: a queued I/O      *)
(* error or node fault, and a queue overflow (whose event is lost), each   *)
(* lead to a moment outside Active, however the application interleaves    *)
(* its own calls.                                                          *)
(***************************************************************************)
FaultsReachRuntime ==
  /\ (\E i \in DOMAIN queue : FaultEvent(queue[i].event)) ~> (machine.mode # "Active")
  /\ (overflow /\ ~sup.overflow_latched) ~> (machine.mode # "Active")
=============================================================================
