--------------------------- MODULE NodeSimulator ----------------------------
(***************************************************************************)
(* rcr_node_sim: the event loop of the simulated node around CanNodeLogic, *)
(* with its one timer for the output lease and the commands it answers     *)
(* late, the injected restart, and the end by signal or duration.          *)
(*                                                                         *)
(* Times are what is left until an instant, so a deadline that has passed  *)
(* is 0. The loop is one thread; a tick may come between any two events it *)
(* handles, or between two frames. signalfd and duration_fd are one "end"; *)
(* illegal_fd, on which a bad frame goes out, is left out.                 *)
(***************************************************************************)
EXTENDS CanV1, Sequences, SequencesExt

CONSTANTS
  DelayMs,        \* what fault_delay_response_ms may be, 0 for none
  Validities,     \* validity_10ms of the commands
  MaxSession16,   \* session ids wrap behind this: 65535
  MaxSimCommands, \* bound: commands on the bus
  MaxSimRx        \* bound: frames the socket holds

ASSUME SimulatorAssumption ==
  /\ DelayMs \subseteq Nat
  /\ Validities \subseteq 1 .. MaxValidity
  /\ MaxSession16 \in Nat \ {0} /\ MaxSimCommands \in Nat /\ MaxSimRx \in Nat

VARIABLES
  delay_option,  \* options.fault_delay_response_ms
  logic,         \* CanNodeLogic
  pending,       \* commands to be answered later
  delay_timer,   \* delay_fd: what it is armed for, 0 when it is not
  readable,      \* file descriptors that can be read
  batch,         \* events of this epoll_wait that are still to be handled
  draining,      \* drain_can has not seen the end of the queue
  can_rx,        \* frames in the socket
  oneshots,      \* the end and restart_fd, when they have not come yet
  sim_running,   \* running
  sim_sent,      \* ghost: commands put on the bus
  granted        \* ghost: session of the command that the output stands on

sim_inputs == <<can_rx, oneshots, sim_sent>>

sim_vars == <<delay_option, logic, pending, delay_timer, readable, batch, draining,
              sim_inputs, sim_running, granted>>

-----------------------------------------------------------------------------
(* CanNodeLogic                                                            *)

NewLogic(session, ready) ==
  [session |-> session, interlock_ready |-> ready, output_bits |-> {}, lease_active |-> FALSE,
   lease |-> 0, last_sequence |-> 0]

next_nonzero_u16(value) == IF value = MaxSession16 THEN 1 ELSE value + 1

\* Everything but the configuration goes: output, lease and sequence history.
soft_restart(n) == NewLogic(next_nonzero_u16(n.session), n.interlock_ready)

\* At the deadline the authority is over. The sequence history is kept.
expire_output_lease(n) ==
  IF n.lease_active /\ n.lease = 0
    THEN [n EXCEPT !.output_bits = {}, !.lease_active = FALSE] ELSE n

Refused(n, c, left) ==
  \/ c.session # n.session
  \/ ~n.interlock_ready
  \/ n.last_sequence # 0 /\ ~seq_newer(c.sequence, n.last_sequence)
  \/ left = 0

\* left is what is left of the validity, which runs from the reception.
apply_output_command(node, c, left) ==
  LET n == expire_output_lease(node) IN
  IF Refused(n, c, left) THEN n
  ELSE [n EXCEPT !.output_bits = (@ \ c.mask) \cup (c.values \cap c.mask),
                 !.lease_active = TRUE, !.lease = left, !.last_sequence = c.sequence]

-----------------------------------------------------------------------------
(* The timer and the late answers                                          *)

Earliest(S) == CHOOSE x \in S : \A y \in S : x <= y

\* One timer for whatever comes first; armed for 1 ms when that has passed.
Deadlines(n, p) ==
  {p[i].due : i \in DOMAIN p} \cup (IF n.lease_active THEN {n.lease} ELSE {})

\* Mutant of DelayFor: the lease is looked at only when no answer is pending.
DelayForAnswersFirst(n, p) ==
  LET late == {p[i].due : i \in DOMAIN p}
      due  == IF late = {} THEN n.lease ELSE Earliest(late)
  IN  IF Deadlines(n, p) = {} THEN 0 ELSE IF due = 0 THEN 1 ELSE due

DelayFor(n, p) ==
  LET due == Earliest(Deadlines(n, p))
  IN  IF Deadlines(n, p) = {} THEN 0 ELSE IF due = 0 THEN 1 ELSE due

\* timerfd_settime also forgets an expiry that nobody has read.
arm_deadline_timer(fds) ==
  /\ delay_timer' = DelayFor(logic', pending')
  /\ readable' = fds \ {"delay"}

\* Ghost: the session that the output of the new state stands on.
Grant(n, c, left) == IF Refused(expire_output_lease(n), c, left) THEN granted ELSE c.session

Due(item) == item.due = 0

Late(item) == item.due # 0

\* Mutant of flush_pending_commands: the lease is tested only when a command is
\* applied.
flush_does_not_expire(fds) ==
  LET due == SelectSeq(pending, Due)
      Apply(n, item) == apply_output_command(n, item.command, item.left)
  IN  /\ logic' = FoldLeft(Apply, logic, due)
      /\ granted' = IF logic'.last_sequence # logic.last_sequence
                    THEN Last(SelectSeq(due, LAMBDA i : i.command.sequence
                                                        = logic'.last_sequence)).command.session
                    ELSE granted
      /\ pending' = SelectSeq(pending, Late)
      /\ arm_deadline_timer(fds)

flush_pending_commands(fds) ==
  LET due == SelectSeq(pending, Due)
      Apply(n, item) == apply_output_command(n, item.command, item.left)
  IN  /\ logic' = FoldLeft(Apply, expire_output_lease(logic), due)
      /\ granted' = IF logic'.last_sequence # logic.last_sequence
                    THEN Last(SelectSeq(due, LAMBDA i : i.command.sequence
                                                        = logic'.last_sequence)).command.session
                    ELSE granted
      /\ pending' = SelectSeq(pending, Late)
      /\ arm_deadline_timer(fds)

handle_command_now_or_later(c) ==
  LET left == deadline_from_validity(0, c.validity)
  IN  /\ \/ /\ delay_option = 0
            /\ logic' = apply_output_command(logic, c, left)
            /\ granted' = Grant(logic, c, left)
            /\ UNCHANGED pending
         \/ /\ delay_option # 0
            /\ pending' = Append(pending, [command |-> c, left |-> left, due |-> delay_option])
            /\ UNCHANGED <<logic, granted>>
      /\ arm_deadline_timer(readable)

-----------------------------------------------------------------------------
(* The event loop                                                          *)

Readable == readable \cup IF can_rx # <<>> THEN {"can"} ELSE {}

epoll_wait ==
  /\ sim_running /\ batch = {} /\ Readable # {}
  /\ batch' = Readable
  /\ UNCHANGED <<delay_option, logic, pending, delay_timer, readable, draining,
                 sim_inputs, sim_running, granted>>

Handle(fd) ==
  /\ sim_running /\ fd \in batch /\ ~draining
  /\ UNCHANGED <<delay_option, sim_inputs>>

\* A signal, or the duration: the rest of the batch is not handled.
on_end ==
  /\ Handle("end")
  /\ sim_running' = FALSE /\ batch' = {}
  /\ readable' = readable \ {"end"}
  /\ UNCHANGED <<logic, pending, delay_timer, draining, granted>>

\* Both flush. The event may be older than the timer: the heartbeat before it
\* in the same batch has armed it anew.
on_timer(fd) ==
  /\ fd \in {"heartbeat", "delay"} /\ Handle(fd)
  /\ flush_pending_commands(readable \ {fd})
  /\ batch' = batch \ {fd}
  /\ UNCHANGED <<draining, sim_running>>

\* What is pending stays so, and is refused when its time comes.
on_restart ==
  /\ Handle("restart")
  /\ logic' = soft_restart(logic)
  /\ UNCHANGED <<pending, draining, sim_running, granted>>
  /\ arm_deadline_timer(readable \ {"restart"})
  /\ batch' = batch \ {"restart"}

on_can ==
  /\ Handle("can")
  /\ draining' = TRUE /\ batch' = batch \ {"can"}
  /\ UNCHANGED <<logic, pending, delay_timer, readable, sim_running, granted>>

\* Frames for others, and those that do not decode, change nothing.
drain_can ==
  /\ draining
  /\ \/ /\ can_rx = <<>>
        /\ draining' = FALSE
        /\ UNCHANGED <<logic, pending, delay_timer, readable, can_rx, granted>>
     \/ /\ can_rx # <<>> /\ Head(can_rx).kind = "command"
        /\ handle_command_now_or_later(Head(can_rx).command)
        /\ can_rx' = Tail(can_rx)
        /\ UNCHANGED draining
     \/ /\ can_rx # <<>> /\ Head(can_rx).kind # "command"
        /\ can_rx' = Tail(can_rx)
        /\ UNCHANGED <<logic, pending, delay_timer, readable, draining, granted>>
  /\ UNCHANGED <<delay_option, batch, oneshots, sim_running, sim_sent>>

-----------------------------------------------------------------------------
(* Time, the bus and whoever stops the process                             *)

Less(x) == IF x = 0 THEN 0 ELSE x - 1

tick_ms ==
  /\ sim_running
  /\ logic' = [logic EXCEPT !.lease = Less(@)]
  /\ pending' = [i \in DOMAIN pending |->
                   [pending[i] EXCEPT !.left = Less(@), !.due = Less(@)]]
  /\ delay_timer' = Less(delay_timer)
  /\ readable' = readable \cup IF delay_timer = 1 THEN {"delay"} ELSE {}
  /\ UNCHANGED <<delay_option, batch, draining, sim_inputs, sim_running, granted>>

\* Heartbeats come at any time here.
heartbeat_expires ==
  /\ sim_running /\ readable' = readable \cup {"heartbeat"}
  /\ UNCHANGED <<delay_option, logic, pending, delay_timer, batch, draining, sim_inputs,
                 sim_running, granted>>

oneshot_expires ==
  /\ sim_running
  /\ \E fd \in oneshots :
       /\ oneshots' = oneshots \ {fd}
       /\ readable' = readable \cup {fd}
  /\ UNCHANGED <<delay_option, logic, pending, delay_timer, batch, draining, can_rx,
                 sim_running, sim_sent, granted>>

\* The sender numbers its commands, and may not have heard of a restart.
BusFrames ==
  [kind : {"command"},
   command : [session : {1, next_nonzero_u16(1)}, sequence : {WireSequence(sim_sent + 1)},
              mask : {WireLines}, values : {{}, WireLines}, validity : Validities]]
  \cup {[kind |-> "other"]}

bus_delivers ==
  /\ sim_running /\ sim_sent < MaxSimCommands /\ Len(can_rx) < MaxSimRx
  /\ \E f \in BusFrames : can_rx' = Append(can_rx, f)
  /\ sim_sent' = sim_sent + 1
  /\ UNCHANGED <<delay_option, logic, pending, delay_timer, readable, batch, draining,
                 oneshots, sim_running, granted>>

SimInit ==
  /\ delay_option \in DelayMs
  /\ logic = NewLogic(1, TRUE)
  /\ pending = <<>> /\ delay_timer = 0
  /\ readable = {} /\ batch = {} /\ draining = FALSE /\ can_rx = <<>>
  /\ oneshots = {"end", "restart"}
  /\ sim_running = TRUE /\ sim_sent = 0 /\ granted = 0

Loop ==
  \/ epoll_wait
  \/ on_end
  \/ \E fd \in {"heartbeat", "delay"} : on_timer(fd)
  \/ on_restart \/ on_can \/ drain_can

SimNext == Loop \/ tick_ms \/ heartbeat_expires \/ oneshot_expires \/ bus_delivers

\* The thread is scheduled and the clock goes on.
SimFairness == WF_sim_vars(Loop) /\ WF_sim_vars(tick_ms)

-----------------------------------------------------------------------------
(* Properties. *)

(***************************************************************************)
(* Whatever the order of events in a batch: an output stands on a lease    *)
(* that a command of this very session was granted, and while there is a   *)
(* lease or a late answer the one timer is armed for no later than the     *)
(* first of them (arm_deadline_timer), or has expired unread.              *)
(***************************************************************************)
DeadlineIsWatched ==
  /\ logic.output_bits # {} => logic.lease_active /\ granted = logic.session
  /\ sim_running =>
       \A d \in Deadlines(logic, pending) :
         "delay" \in readable \/ delay_timer \in 1 .. (IF d = 0 THEN 1 ELSE d)

(***************************************************************************)
(* Once nobody sends any more, the outputs go neutral, unless the process  *)
(* is told to end first.                                                   *)
(***************************************************************************)
OutputFallsBack == []<>(logic.output_bits = {} \/ ~sim_running)
=============================================================================
