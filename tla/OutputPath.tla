----------------------------- MODULE OutputPath -----------------------------
(***************************************************************************)
(* A command's whole way: the application publishes it to LinuxRuntime,    *)
(* CanIoLoop::pump_output takes it and sends it, the node applies it and   *)
(* answers, and the worker closes it or times it out.                      *)
(*                                                                         *)
(* pump_output runs on the I/O thread and takes state_mutex_ three times   *)
(* (consume, sendable, note), reading the clock and writing the socket in  *)
(* between; the application and the worker may run between any two of its  *)
(* steps. The same thread reads the socket, so an answer enters the input  *)
(* queue only between two rounds of the pump. The bus is two FIFO channels *)
(* that may lose frames.                                                   *)
(***************************************************************************)
EXTENDS LinuxRuntime, Sequences

CONSTANTS
  ValidityUnit, MaxValidity, WireLines,  \* as in CanV1
  ClockMod,                              \* as in CanNode; MaxTime is far below it
  NodeSession,                           \* the session of the one node
  MaxSends,                              \* bound: frames sent in a behaviour
  MaxActivations                         \* bound: activations in a behaviour

ASSUME OutputPathAssumption == MaxSends \in Nat /\ MaxActivations \in Nat

INSTANCE CanNode

VARIABLES
  pending,    \* CanIoLoop::pending_output_
  pump,       \* pump_output: its step, the frame it encoded and when, and
              \* the activation its pending command was taken in
  down, up,   \* frames to the node, answers from it, oldest first
  answers,    \* OutputStatus events in the input queue
  node,       \* the CAN node
  sends,      \* how many frames have been sent
  epoch,      \* how many activations there have been
  crossed,    \* whether an answer of an earlier one has closed a command of this
  fault_due   \* an IoError event the supervisor has not handled yet

path_vars == <<pending, pump, down, up, answers, node, sends, epoch, crossed, fault_due>>

op_vars == <<rt_vars, path_vars>>

IdlePump == [pc |-> "idle", at |-> 0, frame |-> None, epoch |-> 0]

-----------------------------------------------------------------------------
(* The I/O thread. *)

\* The mailbox's latest command, if there is one, replaces the pending one.
pump_consume ==
  \E t \in Samples :
    LET c    == ConsumeResult(t)
        next == IF c = None THEN pending ELSE c
    IN  /\ pump.pc = "idle"
        /\ try_consume_output_command(t)
        /\ pending' = next
        /\ pump' = [pump EXCEPT !.pc = IF next = None THEN "idle" ELSE "check",
                                !.epoch = IF c = None THEN @ ELSE epoch]
        /\ UNCHANGED <<down, up, answers, node, sends, epoch, crossed, fault_due>>

\* The state, session and deadline are checked again; otherwise it is dropped.
pump_check ==
  /\ pump.pc = "check"
  /\ \E t \in Samples :
       \/ /\ output_command_sendable(pending, t)
          /\ pump' = [pump EXCEPT !.pc = "encode"] /\ UNCHANGED pending
       \/ /\ ~output_command_sendable(pending, t)
          /\ pump' = IdlePump /\ pending' = None
  /\ UNCHANGED <<rt_vars, down, up, answers, node, sends, epoch, crossed, fault_due>>

\* A command the wire cannot carry is dropped with a ProtocolReject event, which
\* the supervisor only counts.
pump_encode ==
  /\ pump.pc = "encode"
  /\ IF WireEncodable(pending, now)
       THEN /\ pump' = [pump EXCEPT !.pc = "send", !.at = now,
                                    !.frame = to_wire_command(pending, now)]
            /\ UNCHANGED pending
       ELSE pump' = IdlePump /\ pending' = None
  /\ UNCHANGED <<rt_vars, down, up, answers, node, sends, epoch, crossed, fault_due>>

\* The frame carries, for the properties, which send it was and of which
\* activation, the deadline its command had and when it was encoded.
pump_send ==
  /\ pump.pc = "send" /\ sends < MaxSends
  /\ sends' = sends + 1
  /\ down' = Append(down, [wire |-> pump.frame, id |-> sends + 1, epoch |-> epoch,
                           deadline |-> pending.deadline, at |-> pump.at])
  /\ pump' = [pump EXCEPT !.pc = "note"]
  /\ UNCHANGED <<rt_vars, pending, up, answers, node, epoch, crossed, fault_due>>

\* EAGAIN: the pending command is kept for the next round.
pump_would_block ==
  /\ pump.pc = "send"
  /\ pump' = [pump EXCEPT !.pc = "idle", !.at = 0, !.frame = None]
  /\ UNCHANGED <<rt_vars, pending, down, up, answers, node, sends, epoch, crossed, fault_due>>

StopPump ==
  /\ pump' = [IdlePump EXCEPT !.pc = "stopped"]
  /\ pending' = None
  /\ fault_due' = TRUE

pump_send_error ==
  /\ pump.pc = "send"
  /\ StopPump
  /\ UNCHANGED <<rt_vars, down, up, answers, node, sends, epoch, crossed>>

\* A frame that cannot be registered stops the loop with SendFailure.
pump_note ==
  /\ pump.pc = "note"
  /\ note_output_command_sent(pump.frame.session, pump.frame.sequence, pump.at)
  /\ IF NoteAccepted(pump.frame.session, pump.frame.sequence, pump.at)
       THEN pump' = IdlePump /\ pending' = None /\ UNCHANGED fault_due
       ELSE StopPump
  /\ UNCHANGED <<down, up, answers, node, sends, epoch, crossed>>

\* Mutant of io_receive: frames are read by a thread of their own.
io_receive_any_time ==
  /\ up # <<>>
  /\ up' = Tail(up)
  /\ answers' = Append(answers, Head(up))
  /\ UNCHANGED <<rt_vars, pending, pump, down, node, sends, epoch, crossed, fault_due>>

\* handle_can_ready: the loop's other half, for one OutputStatus frame.
io_receive ==
  /\ pump.pc = "idle" /\ up # <<>>
  /\ up' = Tail(up)
  /\ answers' = Append(answers, Head(up))
  /\ UNCHANGED <<rt_vars, pending, pump, down, node, sends, epoch, crossed, fault_due>>

Pump ==
  \/ pump_consume \/ pump_check \/ pump_encode \/ pump_send
  \/ pump_would_block \/ pump_send_error \/ pump_note \/ io_receive

-----------------------------------------------------------------------------
(* The node and the bus. *)

node_receive ==
  /\ down # <<>>
  /\ LET f == Head(down) IN
       /\ node' = apply_command(node, f.wire, now, now)
       /\ up' = Append(up, [session |-> node.session, sequence |-> f.wire.sequence,
                            id |-> f.id, epoch |-> f.epoch,
                            applied |-> CommandResult(expire_lease(node, now), f.wire, now, now)
                                          = "Applied"])
  /\ down' = Tail(down)
  /\ UNCHANGED <<rt_vars, pending, pump, answers, sends, epoch, crossed, fault_due>>

node_expire ==
  /\ node' = expire_lease(node, now)
  /\ UNCHANGED <<rt_vars, pending, pump, down, up, answers, sends, epoch, crossed, fault_due>>

lose_frame ==
  /\ \/ down # <<>> /\ down' = Tail(down) /\ UNCHANGED up
     \/ up # <<>> /\ up' = Tail(up) /\ UNCHANGED down
  /\ UNCHANGED <<rt_vars, pending, pump, answers, node, sends, epoch, crossed, fault_due>>

-----------------------------------------------------------------------------
(* The worker: its own timeouts, and the events the supervisor hands on. *)

worker_tick == (\E t \in Samples : on_tick(t)) /\ UNCHANGED path_vars

deliver_status ==
  /\ answers # <<>>
  /\ LET a == Head(answers) IN observe_output_status(a.session, a.sequence, a.applied)
  /\ answers' = Tail(answers)
  /\ crossed' = (crossed \/ (inflight # inflight' /\ Head(answers).epoch # epoch))
  /\ UNCHANGED <<pending, pump, down, up, node, sends, epoch, fault_due>>

raise_io_fault ==
  /\ fault_due
  /\ raise_fault("Internal")
  /\ fault_due' = FALSE
  /\ UNCHANGED <<pending, pump, down, up, answers, node, sends, epoch, crossed>>

(* The application. *)

app_publish ==
  (\E c \in Commands, t \in Samples : publish_output_command(c, t)) /\ UNCHANGED path_vars

app_activate ==
  /\ epoch < MaxActivations
  /\ handle("ActivateRequest")
  /\ epoch' = IF HandleAccepted("ActivateRequest") THEN epoch + 1 ELSE epoch
  /\ crossed' = (crossed /\ ~HandleAccepted("ActivateRequest"))
  /\ UNCHANGED <<pending, pump, down, up, answers, node, sends, fault_due>>

app_close == (\E e \in {"DeactivateRequest", "Resume", "Boot"} : handle(e)) /\ UNCHANGED path_vars

-----------------------------------------------------------------------------
\* The daemon is up and the node has reported its interlock ready.
OpInit ==
  /\ now = 1 /\ scheduler = "running"
  /\ machine = [mode |-> "Idle", interlock |-> TRUE, fault |-> "None"]
  /\ mailbox = None /\ watchdog = Disarmed /\ session = None /\ last_seq = 0 /\ inflight = None
  /\ pending = None /\ pump = IdlePump
  /\ down = <<>> /\ up = <<>> /\ answers = <<>> /\ node = NewNode(NodeSession)
  /\ sends = 0 /\ epoch = 0 /\ crossed = FALSE /\ fault_due = FALSE

Clock == clock_advance /\ UNCHANGED path_vars

OpNext ==
  \/ Pump
  \/ node_receive \/ node_expire \/ lose_frame
  \/ worker_tick \/ deliver_status \/ raise_io_fault
  \/ app_publish \/ app_activate \/ app_close
  \/ Clock

\* Time passes and the worker's tick runs. Nothing is assumed of the application,
\* the pump, the bus or the node.
OpFairness ==
  WF_op_vars(Clock) /\ WF_op_vars(worker_tick)

OpSpec == OpInit /\ [][OpNext]_op_vars /\ OpFairness

-----------------------------------------------------------------------------
\* Types and bounds of the state; the first conjunct of AnswerMeetsItsFrame.
OpTypeOK ==
  /\ RtTypeOK
  /\ pending \in Commands \cup {None}
  /\ pump.pc \in {"idle", "check", "encode", "send", "note", "stopped"}
  /\ pump.pc \in {"check", "encode", "send", "note"} => pending # None
  /\ pump.pc \in {"send", "note"} => {pump.frame.session, pump.frame.sequence} \subseteq 1 .. WireMax
  /\ Len(down) + Len(up) + Len(answers) <= sends /\ sends \in 0 .. MaxSends
  /\ epoch \in 0 .. MaxActivations /\ fault_due \in BOOLEAN
  /\ node.output_bits # {} => node.lease_active

(***************************************************************************)
(* Frames and answers find each other. When the pump registers a frame, no *)
(* other is unanswered: output_command_sendable's answer, two lock         *)
(* sections earlier, is still right, so note_output_command_sent never     *)
(* returns Busy. The node may answer before that, but the worker cannot    *)
(* see the answer then and throw it away: it waits behind the pump's       *)
(* round. And an activation in which no answer of an earlier one has       *)
(* closed a command closes each of its commands by the answer to its own   *)
(* frame, although only 16 bits of the sequence go on the wire.            *)
(***************************************************************************)
AnswerMeetsItsFrame ==
  /\ [](OpTypeOK /\ (pump.pc \in {"encode", "send", "note"} => inflight = None))
  /\ [](pump.pc = "note" => \A i \in DOMAIN answers : answers[i].id # sends)
  /\ [][deliver_status /\ inflight # None /\ inflight' = None /\ ~crossed' =>
           Head(answers).id = sends]_op_vars

(***************************************************************************)
(* The authority the node grants exceeds the application's deadline by     *)
(* less than one validity unit plus the time the frame was under way since *)
(* it was encoded.                                                         *)
(***************************************************************************)
LeaseIsBounded ==
  [][node'.lease_active /\ node'.lease_deadline # node.lease_deadline =>
       node'.lease_deadline < Head(down).deadline + ValidityUnit + (now - Head(down).at)]_op_vars

(***************************************************************************)
(* A sent command does not stay unanswered: it is closed by its APPLIED or *)
(* by leaving Active, whatever the bus loses. (Within the horizon of the   *)
(* clock.)                                                                 *)
(***************************************************************************)
SentIsResolved ==
  (inflight # None /\ inflight.at + AckTimeout <= MaxTime) ~> (inflight = None)

(***************************************************************************)
(* An admitted command does not wait in the mailbox for ever behind a pump *)
(* that does not take it: it is taken, replaced or the runtime leaves      *)
(* Active. (Within the horizon of the clock.)                              *)
(***************************************************************************)
AdmittedIsResolved ==
  \A c \in Commands :
    (mailbox = c /\ watchdog.kick + CommandTimeout <= MaxTime) ~> (mailbox # c)

(***************************************************************************)
(* SPEC.md:232, "a recovery does not replay an old command": the recheck   *)
(* before a send lets through only commands taken since the output was     *)
(* last activated. It compares the session, not the activation.            *)
(***************************************************************************)
NoReplayAcrossActivation ==
  [][pump.pc = "check" /\ pump'.pc = "encode" => pump.epoch = epoch]_op_vars
=============================================================================
