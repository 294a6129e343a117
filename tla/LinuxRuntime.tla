---------------------------- MODULE LinuxRuntime ----------------------------
(***************************************************************************)
(* LinuxRuntime (linux/src/runtime/linux_runtime.cpp) with the mailbox and *)
(* the command watchdog it owns. Every public operation takes state_mutex_ *)
(* once, so each is one atomic action here. An operation that reads the    *)
(* monotonic clock does so BEFORE it takes the lock: its parameter t is    *)
(* that sample, which may be older than the clock when the lock is held.   *)
(*                                                                         *)
(* An operation that the code refuses (an Error, accepted = false) leaves  *)
(* every variable alone; the operators below are therefore total, and a    *)
(* caller's program counter moves on whatever the answer.                  *)
(***************************************************************************)
EXTENDS RuntimeStateMachine, Naturals

CONSTANTS
  None,            \* an empty std::optional
  Commands,        \* the output commands an application may publish
  CommandTimeout,  \* RuntimeConfig::command_timeout
  AckTimeout,      \* RuntimeConfig::output_ack_timeout
  WireMax,         \* largest u16 of CAN V1 (65535 in the code)
  MaxTime,         \* bound: the clock stops here
  MaxLag           \* bound: age of a clock sample when the lock is taken

\* mask and values are sets of output lines; deadline_ns is absolute.
OutputCommands ==
  [session : Nat, sequence : Nat, mask : SUBSET Nat, values : SUBSET Nat, deadline : Nat]

ASSUME RuntimeAssumption ==
  /\ Commands \subseteq OutputCommands
  /\ None \notin OutputCommands
  /\ None \notin Nat
  /\ CommandTimeout \in Nat \ {0}
  /\ AckTimeout \in Nat \ {0}
  /\ WireMax \in Nat \ {0}
  /\ MaxTime \in Nat \ {0}
  /\ MaxLag \in Nat

InFlights == [session : Nat, sequence : Nat, at : Nat]

ASSUME NoneIsNotInFlight == None \notin InFlights

VARIABLES
  now,        \* CLOCK_MONOTONIC
  scheduler,  \* worker thread: "joined", "running" or "exited" (not yet joined)
  machine,    \* state_machine_
  mailbox,    \* mailbox_'s slot: a command or None
  watchdog,   \* command_watchdog_: armed_ and last_kick_ns_
  session,    \* active_session_id_
  last_seq,   \* last_output_sequence_
  inflight    \* output_ack_pending_ with last_sent_*, or None

output_path == <<mailbox, watchdog, session, last_seq, inflight>>

rt_vars == <<now, scheduler, machine, mailbox, watchdog, session, last_seq, inflight>>

-----------------------------------------------------------------------------
\* MonotonicWatchdog. last_kick_ns_ of a disarmed watchdog is never read, and
\* expired_ is not kept: the on_tick whose check() sets it disarms (and so
\* clears it) in the same critical section, so no operation finds it set.
Disarmed == [armed |-> FALSE, kick |-> 0]

ArmedAt(t) == [armed |-> TRUE, kick |-> t]

\* check(t).newly_expired; the code clamps a negative age to 0.
NewlyExpired(w, t) ==
  w.armed /\ t >= w.kick /\ t - w.kick >= CommandTimeout

running == scheduler = "running"

\* scheduler_.running() && can_accept_output(), the gate every output step tests.
GateOpen == running /\ CanAccept(machine)

clear_output_path ==
  /\ watchdog' = Disarmed
  /\ mailbox' = None
  /\ session' = None
  /\ last_seq' = 0
  /\ inflight' = None

-----------------------------------------------------------------------------
\* start(): Busy while an earlier worker has not been joined.
start ==
  /\ scheduler = "joined"
  /\ scheduler' = "running"
  /\ UNCHANGED <<now, machine, output_path>>

\* The worker leaves its loop: asked to stop, a clock error, or a callback
\* that threw.
worker_exit ==
  /\ scheduler = "running"
  /\ scheduler' = "exited"
  /\ UNCHANGED <<now, machine, output_path>>

\* stop(), after its request_stop() and join(): the machine is replaced whole.
stop ==
  /\ scheduler # "running"
  /\ scheduler' = "joined"
  /\ machine' = NewMachine
  /\ clear_output_path
  /\ UNCHANGED now

\* handle(event): FaultDetected is refused, ActivateRequest needs the worker.
HandleRefused(e) ==
  e = "FaultDetected" \/ (e = "ActivateRequest" /\ ~running)

\* TransitionResult::accepted as the caller of handle() sees it.
HandleAccepted(e) == ~HandleRefused(e) /\ Accepts(machine, e)

handle(e) ==
  LET next == IF HandleRefused(e) THEN machine ELSE HandleEvent(machine, e)
  IN  /\ machine' = next
      /\ IF (machine.mode = "Active") # (next.mode = "Active")
           THEN clear_output_path
           ELSE UNCHANGED output_path
      /\ UNCHANGED <<now, scheduler>>

\* raise_fault(code): code, mode and output path in one critical section. The
\* code is stored even when the mode refuses FaultDetected.
raise_fault(code) ==
  /\ code # "None"
  /\ machine' = HandleEvent(SetFault(machine, code), "FaultDetected")
  /\ clear_output_path
  /\ UNCHANGED <<now, scheduler>>

\* Mutant of set_interlock_ready: losing the interlock leaves the output path as
\* it is.
set_interlock_ready_keeps_path(ready) ==
  /\ machine' = HandleEvent(machine, IF ready THEN "InterlockReady" ELSE "InterlockLost")
  /\ UNCHANGED <<now, scheduler, output_path>>

set_interlock_ready(ready) ==
  LET next == HandleEvent(machine, IF ready THEN "InterlockReady" ELSE "InterlockLost")
  IN  /\ machine' = next
      /\ IF machine.mode = "Active" /\ next.mode # "Active"
           THEN clear_output_path
           ELSE UNCHANGED output_path
      /\ UNCHANGED <<now, scheduler>>

\* The checks of publish_output_command up to the session, which the first
\* command that passes them binds; the sequence is compared only after that.
SessionAccepted(c, t) ==
  /\ GateOpen
  /\ c.session # 0 /\ c.sequence # 0 /\ c.mask # {}
  /\ c.deadline > t
  /\ session \in {None, c.session}

PublishAccepted(c, t) == SessionAccepted(c, t) /\ c.sequence > last_seq

\* Mutant of publish_output_command: an admitted command does not arm the
\* watchdog.
publish_does_not_arm(c, t) ==
  /\ session' = IF SessionAccepted(c, t) THEN c.session ELSE session
  /\ IF PublishAccepted(c, t)
       THEN last_seq' = c.sequence /\ mailbox' = c
       ELSE UNCHANGED <<last_seq, mailbox>>
  /\ UNCHANGED <<now, scheduler, machine, inflight, watchdog>>

publish_output_command(c, t) ==
  /\ session' = IF SessionAccepted(c, t) THEN c.session ELSE session
  /\ IF PublishAccepted(c, t)
       THEN /\ last_seq' = c.sequence
            /\ mailbox' = c
            /\ watchdog' = ArmedAt(t)
       ELSE UNCHANGED <<last_seq, mailbox, watchdog>>
  /\ UNCHANGED <<now, scheduler, machine, inflight>>

\* What try_consume_output_command returns.
ConsumeResult(t) ==
  IF GateOpen /\ inflight = None /\ mailbox # None
    THEN IF mailbox.deadline > t THEN mailbox ELSE None
    ELSE None

\* A closed gate empties the slot, an unanswered command keeps it, otherwise
\* the slot is taken; an expired command was the last one, so the watchdog is
\* disarmed (maybe_disarm_idle_command_watchdog_locked).
try_consume_output_command(t) ==
  /\ mailbox' = IF GateOpen /\ inflight # None THEN mailbox ELSE None
  /\ watchdog' = IF GateOpen /\ inflight = None /\ mailbox # None /\ ConsumeResult(t) = None
                   THEN Disarmed ELSE watchdog
  /\ UNCHANGED <<now, scheduler, machine, session, last_seq, inflight>>

output_command_sendable(c, t) ==
  GateOpen /\ inflight = None /\ session = c.session /\ c.deadline > t

\* Mutant of NoteAccepted: a second unanswered frame is registered over the
\* first.
NoteAcceptedTwice(s, q, t) ==
  s # 0 /\ q # 0 /\ t > 0 /\ GateOpen /\ session # None /\ session % (WireMax + 1) = s

\* note_output_command_sent(wire session, wire sequence, t).
NoteAccepted(s, q, t) ==
  /\ s # 0 /\ q # 0 /\ t > 0
  /\ GateOpen /\ session # None
  /\ session % (WireMax + 1) = s
  /\ inflight = None

note_output_command_sent(s, q, t) ==
  /\ inflight' = IF NoteAccepted(s, q, t)
                   THEN [session |-> s, sequence |-> q, at |-> t] ELSE inflight
  /\ UNCHANGED <<now, scheduler, machine, mailbox, watchdog, session, last_seq>>

\* observe_output_status(wire session, wire sequence, result): only the exact
\* APPLIED answer closes the in-flight command.
AckMatches(s, q, applied) ==
  applied /\ inflight # None /\ inflight.session = s /\ inflight.sequence = q

observe_output_status(s, q, applied) ==
  /\ inflight' = IF AckMatches(s, q, applied) THEN None ELSE inflight
  /\ watchdog' = IF AckMatches(s, q, applied) /\ mailbox = None THEN Disarmed ELSE watchdog
  /\ UNCHANGED <<now, scheduler, machine, mailbox, session, last_seq>>

\* Mutant of AckExpired: the timeout is off by one.
AckExpiredLate(t) ==
  CanAccept(machine) /\ inflight # None /\ t >= inflight.at /\ t - inflight.at > AckTimeout

AckExpired(t) ==
  CanAccept(machine) /\ inflight # None /\ t >= inflight.at /\ t - inflight.at >= AckTimeout

CommandExpired(t) == CanAccept(machine) /\ NewlyExpired(watchdog, t)

\* The locked section of on_tick(tick) with t = tick.actual_ns: the ACK timeout
\* is decided first and takes the mode out of Active.
on_tick(t) ==
  /\ running
  /\ \/ /\ AckExpired(t)
        /\ machine' = HandleEvent(SetFault(machine, "AckTimeout"), "Hold")
        /\ clear_output_path
     \/ /\ ~AckExpired(t) /\ CommandExpired(t)
        /\ machine' = HandleEvent(machine, "CommandTimeout")
        /\ clear_output_path
     \/ /\ ~AckExpired(t) /\ ~CommandExpired(t)
        /\ UNCHANGED <<machine, output_path>>
  /\ UNCHANGED <<now, scheduler>>

\* The monotonic clock; nothing else moves. (External: CLOCK_MONOTONIC.)
clock_advance ==
  /\ now < MaxTime
  /\ now' = now + 1
  /\ UNCHANGED <<scheduler, machine, output_path>>

-----------------------------------------------------------------------------
\* The most general set of callers: any operation, any argument, any thread.
Samples == {t \in 1 .. now : t + MaxLag >= now}

RtInit ==
  /\ now = 1
  /\ scheduler = "joined"
  /\ machine = NewMachine
  /\ mailbox = None
  /\ watchdog = Disarmed
  /\ session = None
  /\ last_seq = 0
  /\ inflight = None

RtNext ==
  \/ clock_advance
  \/ start \/ worker_exit \/ stop
  \/ \E e \in RuntimeEvents : handle(e)
  \/ \E code \in FaultCodes : raise_fault(code)
  \/ \E ready \in BOOLEAN : set_interlock_ready(ready)
  \/ \E c \in Commands, t \in Samples : publish_output_command(c, t)
  \/ \E t \in Samples : try_consume_output_command(t)
  \/ \E s, q \in 0 .. WireMax, t \in Samples : note_output_command_sent(s, q, t)
  \/ \E s, q \in 0 .. WireMax, applied \in BOOLEAN : observe_output_status(s, q, applied)
  \/ \E t \in Samples : on_tick(t)

RtSpec == RtInit /\ [][RtNext]_rt_vars
-----------------------------------------------------------------------------
(***************************************************************************)
(* Properties of the runtime under every caller.                           *)
(***************************************************************************)
Watchdogs == [armed : BOOLEAN, kick : Nat]

RtTypeOK ==
  /\ now \in 1 .. MaxTime
  /\ scheduler \in {"joined", "running", "exited"}
  /\ machine \in Machines
  /\ mailbox \in OutputCommands \cup {None}
  /\ watchdog \in Watchdogs
  /\ session \in Nat \cup {None}
  /\ last_seq \in Nat
  /\ inflight \in InFlights \cup {None}

(***************************************************************************)
(* Nothing survives outside Active: the mailbox, the bound session, the    *)
(* sequence high-water mark, the in-flight command and the watchdog are    *)
(* all clear in every other mode, whichever of handle, raise_fault,        *)
(* set_interlock_ready, on_tick and stop left Active, and whatever was     *)
(* published, consumed or acknowledged around it.                          *)
(***************************************************************************)
ClosedPathIsEmpty ==
  machine.mode # "Active" =>
    /\ mailbox = None /\ session = None /\ inflight = None
    /\ last_seq = 0 /\ watchdog = Disarmed

(***************************************************************************)
(* can_accept_output() reads the mode and the interlock and deliberately   *)
(* not the fault. That is enough because Active is only ever held with the *)
(* interlock ready and no fault recorded.                                  *)
(***************************************************************************)
ActiveIsHealthy ==
  machine.mode = "Active" => machine.interlock /\ machine.fault = "None"

(***************************************************************************)
(* A command waiting in the mailbox is the newest admitted one of the      *)
(* bound session and is supervised: the watchdog is armed, so the next     *)
(* overdue on_tick will act on it. The disarm paths (expired consume,      *)
(* matching ACK) never disarm under a waiting command.                     *)
(***************************************************************************)
WaitingIsSupervised ==
  mailbox # None =>
    /\ watchdog.armed
    /\ mailbox.session = session /\ mailbox.sequence = last_seq

(***************************************************************************)
(* The in-flight command belongs to the bound session as the wire carries  *)
(* it, so the ACK that closes it is one for the current session.           *)
(***************************************************************************)
InFlightIsOfSession ==
  inflight # None =>
    /\ session # None /\ inflight.session = session % (WireMax + 1)
    /\ inflight.session # 0 /\ inflight.sequence # 0

(***************************************************************************)
(* Active is entered in one way only: an activation from Idle, with the    *)
(* worker running and the interlock ready. No fault clearing, resume,      *)
(* e-stop reset, restart or interlock recovery reopens the output.         *)
(***************************************************************************)
OnlyActivationOpens ==
  [][machine.mode # "Active" /\ machine'.mode = "Active" =>
       machine.mode = "Idle" /\ machine.interlock /\ running]_rt_vars

(***************************************************************************)
(* While Active, the bound session is pinned and admitted sequences only   *)
(* grow: a command is put in the mailbox at most once.                     *)
(***************************************************************************)
AdmissionIsMonotonic ==
  [][machine.mode = "Active" /\ machine'.mode = "Active" =>
       /\ session # None => session' = session
       /\ last_seq' >= last_seq
       /\ mailbox' \notin {None, mailbox} => last_seq' > last_seq]_rt_vars

\* LinuxRuntime implements the abstract output gate.
Gate == INSTANCE OutputGate WITH
  open <- machine.mode = "Active", slot <- mailbox, bound <- session,
  high <- last_seq, flight <- inflight,
  Command <- Commands, Flight <- InFlights

(***************************************************************************)
(* Every operation of LinuxRuntime is, on the output path, one step of the *)
(* abstract gate or no step at all.                                        *)
(***************************************************************************)
ImplementsOutputGate == Gate!GateSpec
=============================================================================
