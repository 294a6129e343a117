------------------------- MODULE LinuxRuntimeProofs -------------------------
(***************************************************************************)
(* Proofs about LinuxRuntime, for every set of commands, every timeout and *)
(* every bound on the clock and on the age of a sample.                    *)
(***************************************************************************)
EXTENDS LinuxRuntime, TLAPS

\* publish_output_command binds the session before it compares the sequence; the
\* comparison cannot then refuse the command that bound it, because an unbound
\* session means that no sequence was admitted.
UnboundIsFresh == session = None => last_seq = 0 /\ mailbox = None

\* Inductive: no part is preserved without the others. A matching ACK keeps
\* a waiting command supervised because it tests the mailbox; a publish keeps
\* ClosedPathIsEmpty because the gate implies Active; and so on.
RtInv ==
  /\ RtTypeOK
  /\ ClosedPathIsEmpty
  /\ ActiveIsHealthy
  /\ WaitingIsSupervised
  /\ InFlightIsOfSession
  /\ UnboundIsFresh

Healthy(m) == m.mode = "Active" => m.interlock /\ m.fault = "None"

-----------------------------------------------------------------------------
(***************************************************************************)
(* The state machine. handle() keeps the machine well formed.              *)
(***************************************************************************)
LEMMA HandleEventType ==
  ASSUME NEW m \in Machines, NEW e \in RuntimeEvents
  PROVE  HandleEvent(m, e) \in Machines
BY DEF HandleEvent, Machines, Accepts, Moves, FaultAfter, ClearsFault,
       RuntimeEvents, Modes, FaultCodes

(***************************************************************************)
(* A call of handle() that ends in Active either stayed there or is the    *)
(* activation of an idle machine with its interlock ready, and it leaves   *)
(* no fault recorded.                                                      *)
(***************************************************************************)
LEMMA HandleEventActive ==
  ASSUME NEW m \in Machines, NEW e \in RuntimeEvents,
         Healthy(m), HandleEvent(m, e).mode = "Active"
  PROVE  /\ Healthy(HandleEvent(m, e))
         /\ \/ m.mode = "Active"
            \/ e = "ActivateRequest" /\ m.mode = "Idle" /\ m.interlock
BY DEF HandleEvent, Machines, Accepts, Permitted, Moves, FaultAfter, ClearsFault,
       RuntimeEvents, Modes, FaultCodes, Healthy

(***************************************************************************)
(* The three events the runtime raises on its own (a fault, an ACK timeout *)
(* and a command timeout) never leave or put the machine in Active.        *)
(***************************************************************************)
LEMMA StoppingEventsLeaveActive ==
  ASSUME NEW m \in Machines, NEW e \in {"FaultDetected", "Hold", "CommandTimeout"}
  PROVE  HandleEvent(m, e).mode # "Active"
BY DEF HandleEvent, Machines, Accepts, Permitted, Moves, RuntimeEvents, Modes

(***************************************************************************)
(* set_fault() changes neither the mode nor the shape of the machine.      *)
(***************************************************************************)
LEMMA SetFaultType ==
  ASSUME NEW m \in Machines, NEW code \in FaultCodes
  PROVE  /\ SetFault(m, code) \in Machines
         /\ SetFault(m, code).mode = m.mode
BY DEF SetFault, Machines

-----------------------------------------------------------------------------
(***************************************************************************)
(* Clearing the output path restores the invariant whatever the machine    *)
(* became, provided it is well formed and healthy if Active.               *)
(***************************************************************************)
LEMMA ClearRestoresInv ==
  ASSUME RtInv, clear_output_path,
         machine' \in Machines, Healthy(machine'),
         now' = now, scheduler' \in {"joined", "running", "exited"}
  PROVE  RtInv'
BY RuntimeAssumption, NoneIsNotInFlight
   DEF RtInv, RtTypeOK, ClosedPathIsEmpty, ActiveIsHealthy, WaitingIsSupervised,
       InFlightIsOfSession, UnboundIsFresh, clear_output_path, Disarmed,
       Watchdogs, Healthy

(***************************************************************************)
(* A step that leaves the output path and the activity of the machine      *)
(* alone keeps the invariant.                                              *)
(***************************************************************************)
LEMMA SamePathKeepsInv ==
  ASSUME RtInv, UNCHANGED output_path,
         machine' \in Machines, Healthy(machine'),
         (machine'.mode = "Active") = (machine.mode = "Active"),
         now' \in 1 .. MaxTime, scheduler' \in {"joined", "running", "exited"}
  PROVE  RtInv'
BY DEF RtInv, RtTypeOK, ClosedPathIsEmpty, ActiveIsHealthy, WaitingIsSupervised,
       InFlightIsOfSession, UnboundIsFresh, output_path, Healthy

(***************************************************************************)
(* handle(event): the machine moves by one event, and the path is cleared  *)
(* whenever Active is left or entered.                                     *)
(***************************************************************************)
LEMMA HandleKeepsInv ==
  ASSUME RtInv, NEW e \in RuntimeEvents, handle(e)
  PROVE  RtInv'
<1> DEFINE next == IF HandleRefused(e) THEN machine ELSE HandleEvent(machine, e)
<1>1. machine \in Machines /\ Healthy(machine) /\ now \in 1 .. MaxTime
      /\ scheduler \in {"joined", "running", "exited"}
  BY DEF RtInv, RtTypeOK, ActiveIsHealthy, Healthy
<1>2. next \in Machines /\ Healthy(next)
  BY <1>1, HandleEventType, HandleEventActive DEF Healthy
<1>3. /\ machine' = next /\ UNCHANGED <<now, scheduler>>
      /\ IF (machine.mode = "Active") # (next.mode = "Active")
           THEN clear_output_path ELSE UNCHANGED output_path
  BY DEF handle
<1> HIDE DEF next
<1>4. CASE (machine.mode = "Active") # (next.mode = "Active")
  BY <1>1, <1>2, <1>3, <1>4, ClearRestoresInv
<1>5. CASE (machine.mode = "Active") = (next.mode = "Active")
  BY <1>1, <1>2, <1>3, <1>5, SamePathKeepsInv
<1> QED BY <1>4, <1>5

(***************************************************************************)
(* set_interlock_ready(ready): an interlock event never enters Active, so  *)
(* clearing only when Active is left is enough.                            *)
(***************************************************************************)
LEMMA InterlockKeepsInv ==
  ASSUME RtInv, NEW ready \in BOOLEAN, set_interlock_ready(ready)
  PROVE  RtInv'
<1> DEFINE e == IF ready THEN "InterlockReady" ELSE "InterlockLost"
           next == HandleEvent(machine, e)
<1>1. machine \in Machines /\ Healthy(machine) /\ now \in 1 .. MaxTime
      /\ scheduler \in {"joined", "running", "exited"}
  BY DEF RtInv, RtTypeOK, ActiveIsHealthy, Healthy
<1>2. e \in RuntimeEvents /\ e # "ActivateRequest"
  BY DEF RuntimeEvents
<1>3. next \in Machines /\ Healthy(next)
      /\ (next.mode = "Active" => machine.mode = "Active")
  <2> HIDE DEF e
  <2> QED BY <1>1, <1>2, HandleEventType, HandleEventActive DEF Healthy
<1>4. /\ machine' = next /\ UNCHANGED <<now, scheduler>>
      /\ IF machine.mode = "Active" /\ next.mode # "Active"
           THEN clear_output_path ELSE UNCHANGED output_path
  BY DEF set_interlock_ready
<1> HIDE DEF next
<1>5. CASE machine.mode = "Active" /\ next.mode # "Active"
  BY <1>1, <1>3, <1>4, <1>5, ClearRestoresInv
<1>6. CASE ~(machine.mode = "Active" /\ next.mode # "Active")
  BY <1>1, <1>3, <1>4, <1>6, SamePathKeepsInv
<1> QED BY <1>5, <1>6

(***************************************************************************)
(* raise_fault(code): whatever the mode, it ends outside Active with the   *)
(* path cleared, even where the machine refuses FaultDetected.             *)
(***************************************************************************)
LEMMA RaiseFaultKeepsInv ==
  ASSUME RtInv, NEW code \in FaultCodes, raise_fault(code)
  PROVE  RtInv'
<1>1. machine \in Machines /\ scheduler \in {"joined", "running", "exited"}
  BY DEF RtInv, RtTypeOK
<1>2. "FaultDetected" \in RuntimeEvents
  BY DEF RuntimeEvents
<1>3. machine' \in Machines /\ machine'.mode # "Active"
  BY <1>1, <1>2, SetFaultType, HandleEventType, StoppingEventsLeaveActive DEF raise_fault
<1> QED BY <1>1, <1>3, ClearRestoresInv DEF raise_fault, Healthy

(***************************************************************************)
(* on_tick: both timeouts end outside Active with the path cleared.        *)
(***************************************************************************)
LEMMA OnTickKeepsInv ==
  ASSUME RtInv, NEW t \in Nat, on_tick(t)
  PROVE  RtInv'
<1>1. machine \in Machines /\ Healthy(machine) /\ now \in 1 .. MaxTime
      /\ scheduler \in {"joined", "running", "exited"} /\ UNCHANGED <<now, scheduler>>
  BY DEF RtInv, RtTypeOK, ActiveIsHealthy, Healthy, on_tick
<1>2. "Hold" \in RuntimeEvents /\ "CommandTimeout" \in RuntimeEvents /\ "AckTimeout" \in FaultCodes
  BY DEF RuntimeEvents, FaultCodes
<1>3. CASE machine' = HandleEvent(SetFault(machine, "AckTimeout"), "Hold") /\ clear_output_path
  <2>1. machine' \in Machines /\ machine'.mode # "Active"
    BY <1>1, <1>2, <1>3, SetFaultType, HandleEventType, StoppingEventsLeaveActive
  <2> QED BY <1>1, <1>3, <2>1, ClearRestoresInv DEF Healthy
<1>4. CASE machine' = HandleEvent(machine, "CommandTimeout") /\ clear_output_path
  <2>1. machine' \in Machines /\ machine'.mode # "Active"
    BY <1>1, <1>2, <1>4, HandleEventType, StoppingEventsLeaveActive
  <2> QED BY <1>1, <1>4, <2>1, ClearRestoresInv DEF Healthy
<1>5. CASE UNCHANGED <<machine, output_path>>
  BY <1>1, <1>5, SamePathKeepsInv
<1> QED BY <1>3, <1>4, <1>5 DEF on_tick

(***************************************************************************)
(* publish_output_command: the gate implies Active, and an admitted        *)
(* command leaves mailbox, session, sequence and watchdog consistent.      *)
(***************************************************************************)
LEMMA PublishKeepsInv ==
  ASSUME RtInv, NEW c \in Commands, NEW t \in Nat, publish_output_command(c, t)
  PROVE  RtInv'
<1>1. c \in OutputCommands /\ c # None
  BY RuntimeAssumption
<1>2. CASE PublishAccepted(c, t)
  <2>1. /\ session' = c.session /\ last_seq' = c.sequence /\ mailbox' = c
        /\ watchdog' = ArmedAt(t) /\ UNCHANGED <<now, scheduler, machine, inflight>>
    BY <1>2 DEF publish_output_command, PublishAccepted
  <2>2. /\ machine.mode = "Active" /\ session \in {None, c.session}
        /\ c.session \in Nat \ {0} /\ c.sequence \in Nat /\ c.session # None
    BY <1>1, <1>2, RuntimeAssumption
       DEF PublishAccepted, SessionAccepted, GateOpen, CanAccept, OutputCommands
  <2>3. RtTypeOK'
    BY <1>1, <2>1, <2>2 DEF RtInv, RtTypeOK, ArmedAt, Watchdogs
  <2>4. ClosedPathIsEmpty' /\ ActiveIsHealthy' /\ UnboundIsFresh'
    BY <2>1, <2>2 DEF RtInv, ClosedPathIsEmpty, ActiveIsHealthy, UnboundIsFresh
  <2>5. WaitingIsSupervised'
    BY <2>1 DEF WaitingIsSupervised, ArmedAt
  <2>6. InFlightIsOfSession'
    BY <2>1, <2>2 DEF RtInv, InFlightIsOfSession
  <2> QED BY <2>3, <2>4, <2>5, <2>6 DEF RtInv
<1>3. CASE ~PublishAccepted(c, t)
  <2>1. session' = session
    BY <1>1, <1>3, RuntimeAssumption
       DEF publish_output_command, PublishAccepted, SessionAccepted, RtInv, RtTypeOK,
           UnboundIsFresh, OutputCommands
  <2>2. UNCHANGED rt_vars
    BY <1>3, <2>1 DEF publish_output_command, rt_vars
  <2> QED BY <2>2, SamePathKeepsInv
          DEF rt_vars, output_path, RtInv, RtTypeOK, ActiveIsHealthy, Healthy
<1> QED BY <1>2, <1>3

(***************************************************************************)
(* try_consume_output_command: the watchdog is disarmed only together with *)
(* the removal of the command it supervised.                               *)
(***************************************************************************)
LEMMA ConsumeKeepsInv ==
  ASSUME RtInv, NEW t \in Nat, try_consume_output_command(t)
  PROVE  RtInv'
BY RuntimeAssumption
   DEF try_consume_output_command, GateOpen, CanAccept, RtInv, RtTypeOK,
       ClosedPathIsEmpty, ActiveIsHealthy, WaitingIsSupervised, InFlightIsOfSession,
       UnboundIsFresh, Disarmed, Watchdogs

(***************************************************************************)
(* note_output_command_sent: a command becomes in flight only while Active *)
(* and only under the wire image of the bound session.                     *)
(***************************************************************************)
LEMMA NoteKeepsInv ==
  ASSUME RtInv, NEW s \in Nat, NEW q \in Nat, NEW t \in Nat, note_output_command_sent(s, q, t)
  PROVE  RtInv'
<1>1. CASE NoteAccepted(s, q, t)
  BY <1>1, NoneIsNotInFlight
     DEF note_output_command_sent, NoteAccepted, GateOpen, CanAccept, RtInv, RtTypeOK,
         ClosedPathIsEmpty, ActiveIsHealthy, WaitingIsSupervised, InFlightIsOfSession,
         UnboundIsFresh, InFlights
<1>2. CASE ~NoteAccepted(s, q, t)
  BY <1>2, SamePathKeepsInv
     DEF note_output_command_sent, output_path, RtInv, RtTypeOK, ActiveIsHealthy, Healthy
<1> QED BY <1>1, <1>2

(***************************************************************************)
(* observe_output_status: the matching ACK disarms the watchdog only when  *)
(* no newer command waits in the mailbox.                                  *)
(***************************************************************************)
LEMMA ObserveKeepsInv ==
  ASSUME RtInv, NEW s \in Nat, NEW q \in Nat, NEW applied \in BOOLEAN,
         observe_output_status(s, q, applied)
  PROVE  RtInv'
BY DEF observe_output_status, AckMatches, RtInv, RtTypeOK, ClosedPathIsEmpty,
       ActiveIsHealthy, WaitingIsSupervised, InFlightIsOfSession, UnboundIsFresh,
       Disarmed, Watchdogs

(***************************************************************************)
(* start, the worker's exit and the clock touch neither the machine nor    *)
(* the output path; stop clears both.                                      *)
(***************************************************************************)
LEMMA LifecycleKeepsInv ==
  ASSUME RtInv, clock_advance \/ start \/ worker_exit \/ stop
  PROVE  RtInv'
<1>1. machine \in Machines /\ Healthy(machine) /\ now \in 1 .. MaxTime
      /\ scheduler \in {"joined", "running", "exited"}
  BY DEF RtInv, RtTypeOK, ActiveIsHealthy, Healthy
<1>2. CASE clock_advance
  BY <1>1, <1>2, RuntimeAssumption, SamePathKeepsInv DEF clock_advance
<1>3. CASE start \/ worker_exit
  BY <1>1, <1>3, SamePathKeepsInv DEF start, worker_exit
<1>4. CASE stop
  <2>1. NewMachine \in Machines /\ Healthy(NewMachine)
    BY DEF NewMachine, Machines, Modes, FaultCodes, Healthy
  <2> QED BY <1>4, <2>1, ClearRestoresInv DEF stop
<1> QED BY <1>2, <1>3, <1>4

(***************************************************************************)
(* Every operation, with every argument, preserves the invariant.          *)
(***************************************************************************)
LEMMA RtNextKeepsInv ==
  ASSUME RtInv, [RtNext]_rt_vars
  PROVE  RtInv'
<1>1. \A t \in Samples : t \in Nat
  BY DEF Samples, RtInv, RtTypeOK
<1>2. \A s \in 0 .. WireMax : s \in Nat
  BY RuntimeAssumption
<1>3. CASE clock_advance \/ start \/ worker_exit \/ stop
  BY <1>3, LifecycleKeepsInv
<1>4. CASE \E e \in RuntimeEvents : handle(e)
  BY <1>4, HandleKeepsInv
<1>5. CASE \E code \in FaultCodes : raise_fault(code)
  BY <1>5, RaiseFaultKeepsInv
<1>6. CASE \E ready \in BOOLEAN : set_interlock_ready(ready)
  BY <1>6, InterlockKeepsInv
<1>7. CASE \E c \in Commands, t \in Samples : publish_output_command(c, t)
  BY <1>1, <1>7, PublishKeepsInv
<1>8. CASE \E t \in Samples : try_consume_output_command(t)
  BY <1>1, <1>8, ConsumeKeepsInv
<1>9. CASE \E s, q \in 0 .. WireMax, t \in Samples : note_output_command_sent(s, q, t)
  BY <1>1, <1>2, <1>9, NoteKeepsInv
<1>10. CASE \E s, q \in 0 .. WireMax, applied \in BOOLEAN : observe_output_status(s, q, applied)
  BY <1>2, <1>10, ObserveKeepsInv
<1>11. CASE \E t \in Samples : on_tick(t)
  BY <1>1, <1>11, OnTickKeepsInv
<1>12. CASE UNCHANGED rt_vars
  BY <1>12, SamePathKeepsInv
     DEF rt_vars, output_path, RtInv, RtTypeOK, ActiveIsHealthy, Healthy
<1> QED
  BY <1>3, <1>4, <1>5, <1>6, <1>7, <1>8, <1>9, <1>10, <1>11, <1>12 DEF RtNext

(***************************************************************************)
(* A new runtime satisfies the invariant.                                  *)
(***************************************************************************)
LEMMA RtInitInv == RtInit => RtInv
BY RuntimeAssumption, NoneIsNotInFlight
   DEF RtInit, RtInv, RtTypeOK, ClosedPathIsEmpty, ActiveIsHealthy, WaitingIsSupervised,
       InFlightIsOfSession, UnboundIsFresh, NewMachine, Machines, Modes, FaultCodes,
       Disarmed, Watchdogs

(***************************************************************************)
(* The invariant holds throughout, for every caller.                       *)
(***************************************************************************)
THEOREM RtInvariant == RtSpec => []RtInv
BY RtInitInv, RtNextKeepsInv, PTL DEF RtSpec

(***************************************************************************)
(* The type invariant of the runtime.                                      *)
(***************************************************************************)
THEOREM RtTypeCorrect == RtSpec => []RtTypeOK
BY RtInvariant, PTL DEF RtInv

(***************************************************************************)
(* Outside Active the output path is empty, whatever closed it.            *)
(***************************************************************************)
THEOREM ClosedPathTheorem == RtSpec => []ClosedPathIsEmpty
BY RtInvariant, PTL DEF RtInv

(***************************************************************************)
(* Active is held only with the interlock ready and no fault recorded.     *)
(***************************************************************************)
THEOREM ActiveHealthyTheorem == RtSpec => []ActiveIsHealthy
BY RtInvariant, PTL DEF RtInv

(***************************************************************************)
(* A waiting command is the newest of its session and is supervised.       *)
(***************************************************************************)
THEOREM WaitingSupervisedTheorem == RtSpec => []WaitingIsSupervised
BY RtInvariant, PTL DEF RtInv

(***************************************************************************)
(* The in-flight command is always one of the bound session.               *)
(***************************************************************************)
THEOREM InFlightTheorem == RtSpec => []InFlightIsOfSession
BY RtInvariant, PTL DEF RtInv

-----------------------------------------------------------------------------
(***************************************************************************)
(* Only handle can enter Active, and only as an activation.                *)
(***************************************************************************)
LEMMA OpeningStep ==
  ASSUME RtInv, RtNext, machine.mode # "Active", machine'.mode = "Active"
  PROVE  machine.mode = "Idle" /\ machine.interlock /\ running
<1>1. machine \in Machines /\ Healthy(machine)
  BY DEF RtInv, RtTypeOK, ActiveIsHealthy, Healthy
<1>2. CASE \E e \in RuntimeEvents : handle(e)
  <2>1. PICK e \in RuntimeEvents : handle(e)
    BY <1>2
  <2>2. machine' = HandleEvent(machine, e) /\ ~HandleRefused(e)
    BY <2>1 DEF handle
  <2>3. e = "ActivateRequest" /\ machine.mode = "Idle" /\ machine.interlock
    BY <1>1, <2>2, HandleEventActive
  <2> QED BY <2>2, <2>3 DEF HandleRefused
<1>3. CASE \E code \in FaultCodes : raise_fault(code)
  BY <1>1, <1>3, SetFaultType, StoppingEventsLeaveActive DEF raise_fault
<1>4. CASE \E ready \in BOOLEAN : set_interlock_ready(ready)
  <2>1. PICK e \in {"InterlockReady", "InterlockLost"} : machine' = HandleEvent(machine, e)
    BY <1>4 DEF set_interlock_ready
  <2>2. e \in RuntimeEvents /\ e # "ActivateRequest"
    BY DEF RuntimeEvents
  <2> QED BY <1>1, <2>1, <2>2, HandleEventActive
<1>5. CASE \E t \in Samples : on_tick(t)
  <2>1. \/ machine' = HandleEvent(SetFault(machine, "AckTimeout"), "Hold")
        \/ machine' = HandleEvent(machine, "CommandTimeout")
        \/ machine' = machine
    BY <1>5 DEF on_tick
  <2>2. "AckTimeout" \in FaultCodes
    BY DEF FaultCodes
  <2> QED BY <1>1, <2>1, <2>2, SetFaultType, StoppingEventsLeaveActive
<1>6. CASE stop
  BY <1>6 DEF stop, NewMachine
<1>7. CASE machine' = machine
  BY <1>7
<1> QED
  BY <1>2, <1>3, <1>4, <1>5, <1>6, <1>7
     DEF RtNext, clock_advance, start, worker_exit, publish_output_command,
         try_consume_output_command, note_output_command_sent, observe_output_status

(***************************************************************************)
(* Output is opened only by activating an idle machine with its interlock  *)
(* ready while the worker runs.                                            *)
(***************************************************************************)
THEOREM OnlyActivationTheorem == RtSpec => OnlyActivationOpens
<1>1. RtInv /\ [RtNext]_rt_vars =>
        [machine.mode # "Active" /\ machine'.mode = "Active" =>
           machine.mode = "Idle" /\ machine.interlock /\ running]_rt_vars
  BY OpeningStep DEF rt_vars
<1> QED BY <1>1, RtInvariant, PTL DEF RtSpec, OnlyActivationOpens

-----------------------------------------------------------------------------
(***************************************************************************)
(* Clearing the path on the way out of Active is the gate closing; doing   *)
(* it outside Active changes nothing, because nothing was there.           *)
(***************************************************************************)
LEMMA ClosingStep ==
  ASSUME RtInv, clear_output_path, machine'.mode # "Active"
  PROVE  Gate!Toggle \/ UNCHANGED Gate!gate_vars
BY DEF RtInv, ClosedPathIsEmpty, clear_output_path, Gate!Toggle, Gate!Empty, Gate!gate_vars

(***************************************************************************)
(* handle(event) and set_interlock_ready(ready) as steps of the gate.      *)
(***************************************************************************)
LEMMA EventStep ==
  ASSUME RtInv,
         \/ \E e \in RuntimeEvents : handle(e)
         \/ \E ready \in BOOLEAN : set_interlock_ready(ready)
  PROVE  Gate!Toggle \/ UNCHANGED Gate!gate_vars
<1>1. machine \in Machines /\ Healthy(machine)
  BY DEF RtInv, RtTypeOK, ActiveIsHealthy, Healthy
<1>2. CASE \E e \in RuntimeEvents : handle(e)
  <2>1. IF (machine.mode = "Active") # (machine'.mode = "Active")
          THEN clear_output_path ELSE UNCHANGED output_path
    BY <1>2 DEF handle
  <2> QED BY <2>1 DEF clear_output_path, output_path, Gate!Toggle, Gate!Empty, Gate!gate_vars
<1>3. CASE \E ready \in BOOLEAN : set_interlock_ready(ready)
  <2>1. PICK e \in {"InterlockReady", "InterlockLost"} :
          /\ machine' = HandleEvent(machine, e)
          /\ IF machine.mode = "Active" /\ machine'.mode # "Active"
               THEN clear_output_path ELSE UNCHANGED output_path
    BY <1>3 DEF set_interlock_ready
  <2>2. e \in RuntimeEvents /\ e # "ActivateRequest"
    BY DEF RuntimeEvents
  <2>3. machine'.mode = "Active" => machine.mode = "Active"
    BY <1>1, <2>1, <2>2, HandleEventActive
  <2> QED BY <2>1, <2>3
          DEF clear_output_path, output_path, Gate!Toggle, Gate!Empty, Gate!gate_vars
<1> QED BY <1>2, <1>3

(***************************************************************************)
(* Every operation of the runtime is a step of the gate or no step of it.  *)
(***************************************************************************)
LEMMA GateStep ==
  ASSUME RtInv, [RtNext]_rt_vars
  PROVE  [Gate!GateNext]_(Gate!gate_vars)
<1>1. machine \in Machines
  BY DEF RtInv, RtTypeOK
<1>2. CASE \/ \E e \in RuntimeEvents : handle(e)
           \/ \E ready \in BOOLEAN : set_interlock_ready(ready)
  BY <1>2, EventStep DEF Gate!GateNext
<1>3. CASE \E code \in FaultCodes : raise_fault(code)
  <2>1. clear_output_path /\ machine'.mode # "Active"
    BY <1>1, <1>3, SetFaultType, StoppingEventsLeaveActive DEF raise_fault
  <2> QED BY <2>1, ClosingStep DEF Gate!GateNext
<1>4. CASE \E t \in Samples : on_tick(t)
  <2>1. \/ clear_output_path /\ machine'.mode # "Active"
        \/ UNCHANGED <<machine, output_path>>
    <3>1. "AckTimeout" \in FaultCodes
      BY DEF FaultCodes
    <3> QED BY <1>1, <1>4, <3>1, SetFaultType, StoppingEventsLeaveActive DEF on_tick
  <2> QED BY <2>1, ClosingStep DEF Gate!GateNext, Gate!gate_vars, output_path
<1>5. CASE stop
  BY <1>5, ClosingStep DEF stop, NewMachine, Gate!GateNext
<1>6. CASE \E c \in Commands, t \in Samples : publish_output_command(c, t)
  <2>1. PICK c \in Commands, t \in Samples : publish_output_command(c, t)
    BY <1>6
  <2>2. c \in OutputCommands
    BY RuntimeAssumption
  <2>3. CASE PublishAccepted(c, t)
    BY <2>1, <2>3
       DEF publish_output_command, PublishAccepted, SessionAccepted, GateOpen, CanAccept,
           Gate!GateNext, Gate!Admit
  <2>4. CASE ~PublishAccepted(c, t)
    BY <2>1, <2>2, <2>4
       DEF publish_output_command, PublishAccepted, SessionAccepted, RtInv, RtTypeOK,
           UnboundIsFresh, OutputCommands, Gate!gate_vars
  <2> QED BY <2>3, <2>4
<1>7. CASE \E t \in Samples : try_consume_output_command(t)
  BY <1>7 DEF try_consume_output_command, Gate!GateNext, Gate!Empties, Gate!gate_vars
<1>8. CASE \E s, q \in 0 .. WireMax, t \in Samples : note_output_command_sent(s, q, t)
  <2>1. PICK s \in 0 .. WireMax, q \in 0 .. WireMax, t \in Samples :
          note_output_command_sent(s, q, t)
    BY <1>8
  <2>2. s \in Nat /\ q \in Nat /\ t \in Nat
    BY RuntimeAssumption DEF Samples, RtInv, RtTypeOK
  <2> QED BY <2>1, <2>2
          DEF note_output_command_sent, NoteAccepted, GateOpen, CanAccept, InFlights,
              Gate!GateNext, Gate!Launch, Gate!gate_vars
<1>9. CASE \E s, q \in 0 .. WireMax, applied \in BOOLEAN : observe_output_status(s, q, applied)
  BY <1>9
     DEF observe_output_status, AckMatches, RtInv, ClosedPathIsEmpty,
         Gate!GateNext, Gate!Confirm, Gate!gate_vars
<1>10. CASE clock_advance \/ start \/ worker_exit \/ UNCHANGED rt_vars
  BY <1>10 DEF clock_advance, start, worker_exit, rt_vars, output_path, Gate!gate_vars
<1> QED
  BY <1>2, <1>3, <1>4, <1>5, <1>6, <1>7, <1>8, <1>9, <1>10 DEF RtNext

(***************************************************************************)
(* LinuxRuntime implements the abstract output gate.                       *)
(***************************************************************************)
THEOREM GateRefinement == RtSpec => ImplementsOutputGate
<1>1. RtInit => Gate!GateInit
  BY DEF RtInit, NewMachine, Gate!GateInit, Gate!Empty
<1> QED BY <1>1, GateStep, RtInvariant, PTL
        DEF RtSpec, ImplementsOutputGate, Gate!GateSpec

(***************************************************************************)
(* While Active the session is pinned and sequences only grow. This is     *)
(* read off the gate: an Active-to-Active step is not a toggle.            *)
(***************************************************************************)
THEOREM AdmissionTheorem == RtSpec => AdmissionIsMonotonic
<1>1. ASSUME RtInv, [RtNext]_rt_vars
      PROVE  [machine.mode = "Active" /\ machine'.mode = "Active" =>
                /\ session # None => session' = session
                /\ last_seq' >= last_seq
                /\ mailbox' \notin {None, mailbox} => last_seq' > last_seq]_rt_vars
  <2> SUFFICES ASSUME machine.mode = "Active", machine'.mode = "Active"
               PROVE  /\ session # None => session' = session
                      /\ last_seq' >= last_seq
                      /\ mailbox' \notin {None, mailbox} => last_seq' > last_seq
    OBVIOUS
  <2>1. last_seq \in Nat /\ last_seq' \in Nat
    BY <1>1, RtNextKeepsInv DEF RtInv, RtTypeOK
  <2>2. [Gate!GateNext]_(Gate!gate_vars) /\ ~Gate!Toggle
    BY <1>1, GateStep DEF Gate!Toggle
  <2>3. CASE Gate!Admit
    BY <2>1, <2>3 DEF Gate!Admit
  <2>4. CASE Gate!Empties \/ Gate!Launch \/ Gate!Confirm \/ UNCHANGED Gate!gate_vars
    BY <2>1, <2>4 DEF Gate!Empties, Gate!Launch, Gate!Confirm, Gate!gate_vars
  <2> QED BY <2>2, <2>3, <2>4 DEF Gate!GateNext
<1> QED BY <1>1, RtInvariant, PTL DEF RtSpec, AdmissionIsMonotonic
=============================================================================
