------------------------ MODULE NodeSupervisionProofs -----------------------
(***************************************************************************)
(* What the supervisor says of the link is so, for every set of events,    *)
(* every queue, event budget and timeout.                                  *)
(***************************************************************************)
EXTENDS NodeSupervision, LinuxRuntimeProofs

-----------------------------------------------------------------------------
(* The invariant.                                                          *)

\* The calls the worker may owe the runtime. One that notes a restart is owed
\* only once the node has been seen.
Faults == {RaiseFault(c) : c \in FaultCodes}

Reports ==
  {SetInterlock(b) : b \in BOOLEAN} \cup {RefreshHeartbeat(t) : t \in Nat}
    \cup {Observe(s, q, a) : s \in Nat, q \in Nat, a \in BOOLEAN}

Restarts == {NoteRestart(b, s) : b \in Nat, s \in Nat}

Owed(seen) == Faults \cup Reports \cup (IF seen THEN Restarts ELSE {})

Ticks(n) ==
  [pc : {"sleep", "timeouts", "overflow", "events"}, t : 0 .. n, budget : 0 .. MaxEventsPerTick]

Queued(n) == [event : Inputs, at : 1 .. n]

QueueHolds == queue \in Seq(Queued(now)) /\ Len(queue) <= Capacity

\* A worker that sleeps owes no more than the fault of a lost heartbeat: so
\* nothing sets the node online behind the check that ends a tick.
WorkHolds ==
  /\ work \in Seq(Owed(sup.ever_seen)) /\ Len(work) <= 4
  /\ tick.pc = "sleep" => work \in Seq(Faults)

LatchesHold(s) ==
  IF s.ever_seen THEN s.online = ~s.comm_loss_latched
                 ELSE ~s.online /\ ~s.comm_loss_latched /\ ~s.restart_latched

Fresh(s, t) == s.online /\ HeartbeatTimeout > 0 => t < s.last_heartbeat + HeartbeatTimeout

NsInv ==
  /\ RtInv /\ QueueHolds /\ WorkHolds
  /\ sup \in Supervisors /\ LatchesHold(sup)
  /\ tick \in Ticks(now)
  /\ tick.pc = "sleep" => Fresh(sup, tick.t)
  /\ overflow \in BOOLEAN
  /\ app \in {"idle", "acknowledge", "clear"} /\ io \in {"running", "failing", "failed"}

-----------------------------------------------------------------------------
(* Sequences of calls.                                                     *)

LEMMA Monotone ==
  ASSUME NEW S, NEW T, S \subseteq T, NEW s \in Seq(S)
  PROVE  s \in Seq(T)
OBVIOUS

LEMMA OneCall ==
  ASSUME NEW S, NEW x \in S
  PROVE  <<x>> \in Seq(S) /\ Len(<<x>>) = 1
OBVIOUS

LEMMA MoreCalls ==
  ASSUME NEW S, NEW s \in Seq(S), NEW t \in Seq(S)
  PROVE  s \o t \in Seq(S) /\ Len(s \o t) = Len(s) + Len(t)
OBVIOUS

LEMMA NoCall == ASSUME NEW S PROVE <<>> \in Seq(S) /\ Len(<<>>) = 0
OBVIOUS

LEMMA FirstCall ==
  ASSUME NEW S, NEW s \in Seq(S), s # <<>>
  PROVE  /\ Head(s) \in S /\ Tail(s) \in Seq(S)
         /\ Len(s) \in Nat /\ Len(Tail(s)) = Len(s) - 1
OBVIOUS

\* The kinds of call are told apart by their name.
LEMMA CallIsKnown ==
  ASSUME NEW seen \in BOOLEAN, NEW w \in Owed(seen)
  PROVE  /\ w.call = "raise_fault" => w.code \in FaultCodes
         /\ w.call = "set_interlock_ready" => w.ready \in BOOLEAN
         /\ w.call = "observe_output_status" => w.sess \in Nat /\ w.seq \in Nat /\ w.applied \in BOOLEAN
         /\ w.call = "note_node_restart" => w.boot \in Nat /\ w.sess \in Nat /\ seen
         /\ w.call = "refresh_heartbeat" => w.at \in Nat
<1>1. CASE w \in Faults
  <2>1. PICK c \in FaultCodes : w = RaiseFault(c)  BY <1>1 DEF Faults
  <2>2. w.call = "raise_fault" /\ w.code = c  BY <2>1 DEF RaiseFault
  <2>3. QED  BY <2>2
<1>2. CASE w \in {SetInterlock(b) : b \in BOOLEAN}
  <2>1. PICK b \in BOOLEAN : w = SetInterlock(b)  BY <1>2
  <2>2. w.call = "set_interlock_ready"  BY <2>1 DEF SetInterlock
  <2>3. w.ready = b  BY <2>1 DEF SetInterlock
  <2>4. QED  BY <2>2, <2>3
<1>3. CASE w \in {RefreshHeartbeat(t) : t \in Nat}
  <2>1. PICK t \in Nat : w = RefreshHeartbeat(t)  BY <1>3
  <2>2. w.call = "refresh_heartbeat" /\ w.at = t  BY <2>1 DEF RefreshHeartbeat
  <2>3. QED  BY <2>2
<1>4. CASE w \in {Observe(s, q, a) : s \in Nat, q \in Nat, a \in BOOLEAN}
  <2>1. PICK s \in Nat, q \in Nat, a \in BOOLEAN : w = Observe(s, q, a)  BY <1>4
  <2>2. w.call = "observe_output_status" /\ w.sess = s /\ w.seq = q  BY <2>1 DEF Observe
  <2>3. w.applied = a  BY <2>1 DEF Observe
  <2>4. QED  BY <2>2, <2>3
<1>5. CASE w \in Restarts /\ seen
  <2>1. PICK b \in Nat, s \in Nat : w = NoteRestart(b, s)  BY <1>5 DEF Restarts
  <2>2. w.call = "note_node_restart" /\ w.boot = b /\ w.sess = s  BY <2>1 DEF NoteRestart
  <2>3. QED  BY <1>5, <2>2
<1>6. QED  BY <1>1, <1>2, <1>3, <1>4, <1>5 DEF Owed, Reports

-----------------------------------------------------------------------------
(* Steps that leave part of the state alone.                               *)

LEMMA NsInitInv == NsInit => NsInv
<1> SUFFICES ASSUME NsInit PROVE NsInv  OBVIOUS
<1>1. RtInv
  <2>1. HandleEvent(NewMachine, "Boot") \in Machines
    <3>1. NewMachine \in Machines  BY DEF NewMachine, Machines, Modes, FaultCodes
    <3>2. "Boot" \in RuntimeEvents  BY DEF RuntimeEvents
    <3>3. QED  BY <3>1, <3>2, HandleEventType
  <2>2. HandleEvent(NewMachine, "Boot").mode # "Active"
    BY DEF HandleEvent, NewMachine, Moves, Accepts, RuntimeEvents
  <2>3. QED
    BY <2>1, <2>2, RuntimeAssumption, NoneIsNotInFlight
       DEF NsInit, RtInv, RtTypeOK, ClosedPathIsEmpty, ActiveIsHealthy, WaitingIsSupervised,
           InFlightIsOfSession, UnboundIsFresh, Disarmed, Watchdogs
<1>2. QueueHolds  BY NoCall, SupervisionAssumption DEF NsInit, QueueHolds
<1>3. WorkHolds  BY NoCall DEF NsInit, WorkHolds
<1>4. sup = NewSupervisor  BY DEF NsInit
<1>5. sup \in Supervisors  BY <1>4 DEF NewSupervisor, Supervisors
<1>6. sup.ever_seen = FALSE /\ sup.online = FALSE /\ sup.comm_loss_latched = FALSE
      /\ sup.restart_latched = FALSE
  BY <1>4 DEF NewSupervisor
<1>7. LatchesHold(sup) /\ Fresh(sup, tick.t)  BY <1>6 DEF LatchesHold, Fresh
<1>8. tick \in Ticks(now)  BY SupervisionAssumption DEF NsInit, Ticks
<1>9. QED  BY <1>1, <1>2, <1>3, <1>5, <1>7, <1>8 DEF NsInv, NsInit

\* Time passes, or the runtime alone moves.
LEMMA ClockKeeps ==
  ASSUME NsInv, clock_advance, UNCHANGED sup_vars
  PROVE  NsInv'
<1>1. RtInv'  BY LifecycleKeepsInv DEF NsInv
<1>2. now \in Nat /\ now' = now + 1  BY DEF NsInv, RtInv, RtTypeOK, clock_advance
<1>3. Queued(now) \subseteq Queued(now') /\ Ticks(now) \subseteq Ticks(now')
  BY <1>2 DEF Queued, Ticks
<1>4. queue \in Seq(Queued(now'))  BY <1>3, Monotone DEF NsInv, QueueHolds
<1>5. QueueHolds'  BY <1>4 DEF NsInv, QueueHolds, sup_vars
<1>6. tick' \in Ticks(now')  BY <1>3 DEF NsInv, sup_vars
<1>7. WorkHolds'  BY DEF NsInv, WorkHolds, sup_vars
<1>8. UNCHANGED <<sup, tick, overflow, app, io>>  BY DEF sup_vars
<1>9. QED  BY <1>1, <1>5, <1>6, <1>7, <1>8 DEF NsInv, LatchesHold, Fresh

LEMMA HandleKeeps ==
  ASSUME NsInv, NEW e \in RuntimeEvents, handle(e),
         UNCHANGED <<queue, overflow, sup, tick, work, io>>,
         app' \in {"idle", "acknowledge", "clear"}
  PROVE  NsInv'
<1>1. RtInv'  BY HandleKeepsInv DEF NsInv
<1>2. now' = now  BY DEF handle
<1>3. QueueHolds' /\ WorkHolds'  BY <1>2 DEF NsInv, QueueHolds, WorkHolds
<1>4. QED  BY <1>1, <1>2, <1>3 DEF NsInv, LatchesHold, Fresh

\* Steps of the supervisor alone: what its own variables have to keep.
LEMMA SupervisorStepKeeps ==
  ASSUME NsInv, UNCHANGED rt_vars, QueueHolds', WorkHolds',
         sup' \in Supervisors, LatchesHold(sup'), tick' \in Ticks(now),
         tick'.pc = "sleep" => Fresh(sup', tick'.t),
         overflow' \in BOOLEAN,
         app' \in {"idle", "acknowledge", "clear"}, io' \in {"running", "failing", "failed"}
  PROVE  NsInv'
<1>1. RtInv'  BY RtNextKeepsInv DEF NsInv
<1>2. now' = now  BY DEF rt_vars
<1>3. QED  BY <1>1, <1>2 DEF NsInv, LatchesHold, Fresh

LEMMA NsFacts ==
  ASSUME NsInv
  PROVE  /\ RtInv /\ now \in Nat \ {0}
         /\ queue \in Seq(Queued(now)) /\ Len(queue) <= Capacity /\ QueueHolds /\ WorkHolds
         /\ work \in Seq(Owed(sup.ever_seen)) /\ Len(work) <= 4
         /\ tick.pc = "sleep" => work \in Seq(Faults)
         /\ sup \in Supervisors /\ LatchesHold(sup)
         /\ tick \in Ticks(now) /\ (tick.pc = "sleep" => Fresh(sup, tick.t))
         /\ overflow \in BOOLEAN
         /\ app \in {"idle", "acknowledge", "clear"} /\ io \in {"running", "failing", "failed"}
<1>1. now \in Nat \ {0}  BY DEF NsInv, RtInv, RtTypeOK
<1>2. QED  BY <1>1 DEF NsInv, QueueHolds, WorkHolds

-----------------------------------------------------------------------------
(* The I/O thread and the application.                                     *)

LEMMA PushHolds ==
  ASSUME NsInv, NEW e \in Inputs, try_push(e), UNCHANGED rt_vars
  PROVE  QueueHolds' /\ overflow' \in BOOLEAN
<1>1. now' = now  BY DEF rt_vars
<1>2. CASE Len(queue) >= Capacity
  BY <1>1, <1>2, NsFacts DEF try_push, QueueHolds
<1>3. CASE ~(Len(queue) >= Capacity)
  <2> DEFINE q == [event |-> e, at |-> now]
  <2>1. q \in Queued(now)  BY NsFacts DEF Queued
  <2>2. queue' = Append(queue, q) /\ UNCHANGED overflow  BY <1>3 DEF try_push
  <2> HIDE DEF q
  <2>3. queue \in Seq(Queued(now)) /\ Capacity \in Nat  BY NsFacts, SupervisionAssumption
  <2>4. queue' \in Seq(Queued(now)) /\ Len(queue') = Len(queue) + 1 /\ Len(queue) \in Nat
    BY <2>1, <2>2, <2>3
  <2>5. Len(queue') <= Capacity  BY <1>3, <2>3, <2>4
  <2>6. overflow' \in BOOLEAN  BY <2>2, NsFacts
  <2>7. QED  BY <1>1, <2>4, <2>5, <2>6 DEF QueueHolds
<1>4. QED  BY <1>2, <1>3

LEMMA IoKeeps ==
  ASSUME NsInv, IoThread
  PROVE  NsInv'
<1>1. UNCHANGED rt_vars /\ UNCHANGED <<sup, tick, work, app>>
      /\ io' \in {"running", "failing", "failed"}
  BY NsFacts DEF IoThread, push_event, io_error, io_stop_reason
<1>2. QueueHolds' /\ overflow' \in BOOLEAN
  <2>1. CASE \E e \in InputEvents : push_event(e)
    <3>1. PICK e \in InputEvents : push_event(e)  BY <2>1
    <3>2. e \in Inputs  BY SupervisionAssumption
    <3>3. QED  BY <1>1, <3>1, <3>2, PushHolds DEF push_event
  <2>2. CASE io_error
    <3>1. IoErrorEvent \in Inputs  BY SupervisionAssumption DEF IoErrorEvent, Inputs
    <3>2. QED  BY <1>1, <2>2, <3>1, PushHolds DEF io_error
  <2>3. CASE io_stop_reason
    BY <1>1, <2>3, NsFacts DEF io_stop_reason, QueueHolds, rt_vars
  <2>4. QED  BY <2>1, <2>2, <2>3 DEF IoThread
<1>3. WorkHolds'  BY <1>1, NsFacts DEF WorkHolds
<1>4. QED  BY <1>1, <1>2, <1>3, NsFacts, SupervisorStepKeeps

\* Clearing the restart latch touches neither the link nor its age.
LEMMA ApplicationKeeps ==
  ASSUME NsInv, Application
  PROVE  NsInv'
<1>1. CASE \E e \in {"Boot", "ActivateRequest", "DeactivateRequest", "Resume"} : app_handle(e)
  <2>1. PICK e \in {"Boot", "ActivateRequest", "DeactivateRequest", "Resume"} : app_handle(e)
    BY <1>1
  <2>2. e \in RuntimeEvents  BY DEF RuntimeEvents
  <2>3. QED  BY <2>1, <2>2, NsFacts, HandleKeeps DEF app_handle, sup_vars
<1>2. CASE clear_fault_snapshot
  <2>1. UNCHANGED rt_vars /\ UNCHANGED <<queue, overflow, sup, tick, work, io>>
        /\ app' \in {"idle", "acknowledge", "clear"}
    BY <1>2 DEF clear_fault_snapshot
  <2>2. QueueHolds' /\ WorkHolds'  BY <2>1, NsFacts DEF QueueHolds, WorkHolds, rt_vars
  <2>3. QED  BY <2>1, <2>2, NsFacts, SupervisorStepKeeps
<1>3. CASE acknowledge_fault_clear
  <2>1. UNCHANGED rt_vars /\ UNCHANGED <<queue, overflow, tick, work, io>>
        /\ app' \in {"idle", "acknowledge", "clear"}
        /\ sup' \in {sup, [sup EXCEPT !.restart_latched = FALSE]}
    BY <1>3 DEF acknowledge_fault_clear
  <2> DEFINE s == [sup EXCEPT !.restart_latched = FALSE]
  <2>2. s \in Supervisors  BY NsFacts DEF Supervisors
  <2>3. s.ever_seen = sup.ever_seen /\ s.online = sup.online
        /\ s.comm_loss_latched = sup.comm_loss_latched /\ s.last_heartbeat = sup.last_heartbeat
    BY NsFacts DEF Supervisors
  <2>4. s.restart_latched = FALSE  BY NsFacts DEF Supervisors
  <2> HIDE DEF s
  <2>5. LatchesHold(s)  BY <2>3, <2>4, NsFacts DEF LatchesHold
  <2>6. tick.pc = "sleep" => Fresh(s, tick.t)  BY <2>3, NsFacts DEF Fresh
  <2>7. sup' \in {sup, s}  BY <2>1 DEF s
  <2>8. sup' \in Supervisors /\ LatchesHold(sup') /\ (tick.pc = "sleep" => Fresh(sup', tick.t))
        /\ sup'.ever_seen = sup.ever_seen
    BY <2>2, <2>3, <2>5, <2>6, <2>7, NsFacts
  <2>9. QueueHolds' /\ WorkHolds'  BY <2>1, <2>8, NsFacts DEF QueueHolds, WorkHolds, rt_vars
  <2>10. QED  BY <2>1, <2>8, <2>9, NsFacts, SupervisorStepKeeps
<1>4. CASE clear_fault_handle
  <2>1. "FaultCleared" \in RuntimeEvents  BY DEF RuntimeEvents
  <2>2. QED  BY <1>4, <2>1, HandleKeeps DEF clear_fault_handle
<1>5. QED  BY <1>1, <1>2, <1>3, <1>4 DEF Application

-----------------------------------------------------------------------------
(* The worker.                                                             *)

LEMMA WakeKeeps ==
  ASSUME NsInv, tick_wake
  PROVE  NsInv'
<1>1. UNCHANGED rt_vars /\ UNCHANGED <<queue, overflow, sup, work, app, io>>
      /\ tick' = [pc |-> "timeouts", t |-> now, budget |-> MaxEventsPerTick]
  BY DEF tick_wake
<1>2. tick' \in Ticks(now) /\ tick'.pc = "timeouts"
  BY <1>1, NsFacts, SupervisionAssumption DEF Ticks
<1>3. QueueHolds' /\ WorkHolds'  BY <1>1, <1>2, NsFacts DEF QueueHolds, WorkHolds, rt_vars
<1>4. QED  BY <1>1, <1>2, <1>3, NsFacts, SupervisorStepKeeps

LEMMA TimeoutsKeeps ==
  ASSUME NsInv, tick_timeouts
  PROVE  NsInv'
<1>1. on_tick(tick.t) /\ UNCHANGED <<queue, overflow, sup, work, app, io>>
      /\ tick' = [tick EXCEPT !.pc = "overflow"]
  BY DEF tick_timeouts
<1>2. tick.t \in Nat  BY NsFacts DEF Ticks
<1>3. RtInv'  BY <1>1, <1>2, NsFacts, OnTickKeepsInv
<1>4. now' = now  BY <1>1 DEF on_tick
<1>5. tick' \in Ticks(now) /\ tick'.pc = "overflow"  BY <1>1, NsFacts DEF Ticks
<1>6. QueueHolds' /\ WorkHolds'  BY <1>1, <1>4, <1>5, NsFacts DEF QueueHolds, WorkHolds
<1>7. QED  BY <1>1, <1>3, <1>4, <1>5, <1>6, NsFacts DEF NsInv, LatchesHold

\* The calls an event leaves are known ones.
LEMMA KnownCalls ==
  ASSUME NEW seen
  PROVE  /\ \A c \in FaultCodes : RaiseFault(c) \in Faults /\ RaiseFault(c) \in Owed(seen)
         /\ \A b \in BOOLEAN : SetInterlock(b) \in Owed(seen)
         /\ \A t \in Nat : RefreshHeartbeat(t) \in Owed(seen)
         /\ \A q, r \in Nat, a \in BOOLEAN : Observe(q, r, a) \in Owed(seen)
         /\ seen => \A b, r \in Nat : NoteRestart(b, r) \in Owed(seen)
<1>1. \A c \in FaultCodes : RaiseFault(c) \in Faults  BY DEF Faults
<1>2. \A b \in BOOLEAN : SetInterlock(b) \in Reports  BY DEF Reports
<1>3. \A t \in Nat : RefreshHeartbeat(t) \in Reports  BY DEF Reports
<1>4. \A q, r \in Nat, a \in BOOLEAN : Observe(q, r, a) \in Reports  BY DEF Reports
<1>5. \A b, r \in Nat : NoteRestart(b, r) \in Restarts  BY DEF Restarts
<1>6. QED  BY <1>1, <1>2, <1>3, <1>4, <1>5 DEF Owed

LEMMA OverflowKeeps ==
  ASSUME NsInv, apply_overflow_fault
  PROVE  NsInv'
<1>1. UNCHANGED rt_vars /\ UNCHANGED <<queue, overflow, app, io>>
      /\ tick' = [tick EXCEPT !.pc = "events"]
  BY DEF apply_overflow_fault
<1>2. tick' \in Ticks(now) /\ tick'.pc = "events"  BY <1>1, NsFacts DEF Ticks
<1>3. QueueHolds'  BY <1>1, NsFacts DEF QueueHolds, rt_vars
<1>4. CASE overflow /\ ~sup.overflow_latched
  <2> DEFINE s == [sup EXCEPT !.overflow_latched = TRUE]
             w == RaiseFault("Internal")
  <2>1. sup' = s /\ work' = <<w>>  BY <1>4 DEF apply_overflow_fault
  <2>2. s \in Supervisors  BY NsFacts DEF Supervisors
  <2>3. s.ever_seen = sup.ever_seen /\ s.online = sup.online
        /\ s.comm_loss_latched = sup.comm_loss_latched /\ s.restart_latched = sup.restart_latched
    BY NsFacts DEF Supervisors
  <2>4. w \in Owed(sup.ever_seen)
    <3>1. "Internal" \in FaultCodes  BY DEF FaultCodes
    <3>2. QED  BY <3>1, KnownCalls
  <2> HIDE DEF s, w
  <2>5. LatchesHold(s)  BY <2>3, NsFacts DEF LatchesHold
  <2>6. <<w>> \in Seq(Owed(sup.ever_seen)) /\ Len(<<w>>) = 1  BY <2>4, OneCall
  <2>7. WorkHolds'  BY <1>2, <2>1, <2>3, <2>6 DEF WorkHolds
  <2>8. QED  BY <1>1, <1>2, <1>3, <2>1, <2>2, <2>5, <2>7, NsFacts, SupervisorStepKeeps
<1>5. CASE ~(overflow /\ ~sup.overflow_latched)
  <2>1. UNCHANGED <<sup, work>>  BY <1>5 DEF apply_overflow_fault
  <2>2. WorkHolds'  BY <1>2, <2>1, NsFacts DEF WorkHolds
  <2>3. QED  BY <1>1, <1>2, <1>3, <2>1, <2>2, NsFacts, SupervisorStepKeeps
<1>6. QED  BY <1>4, <1>5

\* A heartbeat of the node that is known, or of the first, puts it online; one of
\* another identity leaves three calls.
LEMMA HeartbeatHolds ==
  ASSUME NsInv, NEW e \in Inputs, NEW at \in Nat, work = <<>>, apply_heartbeat(e, at)
  PROVE  /\ sup' \in Supervisors /\ LatchesHold(sup')
         /\ work' \in Seq(Owed(sup'.ever_seen)) /\ Len(work') <= 4
<1>1. e.boot \in Nat /\ e.sess \in Nat  BY DEF Inputs
<1>2. CASE HeartbeatRestarts(e)
  <2> DEFINE a == NoteRestart(e.boot, e.sess)
             b == RaiseFault("NodeFault")
             c == RefreshHeartbeat(at)
  <2>1. work' = <<a, b, c>> /\ UNCHANGED sup  BY <1>2 DEF apply_heartbeat
  <2>2. sup.ever_seen  BY <1>2 DEF HeartbeatRestarts
  <2>3. {a, b, c} \subseteq Owed(sup.ever_seen)
    <3>1. "NodeFault" \in FaultCodes  BY DEF FaultCodes
    <3>2. QED  BY <1>1, <2>2, <3>1, KnownCalls
  <2> HIDE DEF a, b, c
  <2>4. <<a, b, c>> \in Seq(Owed(sup.ever_seen)) /\ Len(<<a, b, c>>) = 3  BY <2>3
  <2>5. QED  BY <2>1, <2>4, NsFacts
<1>3. CASE ~HeartbeatRestarts(e)
  <2> DEFINE s == SeenHeartbeat(e, at)
  <2>1. sup' = s /\ UNCHANGED work  BY <1>3 DEF apply_heartbeat
  <2>2. s \in Supervisors  BY <1>1, NsFacts DEF SeenHeartbeat, Supervisors
  <2>3. s.ever_seen = TRUE /\ s.online = TRUE /\ s.comm_loss_latched = FALSE
    BY NsFacts DEF SeenHeartbeat, Supervisors
  <2> HIDE DEF s
  <2>4. LatchesHold(s)  BY <2>3 DEF LatchesHold
  <2>5. work' \in Seq(Owed(s.ever_seen)) /\ Len(work') = 0  BY <2>1, NoCall
  <2>6. QED  BY <2>1, <2>2, <2>4, <2>5
<1>4. QED  BY <1>2, <1>3

\* A status never touches the link: only what it leaves the worker may.
LEMMA StatusHolds ==
  ASSUME NsInv, NEW e \in Inputs, apply_status(e)
  PROVE  /\ sup' \in Supervisors /\ LatchesHold(sup')
         /\ work' \in Seq(Owed(sup'.ever_seen)) /\ Len(work') <= 4
<1>1. e.fault \in Nat /\ e.sess \in Nat /\ e.interlock \in BOOLEAN /\ sup.boot \in Nat
  BY NsFacts DEF Inputs, Supervisors
<1> DEFINE s == [sup EXCEPT !.node_fault = e.fault, !.status_seen = TRUE]
<1>2. s \in Supervisors  BY <1>1, NsFacts DEF Supervisors
<1>3. s.ever_seen = sup.ever_seen /\ s.online = sup.online
      /\ s.comm_loss_latched = sup.comm_loss_latched /\ s.restart_latched = sup.restart_latched
  BY NsFacts DEF Supervisors
<1>4. sup' = s  BY DEF apply_status
<1> HIDE DEF s
<1>5. LatchesHold(s)  BY <1>3, NsFacts DEF LatchesHold
<1> DEFINE O == Owed(sup.ever_seen)
           a == NoteRestart(sup.boot, e.sess)
           b == RaiseFault("NodeFault")
           c == SetInterlock(e.interlock)
           x == IF StatusRestarts(e) THEN <<a, b>> ELSE <<>>
           y == IF e.fault # 0 THEN <<b>> ELSE <<>>
<1>6. work' = x \o <<c>> \o y  BY DEF apply_status
<1>7. b \in O /\ c \in O /\ (StatusRestarts(e) => a \in O)
  <2>1. "NodeFault" \in FaultCodes  BY DEF FaultCodes
  <2>2. StatusRestarts(e) => sup.ever_seen  BY DEF StatusRestarts
  <2>3. QED  BY <1>1, <2>1, <2>2, KnownCalls
<1> HIDE DEF O, a, b, c
<1>8. x \in Seq(O) /\ Len(x) \in {0, 2}
  <2>1. CASE StatusRestarts(e)  BY <1>7, <2>1
  <2>2. CASE ~StatusRestarts(e)  BY <2>2, NoCall
  <2>3. QED  BY <2>1, <2>2
<1>9. y \in Seq(O) /\ Len(y) \in {0, 1}
  <2>1. CASE e.fault # 0  BY <1>7, <2>1
  <2>2. CASE e.fault = 0  BY <2>2, NoCall
  <2>3. QED  BY <2>1, <2>2
<1>10. <<c>> \in Seq(O) /\ Len(<<c>>) = 1  BY <1>7, OneCall
<1> HIDE DEF x, y
<1>11. x \o <<c>> \in Seq(O) /\ Len(x \o <<c>>) = Len(x) + 1  BY <1>8, <1>10, MoreCalls
<1>12. work' \in Seq(O) /\ Len(work') = Len(x) + 1 + Len(y)  BY <1>6, <1>9, <1>11, MoreCalls
<1>13. Len(work') <= 4
  <2>1. Len(x) \in 0 .. 2  BY <1>8
  <2>2. Len(y) \in 0 .. 1  BY <1>9
  <2>3. \A m \in 0 .. 2, n \in 0 .. 1 : m + 1 + n <= 4  OBVIOUS
  <2>4. Len(x) + 1 + Len(y) <= 4  BY <2>1, <2>2, <2>3
  <2>5. QED  BY <1>12, <2>4
<1>14. QED  BY <1>2, <1>3, <1>4, <1>5, <1>12, <1>13 DEF O

LEMMA OtherHolds ==
  ASSUME NsInv, NEW e \in Inputs, apply_other(e)
  PROVE  /\ sup' \in Supervisors /\ LatchesHold(sup')
         /\ work' \in Seq(Owed(sup'.ever_seen)) /\ Len(work') <= 4
<1>1. e.sess \in Nat /\ e.seq \in Nat /\ e.applied \in BOOLEAN  BY DEF Inputs
<1> DEFINE a == Observe(e.sess, e.seq, e.applied)
           b == RaiseFault("Internal")
<1>2. work' \in {<<a>>, <<>>, <<b>>} /\ sup' = sup  BY DEF apply_other
<1>3. a \in Owed(sup.ever_seen) /\ b \in Owed(sup.ever_seen)
  <2>1. "Internal" \in FaultCodes  BY DEF FaultCodes
  <2>2. QED  BY <1>1, <2>1, KnownCalls
<1> HIDE DEF a, b
<1>4. /\ <<a>> \in Seq(Owed(sup.ever_seen)) /\ Len(<<a>>) = 1
      /\ <<b>> \in Seq(Owed(sup.ever_seen)) /\ Len(<<b>>) = 1
  BY <1>3, OneCall
<1>5. <<>> \in Seq(Owed(sup.ever_seen)) /\ Len(<<>>) = 0  BY NoCall
<1>6. work' \in Seq(Owed(sup.ever_seen)) /\ Len(work') <= 4
  <2>1. CASE work' = <<a>>  BY <1>4, <2>1
  <2>2. CASE work' = <<b>>  BY <1>4, <2>2
  <2>3. CASE work' = <<>>  BY <1>5, <2>3
  <2>4. QED  BY <1>2, <2>1, <2>2, <2>3
<1>7. QED  BY <1>2, <1>6, NsFacts

LEMMA EventKeeps ==
  ASSUME NsInv, apply_event
  PROVE  NsInv'
<1> DEFINE e == Head(queue).event
           at == Head(queue).at
<1>1. /\ tick.pc = "events" /\ work = <<>> /\ tick.budget > 0 /\ queue # <<>>
      /\ queue' = Tail(queue) /\ tick' = [tick EXCEPT !.budget = @ - 1]
      /\ UNCHANGED rt_vars /\ UNCHANGED <<overflow, app, io>>
  BY DEF apply_event
<1>2. IF Foreign(e) THEN UNCHANGED <<sup, work>>
                    ELSE apply_heartbeat(e, at) \/ apply_status(e) \/ apply_other(e)
  BY DEF apply_event
<1>3. /\ Head(queue) \in Queued(now) /\ Tail(queue) \in Seq(Queued(now))
      /\ Len(queue) \in Nat /\ Len(Tail(queue)) = Len(queue) - 1
  BY <1>1, NsFacts, FirstCall
<1>4. e \in Inputs /\ at \in Nat  BY <1>3, NsFacts DEF Queued
<1>5. QueueHolds'
  <2>1. Len(queue') <= Capacity  BY <1>1, <1>3, NsFacts, SupervisionAssumption
  <2>2. QED  BY <1>1, <1>3, <2>1 DEF QueueHolds, rt_vars
<1>6. tick' \in Ticks(now) /\ tick'.pc = "events"
  <2>1. tick.budget \in 1 .. MaxEventsPerTick
    BY <1>1, NsFacts, SupervisionAssumption DEF Ticks
  <2>2. tick.budget - 1 \in 0 .. MaxEventsPerTick  BY <2>1, SupervisionAssumption
  <2>3. QED  BY <1>1, <2>2, NsFacts DEF Ticks
<1> HIDE DEF e, at
<1>7. /\ sup' \in Supervisors /\ LatchesHold(sup')
      /\ work' \in Seq(Owed(sup'.ever_seen)) /\ Len(work') <= 4
  <2>1. CASE Foreign(e)
    <3>1. sup' = sup /\ work' = work  BY <1>2, <2>1
    <3>2. QED  BY <3>1, NsFacts
  <2>2. CASE ~Foreign(e)
    BY <1>1, <1>2, <1>4, <2>2, HeartbeatHolds, StatusHolds, OtherHolds
  <2>3. QED  BY <2>1, <2>2
<1>8. WorkHolds'  BY <1>6, <1>7 DEF WorkHolds
<1>9. QED  BY <1>1, <1>5, <1>6, <1>7, <1>8, NsFacts, SupervisorStepKeeps

\* The end of a tick: a node that stays online has been heard in time.
LEMMA CommLossKeeps ==
  ASSUME NsInv, apply_comm_loss
  PROVE  NsInv'
<1>1. /\ work = <<>> /\ tick' = [tick EXCEPT !.pc = "sleep"]
      /\ UNCHANGED rt_vars /\ UNCHANGED <<queue, overflow, app, io>>
  BY DEF apply_comm_loss
<1>2. tick' \in Ticks(now) /\ tick'.pc = "sleep" /\ tick'.t = tick.t  BY <1>1, NsFacts DEF Ticks
<1>3. QueueHolds'  BY <1>1, NsFacts DEF QueueHolds, rt_vars
<1>4. sup \in Supervisors /\ tick.t \in Nat /\ sup.last_heartbeat \in Nat /\ HeartbeatTimeout \in Nat
  BY NsFacts, SupervisionAssumption DEF Supervisors, Ticks
<1>5. CASE HeartbeatOverdue
  <2> DEFINE s == [sup EXCEPT !.online = FALSE, !.comm_loss_latched = TRUE]
             w == RaiseFault("CommLoss")
  <2>1. sup' = s /\ work' \in {<<>>, <<w>>}  BY <1>5 DEF apply_comm_loss
  <2>2. s \in Supervisors  BY <1>4 DEF Supervisors
  <2>3. s.ever_seen = sup.ever_seen  BY <1>4 DEF Supervisors
  <2>4. s.online = FALSE /\ s.comm_loss_latched = TRUE  BY <1>4 DEF Supervisors
  <2>5. w \in Faults /\ w \in Owed(sup.ever_seen)
    <3>1. "CommLoss" \in FaultCodes  BY DEF FaultCodes
    <3>2. QED  BY <3>1, KnownCalls
  <2> HIDE DEF s, w
  <2>6. sup.ever_seen  BY <1>5 DEF HeartbeatOverdue
  <2>7. LatchesHold(s)  BY <2>3, <2>4, <2>6 DEF LatchesHold
  <2>8. Fresh(s, tick'.t)  BY <2>4 DEF Fresh
  <2>9. work' \in Seq(Faults) /\ work' \in Seq(Owed(sup.ever_seen)) /\ Len(work') <= 4
    <3>1. CASE work' = <<>>  BY <3>1, NoCall
    <3>2. CASE work' = <<w>>  BY <2>5, <3>2, OneCall
    <3>3. QED  BY <2>1, <3>1, <3>2
  <2>10. WorkHolds'  BY <2>1, <2>3, <2>9 DEF WorkHolds
  <2>11. QED
    BY <1>1, <1>2, <1>3, <2>1, <2>2, <2>7, <2>8, <2>10, NsFacts, SupervisorStepKeeps
<1>6. CASE ~HeartbeatOverdue
  <2>1. sup' = sup /\ work' = work  BY <1>6 DEF apply_comm_loss
  <2>2. Fresh(sup, tick.t)
    <3>1. CASE sup.online /\ HeartbeatTimeout > 0
      <4>1. sup.ever_seen  BY <3>1, NsFacts DEF LatchesHold
      <4>2. ~(tick.t >= sup.last_heartbeat + HeartbeatTimeout)
        BY <1>6, <3>1, <4>1 DEF HeartbeatOverdue
      <4>3. tick.t < sup.last_heartbeat + HeartbeatTimeout  BY <1>4, <4>2
      <4>4. QED  BY <4>3 DEF Fresh
    <3>2. CASE ~(sup.online /\ HeartbeatTimeout > 0)  BY <3>2 DEF Fresh
    <3>3. QED  BY <3>1, <3>2
  <2>3. work' \in Seq(Faults) /\ work' \in Seq(Owed(sup.ever_seen)) /\ Len(work') = 0
    BY <1>1, <2>1, NoCall
  <2>4. WorkHolds'  BY <2>1, <2>3 DEF WorkHolds
  <2>5. QED  BY <1>1, <1>2, <1>3, <2>1, <2>2, <2>4, NsFacts, SupervisorStepKeeps
<1>7. QED  BY <1>5, <1>6

\* One owed call. Only a call that notes a restart puts the node online, and it
\* does so in the middle of a tick.
LEMMA WorkKeeps ==
  ASSUME NsInv, do_work
  PROVE  NsInv'
<1> DEFINE w == Head(work)
<1>1. work # <<>> /\ work' = Tail(work) /\ UNCHANGED <<queue, overflow, tick, app, io>>
  BY DEF do_work
<1>2. sup.ever_seen \in BOOLEAN  BY NsFacts DEF Supervisors
<1>3. /\ w \in Owed(sup.ever_seen) /\ work' \in Seq(Owed(sup.ever_seen))
      /\ Len(work) \in Nat /\ Len(work') = Len(work) - 1
  BY <1>1, NsFacts, FirstCall
<1>4. Len(work') <= 4
  <2>1. Len(work) <= 4  BY NsFacts
  <2>2. QED  BY <1>3, <2>1
<1>5. tick.pc = "sleep" => w \in Faults /\ work' \in Seq(Faults)
  BY <1>1, NsFacts, FirstCall
<1>6. ASSUME w \in Faults PROVE w.call = "raise_fault"
  <2>1. PICK c \in FaultCodes : w = RaiseFault(c)  BY <1>6 DEF Faults
  <2>2. QED  BY <2>1 DEF RaiseFault
<1>7. ASSUME sup'.ever_seen = sup.ever_seen PROVE WorkHolds'
  BY <1>1, <1>3, <1>4, <1>5, <1>7 DEF WorkHolds
<1>8. ASSUME UNCHANGED sup, RtInv', now' = now PROVE NsInv'
  <2>1. QueueHolds'  BY <1>1, <1>8, NsFacts DEF QueueHolds
  <2>2. WorkHolds'  BY <1>7, <1>8
  <2>3. QED  BY <1>1, <1>8, <2>1, <2>2, NsFacts DEF NsInv
<1> HIDE DEF w
<1>9. CASE w.call = "raise_fault" /\ raise_fault(w.code) /\ UNCHANGED sup
  <2>1. w.code \in FaultCodes  BY <1>2, <1>3, <1>9, CallIsKnown
  <2>2. RtInv'  BY <1>9, <2>1, NsFacts, RaiseFaultKeepsInv
  <2>3. now' = now  BY <1>9 DEF raise_fault
  <2>4. QED  BY <1>8, <1>9, <2>2, <2>3
<1>10. CASE w.call = "set_interlock_ready" /\ set_interlock_ready(w.ready) /\ UNCHANGED sup
  <2>1. w.ready \in BOOLEAN  BY <1>2, <1>3, <1>10, CallIsKnown
  <2>2. RtInv'  BY <1>10, <2>1, NsFacts, InterlockKeepsInv
  <2>3. now' = now  BY <1>10 DEF set_interlock_ready
  <2>4. QED  BY <1>8, <1>10, <2>2, <2>3
<1>11. CASE w.call = "observe_output_status" /\ UNCHANGED sup
            /\ observe_output_status(w.sess, w.seq, w.applied)
  <2>1. w.sess \in Nat /\ w.seq \in Nat /\ w.applied \in BOOLEAN
    BY <1>2, <1>3, <1>11, CallIsKnown
  <2>2. RtInv'  BY <1>11, <2>1, NsFacts, ObserveKeepsInv
  <2>3. now' = now  BY <1>11 DEF observe_output_status
  <2>4. QED  BY <1>8, <1>11, <2>2, <2>3
<1>12. CASE w.call = "note_node_restart" /\ sup' = AfterRestart(w.boot, w.sess) /\ UNCHANGED rt_vars
  <2>1. w.boot \in Nat /\ w.sess \in Nat /\ sup.ever_seen
    BY <1>2, <1>3, <1>12, CallIsKnown
  <2>2. tick.pc # "sleep"  BY <1>5, <1>6, <1>12
  <2>3. sup' \in Supervisors  BY <1>12, <2>1, NsFacts DEF AfterRestart, Supervisors
  <2>4. sup'.ever_seen = sup.ever_seen  BY <1>12, NsFacts DEF AfterRestart, Supervisors
  <2>5. sup'.online = TRUE /\ sup'.comm_loss_latched = FALSE
    BY <1>12, NsFacts DEF AfterRestart, Supervisors
  <2>6. LatchesHold(sup')  BY <2>1, <2>4, <2>5 DEF LatchesHold
  <2>7. QueueHolds'  BY <1>1, <1>12, NsFacts DEF QueueHolds, rt_vars
  <2>8. WorkHolds'  BY <1>7, <2>4
  <2>9. tick' \in Ticks(now) /\ tick'.pc # "sleep"  BY <1>1, <2>2, NsFacts
  <2>10. QED
    BY <1>1, <1>12, <2>3, <2>6, <2>7, <2>8, <2>9, NsFacts, SupervisorStepKeeps
<1>13. CASE w.call = "refresh_heartbeat" /\ sup' = [sup EXCEPT !.last_heartbeat = w.at]
            /\ UNCHANGED rt_vars
  <2>1. w.at \in Nat  BY <1>2, <1>3, <1>13, CallIsKnown
  <2>2. tick.pc # "sleep"  BY <1>5, <1>6, <1>13
  <2>3. sup' \in Supervisors  BY <1>13, <2>1, NsFacts DEF Supervisors
  <2>4. sup'.ever_seen = sup.ever_seen /\ sup'.online = sup.online
        /\ sup'.comm_loss_latched = sup.comm_loss_latched
        /\ sup'.restart_latched = sup.restart_latched
    BY <1>13, NsFacts DEF Supervisors
  <2>5. LatchesHold(sup')  BY <2>4, NsFacts DEF LatchesHold
  <2>6. QueueHolds'  BY <1>1, <1>13, NsFacts DEF QueueHolds, rt_vars
  <2>7. WorkHolds'  BY <1>7, <2>4
  <2>8. tick' \in Ticks(now) /\ tick'.pc # "sleep"  BY <1>1, <2>2, NsFacts
  <2>9. QED
    BY <1>1, <1>13, <2>3, <2>5, <2>6, <2>7, <2>8, NsFacts, SupervisorStepKeeps
<1>14. QED  BY <1>9, <1>10, <1>11, <1>12, <1>13 DEF do_work, w

-----------------------------------------------------------------------------
LEMMA NsStepKeeps ==
  ASSUME NsInv, [NsNext]_ns_vars
  PROVE  NsInv'
<1>1. CASE Worker
  BY <1>1, WakeKeeps, TimeoutsKeeps, OverflowKeeps, EventKeeps, CommLossKeeps, WorkKeeps
     DEF Worker
<1>2. CASE Application  BY <1>2, ApplicationKeeps
<1>3. CASE IoThread  BY <1>3, IoKeeps
<1>4. CASE clock_advance /\ UNCHANGED sup_vars  BY <1>4, ClockKeeps
<1>5. CASE UNCHANGED ns_vars
  <2>1. UNCHANGED rt_vars /\ UNCHANGED sup_vars  BY <1>5 DEF ns_vars
  <2>2. QueueHolds' /\ WorkHolds'  BY <2>1, NsFacts DEF QueueHolds, WorkHolds, rt_vars, sup_vars
  <2>3. QED  BY <2>1, <2>2, NsFacts, SupervisorStepKeeps DEF sup_vars
<1>6. QED  BY <1>1, <1>2, <1>3, <1>4, <1>5 DEF NsNext

(***************************************************************************)
(* A node that has been seen is online exactly when no communication loss  *)
(* is latched, and when the worker sleeps an online node was heard within  *)
(* the timeout: whatever heartbeats, statuses, restarts, overflows and     *)
(* recovery calls came between any two critical sections.                  *)
(***************************************************************************)
THEOREM OnlineTheorem == NsSpec => []OnlineIsFresh
<1>1. ASSUME NsInv PROVE NsTypeOK
  <2>1. RtTypeOK  BY <1>1, NsFacts DEF RtInv
  <2>2. \A i \in DOMAIN queue : queue[i].at \in 1 .. now
    <3>1. queue \in Seq(Queued(now))  BY <1>1, NsFacts
    <3>2. \A i \in DOMAIN queue : queue[i] \in Queued(now)  BY <3>1
    <3>3. QED  BY <3>2 DEF Queued
  <2>3. QED  BY <1>1, <2>1, <2>2, NsFacts DEF NsTypeOK, Ticks
<1>2. NsInv => OnlineIsFresh
  BY <1>1, NsFacts DEF OnlineIsFresh, LatchesHold, Fresh
<1>3. QED  BY <1>2, NsInitInv, NsStepKeeps, PTL DEF NsSpec
=============================================================================
