-------------------------- MODULE OutputPathProofs --------------------------
(***************************************************************************)
(* Frames and answers find each other, for every set of commands, every    *)
(* wire width, every timeout and any number of sends and activations.      *)
(*                                                                         *)
(* The wire numbers alone do not show it: they come round. What does is    *)
(* that an activation has one frame under way at a time. While a command   *)
(* is in flight, whatever of this activation is still in the channels is   *)
(* its own frame or answer; once it is closed by that answer the channels  *)
(* hold nothing of this activation any more; and one that is not closed    *)
(* ends the activation.                                                    *)
(***************************************************************************)
EXTENDS OutputPath, LinuxRuntimeProofs

-----------------------------------------------------------------------------
(* Sequences, whatever they are made of.                                   *)

IsSeq(s) == \E S : s \in Seq(S)

LEMMA SequencesAreMeasured ==
  ASSUME NEW s, IsSeq(s)
  PROVE  Len(s) \in Nat
<1>1. PICK S : s \in Seq(S)  BY DEF IsSeq
<1>2. QED  BY <1>1

\* What Append makes of a sequence.
LEMMA Appended ==
  ASSUME NEW s, IsSeq(s), NEW x
  PROVE  /\ IsSeq(Append(s, x)) /\ Len(s) \in Nat /\ Len(Append(s, x)) = Len(s) + 1
         /\ \A i \in 1 .. Len(s) : Append(s, x)[i] = s[i]
         /\ Append(s, x)[Len(s) + 1] = x
<1>1. PICK S : s \in Seq(S)  BY DEF IsSeq
<1> DEFINE T == S \cup {x}
<1>2. s \in Seq(T) /\ x \in T  BY <1>1
<1>3. Append(s, x) \in Seq(T)  BY <1>2
<1> HIDE DEF T
<1>4. QED  BY <1>2, <1>3 DEF IsSeq

\* What Tail makes of one that is not empty.
LEMMA Taken ==
  ASSUME NEW s, IsSeq(s), s # <<>>
  PROVE  /\ IsSeq(Tail(s)) /\ Len(s) \in Nat \ {0} /\ Len(Tail(s)) = Len(s) - 1
         /\ \A i \in 1 .. Len(s) - 1 : Tail(s)[i] = s[i + 1]
         /\ Head(s) = s[1]
<1>1. PICK S : s \in Seq(S)  BY DEF IsSeq
<1>2. Tail(s) \in Seq(S)  BY <1>1
<1>3. Len(s) \in Nat \ {0}  BY <1>1
<1>4. QED  BY <1>1, <1>2, <1>3 DEF IsSeq

-----------------------------------------------------------------------------
(* The channels. An item is a frame or an answer; e and n stand for epoch  *)
(* and sends.                                                              *)

\* Items of the activations so far, numbered by their sends, oldest first.
Channel(s, e, n) ==
  /\ IsSeq(s)
  /\ \A i \in 1 .. Len(s) : s[i].id \in 1 .. n /\ s[i].epoch \in 0 .. e
  /\ \A i, j \in 1 .. Len(s) : i < j => s[i].id < s[j].id

Before(s, t) == \A i \in 1 .. Len(s), j \in 1 .. Len(t) : s[i].id < t[j].id

\* Nothing of this activation, and nothing of it but the last frame.
Without(s, e) == \A i \in 1 .. Len(s) : s[i].epoch # e

Only(s, e, n) == \A i \in 1 .. Len(s) : s[i].epoch = e => s[i].id = n

InOrder ==
  /\ Channel(answers, epoch, sends) /\ Channel(up, epoch, sends) /\ Channel(down, epoch, sends)
  /\ Before(answers, up) /\ Before(answers, down) /\ Before(up, down)

Quiet == Without(answers, epoch) /\ Without(up, epoch) /\ Without(down, epoch)

OnlyLast == Only(answers, epoch, sends) /\ Only(up, epoch, sends) /\ Only(down, epoch, sends)

\* A channel keeps all this when its oldest item goes.
LEMMA TailKeeps ==
  ASSUME NEW s, NEW e \in Nat, NEW n \in Nat, Channel(s, e, n), s # <<>>
  PROVE  /\ Channel(Tail(s), e, n)
         /\ Len(Tail(s)) = Len(s) - 1 /\ Len(s) \in Nat \ {0}
         /\ Head(s).id \in 1 .. n /\ Head(s).epoch \in 0 .. e
         /\ \A i \in 1 .. Len(Tail(s)) : Head(s).id < Tail(s)[i].id
         /\ \A t : Before(s, t) => Before(Tail(s), t)
         /\ \A t : Before(t, s) => Before(t, Tail(s))
         /\ \A t : Before(s, t) => \A j \in 1 .. Len(t) : Head(s).id < t[j].id
         /\ \A t : Before(t, s) => \A j \in 1 .. Len(t) : t[j].id < Head(s).id
         /\ Without(s, e) => Without(Tail(s), e) /\ Head(s).epoch # e
         /\ Only(s, e, n) => Only(Tail(s), e, n) /\ (Head(s).epoch = e => Head(s).id = n)
<1>1. /\ IsSeq(Tail(s)) /\ Len(s) \in Nat \ {0} /\ Len(Tail(s)) = Len(s) - 1
      /\ \A i \in 1 .. Len(s) - 1 : Tail(s)[i] = s[i + 1]
      /\ Head(s) = s[1]
  BY Taken DEF Channel
<1>2. \A i \in 1 .. Len(Tail(s)) : i + 1 \in 1 .. Len(s) /\ Tail(s)[i] = s[i + 1]
  BY <1>1
<1>3. 1 \in 1 .. Len(s)  BY <1>1
<1>4. Channel(Tail(s), e, n)  BY <1>1, <1>2 DEF Channel
<1>5. \A i \in 1 .. Len(Tail(s)) : Head(s).id < Tail(s)[i].id
  BY <1>1, <1>2, <1>3 DEF Channel
<1>6. \A t : Before(s, t) => Before(Tail(s), t)  BY <1>2 DEF Before
<1>7. \A t : Before(t, s) => Before(t, Tail(s))  BY <1>2 DEF Before
<1>8. \A t : Before(s, t) => \A j \in 1 .. Len(t) : Head(s).id < t[j].id
  BY <1>1, <1>3 DEF Before
<1>9. \A t : Before(t, s) => \A j \in 1 .. Len(t) : t[j].id < Head(s).id
  BY <1>1, <1>3 DEF Before
<1>10. Without(s, e) => Without(Tail(s), e) /\ Head(s).epoch # e
  BY <1>1, <1>2, <1>3 DEF Without
<1>11. Only(s, e, n) => Only(Tail(s), e, n) /\ (Head(s).epoch = e => Head(s).id = n)
  BY <1>1, <1>2, <1>3 DEF Only
<1>12. Head(s).id \in 1 .. n /\ Head(s).epoch \in 0 .. e
  BY <1>1, <1>3 DEF Channel
<1>13. QED  BY <1>1, <1>4, <1>5, <1>6, <1>7, <1>8, <1>9, <1>10, <1>11, <1>12

\* And when an item comes that is newer than all it holds.
LEMMA AppendKeeps ==
  ASSUME NEW s, NEW e \in Nat, NEW n \in Nat, Channel(s, e, n), NEW x,
         x.id \in 1 .. n, x.epoch \in 0 .. e, \A i \in 1 .. Len(s) : s[i].id < x.id
  PROVE  /\ Channel(Append(s, x), e, n)
         /\ Len(Append(s, x)) = Len(s) + 1 /\ Len(s) \in Nat
         /\ \A t : Before(s, t) /\ (\A j \in 1 .. Len(t) : x.id < t[j].id) => Before(Append(s, x), t)
         /\ \A t : Before(t, s) /\ (\A j \in 1 .. Len(t) : t[j].id < x.id) => Before(t, Append(s, x))
         /\ Without(s, e) /\ x.epoch # e => Without(Append(s, x), e)
         /\ Only(s, e, n) /\ (x.epoch = e => x.id = n) => Only(Append(s, x), e, n)
<1> DEFINE y == Append(s, x)
<1>1. IsSeq(s)  BY DEF Channel
<1>2. /\ IsSeq(y) /\ Len(s) \in Nat /\ Len(y) = Len(s) + 1
      /\ \A i \in 1 .. Len(s) : y[i] = s[i]
      /\ y[Len(s) + 1] = x
  BY <1>1, Appended
<1> HIDE DEF y
<1>3. ASSUME NEW i \in 1 .. Len(y)
      PROVE  (i \in 1 .. Len(s) /\ y[i] = s[i]) \/ (i = Len(s) + 1 /\ y[i] = x)
  <2>1. i \in 1 .. Len(s) \/ i = Len(s) + 1  BY <1>2
  <2>2. QED  BY <1>2, <2>1
<1>4. Channel(y, e, n)
  <2>1. \A i \in 1 .. Len(y) : y[i].id \in 1 .. n /\ y[i].epoch \in 0 .. e
    BY <1>3 DEF Channel
  <2>2. ASSUME NEW i \in 1 .. Len(y), NEW j \in 1 .. Len(y), i < j
        PROVE  y[i].id < y[j].id
    <3>1. i \in 1 .. Len(s)  BY <1>2, <2>2
    <3>2. y[i] = s[i]  BY <1>2, <3>1
    <3>3. CASE j \in 1 .. Len(s) /\ y[j] = s[j]
      BY <2>2, <3>1, <3>2, <3>3 DEF Channel
    <3>4. CASE y[j] = x  BY <3>1, <3>2, <3>4
    <3>5. QED  BY <1>3, <3>3, <3>4
  <2>3. QED  BY <1>2, <2>1, <2>2 DEF Channel
<1>5. \A t : Before(s, t) /\ (\A j \in 1 .. Len(t) : x.id < t[j].id) => Before(y, t)
  BY <1>3 DEF Before
<1>6. \A t : Before(t, s) /\ (\A j \in 1 .. Len(t) : t[j].id < x.id) => Before(t, y)
  BY <1>3 DEF Before
<1>7. Without(s, e) /\ x.epoch # e => Without(y, e)  BY <1>3 DEF Without
<1>8. Only(s, e, n) /\ (x.epoch = e => x.id = n) => Only(y, e, n)  BY <1>3 DEF Only
<1>9. QED  BY <1>2, <1>4, <1>5, <1>6, <1>7, <1>8 DEF y

-----------------------------------------------------------------------------
(* The invariant.                                                          *)

\* The runtime's own invariant; what waits is a command that was published.
RuntimeHolds == RtInv /\ mailbox \in Commands \cup {None}

\* What the pump holds in its steps.
PumpHolds ==
  /\ pump = [pc |-> pump.pc, at |-> pump.at, frame |-> pump.frame, epoch |-> pump.epoch]
  /\ pump.pc \in {"idle", "check", "encode", "send", "note", "stopped"}
  /\ pending \in Commands \cup {None}
  /\ pump.pc \in {"check", "encode", "send", "note"} => pending # None
  /\ pump.pc \in {"send", "note"} =>
       /\ pump.at \in Nat
       /\ pump.frame.session \in 1 .. WireMax /\ pump.frame.sequence \in 1 .. WireMax

NodeHolds(n) ==
  /\ {"output_bits", "lease_active"} \subseteq DOMAIN n
  /\ n.output_bits # {} => n.lease_active

CountersHold ==
  /\ sends \in 0 .. MaxSends /\ epoch \in 0 .. MaxActivations
  /\ crossed \in BOOLEAN /\ fault_due \in BOOLEAN
  /\ Len(down) + Len(up) + Len(answers) <= sends

\* Between the recheck and the note nothing is in flight, and no answer to the
\* frame that is being noted has come through.
PumpIsAlone ==
  /\ pump.pc \in {"encode", "send", "note"} => inflight = None
  /\ pump.pc = "note" => \A i \in 1 .. Len(answers) : answers[i].id # sends

\* The heart of it: as long as the activation has met no answer of an earlier
\* one, its only item is that of the last frame, and there is none while the pump
\* may send.
OneUnderWay ==
  ~crossed =>
    /\ OnlyLast
    /\ inflight = None /\ machine.mode = "Active" /\ pump.pc \notin {"note", "stopped"} => Quiet
    /\ pump.pc \in {"encode", "send"} => Quiet

OpInv ==
  RuntimeHolds /\ PumpHolds /\ NodeHolds(node) /\ CountersHold /\ InOrder /\ PumpIsAlone
    /\ OneUnderWay

\* The daemon starts with empty channels.
LEMMA OpInitInv == OpInit => OpInv
<1> SUFFICES ASSUME OpInit PROVE OpInv  OBVIOUS
<1>1. RuntimeHolds
  BY RuntimeAssumption, NoneIsNotInFlight
     DEF OpInit, RuntimeHolds, RtInv, RtTypeOK, ClosedPathIsEmpty, ActiveIsHealthy,
         WaitingIsSupervised, InFlightIsOfSession, UnboundIsFresh, Machines, Modes,
         FaultCodes, Disarmed, Watchdogs
<1>2. PumpHolds  BY DEF OpInit, PumpHolds, IdlePump
<1>3. NodeHolds(node)  BY DEF OpInit, NodeHolds, NewNode
<1>4. IsSeq(<<>>) /\ Len(<<>>) = 0
  <2>1. <<>> \in Seq({})  OBVIOUS
  <2>2. QED  BY <2>1 DEF IsSeq
<1>5. answers = <<>> /\ up = <<>> /\ down = <<>> /\ sends = 0 /\ epoch = 0  BY DEF OpInit
<1>6. InOrder /\ OnlyLast /\ Quiet
  BY <1>4, <1>5 DEF InOrder, Channel, Before, OnlyLast, Only, Quiet, Without
<1>7. CountersHold
  <2>1. sends \in 0 .. MaxSends /\ epoch \in 0 .. MaxActivations
    BY <1>5, OutputPathAssumption
  <2>2. crossed \in BOOLEAN /\ fault_due \in BOOLEAN  BY DEF OpInit
  <2>3. Len(down) + Len(up) + Len(answers) <= sends  BY <1>4, <1>5
  <2>4. QED  BY <2>1, <2>2, <2>3 DEF CountersHold
<1>8. PumpIsAlone  BY DEF OpInit, PumpIsAlone, IdlePump
<1>9. QED  BY <1>1, <1>2, <1>3, <1>6, <1>7, <1>8 DEF OpInv, OneUnderWay

-----------------------------------------------------------------------------
(* Steps of the runtime alone.                                             *)

\* A closed gate has nothing in flight, and only an activation opens it.
GateStays ==
  \/ inflight' = inflight /\ (machine'.mode = "Active" => machine.mode = "Active")
  \/ inflight' = None /\ machine'.mode # "Active"

\* A runtime step between two steps of the pump leaves the rest as it is.
LEMMA RuntimeStepKeeps ==
  ASSUME OpInv, RuntimeHolds', GateStays, fault_due' \in BOOLEAN,
         UNCHANGED <<pending, pump, down, up, answers, node, sends, epoch, crossed>>
  PROVE  OpInv'
<1>1. PumpHolds' /\ NodeHolds(node)' /\ CountersHold' /\ InOrder'
  BY DEF OpInv, PumpHolds, NodeHolds, CountersHold, InOrder
<1>2. PumpIsAlone'  BY DEF OpInv, PumpIsAlone, GateStays
<1>3. OneUnderWay'
  BY DEF OpInv, OneUnderWay, OnlyLast, Quiet, GateStays
<1>4. QED  BY <1>1, <1>2, <1>3 DEF OpInv

LEMMA SamplesAreTimes == RtInv => \A t \in Samples : t \in Nat
BY DEF Samples, RtInv, RtTypeOK

\* The worker's tick either leaves the path alone or closes it.
LEMMA TickStays ==
  ASSUME OpInv, worker_tick
  PROVE  OpInv'
<1>1. PICK t \in Samples : on_tick(t)  BY DEF worker_tick
<1>2. t \in Nat  BY SamplesAreTimes DEF OpInv, RuntimeHolds
<1>3. RtInv'  BY <1>1, <1>2, OnTickKeepsInv DEF OpInv, RuntimeHolds
<1>4. machine \in Machines /\ "AckTimeout" \in FaultCodes
  BY DEF OpInv, RuntimeHolds, RtInv, RtTypeOK, FaultCodes
<1>5. /\ HandleEvent(SetFault(machine, "AckTimeout"), "Hold").mode # "Active"
      /\ HandleEvent(machine, "CommandTimeout").mode # "Active"
  BY <1>4, SetFaultType, StoppingEventsLeaveActive
<1>6. GateStays /\ mailbox' \in Commands \cup {None}
  BY <1>1, <1>5 DEF on_tick, clear_output_path, output_path, GateStays, OpInv, RuntimeHolds
<1>7. QED
  BY <1>3, <1>6, RuntimeStepKeeps
     DEF worker_tick, path_vars, RuntimeHolds, OpInv, CountersHold

LEMMA FaultStays ==
  ASSUME OpInv, raise_io_fault
  PROVE  OpInv'
<1>1. raise_fault("Internal") /\ "Internal" \in FaultCodes  BY DEF raise_io_fault, FaultCodes
<1>2. RtInv'  BY <1>1, RaiseFaultKeepsInv DEF OpInv, RuntimeHolds
<1>3. machine \in Machines  BY DEF OpInv, RuntimeHolds, RtInv, RtTypeOK
<1>4. HandleEvent(SetFault(machine, "Internal"), "FaultDetected").mode # "Active"
  BY <1>1, <1>3, SetFaultType, StoppingEventsLeaveActive
<1>5. GateStays /\ mailbox' \in Commands \cup {None}
  BY <1>1, <1>4 DEF raise_fault, clear_output_path, GateStays
<1>6. QED
  BY <1>2, <1>5, RuntimeStepKeeps DEF raise_io_fault, RuntimeHolds

LEMMA PublishStays ==
  ASSUME OpInv, app_publish
  PROVE  OpInv'
<1>1. PICK c \in Commands, t \in Samples : publish_output_command(c, t)  BY DEF app_publish
<1>2. t \in Nat  BY SamplesAreTimes DEF OpInv, RuntimeHolds
<1>3. RtInv'  BY <1>1, <1>2, PublishKeepsInv DEF OpInv, RuntimeHolds
<1>4. GateStays /\ mailbox' \in Commands \cup {None}
  BY <1>1 DEF publish_output_command, GateStays, OpInv, RuntimeHolds
<1>5. QED
  BY <1>3, <1>4, RuntimeStepKeeps
     DEF app_publish, path_vars, RuntimeHolds, OpInv, CountersHold

\* No event but an activation leads to Active.
LEMMA CloseStays ==
  ASSUME OpInv, app_close
  PROVE  OpInv'
<1>1. PICK e \in {"DeactivateRequest", "Resume", "Boot"} : handle(e)  BY DEF app_close
<1>2. e \in RuntimeEvents  BY DEF RuntimeEvents
<1>3. RtInv'  BY <1>1, <1>2, HandleKeepsInv DEF OpInv, RuntimeHolds
<1>4. machine \in Machines /\ Healthy(machine)
  BY DEF OpInv, RuntimeHolds, RtInv, RtTypeOK, ActiveIsHealthy, Healthy
<1>5. HandleEvent(machine, e).mode = "Active" => machine.mode = "Active"
  BY <1>2, <1>4, HandleEventActive
<1>6. GateStays /\ mailbox' \in Commands \cup {None}
  BY <1>1, <1>5 DEF handle, clear_output_path, output_path, GateStays, OpInv, RuntimeHolds
<1>7. QED
  BY <1>3, <1>6, RuntimeStepKeeps
     DEF app_close, path_vars, RuntimeHolds, OpInv, CountersHold

LEMMA ClockStays ==
  ASSUME OpInv, Clock
  PROVE  OpInv'
<1>1. RtInv'  BY LifecycleKeepsInv DEF OpInv, RuntimeHolds, Clock
<1>2. GateStays /\ mailbox' \in Commands \cup {None}
  BY DEF Clock, clock_advance, output_path, GateStays, OpInv, RuntimeHolds
<1>3. QED
  BY <1>1, <1>2, RuntimeStepKeeps
     DEF Clock, path_vars, RuntimeHolds, OpInv, CountersHold

\* An accepted activation begins with no item of its own; one that is refused
\* changes nothing.
LEMMA ActivateKeeps ==
  ASSUME OpInv, app_activate
  PROVE  OpInv'
<1>1. "ActivateRequest" \in RuntimeEvents  BY DEF RuntimeEvents
<1>2. handle("ActivateRequest")  BY DEF app_activate
<1>3. RtInv'  BY <1>1, <1>2, HandleKeepsInv DEF OpInv, RuntimeHolds
<1>4. mailbox' \in Commands \cup {None} /\ inflight' \in {inflight, None}
  BY <1>2 DEF handle, clear_output_path, output_path, OpInv, RuntimeHolds
<1>5. RuntimeHolds'  BY <1>3, <1>4 DEF RuntimeHolds
<1>6. CASE ~HandleAccepted("ActivateRequest")
  <2>1. UNCHANGED <<epoch, crossed>>
    BY <1>6 DEF app_activate, OpInv, CountersHold
  <2>2. machine'.mode = machine.mode
    BY <1>2, <1>6 DEF handle, HandleAccepted, HandleEvent
  <2>3. GateStays
    BY <1>2, <1>6, <2>2 DEF handle, HandleAccepted, HandleEvent, output_path, GateStays
  <2>4. QED
    BY <1>5, <2>1, <2>3, RuntimeStepKeeps DEF app_activate, OpInv, CountersHold
<1>7. CASE HandleAccepted("ActivateRequest")
  <2>1. /\ epoch' = epoch + 1 /\ epoch < MaxActivations /\ crossed' = FALSE
        /\ UNCHANGED <<pending, pump, down, up, answers, node, sends, fault_due>>
    BY <1>7 DEF app_activate
  <2>2. epoch \in Nat /\ sends \in Nat
    BY OutputPathAssumption DEF OpInv, CountersHold
  <2>3. PumpHolds' /\ NodeHolds(node)'
    BY <2>1 DEF OpInv, PumpHolds, NodeHolds
  <2>4. CountersHold'
    <3>1. epoch' \in 0 .. MaxActivations
      BY <2>1, <2>2, OutputPathAssumption DEF OpInv, CountersHold
    <3>2. QED  BY <2>1, <3>1 DEF OpInv, CountersHold
  <2>5. \A s : Channel(s, epoch, sends) =>
          Channel(s, epoch + 1, sends) /\ Without(s, epoch + 1) /\ Only(s, epoch + 1, sends)
    BY <2>2 DEF Channel, Without, Only
  <2>6. Channel(answers, epoch, sends) /\ Channel(up, epoch, sends) /\ Channel(down, epoch, sends)
    BY DEF OpInv, InOrder
  <2>7. (InOrder /\ Quiet /\ OnlyLast)'
    BY <2>1, <2>5, <2>6 DEF OpInv, InOrder, Quiet, OnlyLast
  <2>8. PumpIsAlone'
    BY <1>4, <2>1 DEF OpInv, PumpIsAlone
  <2>9. QED  BY <1>5, <2>3, <2>4, <2>7, <2>8 DEF OpInv, OneUnderWay
<1>8. QED  BY <1>6, <1>7

-----------------------------------------------------------------------------
(* Steps of the pump.                                                      *)

\* While the channels stay as they are, it is enough to look at the pump.
LEMMA PumpStepKeeps ==
  ASSUME OpInv, RuntimeHolds', PumpHolds', fault_due' \in BOOLEAN,
         UNCHANGED <<down, up, answers, node, sends, epoch, crossed, machine>>,
         pump'.pc # "note",
         pump'.pc \in {"encode", "send"} => inflight' = None /\ (crossed \/ Quiet),
         pump'.pc # "stopped" /\ inflight' = None /\ machine.mode = "Active" =>
           inflight = None /\ pump.pc # "note" /\ pump.pc # "stopped"
  PROVE  OpInv'
<1>1. NodeHolds(node)' /\ CountersHold' /\ InOrder'
  BY DEF OpInv, NodeHolds, CountersHold, InOrder
<1>2. PumpIsAlone'  BY DEF PumpIsAlone
<1>3. (OnlyLast <=> OnlyLast') /\ (Quiet <=> Quiet')  BY DEF OnlyLast, Quiet
<1>4. OneUnderWay'  BY <1>3 DEF OpInv, OneUnderWay
<1>5. QED  BY <1>1, <1>2, <1>4 DEF OpInv

LEMMA ConsumeKeeps ==
  ASSUME OpInv, pump_consume
  PROVE  OpInv'
<1>1. PICK t \in Samples :
        LET c    == ConsumeResult(t)
            next == IF c = None THEN pending ELSE c
        IN  /\ pump.pc = "idle"
            /\ try_consume_output_command(t)
            /\ pending' = next
            /\ pump' = [pump EXCEPT !.pc = IF next = None THEN "idle" ELSE "check",
                                    !.epoch = IF c = None THEN @ ELSE epoch]
            /\ UNCHANGED <<down, up, answers, node, sends, epoch, crossed, fault_due>>
  BY DEF pump_consume
<1>2. t \in Nat  BY SamplesAreTimes DEF OpInv, RuntimeHolds
<1>3. RtInv'  BY <1>1, <1>2, ConsumeKeepsInv DEF OpInv, RuntimeHolds
<1>4. mailbox' \in Commands \cup {None} /\ UNCHANGED <<machine, inflight>>
      /\ ConsumeResult(t) \in Commands \cup {None}
  BY <1>1 DEF try_consume_output_command, ConsumeResult, OpInv, RuntimeHolds
<1>5. pump'.pc \in {"idle", "check"} /\ (pump'.pc = "check" => pending' # None)
      /\ pending' \in Commands \cup {None}
      /\ pump' = [pc |-> pump'.pc, at |-> pump'.at, frame |-> pump'.frame, epoch |-> pump'.epoch]
  BY <1>1, <1>4 DEF OpInv, PumpHolds
<1>6. PumpHolds'  BY <1>5 DEF PumpHolds
<1>7. pump.pc = "idle"  BY <1>1
<1>8. QED
  BY <1>1, <1>3, <1>4, <1>5, <1>6, <1>7, PumpStepKeeps DEF RuntimeHolds, OpInv, CountersHold

\* The recheck is what makes sure that nothing of this activation is under way.
LEMMA CheckKeeps ==
  ASSUME OpInv, pump_check
  PROVE  OpInv'
<1>1. /\ pump.pc = "check" /\ UNCHANGED rt_vars
      /\ UNCHANGED <<down, up, answers, node, sends, epoch, crossed, fault_due>>
  BY DEF pump_check
<1>2. RuntimeHolds'
  BY <1>1, RtNextKeepsInv DEF OpInv, RuntimeHolds, rt_vars
<1>3. CASE pump' = [pump EXCEPT !.pc = "encode"] /\ UNCHANGED pending
           /\ \E t \in Samples : output_command_sendable(pending, t)
  <2>1. inflight = None /\ machine.mode = "Active"
    BY <1>3 DEF output_command_sendable, GateOpen, CanAccept
  <2>2. crossed \/ Quiet  BY <1>1, <2>1 DEF OpInv, OneUnderWay, CountersHold
  <2>3. PumpHolds' /\ pump'.pc = "encode"
    BY <1>1, <1>3 DEF OpInv, PumpHolds
  <2>4. QED
    BY <1>1, <1>2, <2>1, <2>2, <2>3, PumpStepKeeps DEF OpInv, CountersHold, rt_vars
<1>4. CASE pump' = IdlePump /\ pending' = None
  <2>1. PumpHolds' /\ pump'.pc = "idle"  BY <1>4 DEF PumpHolds, IdlePump
  <2>2. QED
    BY <1>1, <1>2, <2>1, PumpStepKeeps DEF OpInv, CountersHold, rt_vars
<1>5. QED  BY <1>3, <1>4 DEF pump_check

LEMMA WireSequenceType ==
  ASSUME NEW q \in Nat \ {0}
  PROVE  WireSequence(q) \in 1 .. WireMax
<1>1. q - 1 \in Nat /\ WireMax \in Nat \ {0}  BY RuntimeAssumption
<1>2. (q - 1) % WireMax \in 0 .. WireMax - 1  BY <1>1
<1>3. QED  BY <1>1, <1>2 DEF WireSequence

LEMMA EncodeKeeps ==
  ASSUME OpInv, pump_encode
  PROVE  OpInv'
<1>1. /\ pump.pc = "encode" /\ UNCHANGED rt_vars
      /\ UNCHANGED <<down, up, answers, node, sends, epoch, crossed, fault_due>>
  BY DEF pump_encode
<1>2. RuntimeHolds'
  BY <1>1, RtNextKeepsInv DEF OpInv, RuntimeHolds, rt_vars
<1>3. inflight = None /\ (crossed \/ Quiet)
  BY <1>1 DEF OpInv, PumpIsAlone, OneUnderWay, CountersHold
<1>4. CASE WireEncodable(pending, now)
  <2>1. pending \in OutputCommands
    BY <1>1, RuntimeAssumption DEF OpInv, PumpHolds
  <2>2. pending.session \in 1 .. WireMax /\ pending.sequence \in Nat \ {0}
    BY <1>4, <2>1 DEF WireEncodable, OutputCommands
  <2>3. /\ pump' = [pump EXCEPT !.pc = "send", !.at = now,
                               !.frame = to_wire_command(pending, now)]
        /\ UNCHANGED pending
    BY <1>4 DEF pump_encode
  <2>4. /\ to_wire_command(pending, now).session \in 1 .. WireMax
        /\ to_wire_command(pending, now).sequence \in 1 .. WireMax
    BY <2>2, WireSequenceType DEF to_wire_command
  <2>5. /\ pump'.pc = "send" /\ pump'.at = now
        /\ pump'.frame = to_wire_command(pending, now)
        /\ pump' = [pc |-> pump'.pc, at |-> pump'.at, frame |-> pump'.frame, epoch |-> pump'.epoch]
    BY <2>3 DEF OpInv, PumpHolds
  <2>6. now \in Nat  BY DEF OpInv, RuntimeHolds, RtInv, RtTypeOK
  <2>7. PumpHolds'
    BY <1>1, <2>3, <2>4, <2>5, <2>6 DEF OpInv, PumpHolds
  <2>8. QED
    BY <1>1, <1>2, <1>3, <2>5, <2>7, PumpStepKeeps DEF OpInv, CountersHold, rt_vars
<1>5. CASE ~WireEncodable(pending, now)
  <2>1. pump' = IdlePump /\ pending' = None  BY <1>5 DEF pump_encode
  <2>2. PumpHolds' /\ pump'.pc = "idle"  BY <2>1 DEF PumpHolds, IdlePump
  <2>3. QED
    BY <1>1, <1>2, <2>2, PumpStepKeeps DEF OpInv, CountersHold, rt_vars
<1>6. QED  BY <1>4, <1>5

LEMMA BlockedKeeps ==
  ASSUME OpInv, pump_would_block
  PROVE  OpInv'
<1>1. /\ pump.pc = "send" /\ UNCHANGED rt_vars
      /\ UNCHANGED <<pending, down, up, answers, node, sends, epoch, crossed, fault_due>>
      /\ pump' = [pump EXCEPT !.pc = "idle", !.at = 0, !.frame = None]
  BY DEF pump_would_block
<1>2. RuntimeHolds'
  BY <1>1, RtNextKeepsInv DEF OpInv, RuntimeHolds, rt_vars
<1>3. PumpHolds' /\ pump'.pc = "idle"  BY <1>1 DEF OpInv, PumpHolds
<1>4. QED
  BY <1>1, <1>2, <1>3, PumpStepKeeps DEF OpInv, CountersHold, rt_vars

LEMMA SendErrorKeeps ==
  ASSUME OpInv, pump_send_error
  PROVE  OpInv'
<1>1. /\ pump.pc = "send" /\ UNCHANGED rt_vars
      /\ UNCHANGED <<down, up, answers, node, sends, epoch, crossed>>
      /\ StopPump
  BY DEF pump_send_error
<1>2. RuntimeHolds'
  BY <1>1, RtNextKeepsInv DEF OpInv, RuntimeHolds, rt_vars
<1>3. PumpHolds' /\ pump'.pc = "stopped"  BY <1>1 DEF StopPump, PumpHolds, IdlePump
<1>4. fault_due' \in BOOLEAN  BY <1>1 DEF StopPump
<1>5. QED
  BY <1>1, <1>2, <1>3, <1>4, PumpStepKeeps DEF rt_vars

\* The frame that is noted is in flight afterwards, or the pump has stopped.
LEMMA NoteKeeps ==
  ASSUME OpInv, pump_note
  PROVE  OpInv'
<1> DEFINE s == pump.frame.session
           q == pump.frame.sequence
           t == pump.at
<1>1. /\ pump.pc = "note" /\ note_output_command_sent(s, q, t)
      /\ UNCHANGED <<down, up, answers, node, sends, epoch, crossed>>
  BY DEF pump_note
<1>2. s \in Nat /\ q \in Nat /\ t \in Nat
  BY <1>1, RuntimeAssumption DEF OpInv, PumpHolds
<1>3. RtInv'  BY <1>1, <1>2, NoteKeepsInv DEF OpInv, RuntimeHolds
<1>4. UNCHANGED <<mailbox, machine>>  BY <1>1 DEF note_output_command_sent
<1>5. RuntimeHolds'  BY <1>3, <1>4 DEF OpInv, RuntimeHolds
<1>6. CASE NoteAccepted(s, q, t)
  <2>1. pump' = IdlePump /\ pending' = None /\ UNCHANGED fault_due
    BY <1>6 DEF pump_note
  <2>2. inflight' = [session |-> s, sequence |-> q, at |-> t]
    BY <1>1, <1>6 DEF note_output_command_sent
  <2>3. inflight' # None  BY <1>2, <2>2, NoneIsNotInFlight DEF InFlights
  <2>4. PumpHolds' /\ pump'.pc = "idle"  BY <2>1 DEF PumpHolds, IdlePump
  <2>5. QED
    BY <1>1, <1>4, <1>5, <2>1, <2>3, <2>4, PumpStepKeeps DEF OpInv, CountersHold
<1>7. CASE ~NoteAccepted(s, q, t)
  <2>1. StopPump  BY <1>7 DEF pump_note
  <2>2. PumpHolds' /\ pump'.pc = "stopped"  BY <2>1 DEF StopPump, PumpHolds, IdlePump
  <2>3. fault_due' \in BOOLEAN  BY <2>1 DEF StopPump
  <2>4. QED  BY <1>1, <1>4, <1>5, <2>2, <2>3, PumpStepKeeps
<1>8. QED  BY <1>6, <1>7

\* The new frame is the youngest item of all, and the only one of this
\* activation.
LEMMA SendKeeps ==
  ASSUME OpInv, pump_send
  PROVE  OpInv'
<1> DEFINE n == sends + 1
           f == [wire |-> pump.frame, id |-> sends + 1, epoch |-> epoch,
                 deadline |-> pending.deadline, at |-> pump.at]
<1>1. /\ pump.pc = "send" /\ sends < MaxSends /\ sends' = n /\ down' = Append(down, f)
      /\ pump' = [pump EXCEPT !.pc = "note"]
      /\ UNCHANGED <<pending, up, answers, node, epoch, crossed, fault_due>>
      /\ UNCHANGED rt_vars
  BY DEF pump_send
<1>2. f.id = n /\ f.epoch = epoch  OBVIOUS
<1>3. sends \in Nat /\ epoch \in Nat /\ n \in 1 .. MaxSends
  BY <1>1, OutputPathAssumption DEF OpInv, CountersHold
<1> HIDE DEF f
<1>4. RuntimeHolds'
  BY <1>1, RtNextKeepsInv DEF OpInv, RuntimeHolds, rt_vars
<1>5. pump'.pc = "note" /\ PumpHolds'  BY <1>1 DEF OpInv, PumpHolds
<1>6. NodeHolds(node)'  BY <1>1 DEF OpInv, NodeHolds
<1>7. \A s : Channel(s, epoch, sends) =>
        Channel(s, epoch, n) /\ \A i \in 1 .. Len(s) : s[i].id < n /\ s[i].id # n
  BY <1>3 DEF Channel
<1>8. /\ Channel(answers, epoch, sends) /\ Channel(up, epoch, sends) /\ Channel(down, epoch, sends)
      /\ Before(answers, up) /\ Before(answers, down) /\ Before(up, down)
  BY DEF OpInv, InOrder
<1>9. Channel(answers, epoch, n) /\ Channel(up, epoch, n) /\ Channel(down, epoch, n)
  BY <1>7, <1>8
<1>10. /\ \A i \in 1 .. Len(answers) : answers[i].id < n /\ answers[i].id # n
       /\ \A i \in 1 .. Len(up) : up[i].id < n
       /\ \A i \in 1 .. Len(down) : down[i].id < n
  BY <1>7, <1>8
<1> HIDE DEF n
<1>11. n \in Nat /\ f.id \in 1 .. n /\ f.epoch \in 0 .. epoch  BY <1>2, <1>3
<1>12. /\ Channel(down', epoch, n)
       /\ Len(down') = Len(down) + 1 /\ Len(down) \in Nat
       /\ \A t : Before(t, down) /\ (\A j \in 1 .. Len(t) : t[j].id < n) => Before(t, down')
       /\ Only(down, epoch, n) => Only(down', epoch, n)
  BY <1>1, <1>2, <1>3, <1>9, <1>10, <1>11, AppendKeeps
<1>13. InOrder'  BY <1>1, <1>8, <1>9, <1>10, <1>12 DEF InOrder
<1>14. PumpIsAlone'
  BY <1>1, <1>5, <1>10 DEF OpInv, PumpIsAlone, rt_vars
<1>15. ~crossed => Without(answers, epoch) /\ Without(up, epoch) /\ Without(down, epoch)
  BY <1>1 DEF OpInv, OneUnderWay, Quiet
<1>16. \A s : Without(s, epoch) => Only(s, epoch, n)  BY DEF Without, Only
<1>17. ~crossed => OnlyLast'  BY <1>1, <1>12, <1>15, <1>16 DEF OnlyLast
<1>18. OneUnderWay'  BY <1>1, <1>5, <1>17 DEF OneUnderWay
<1>19. CountersHold'
  <2>1. Len(answers) \in Nat /\ Len(up) \in Nat
    BY <1>8, SequencesAreMeasured DEF Channel
  <2>2. Len(down') + Len(up) + Len(answers) <= n
    BY <1>3, <1>12, <2>1 DEF OpInv, CountersHold, n
  <2>3. n \in 0 .. MaxSends  BY <1>3, OutputPathAssumption
  <2>4. QED  BY <1>1, <2>2, <2>3 DEF OpInv, CountersHold
<1>20. QED  BY <1>4, <1>5, <1>6, <1>13, <1>14, <1>18, <1>19 DEF OpInv

-----------------------------------------------------------------------------
(* Steps that move items from one channel to the next.                     *)

\* Nothing but the channels and the node moves, and no item is made.
Passes ==
  /\ UNCHANGED rt_vars
  /\ UNCHANGED <<pending, pump, sends, epoch, crossed, fault_due>>

\* It is enough that the order is kept and that no channel gets an item of this
\* activation it should not have.
LEMMA PassKeeps ==
  ASSUME OpInv, Passes, NodeHolds(node)', InOrder',
         OnlyLast => OnlyLast', Quiet => Quiet',
         Len(down') + Len(up') + Len(answers') <= Len(down) + Len(up) + Len(answers),
         pump.pc # "idle" => answers' = answers
  PROVE  OpInv'
<1>1. RuntimeHolds'
  BY RtNextKeepsInv DEF OpInv, RuntimeHolds, rt_vars, Passes
<1>2. PumpHolds'  BY DEF OpInv, PumpHolds, Passes
<1>3. \A s : IsSeq(s) => Len(s) \in Nat  BY SequencesAreMeasured
<1>4. CountersHold'
  <2>1. /\ Len(down) \in Nat /\ Len(up) \in Nat /\ Len(answers) \in Nat
        /\ Len(down') \in Nat /\ Len(up') \in Nat /\ Len(answers') \in Nat
    BY <1>3 DEF OpInv, InOrder, Channel
  <2>2. sends \in Nat  BY OutputPathAssumption DEF OpInv, CountersHold
  <2>3. Len(down') + Len(up') + Len(answers') <= sends
    BY <2>1, <2>2 DEF OpInv, CountersHold
  <2>4. QED  BY <2>3 DEF OpInv, CountersHold, Passes
<1>5. PumpIsAlone'
  BY DEF OpInv, PumpIsAlone, Passes, rt_vars
<1>6. OneUnderWay'
  BY DEF OpInv, OneUnderWay, Passes, rt_vars
<1>7. QED  BY <1>1, <1>2, <1>4, <1>5, <1>6 DEF OpInv

\* What the steps below share.
LEMMA ChannelFacts ==
  ASSUME OpInv
  PROVE  /\ epoch \in Nat /\ sends \in Nat
         /\ Channel(answers, epoch, sends) /\ Channel(up, epoch, sends) /\ Channel(down, epoch, sends)
         /\ Before(answers, up) /\ Before(answers, down) /\ Before(up, down)
         /\ Len(answers) \in Nat /\ Len(up) \in Nat /\ Len(down) \in Nat
<1>1. epoch \in Nat /\ sends \in Nat  BY OutputPathAssumption DEF OpInv, CountersHold
<1>2. InOrder  BY DEF OpInv
<1>3. IsSeq(answers) /\ IsSeq(up) /\ IsSeq(down)  BY <1>2 DEF InOrder, Channel
<1>4. Len(answers) \in Nat /\ Len(up) \in Nat /\ Len(down) \in Nat
  BY <1>3, SequencesAreMeasured
<1>5. QED  BY <1>1, <1>2, <1>4 DEF InOrder

\* The node never drives an output without a lease.
LEMMA NodeStaysSafe ==
  ASSUME NEW n, NodeHolds(n), NEW t
  PROVE  /\ NodeHolds(expire_lease(n, t))
         /\ \A c : NodeHolds(apply_command(n, c, t, t))
<1>1. NodeHolds(expire_lease(n, t))
  BY DEF NodeHolds, expire_lease, neutralize_output
<1> DEFINE m == expire_lease(n, t)
<1>2. NodeHolds(m)  BY <1>1
<1> HIDE DEF m
<1>3. ASSUME NEW bits, NEW d, NEW q
      PROVE  NodeHolds([m EXCEPT !.output_bits = bits, !.lease_active = TRUE,
                                 !.lease_deadline = d, !.last_sequence = q])
  <2> DEFINE r == [m EXCEPT !.output_bits = bits, !.lease_active = TRUE,
                            !.lease_deadline = d, !.last_sequence = q]
  <2>1. "lease_active" \in DOMAIN m /\ "output_bits" \in DOMAIN m  BY <1>2 DEF NodeHolds
  <2>2. DOMAIN r = DOMAIN m  OBVIOUS
  <2>3. r.lease_active = TRUE  BY <2>1
  <2> HIDE DEF r
  <2>4. NodeHolds(r)  BY <2>1, <2>2, <2>3 DEF NodeHolds
  <2>5. QED  BY <2>4 DEF r
<1>4. \A c : NodeHolds(apply_command(n, c, t, t))
  BY <1>2, <1>3 DEF apply_command, m
<1>5. QED  BY <1>1, <1>4

LEMMA ExpireKeeps ==
  ASSUME OpInv, node_expire
  PROVE  OpInv'
<1>1. Passes /\ UNCHANGED <<down, up, answers>> /\ node' = expire_lease(node, now)
  BY DEF node_expire, Passes
<1>2. NodeHolds(node')  BY <1>1, NodeStaysSafe DEF OpInv
<1>3. InOrder' /\ (OnlyLast => OnlyLast') /\ (Quiet => Quiet')
  BY <1>1 DEF OpInv, InOrder, OnlyLast, Quiet, Passes
<1>4. NodeHolds(node)'  BY <1>2 DEF NodeHolds
<1>5. Len(answers) \in Nat /\ Len(up) \in Nat /\ Len(down) \in Nat  BY ChannelFacts
<1>6. Len(down') + Len(up') + Len(answers') <= Len(down) + Len(up) + Len(answers)
  BY <1>1, <1>5
<1>7. QED  BY <1>1, <1>3, <1>4, <1>6, PassKeeps

\* An answer comes through to the input queue, between two rounds of the pump.
LEMMA ReceiveKeeps ==
  ASSUME OpInv, io_receive
  PROVE  OpInv'
<1>1. /\ Passes /\ UNCHANGED <<down, node>> /\ pump.pc = "idle" /\ up # <<>>
      /\ up' = Tail(up) /\ answers' = Append(answers, Head(up))
  BY DEF io_receive, Passes
<1>2. /\ epoch \in Nat /\ sends \in Nat
      /\ Channel(answers, epoch, sends) /\ Channel(up, epoch, sends) /\ Channel(down, epoch, sends)
      /\ Before(answers, up) /\ Before(answers, down) /\ Before(up, down)
      /\ Len(answers) \in Nat /\ Len(up) \in Nat /\ Len(down) \in Nat
  BY ChannelFacts
<1> DEFINE x == Head(up)
<1>3. /\ Channel(up', epoch, sends)
      /\ Len(up') = Len(up) - 1
      /\ x.id \in 1 .. sends /\ x.epoch \in 0 .. epoch
      /\ \A i \in 1 .. Len(up') : x.id < up'[i].id
      /\ Before(answers, up') /\ Before(up', down)
      /\ \A j \in 1 .. Len(down) : x.id < down[j].id
      /\ \A j \in 1 .. Len(answers) : answers[j].id < x.id
      /\ Without(up, epoch) => Without(up', epoch) /\ x.epoch # epoch
      /\ Only(up, epoch, sends) => Only(up', epoch, sends) /\ (x.epoch = epoch => x.id = sends)
  BY <1>1, <1>2, TailKeeps
<1> HIDE DEF x
<1>4. answers' = Append(answers, x)  BY <1>1 DEF x
<1>5. /\ Channel(answers', epoch, sends)
      /\ Len(answers') = Len(answers) + 1
      /\ \A t : Before(answers, t) /\ (\A j \in 1 .. Len(t) : x.id < t[j].id) => Before(answers', t)
      /\ Without(answers, epoch) /\ x.epoch # epoch => Without(answers', epoch)
      /\ Only(answers, epoch, sends) /\ (x.epoch = epoch => x.id = sends) =>
           Only(answers', epoch, sends)
  BY <1>2, <1>3, <1>4, AppendKeeps
<1>6. UNCHANGED <<down, epoch, sends>>  BY <1>1 DEF Passes
<1>7. InOrder'  BY <1>2, <1>3, <1>5, <1>6 DEF InOrder
<1>8. (OnlyLast => OnlyLast') /\ (Quiet => Quiet')
  BY <1>3, <1>5, <1>6 DEF OnlyLast, Quiet
<1>9. NodeHolds(node)'  BY <1>1 DEF OpInv, NodeHolds
<1>10. Len(down') + Len(up') + Len(answers') <= Len(down) + Len(up) + Len(answers)
  <2>1. Len(answers) \in Nat /\ Len(up) \in Nat /\ Len(down) \in Nat  BY <1>2
  <2>2. Len(down') = Len(down)  BY <1>6
  <2>3. Len(up') = Len(up) - 1  BY <1>3
  <2>4. Len(answers') = Len(answers) + 1  BY <1>5
  <2>5. QED  BY <2>1, <2>2, <2>3, <2>4
<1>11. QED  BY <1>1, <1>7, <1>8, <1>9, <1>10, PassKeeps

\* The node answers the oldest frame under its number.
LEMMA NodeReceiveKeeps ==
  ASSUME OpInv, node_receive
  PROVE  OpInv'
<1> DEFINE f == Head(down)
           x == [session |-> node.session, sequence |-> f.wire.sequence,
                 id |-> f.id, epoch |-> f.epoch,
                 applied |-> CommandResult(expire_lease(node, now), f.wire, now, now) = "Applied"]
<1>1. /\ Passes /\ UNCHANGED answers /\ down # <<>>
      /\ down' = Tail(down) /\ up' = Append(up, x)
      /\ node' = apply_command(node, f.wire, now, now)
  BY DEF node_receive, Passes
<1>2. /\ epoch \in Nat /\ sends \in Nat
      /\ Channel(answers, epoch, sends) /\ Channel(up, epoch, sends) /\ Channel(down, epoch, sends)
      /\ Before(answers, up) /\ Before(answers, down) /\ Before(up, down)
      /\ Len(answers) \in Nat /\ Len(up) \in Nat /\ Len(down) \in Nat
  BY ChannelFacts
<1>3. x.id = f.id /\ x.epoch = f.epoch  OBVIOUS
<1> HIDE DEF x
<1>4. /\ Channel(down', epoch, sends)
      /\ Len(down') = Len(down) - 1
      /\ x.id \in 1 .. sends /\ x.epoch \in 0 .. epoch
      /\ \A i \in 1 .. Len(down') : x.id < down'[i].id
      /\ Before(answers, down') /\ Before(up, down')
      /\ \A j \in 1 .. Len(answers) : answers[j].id < x.id
      /\ \A j \in 1 .. Len(up) : up[j].id < x.id
      /\ Without(down, epoch) => Without(down', epoch) /\ x.epoch # epoch
      /\ Only(down, epoch, sends) => Only(down', epoch, sends) /\ (x.epoch = epoch => x.id = sends)
  BY <1>1, <1>2, <1>3, TailKeeps
<1>5. NodeHolds(node')  BY <1>1, NodeStaysSafe DEF OpInv
<1> HIDE DEF f
<1>6. /\ Channel(up', epoch, sends)
      /\ Len(up') = Len(up) + 1
      /\ \A t : Before(up, t) /\ (\A j \in 1 .. Len(t) : x.id < t[j].id) => Before(up', t)
      /\ \A t : Before(t, up) /\ (\A j \in 1 .. Len(t) : t[j].id < x.id) => Before(t, up')
      /\ Without(up, epoch) /\ x.epoch # epoch => Without(up', epoch)
      /\ Only(up, epoch, sends) /\ (x.epoch = epoch => x.id = sends) => Only(up', epoch, sends)
  BY <1>1, <1>2, <1>4, AppendKeeps
<1>7. UNCHANGED <<answers, epoch, sends>>  BY <1>1 DEF Passes
<1>8. InOrder'  BY <1>2, <1>4, <1>6, <1>7 DEF InOrder
<1>9. (OnlyLast => OnlyLast') /\ (Quiet => Quiet')
  BY <1>4, <1>6, <1>7 DEF OnlyLast, Quiet
<1>10. NodeHolds(node)'  BY <1>5 DEF NodeHolds
<1>11. Len(down') + Len(up') + Len(answers') <= Len(down) + Len(up) + Len(answers)
  <2>1. Len(answers) \in Nat /\ Len(up) \in Nat /\ Len(down) \in Nat  BY <1>2
  <2>2. Len(answers') = Len(answers)  BY <1>7
  <2>3. Len(down') = Len(down) - 1  BY <1>4
  <2>4. Len(up') = Len(up) + 1  BY <1>6
  <2>5. QED  BY <2>1, <2>2, <2>3, <2>4
<1>12. QED  BY <1>1, <1>8, <1>9, <1>10, <1>11, PassKeeps

\* The bus may lose the oldest frame or the oldest answer.
LEMMA LossKeeps ==
  ASSUME OpInv, lose_frame
  PROVE  OpInv'
<1>1. Passes /\ UNCHANGED <<answers, node>>  BY DEF lose_frame, Passes
<1>2. UNCHANGED <<answers, epoch, sends>>  BY <1>1 DEF Passes
<1>3. /\ epoch \in Nat /\ sends \in Nat
      /\ Channel(answers, epoch, sends) /\ Channel(up, epoch, sends) /\ Channel(down, epoch, sends)
      /\ Before(answers, up) /\ Before(answers, down) /\ Before(up, down)
      /\ Len(answers) \in Nat /\ Len(up) \in Nat /\ Len(down) \in Nat
  BY ChannelFacts
<1>4. NodeHolds(node)'  BY <1>1 DEF OpInv, NodeHolds
<1>5. CASE down # <<>> /\ down' = Tail(down) /\ UNCHANGED up
  <2>1. /\ Channel(down', epoch, sends) /\ Len(down') = Len(down) - 1
        /\ Before(answers, down') /\ Before(up, down')
        /\ Without(down, epoch) => Without(down', epoch)
        /\ Only(down, epoch, sends) => Only(down', epoch, sends)
    BY <1>3, <1>5, TailKeeps
  <2>2. InOrder' /\ (OnlyLast => OnlyLast') /\ (Quiet => Quiet')
    BY <1>2, <1>3, <1>5, <2>1 DEF InOrder, OnlyLast, Quiet
  <2>3. Len(down') + Len(up') + Len(answers') <= Len(down) + Len(up) + Len(answers)
    <3>1. Len(answers) \in Nat /\ Len(up) \in Nat /\ Len(down) \in Nat  BY <1>3
    <3>2. Len(answers') = Len(answers) /\ Len(up') = Len(up)  BY <1>2, <1>5
    <3>3. Len(down') = Len(down) - 1  BY <2>1
    <3>4. QED  BY <3>1, <3>2, <3>3
  <2>4. QED  BY <1>1, <1>4, <2>2, <2>3, PassKeeps
<1>6. CASE up # <<>> /\ up' = Tail(up) /\ UNCHANGED down
  <2>1. /\ Channel(up', epoch, sends) /\ Len(up') = Len(up) - 1
        /\ Before(answers, up') /\ Before(up', down)
        /\ Without(up, epoch) => Without(up', epoch)
        /\ Only(up, epoch, sends) => Only(up', epoch, sends)
    BY <1>3, <1>6, TailKeeps
  <2>2. InOrder' /\ (OnlyLast => OnlyLast') /\ (Quiet => Quiet')
    BY <1>2, <1>3, <1>6, <2>1 DEF InOrder, OnlyLast, Quiet
  <2>3. Len(down') + Len(up') + Len(answers') <= Len(down) + Len(up) + Len(answers)
    <3>1. Len(answers) \in Nat /\ Len(up) \in Nat /\ Len(down) \in Nat  BY <1>3
    <3>2. Len(answers') = Len(answers) /\ Len(down') = Len(down)  BY <1>2, <1>6
    <3>3. Len(up') = Len(up) - 1  BY <2>1
    <3>4. QED  BY <3>1, <3>2, <3>3
  <2>4. QED  BY <1>1, <1>4, <2>2, <2>3, PassKeeps
<1>7. QED  BY <1>5, <1>6 DEF lose_frame

-----------------------------------------------------------------------------
(* The worker hands an answer to the runtime.                              *)

\* observe_output_status keeps the runtime's invariant whatever the answer says.
LEMMA AnyAnswerKeepsInv ==
  ASSUME RtInv, NEW s, NEW q, NEW applied, observe_output_status(s, q, applied)
  PROVE  RtInv'
<1>1. CASE AckMatches(s, q, applied)
  BY <1>1
     DEF observe_output_status, RtInv, RtTypeOK, ClosedPathIsEmpty, ActiveIsHealthy,
         WaitingIsSupervised, InFlightIsOfSession, UnboundIsFresh, Disarmed, Watchdogs
<1>2. CASE ~AckMatches(s, q, applied)
  BY <1>2
     DEF observe_output_status, RtInv, RtTypeOK, ClosedPathIsEmpty, ActiveIsHealthy,
         WaitingIsSupervised, InFlightIsOfSession, UnboundIsFresh
<1>3. QED  BY <1>1, <1>2

\* The answer that closes the command of an activation that has not met an
\* earlier one's is that of the last frame, and was the last item of the
\* activation.
LEMMA ClosingAnswer ==
  ASSUME OpInv, deliver_status, inflight # None, inflight' = None, ~crossed'
  PROVE  Head(answers).id = sends /\ Quiet'
<1>1. /\ answers # <<>> /\ answers' = Tail(answers)
      /\ UNCHANGED <<down, up, sends, epoch>>
      /\ crossed' = (crossed \/ (inflight # inflight' /\ Head(answers).epoch # epoch))
  BY DEF deliver_status
<1>2. ~crossed /\ Head(answers).epoch = epoch  BY <1>1
<1>3. /\ epoch \in Nat /\ sends \in Nat
      /\ Channel(answers, epoch, sends) /\ Channel(up, epoch, sends) /\ Channel(down, epoch, sends)
      /\ Before(answers, up) /\ Before(answers, down)
  BY ChannelFacts
<1>4. Only(answers, epoch, sends)  BY <1>2 DEF OpInv, OneUnderWay, OnlyLast
<1>5. /\ Channel(answers', epoch, sends) /\ Head(answers).id = sends
      /\ \A i \in 1 .. Len(answers') : Head(answers).id < answers'[i].id
      /\ \A j \in 1 .. Len(up) : Head(answers).id < up[j].id
      /\ \A j \in 1 .. Len(down) : Head(answers).id < down[j].id
  BY <1>1, <1>2, <1>3, <1>4, TailKeeps
<1>6. ASSUME NEW s, Channel(s, epoch, sends), \A i \in 1 .. Len(s) : sends < s[i].id
      PROVE  Without(s, epoch)
  <2>1. \A i \in 1 .. Len(s) : s[i].id \in 1 .. sends  BY <1>6 DEF Channel
  <2>2. sends \in Nat  BY <1>3
  <2>3. ASSUME NEW i \in 1 .. Len(s) PROVE FALSE
    <3>1. sends < s[i].id  BY <1>6
    <3>2. QED  BY <2>1, <2>2, <3>1
  <2>4. QED  BY <2>3 DEF Without
<1>7. Without(answers', epoch) /\ Without(up, epoch) /\ Without(down, epoch)
  BY <1>3, <1>5, <1>6
<1>8. QED  BY <1>1, <1>5, <1>7 DEF Quiet

LEMMA DeliverKeeps ==
  ASSUME OpInv, deliver_status
  PROVE  OpInv'
<1> DEFINE a == Head(answers)
<1>1. /\ answers # <<>> /\ answers' = Tail(answers)
      /\ observe_output_status(a.session, a.sequence, a.applied)
      /\ UNCHANGED <<pending, pump, down, up, node, sends, epoch, fault_due>>
      /\ crossed' = (crossed \/ (inflight # inflight' /\ a.epoch # epoch))
  BY DEF deliver_status
<1>2. RtInv'  BY <1>1, AnyAnswerKeepsInv DEF OpInv, RuntimeHolds
<1>3. UNCHANGED <<mailbox, machine>> /\ inflight' \in {inflight, None}
  BY <1>1 DEF observe_output_status
<1>4. RuntimeHolds'  BY <1>2, <1>3 DEF OpInv, RuntimeHolds
<1>5. PumpHolds' /\ NodeHolds(node)'  BY <1>1 DEF OpInv, PumpHolds, NodeHolds
<1>6. /\ epoch \in Nat /\ sends \in Nat
      /\ Channel(answers, epoch, sends) /\ Channel(up, epoch, sends) /\ Channel(down, epoch, sends)
      /\ Before(answers, up) /\ Before(answers, down) /\ Before(up, down)
      /\ Len(answers) \in Nat /\ Len(up) \in Nat /\ Len(down) \in Nat
  BY ChannelFacts
<1>7. /\ Channel(answers', epoch, sends) /\ Len(answers') = Len(answers) - 1
      /\ Before(answers', up) /\ Before(answers', down)
      /\ Without(answers, epoch) => Without(answers', epoch)
      /\ Only(answers, epoch, sends) => Only(answers', epoch, sends)
  BY <1>1, <1>6, TailKeeps
<1>8. InOrder' /\ (OnlyLast => OnlyLast') /\ (Quiet => Quiet')
  BY <1>1, <1>6, <1>7 DEF InOrder, OnlyLast, Quiet
<1>9. CountersHold'
  <2>1. Len(down') + Len(up') + Len(answers') <= sends
    <3>1. Len(answers) \in Nat /\ Len(up) \in Nat /\ Len(down) \in Nat /\ sends \in Nat  BY <1>6
    <3>2. Len(down') = Len(down) /\ Len(up') = Len(up)  BY <1>1
    <3>3. Len(answers') = Len(answers) - 1  BY <1>7
    <3>4. Len(down) + Len(up) + Len(answers) <= sends  BY DEF OpInv, CountersHold
    <3>5. QED  BY <3>1, <3>2, <3>3, <3>4
  <2>2. crossed' \in BOOLEAN  BY <1>1 DEF OpInv, CountersHold
  <2>3. QED  BY <1>1, <2>1, <2>2 DEF OpInv, CountersHold
<1>10. PumpIsAlone'
  <2>1. pump'.pc \in {"encode", "send", "note"} => inflight' = None
    BY <1>1, <1>3 DEF OpInv, PumpIsAlone
  <2>2. ASSUME pump'.pc = "note" PROVE \A i \in 1 .. Len(answers') : answers'[i].id # sends'
    <3>1. \A i \in 1 .. Len(answers) : answers[i].id # sends
      BY <1>1, <2>2 DEF OpInv, PumpIsAlone
    <3>2. IsSeq(answers)  BY <1>6 DEF Channel
    <3>3. \A i \in 1 .. Len(answers) - 1 : answers'[i] = answers[i + 1]
      BY <1>1, <3>2, Taken
    <3>4. \A i \in 1 .. Len(answers') : i + 1 \in 1 .. Len(answers) /\ answers'[i] = answers[i + 1]
      BY <1>6, <1>7, <3>3
    <3>5. QED  BY <1>1, <3>1, <3>4
  <2>3. QED  BY <2>1, <2>2 DEF PumpIsAlone
<1>11. OneUnderWay'
  <2> SUFFICES ASSUME ~crossed' PROVE OneUnderWay'  BY DEF OneUnderWay
  <2>1. ~crossed  BY <1>1
  <2>2. OnlyLast'  BY <1>8, <2>1 DEF OpInv, OneUnderWay
  <2>3. CASE inflight # None /\ inflight' = None
    BY <2>2, <2>3, ClosingAnswer DEF OneUnderWay
  <2>4. CASE inflight' = inflight
    BY <1>1, <1>3, <1>8, <2>1, <2>2, <2>4 DEF OpInv, OneUnderWay
  <2>5. QED  BY <1>3, <2>3, <2>4
<1>12. QED  BY <1>4, <1>5, <1>8, <1>9, <1>10, <1>11 DEF OpInv

-----------------------------------------------------------------------------
LEMMA OpStepKeeps ==
  ASSUME OpInv, [OpNext]_op_vars
  PROVE  OpInv'
<1>1. CASE Pump
  BY <1>1, ConsumeKeeps, CheckKeeps, EncodeKeeps, SendKeeps, BlockedKeeps, SendErrorKeeps,
     NoteKeeps, ReceiveKeeps DEF Pump
<1>2. CASE node_receive \/ node_expire \/ lose_frame
  BY <1>2, NodeReceiveKeeps, ExpireKeeps, LossKeeps
<1>3. CASE worker_tick \/ deliver_status \/ raise_io_fault
  BY <1>3, TickStays, DeliverKeeps, FaultStays
<1>4. CASE app_publish \/ app_activate \/ app_close \/ Clock
  BY <1>4, PublishStays, ActivateKeeps, CloseStays, ClockStays
<1>5. CASE UNCHANGED op_vars
  <2>1. UNCHANGED rt_vars /\ UNCHANGED path_vars  BY <1>5 DEF op_vars
  <2>2. RuntimeHolds'  BY <2>1, RtNextKeepsInv DEF OpInv, RuntimeHolds, rt_vars
  <2>3. GateStays  BY <2>1 DEF GateStays, rt_vars
  <2>4. QED  BY <2>1, <2>2, <2>3, RuntimeStepKeeps DEF path_vars, OpInv, CountersHold
<1>6. QED  BY <1>1, <1>2, <1>3, <1>4, <1>5 DEF OpNext

THEOREM OpInvariant == OpSpec => []OpInv
BY OpInitInv, OpStepKeeps, PTL DEF OpSpec

(***************************************************************************)
(* Frames and answers find each other, for every set of commands, wire     *)
(* width and number of sends and activations: a frame is registered while  *)
(* no other is unanswered and before its answer can be seen, and an        *)
(* activation that has met no answer of an earlier one closes each command *)
(* by the answer to its own frame.                                         *)
(***************************************************************************)
THEOREM AnswerTheorem == OpSpec => AnswerMeetsItsFrame
<1>1. OpInv => OpTypeOK /\ (pump.pc \in {"encode", "send", "note"} => inflight = None)
  BY DEF OpInv, OpTypeOK, RuntimeHolds, RtInv, PumpHolds, NodeHolds, CountersHold, PumpIsAlone
<1>2. OpInv => (pump.pc = "note" => \A i \in DOMAIN answers : answers[i].id # sends)
  <2>1. ASSUME OpInv PROVE DOMAIN answers = 1 .. Len(answers)
    <3>1. PICK S : answers \in Seq(S)  BY <2>1 DEF OpInv, InOrder, Channel, IsSeq
    <3>2. QED  BY <3>1
  <2>2. QED  BY <2>1 DEF OpInv, PumpIsAlone
<1>3. OpInv => [deliver_status /\ inflight # None /\ inflight' = None /\ ~crossed' =>
                  Head(answers).id = sends]_op_vars
  BY ClosingAnswer
<1>4. QED  BY <1>1, <1>2, <1>3, OpInvariant, PTL DEF AnswerMeetsItsFrame
=============================================================================
