------------------------- MODULE FirmwareNodeProofs -------------------------
(***************************************************************************)
(* The firmware holds no authority it should not, for every set of frames, *)
(* every ring size, every clock width and every watchdog period.           *)
(***************************************************************************)
EXTENDS FirmwareNode, TLAPS

Times == 0 .. ClockMod - 1

Nodes ==
  [session : Nat, output_bits : SUBSET Nat, lease_active : BOOLEAN, lease_deadline : Times,
   last_sequence : Nat, bus_ready : BOOLEAN, fatal : BOOLEAN]

\* What a node's own operations keep of it: no output without a lease, no lease
\* without a bus or with a fault.
Authority(n) ==
  /\ n \in Nodes
  /\ n.output_bits # {} => n.lease_active
  /\ n.lease_active => n.bus_ready /\ ~n.fatal

Received == [frame : Frames \cup {Noise}, receive : Times]

\* Inductive: a lease end is a time because the frames that were queued, and
\* when they were received, are known.
FwInv ==
  /\ Authority(node) /\ rx \in Seq(Received)
  /\ loop \in [pc : {"boot", "top", "receive", "commit"}, now : Times]
  /\ FwTypeOK

-----------------------------------------------------------------------------
(* The node's operations.                                                  *)

LEMMA TimesAreTimes ==
  /\ 0 \in Times /\ Times \subseteq Nat
  /\ \A n \in Nat : n % ClockMod \in Times
BY ClockModAssumption DEF Times

LEMMA NewNodeIsSafe ==
  ASSUME NEW s \in Nat
  PROVE  Authority(NewNode(s))
<1>1. NewNode(s) \in Nodes  BY TimesAreTimes DEF NewNode, Nodes
<1>2. NewNode(s).output_bits = {} /\ NewNode(s).lease_active = FALSE  BY DEF NewNode
<1>3. QED  BY <1>1, <1>2 DEF Authority

\* Whatever else has changed, a neutralised node has no authority.
LEMMA NeutralIsSafe ==
  ASSUME NEW n \in Nodes
  PROVE  /\ Authority(neutralize_output(n))
         /\ neutralize_output(n).fatal = n.fatal /\ neutralize_output(n).bus_ready = n.bus_ready
<1>1. neutralize_output(n) \in Nodes  BY TimesAreTimes DEF neutralize_output, Nodes
<1>2. neutralize_output(n).output_bits = {} /\ neutralize_output(n).lease_active = FALSE
  BY DEF neutralize_output, Nodes
<1>3. neutralize_output(n).fatal = n.fatal /\ neutralize_output(n).bus_ready = n.bus_ready
  BY DEF neutralize_output, Nodes
<1>4. QED  BY <1>1, <1>2, <1>3 DEF Authority

LEMMA LatchIsSafe ==
  ASSUME NEW n \in Nodes
  PROVE  Authority(latch_internal_fault(n))
<1>1. [n EXCEPT !.fatal = TRUE] \in Nodes  BY DEF Nodes
<1>2. QED  BY <1>1, NeutralIsSafe DEF latch_internal_fault

\* A bus that comes back leaves the authority as it is.
LEMMA BusIsSafe ==
  ASSUME NEW n, Authority(n), NEW ready \in BOOLEAN
  PROVE  Authority(set_bus_ready(n, ready))
<1>1. n \in Nodes  BY DEF Authority
<1>2. [n EXCEPT !.bus_ready = FALSE] \in Nodes /\ [n EXCEPT !.bus_ready = TRUE] \in Nodes
  BY <1>1 DEF Nodes
<1>3. CASE ~ready  BY <1>2, <1>3, NeutralIsSafe DEF set_bus_ready
<1>4. CASE ready
  <2> DEFINE m == [n EXCEPT !.bus_ready = TRUE]
  <2>1. m.output_bits = n.output_bits /\ m.lease_active = n.lease_active /\ m.fatal = n.fatal
        /\ m.bus_ready = TRUE
    BY <1>1 DEF Nodes
  <2> HIDE DEF m
  <2>2. m \in Nodes  BY <1>2 DEF m
  <2>3. Authority(m)  BY <2>1, <2>2 DEF Authority
  <2>4. QED  BY <1>4, <2>3 DEF set_bus_ready, m
<1>5. QED  BY <1>3, <1>4

LEMMA ExpiryIsSafe ==
  ASSUME NEW n, Authority(n), NEW t
  PROVE  Authority(expire_lease(n, t))
<1>1. n \in Nodes  BY DEF Authority
<1>2. QED  BY <1>1, NeutralIsSafe DEF expire_lease

\* A command gives a lease only to a node that is ready.
LEMMA CommandIsSafe ==
  ASSUME NEW n, Authority(n), NEW c \in Frames, NEW r \in Times, NEW t
  PROVE  Authority(apply_command(n, c, r, t))
<1> DEFINE m == expire_lease(n, t)
           a == [m EXCEPT !.output_bits = (@ \ c.mask) \cup (c.values \cap c.mask),
                          !.lease_active = TRUE,
                          !.lease_deadline = LeaseEnd(r, c.validity),
                          !.last_sequence = c.sequence]
<1>1. Authority(m)  BY ExpiryIsSafe
<1> HIDE DEF m
<1>2. m \in Nodes  BY <1>1 DEF Authority
<1>3. c.mask \subseteq Nat /\ c.values \subseteq Nat /\ c.validity \in Nat /\ c.sequence \in Nat
  BY FirmwareAssumption
<1>4. LeaseEnd(r, c.validity) \in Times
  <2>1. r + c.validity * ValidityUnit \in Nat
    BY <1>3, TimesAreTimes, CanV1Assumption
  <2>2. QED  BY <2>1, TimesAreTimes DEF LeaseEnd, deadline_from_validity
<1>5. CASE CommandResult(m, c, r, t) = "Applied"
  <2>1. node_interlock_ready(m)  BY <1>5 DEF CommandResult
  <2>2. m.bus_ready /\ ~m.fatal  BY <2>1 DEF node_interlock_ready
  <2>3. (m.output_bits \ c.mask) \cup (c.values \cap c.mask) \in SUBSET Nat
    BY <1>2, <1>3 DEF Nodes
  <2>4. a \in Nodes  BY <1>2, <1>3, <1>4, <2>3 DEF Nodes
  <2>5. a.lease_active = TRUE /\ a.bus_ready = m.bus_ready /\ a.fatal = m.fatal
    BY <1>2 DEF Nodes
  <2>6. apply_command(n, c, r, t) = a  BY <1>5 DEF apply_command, m
  <2> HIDE DEF a
  <2>7. Authority(a)  BY <2>2, <2>4, <2>5 DEF Authority
  <2>8. QED  BY <2>6, <2>7
<1>6. CASE CommandResult(m, c, r, t) # "Applied"
  BY <1>1, <1>6 DEF apply_command, m
<1>7. QED  BY <1>5, <1>6

-----------------------------------------------------------------------------
(* The steps.                                                              *)

Loops == [pc : {"boot", "top", "receive", "commit"}, now : Times]

Outputs == [led : BOOLEAN, servo : {"disabled", "A", "B"}]

LEMMA FwInitInv == FwInit => FwInv
<1> SUFFICES ASSUME FwInit PROVE FwInv  OBVIOUS
<1>1. Authority(node)
  <2>1. MaxSession \in Nat  BY FirmwareAssumption
  <2>2. QED  BY <2>1, NewNodeIsSafe DEF FwInit
<1>2. rx \in Seq(Received) /\ Len(rx) = 0  BY DEF FwInit
<1>3. loop \in Loops  BY TimesAreTimes DEF FwInit, Loops
<1>4. clock \in Times /\ granted \in Times  BY TimesAreTimes DEF FwInit
<1>5. rx_overflow \in BOOLEAN /\ bus_off \in BOOLEAN /\ bus_off_previous \in BOOLEAN
  BY DEF FwInit
<1>6. unkicked \in 0 .. WatchdogPeriod /\ Len(rx) <= RxCapacity
  BY <1>2, FirmwareAssumption DEF FwInit
<1>7. output \in Outputs  BY DEF FwInit, Off, Outputs
<1>8. QED
  BY <1>1, <1>2, <1>3, <1>4, <1>5, <1>6, <1>7 DEF FwInv, FwTypeOK, Loops, Outputs, Times

\* The facts the steps below are built from.
LEMMA FwFacts ==
  ASSUME FwInv
  PROVE  /\ Authority(node) /\ node \in Nodes /\ rx \in Seq(Received) /\ loop \in Loops
         /\ clock \in Times /\ granted \in Times /\ Len(rx) <= RxCapacity
         /\ rx_overflow \in BOOLEAN /\ bus_off \in BOOLEAN /\ bus_off_previous \in BOOLEAN
         /\ unkicked \in 0 .. WatchdogPeriod /\ output \in Outputs
BY DEF FwInv, FwTypeOK, Loops, Outputs, Times, Authority

\* And what it takes to keep the invariant.
LEMMA FwKept ==
  ASSUME Authority(node'), rx' \in Seq(Received), loop' \in Loops,
         clock' \in Times, granted' \in Times, Len(rx') <= RxCapacity,
         rx_overflow' \in BOOLEAN, bus_off' \in BOOLEAN, bus_off_previous' \in BOOLEAN,
         unkicked' \in 0 .. WatchdogPeriod, output' \in Outputs
  PROVE  FwInv'
BY DEF FwInv, FwTypeOK, Loops, Outputs, Times, Authority, Nodes, Received

LEMMA TickKeeps ==
  ASSUME FwInv, SysTick_Handler
  PROVE  FwInv'
<1>1. clock' \in Times
  <2>1. clock \in Nat  BY FwFacts, TimesAreTimes
  <2>2. clock + 1 \in Nat  BY <2>1
  <2>3. (clock + 1) % ClockMod \in Times  BY <2>2, TimesAreTimes
  <2>4. QED  BY <2>3 DEF SysTick_Handler
<1>2. unkicked' \in 0 .. WatchdogPeriod
  BY FwFacts, FirmwareAssumption DEF SysTick_Handler
<1>3. QED  BY <1>1, <1>2, FwFacts, FwKept DEF SysTick_Handler

LEMMA ReceiveInterruptKeeps ==
  ASSUME FwInv, CAN1_RX0_IRQHandler
  PROVE  FwInv'
<1>1. PICK f \in Frames \cup {Noise} :
        IF Len(rx) < RxCapacity
          THEN rx' = Append(rx, [frame |-> f, receive |-> clock]) /\ UNCHANGED rx_overflow
          ELSE rx_overflow' = TRUE /\ UNCHANGED rx
  BY DEF CAN1_RX0_IRQHandler
<1>2. [frame |-> f, receive |-> clock] \in Received  BY FwFacts DEF Received
<1>3. rx' \in Seq(Received) /\ Len(rx') <= RxCapacity
  <2>1. rx \in Seq(Received) /\ Len(rx) <= RxCapacity /\ RxCapacity \in Nat
    BY FwFacts, FirmwareAssumption
  <2>2. CASE Len(rx) < RxCapacity
    <3>1. rx' = Append(rx, [frame |-> f, receive |-> clock])  BY <1>1, <2>2
    <3>2. rx' \in Seq(Received) /\ Len(rx') = Len(rx) + 1  BY <1>2, <2>1, <3>1
    <3>3. QED  BY <2>1, <2>2, <3>2
  <2>3. CASE ~(Len(rx) < RxCapacity)  BY <1>1, <2>1, <2>3
  <2>4. QED  BY <2>2, <2>3
<1>4. rx_overflow' \in BOOLEAN  BY <1>1, FwFacts
<1>5. QED  BY <1>3, <1>4, FwFacts, FwKept DEF CAN1_RX0_IRQHandler

LEMMA BusKeeps ==
  ASSUME FwInv, bus_changes
  PROVE  FwInv'
<1>1. bus_off' \in BOOLEAN  BY FwFacts DEF bus_changes
<1>2. QED  BY <1>1, FwFacts, FwKept DEF bus_changes

LEMMA ResetKeeps ==
  ASSUME FwInv, reset
  PROVE  FwInv'
<1>1. rx' \in Seq(Received) /\ Len(rx') = 0  BY DEF reset
<1>2. loop' \in Loops  BY TimesAreTimes DEF reset, Loops
<1>3. clock' \in Times /\ granted' \in Times  BY TimesAreTimes DEF reset
<1>4. output' \in Outputs  BY DEF reset, Off, Outputs
<1>5. rx_overflow' \in BOOLEAN  BY DEF reset
<1>6. unkicked' \in 0 .. WatchdogPeriod /\ Len(rx') <= RxCapacity
  BY <1>1, FirmwareAssumption DEF reset
<1>7. QED  BY <1>1, <1>2, <1>3, <1>4, <1>5, <1>6, FwFacts, FwKept DEF reset

LEMMA BootKeeps ==
  ASSUME FwInv, boot
  PROVE  FwInv'
<1> DEFINE n == NewNode((node.session % MaxSession) + 1)
<1>1. Authority(n)
  <2>1. node.session \in Nat  BY FwFacts DEF Nodes
  <2>2. (node.session % MaxSession) + 1 \in Nat  BY <2>1, FirmwareAssumption
  <2>3. QED  BY <2>2, NewNodeIsSafe
<1>2. Authority(latch_internal_fault(n))  BY <1>1, LatchIsSafe DEF Authority
<1>3. Authority(node')  BY <1>1, <1>2 DEF boot
<1>4. loop' \in Loops  BY FwFacts DEF boot, Loops
<1>5. bus_off_previous' \in BOOLEAN  BY DEF boot
<1>6. unkicked' \in 0 .. WatchdogPeriod
  <2>1. unkicked' = 0  BY DEF boot
  <2>2. QED  BY <2>1, FirmwareAssumption
<1>7. QED  BY <1>3, <1>4, <1>5, <1>6, FwFacts, FwKept DEF boot

\* A latched fault survives the change of the bus in the same round.
LEMMA TopKeeps ==
  ASSUME FwInv, loop_top
  PROVE  FwInv'
<1> DEFINE latched == IF rx_overflow THEN latch_internal_fault(node) ELSE node
<1>1. Authority(latched)  BY FwFacts, LatchIsSafe
<1> HIDE DEF latched
<1>2. Authority(set_bus_ready(latched, ~bus_off))
  <2>1. (~bus_off) \in BOOLEAN  OBVIOUS
  <2>2. QED  BY <1>1, <2>1, BusIsSafe
<1>3. node' \in {set_bus_ready(latched, ~bus_off), latched}  BY DEF loop_top, latched
<1>4. Authority(node')  BY <1>1, <1>2, <1>3
<1>5. loop' \in Loops  BY FwFacts DEF loop_top, Loops
<1>6. rx_overflow' \in BOOLEAN /\ bus_off_previous' \in BOOLEAN  BY FwFacts DEF loop_top
<1>7. QED  BY <1>4, <1>5, <1>6, FwFacts, FwKept DEF loop_top

LEMMA LoopReceiveKeeps ==
  ASSUME FwInv, loop_receive
  PROVE  FwInv'
<1> DEFINE f == Head(rx)
           applied == apply_command(node, f.frame, f.receive, clock)
<1>1. /\ rx # <<>> /\ rx' = Tail(rx)
      /\ \/ f.frame = Noise /\ UNCHANGED node
         \/ f.frame # Noise /\ node' \in {applied, latch_internal_fault(applied)}
  BY Zenon DEF loop_receive
<1>2. f \in Received  BY <1>1, FwFacts
<1>3. f.frame \in Frames \cup {Noise} /\ f.receive \in Times  BY <1>2 DEF Received
<1>4. rx' \in Seq(Received) /\ Len(rx') <= RxCapacity
  BY <1>1, FwFacts, FirmwareAssumption
<1> HIDE DEF f
<1>5. CASE f.frame = Noise  BY <1>1, <1>4, <1>5, FwFacts, FwKept DEF loop_receive
<1>6. CASE f.frame # Noise
  <2>1. Authority(applied)  BY <1>3, <1>6, FwFacts, CommandIsSafe
  <2> HIDE DEF applied
  <2>2. Authority(latch_internal_fault(applied))  BY <2>1, LatchIsSafe DEF Authority
  <2>3. Authority(node')  BY <1>1, <1>6, <2>1, <2>2
  <2>4. QED  BY <1>4, <2>3, FwFacts, FwKept DEF loop_receive
<1>7. QED  BY <1>5, <1>6

LEMMA LoopExpireKeeps ==
  ASSUME FwInv, loop_expire
  PROVE  FwInv'
<1>1. Authority(node')  BY FwFacts, ExpiryIsSafe DEF loop_expire
<1>2. loop' \in Loops  BY FwFacts DEF loop_expire, Loops
<1>3. QED  BY <1>1, <1>2, FwFacts, FwKept DEF loop_expire

LEMMA CommitKeeps ==
  ASSUME FwInv, loop_commit
  PROVE  FwInv'
<1>1. Target(node) \in Outputs
  <2>1. (0 \in node.output_bits) \in BOOLEAN  OBVIOUS
  <2>2. (IF ~node.lease_active THEN "disabled" ELSE IF 0 \in node.output_bits THEN "B" ELSE "A")
          \in {"disabled", "A", "B"}
    OBVIOUS
  <2>3. QED  BY <2>1, <2>2 DEF Target, Outputs
<1>2. output' \in Outputs  BY <1>1 DEF loop_commit
<1>3. granted' \in Times  BY FwFacts DEF loop_commit, Nodes
<1>4. loop' \in Loops  BY FwFacts DEF loop_commit, Loops
<1>5. unkicked' \in 0 .. WatchdogPeriod  BY FirmwareAssumption DEF loop_commit
<1>6. QED  BY <1>2, <1>3, <1>4, <1>5, FwFacts, FwKept DEF loop_commit

LEMMA FwStepKeeps ==
  ASSUME FwInv, [FwNext]_fw_vars
  PROVE  FwInv'
<1>1. CASE SysTick_Handler \/ CAN1_RX0_IRQHandler \/ bus_changes \/ reset \/ watchdog_reset
  BY <1>1, TickKeeps, ReceiveInterruptKeeps, BusKeeps, ResetKeeps DEF watchdog_reset
<1>2. CASE Main
  BY <1>2, BootKeeps, TopKeeps, LoopReceiveKeeps, LoopExpireKeeps, CommitKeeps DEF Main
<1>3. CASE UNCHANGED fw_vars
  BY <1>3, FwFacts, FwKept DEF fw_vars
<1>4. QED  BY <1>1, <1>2, <1>3 DEF FwNext

(***************************************************************************)
(* Outputs are driven only under a lease, and a lease is held only by a    *)
(* node whose bus is up and whose fault is not latched: for every order of *)
(* frames, bus-off, overflows and resets, and every clock width.           *)
(***************************************************************************)
THEOREM FwAuthorityTheorem == FwSpec => []FwAuthority
<1>1. FwInv => FwAuthority
  BY DEF FwInv, Authority, FwAuthority, node_interlock_ready
<1>2. QED  BY <1>1, FwInitInv, FwStepKeeps, PTL DEF FwSpec
=============================================================================
