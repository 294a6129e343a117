---------------------------- MODULE FirmwareNode ----------------------------
(***************************************************************************)
(* The STM32F103 firmware around CanNode: main()'s endless loop, the CAN   *)
(* receive interrupt that fills the RX ring behind its back, the SysTick   *)
(* clock, bus-off, and the independent watchdog that resets a loop that    *)
(* does not come round. The physical output is written once per round, so  *)
(* it lags the node's state.                                               *)
(*                                                                         *)
(* The sensor input and the periodic reports of the same loop touch        *)
(* nothing here and are modelled in FirmwareReports.                       *)
(***************************************************************************)
EXTENDS CanNode, Sequences

CONSTANTS
  Frames,          \* output commands that may arrive (decoded)
  Noise,           \* a frame for another node, or one that does not decode
  RxCapacity,      \* frames the RX ring holds: QUEUE_CAPACITY - 1
  WatchdogPeriod,  \* IWDG timeout
  MaxSession       \* largest session; the code's is 0xFFFF

ASSUME FirmwareAssumption ==
  /\ Frames \subseteq [session : Nat, sequence : Nat, mask : SUBSET Nat, values : SUBSET Nat,
                      validity : Nat]
  /\ Noise \notin Frames
  /\ RxCapacity \in Nat \ {0} /\ WatchdogPeriod \in Nat \ {0} /\ MaxSession \in Nat \ {0}

VARIABLES
  clock,             \* monotonic_ms
  node,              \* rcr_node_t
  rx,                \* rx_queue: frames with their receive_ms
  rx_overflow,       \* set by the interrupt, taken by the loop
  bus_off,           \* the controller's BOFF bit
  bus_off_previous,  \* its value when the loop last looked
  loop,              \* the loop's step and the now_ms of this round
  output,            \* what the pins do: the LED and the servo pulse
  granted,           \* the lease end behind the committed output
  unkicked           \* time since the watchdog was kicked

fw_vars == <<clock, node, rx, rx_overflow, bus_off, bus_off_previous, loop, output, granted, unkicked>>

Off == [led |-> FALSE, servo |-> "disabled"]

\* rcr_servo_pwm_target_us, and the LED beside it.
Target(n) ==
  [led   |-> 0 \in n.output_bits,
   servo |-> IF ~n.lease_active THEN "disabled" ELSE IF 0 \in n.output_bits THEN "B" ELSE "A"]

-----------------------------------------------------------------------------
(* Interrupts and hardware. *)

SysTick_Handler ==
  /\ unkicked < WatchdogPeriod
  /\ clock' = (clock + 1) % ClockMod
  /\ unkicked' = unkicked + 1
  /\ UNCHANGED <<node, rx, rx_overflow, bus_off, bus_off_previous, loop, output, granted>>

CAN1_RX0_IRQHandler ==
  /\ \E f \in Frames \cup {Noise} :
       IF Len(rx) < RxCapacity
         THEN rx' = Append(rx, [frame |-> f, receive |-> clock]) /\ UNCHANGED rx_overflow
         ELSE rx_overflow' = TRUE /\ UNCHANGED rx
  /\ UNCHANGED <<clock, node, bus_off, bus_off_previous, loop, output, granted, unkicked>>

\* Bus-off, and the controller's automatic recovery. (External.)
bus_changes ==
  /\ bus_off' = ~bus_off
  /\ UNCHANGED <<clock, node, rx, rx_overflow, bus_off_previous, loop, output, granted, unkicked>>

\* Reset: by power, or by the watchdog. platform_init turns the pins off.
reset ==
  /\ clock' = 0 /\ rx' = <<>> /\ rx_overflow' = FALSE
  /\ loop' = [pc |-> "boot", now |-> 0]
  /\ output' = Off /\ granted' = 0 /\ unkicked' = 0
  /\ UNCHANGED <<node, bus_off, bus_off_previous>>

watchdog_reset == unkicked = WatchdogPeriod /\ reset

-----------------------------------------------------------------------------
(* main(). *)

\* A new session; without a usable identity the node starts with its fault latched.
boot ==
  /\ loop.pc = "boot"
  /\ \E identity_ready \in BOOLEAN :
       LET n == NewNode((node.session % MaxSession) + 1) IN
       node' = IF identity_ready THEN n ELSE latch_internal_fault(n)
  /\ bus_off_previous' = FALSE
  /\ unkicked' = 0
  /\ loop' = [loop EXCEPT !.pc = "top"]
  /\ UNCHANGED <<clock, rx, rx_overflow, bus_off, output, granted>>

\* Mutant of loop_top: the overflow flag is taken and ignored.
loop_top_takes_overflow ==
  /\ loop.pc = "top"
  /\ loop' = [pc |-> "receive", now |-> clock]
  /\ rx_overflow' = FALSE
  /\ node' = IF bus_off # bus_off_previous THEN set_bus_ready(node, ~bus_off) ELSE node
  /\ bus_off_previous' = bus_off
  /\ UNCHANGED <<clock, rx, bus_off, output, granted, unkicked>>

loop_top ==
  LET latched == IF rx_overflow THEN latch_internal_fault(node) ELSE node
  IN  /\ loop.pc = "top"
      /\ loop' = [pc |-> "receive", now |-> clock]
      /\ rx_overflow' = FALSE
      /\ node' = IF bus_off # bus_off_previous THEN set_bus_ready(latched, ~bus_off) ELSE latched
      /\ bus_off_previous' = bus_off
      /\ UNCHANGED <<clock, rx, bus_off, output, granted, unkicked>>

\* One round of the receive loop. The answer to a command finds the TX ring full
\* or not; full, the internal fault is latched.
loop_receive ==
  /\ loop.pc = "receive" /\ rx # <<>>
  /\ LET f       == Head(rx)
         applied == apply_command(node, f.frame, f.receive, clock)
     IN  \/ f.frame = Noise /\ UNCHANGED node
         \/ f.frame # Noise /\ node' \in {applied, latch_internal_fault(applied)}
  /\ rx' = Tail(rx)
  /\ UNCHANGED <<clock, rx_overflow, bus_off, bus_off_previous, loop, output, granted, unkicked>>

\* Mutant of loop_expire: the lease is tested only when a frame arrives.
loop_expire_on_frames_only ==
  /\ loop.pc = "receive" /\ rx = <<>>
  /\ loop' = [loop EXCEPT !.pc = "commit"]
  /\ UNCHANGED <<clock, node, rx, rx_overflow, bus_off, bus_off_previous, output, granted, unkicked>>

\* The ring is empty: the lease is tested against this round's now_ms.
loop_expire ==
  /\ loop.pc = "receive" /\ rx = <<>>
  /\ node' = expire_lease(node, loop.now)
  /\ loop' = [loop EXCEPT !.pc = "commit"]
  /\ UNCHANGED <<clock, rx, rx_overflow, bus_off, bus_off_previous, output, granted, unkicked>>

loop_commit ==
  /\ loop.pc = "commit"
  /\ output' = Target(node)
  /\ granted' = IF node.lease_active THEN node.lease_deadline ELSE clock
  /\ unkicked' = 0
  /\ loop' = [loop EXCEPT !.pc = "top"]
  /\ UNCHANGED <<clock, node, rx, rx_overflow, bus_off, bus_off_previous>>

Main == boot \/ loop_top \/ loop_receive \/ loop_expire \/ loop_commit

-----------------------------------------------------------------------------
FwInit ==
  /\ clock = 0
  /\ node = NewNode(MaxSession)
  /\ rx = <<>> /\ rx_overflow = FALSE
  /\ bus_off = FALSE /\ bus_off_previous = FALSE
  /\ loop = [pc |-> "boot", now |-> 0]
  /\ output = Off /\ granted = 0 /\ unkicked = 0

FwNext ==
  \/ SysTick_Handler \/ CAN1_RX0_IRQHandler \/ bus_changes \/ reset \/ watchdog_reset
  \/ Main

\* The core executes main(), time passes, and the watchdog bites. Interrupts may
\* delay the loop without limit.
FwFairness == WF_fw_vars(Main) /\ WF_fw_vars(SysTick_Handler) /\ WF_fw_vars(watchdog_reset)

FwSpec == FwInit /\ [][FwNext]_fw_vars /\ FwFairness

-----------------------------------------------------------------------------
\* Types and bounds of the state; the first conjunct of FwAuthority.
FwTypeOK ==
  /\ clock \in 0 .. ClockMod - 1 /\ granted \in 0 .. ClockMod - 1
  /\ loop.pc \in {"boot", "top", "receive", "commit"} /\ loop.now \in 0 .. ClockMod - 1
  /\ Len(rx) <= RxCapacity
  /\ rx_overflow \in BOOLEAN /\ bus_off \in BOOLEAN /\ bus_off_previous \in BOOLEAN
  /\ unkicked \in 0 .. WatchdogPeriod
  /\ output \in [led : BOOLEAN, servo : {"disabled", "A", "B"}]

(***************************************************************************)
(* Outputs are driven only under a lease, and a lease is held only by a    *)
(* node whose bus is up and whose internal fault is not latched: whatever  *)
(* the order of frames, bus-off, overflow and a full TX ring.              *)
(***************************************************************************)
FwAuthority ==
  /\ FwTypeOK
  /\ node.output_bits # {} => node.lease_active
  /\ node.lease_active => node_interlock_ready(node)

(***************************************************************************)
(* The pins never outlive the lease behind them by two watchdog periods,   *)
(* even across the wrap of the millisecond counter: a loop that tested the *)
(* lease late, or hangs after testing it, is reset in time.                *)
(***************************************************************************)
PinsOutliveLeaseBriefly ==
  output.servo # "disabled" =>
    ~time_after_or_equal(clock, (granted + 2 * WatchdogPeriod) % ClockMod)

(***************************************************************************)
(* A frame lost to a full RX ring latches the internal fault, unless the   *)
(* node is reset first: it is not forgotten, and a loop that cannot drain  *)
(* the ring is reset.                                                      *)
(***************************************************************************)
LostFrameIsFatal == rx_overflow ~> (node.fatal \/ loop.pc = "boot")
=============================================================================
