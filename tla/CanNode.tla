------------------------------- MODULE CanNode ------------------------------
(***************************************************************************)
(* The output side of a CAN node (firmware/stm32f103/src/node.c, and the   *)
(* simulator that mirrors it) as functions of the node's fields. The node  *)
(* runs one loop, so each call is atomic. t is the node's own clock, a     *)
(* counter that wraps, and output_bits the set of output lines driven.     *)
(***************************************************************************)
EXTENDS CanV1

CONSTANT ClockMod  \* the node's clock counts modulo this: 2^32 ms

ASSUME ClockModAssumption == ClockMod \in Nat \ {0}

\* The u32 difference, read as int32_t, is not negative.
time_after_or_equal(t, deadline) ==
  2 * ((t + ClockMod - deadline) % ClockMod) < ClockMod

LeaseEnd(receive, validity) == deadline_from_validity(receive, validity) % ClockMod

\* rcr_node_init with a usable identity.
NewNode(session) ==
  [session |-> session, output_bits |-> {}, lease_active |-> FALSE, lease_deadline |-> 0,
   last_sequence |-> 0, bus_ready |-> TRUE, fatal |-> FALSE]

neutralize_output(n) ==
  [n EXCEPT !.output_bits = {}, !.lease_active = FALSE, !.lease_deadline = 0]

node_interlock_ready(n) == n.bus_ready /\ ~n.fatal

\* Bus-off and internal faults revoke the authority at once; recovery of the
\* bus does not bring it back.
set_bus_ready(n, ready) ==
  IF ready THEN [n EXCEPT !.bus_ready = TRUE]
           ELSE neutralize_output([n EXCEPT !.bus_ready = FALSE])

\* Mutant of latch_internal_fault: the fault is latched and the lease goes on.
latch_keeps_lease(n) ==
  [n EXCEPT !.fatal = TRUE]

latch_internal_fault(n) == neutralize_output([n EXCEPT !.fatal = TRUE])

\* The lease is half open: it is over at its deadline. History is kept.
expire_lease(n, t) ==
  IF n.lease_active /\ time_after_or_equal(t, n.lease_deadline) THEN neutralize_output(n) ELSE n

\* The answers of apply_command, in the order the contract tests them. A zero
\* last_sequence stands for has_accepted_sequence = false: 0 is never on the wire.
CommandResult(n, c, receive, t) ==
  IF c.session # n.session THEN "SessionMismatch"
  ELSE IF ~node_interlock_ready(n) THEN "NotReady"
  ELSE IF n.last_sequence # 0 /\ ~seq_newer(c.sequence, n.last_sequence) THEN "StaleSequence"
  ELSE IF time_after_or_equal(t, LeaseEnd(receive, c.validity)) THEN "Expired"
  ELSE "Applied"

\* A refusal advances neither the sequence nor the lease.
apply_command(n, c, receive, t) ==
  LET m == expire_lease(n, t) IN
  IF CommandResult(m, c, receive, t) = "Applied"
    THEN [m EXCEPT !.output_bits = (@ \ c.mask) \cup (c.values \cap c.mask),
                   !.lease_active = TRUE,
                   !.lease_deadline = LeaseEnd(receive, c.validity),
                   !.last_sequence = c.sequence]
    ELSE m
=============================================================================
