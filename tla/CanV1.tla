-------------------------------- MODULE CanV1 -------------------------------
(***************************************************************************)
(* The arithmetic of the CAN V1 wire contract: the u16 sequence numbers,   *)
(* the relative validity an absolute deadline becomes on the wire, and the *)
(* output command as CanIoLoop encodes it. Byte layout is left out.        *)
(***************************************************************************)
EXTENDS Naturals

CONSTANTS
  WireMax,       \* largest wire number: 0xFFFF
  ValidityUnit,  \* kValidityUnitNs, in units of the model's clock
  MaxValidity,   \* kMaxValidity10ms
  WireLines      \* the output lines the u8 mask and values can carry

ASSUME CanV1Assumption ==
  /\ WireMax \in Nat \ {0}
  /\ ValidityUnit \in Nat \ {0}
  /\ MaxValidity \in Nat \ {0}
  /\ WireLines \subseteq Nat

\* seq_newer: the u16 difference, read as int16_t, is positive. Half the space
\* away is ambiguous and counts as old.
seq_newer(a, b) ==
  LET diff == (a + (WireMax + 1) - b) % (WireMax + 1)
  IN  diff # 0 /\ 2 * diff < WireMax + 1

\* The runtime's unbounded sequence on the wire: 1 .. WireMax, never 0.
WireSequence(q) == ((q - 1) % WireMax) + 1

\* Mutant of ValidityUnits: a whole number of units is rounded up too.
ValidityUnitsOneMore(t, deadline) ==
  (deadline - t) \div ValidityUnit + 1

\* validity_10ms_from_deadline: whole units, rounded up; too little or too much
\* left is refused.
ValidityUnits(t, deadline) == ((deadline - t) + ValidityUnit - 1) \div ValidityUnit

ValidityAccepted(t, deadline) ==
  /\ deadline >= t + ValidityUnit
  /\ ValidityUnits(t, deadline) <= MaxValidity

deadline_from_validity(receive, validity) == receive + validity * ValidityUnit

\* to_wire_command: refused, or the fields that go on the wire.
WireEncodable(c, t) ==
  /\ c.session \in 1 .. WireMax /\ c.sequence # 0 /\ c.mask \cap WireLines # {}
  /\ ValidityAccepted(t, c.deadline)

to_wire_command(c, t) ==
  [session |-> c.session, sequence |-> WireSequence(c.sequence),
   mask |-> c.mask \cap WireLines, values |-> c.values \cap WireLines,
   validity |-> ValidityUnits(t, c.deadline)]
=============================================================================
