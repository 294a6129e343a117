----------------------------- MODULE OutputGate -----------------------------
(***************************************************************************)
(* What the runtime promises of its output path, with no clock, no mode    *)
(* machine and no watchdog: a gate that is open or closed, one slot whose  *)
(* latest value wins, and at most one unacknowledged command. Closing the  *)
(* gate loses everything and opening it starts from nothing.               *)
(***************************************************************************)
EXTENDS Naturals

CONSTANTS None, Command, Flight

VARIABLES
  open,    \* ordinary output is permitted
  slot,    \* the admitted command not yet taken, or None
  bound,   \* the session this opening is bound to, or None
  high,    \* the highest sequence admitted since the gate opened
  flight   \* the sent command not yet acknowledged, or None

gate_vars == <<open, slot, bound, high, flight>>

Empty == slot = None /\ bound = None /\ high = 0 /\ flight = None

GateInit == ~open /\ Empty

\* The gate opens or closes; on either side of the change it holds nothing
\* afterwards.
Toggle == open' = ~open /\ Empty'

\* A newer command of the bound session replaces whatever waits.
Admit ==
  /\ open
  /\ slot' \in Command
  /\ bound \in {None, slot'.session} /\ bound' = slot'.session
  /\ slot'.sequence > high /\ high' = slot'.sequence
  /\ UNCHANGED <<open, flight>>

\* The waiting command is taken, or dropped because it is late.
Empties ==
  /\ slot # None
  /\ slot' = None
  /\ UNCHANGED <<open, bound, high, flight>>

\* A command reaches the wire only while none is unanswered.
Launch ==
  /\ open /\ bound # None /\ flight = None
  /\ flight' \in Flight
  /\ UNCHANGED <<open, slot, bound, high>>

\* The unanswered command is confirmed.
Confirm ==
  /\ open /\ flight # None
  /\ flight' = None
  /\ UNCHANGED <<open, slot, bound, high>>

GateNext ==
  \/ Toggle
  \/ Admit
  \/ Empties
  \/ Launch
  \/ Confirm

GateSpec == GateInit /\ [][GateNext]_gate_vars
=============================================================================
