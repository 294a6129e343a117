------------------------------ MODULE CanHealth -----------------------------
(***************************************************************************)
(* CanCommunicationHealthTest: what the CAN health case makes of the       *)
(* snapshots it is given. A snapshot keeps whether the Runtime and its     *)
(* scheduler run, the evidence class, the heartbeat counter, the reject    *)
(* and drop counters as one, whether the device was ever seen and is       *)
(* online, the heartbeat age (-1 unavailable, 0 within the limit, 1 beyond *)
(* it) and whether any fault or latch is set.                              *)
(***************************************************************************)
EXTENDS Integers, FiniteSets

CONSTANTS
  MinHeartbeats  \* min_heartbeat_delta

ASSUME CanHealthAssumption == MinHeartbeats \in Nat \ {0}

\* RuntimeTelemetrySnapshot{}: what a provider returns when CEL1 gives no status.
NoSnapshot ==
  [started |-> FALSE, evidence |-> FALSE, hb |-> 0, rejects |-> 0,
   seen |-> FALSE, online |-> FALSE, age |-> -1, faulted |-> FALSE]

NoObservation ==
  [baseline |-> NoSnapshot, latest |-> NoSnapshot, age |-> -1,
   offline |-> FALSE]

\* prepare: the baseline must come from a running Runtime of the expected
\* evidence class.
Prepared(o) == o.baseline.started /\ o.baseline.evidence

Baseline(s) == [NoObservation EXCEPT !.baseline = s, !.latest = s]

\* One sample of the execute loop.
Observe(o, s) ==
  [o EXCEPT !.latest = s,
            !.age = IF s.age > @ THEN s.age ELSE @,
            !.offline = @ \/ (s.seen /\ ~s.online)]

\* checked_delta of every counter: none has moved backwards.
CountersAdvance(o) ==
  /\ o.latest.hb >= o.baseline.hb
  /\ o.latest.rejects >= o.baseline.rejects

\* evaluate: every criterion holds.
Healthy(o) ==
  /\ o.latest.hb - o.baseline.hb >= MinHeartbeats
  /\ o.age = 0
  /\ o.latest.online /\ ~o.offline
  /\ o.latest.rejects = o.baseline.rejects
  /\ o.latest.started /\ ~o.latest.faulted
=============================================================================
