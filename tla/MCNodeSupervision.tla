-------------------------- MODULE MCNodeSupervision -------------------------
(***************************************************************************)
(* NodeSupervision on a small instance: one node that beats, reports,      *)
(* restarts and fails, in front of a queue that holds more than a tick     *)
(* takes. OutputPath has the output statuses.                              *)
(***************************************************************************)
EXTENDS NodeSupervision

Event(kind, boot, sess, interlock, fault) ==
  [kind |-> kind, node |-> NodeId, boot |-> boot, sess |-> sess, seq |-> 1,
   interlock |-> interlock, fault |-> fault, applied |-> TRUE]

\* The failure is in a later session, so a beat of session 1 after it is a
\* restart too.
MCInputEvents ==
  {Event("Heartbeat", 1, 1, FALSE, 0), Event("NodeStatus", 0, 1, TRUE, 0),
   Event("NodeStatus", 0, 2, TRUE, 7)}
=============================================================================
