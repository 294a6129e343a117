---------------------------- MODULE MCOutputPath ----------------------------
(***************************************************************************)
(* OutputPath on a small instance.                                         *)
(***************************************************************************)
EXTENDS OutputPath

CONSTANTS SequenceNumbers, Deadlines

MCCommands ==
  [session : {NodeSession}, sequence : SequenceNumbers, mask : {{0}}, values : {{0}}, deadline : Deadlines]
=============================================================================
