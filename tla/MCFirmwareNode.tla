--------------------------- MODULE MCFirmwareNode ---------------------------
(***************************************************************************)
(* FirmwareNode on a small instance.                                       *)
(***************************************************************************)
EXTENDS FirmwareNode

CONSTANTS SequenceNumbers, Validities

MCFrames ==
  [session : {1}, sequence : SequenceNumbers, mask : {{0}}, values : {{0}}, validity : Validities]
=============================================================================
