------------------------------ MODULE MCCellIo ------------------------------
(* CellIo with one snapshot in which the cell is ready and one that a       *)
(* runtime which has just started shows.                                    *)
EXTENDS CellIo

MCReady ==
  [online |-> TRUE, active |-> TRUE, reached |-> TRUE,
   device_fault |-> FALSE, runtime_fault |-> FALSE]

MCSnapshots == {MCReady, [MCReady EXCEPT !.active = FALSE, !.reached = FALSE]}
=============================================================================
