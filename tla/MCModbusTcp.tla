---------------------------- MODULE MCModbusTcp -----------------------------
(* ModbusTcp on a small instance: two registers, and requests that meet    *)
(* every answer of the server.                                             *)
EXTENDS ModbusTcp

WriteOp(address, values) ==
  [fn |-> "write", address |-> address, quantity |-> Len(values), values |-> values]

ReadOp(address, quantity) ==
  [fn |-> "read", address |-> address, quantity |-> quantity, values |-> <<>>]

\* Two writes of one register, one across the end of the map, one of nothing,
\* and a read of everything.
MCOps == {WriteOp(0, <<1>>), WriteOp(0, <<2>>), WriteOp(1, <<1, 2>>), WriteOp(0, <<>>), ReadOp(0, 2)}
=============================================================================
