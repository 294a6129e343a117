------------------------------ MODULE MCModbus ------------------------------
(* Messages on byte streams, for one run: the Modbus TCP client and server, *)
(* and the framings of all four protocols. They share no state: a behaviour *)
(* exercises one of them and leaves the other in an initial state, where    *)
(* nothing is due.                                                          *)
EXTENDS MCModbusTcp, StreamFraming

Item(kind, payload) == [kind |-> kind, payload |-> payload]

\* A short frame and one whose payload begins like a header, one bad in each field
\* that is checked, a symbol that begins nothing, and a header of nobody's.
MCItems ==
  {Item("frame", <<1>>), Item("frame", <<5, 1>>), Item("crc", <<1>>), Item("version", <<5>>),
   Item("oversize", <<1>>), Item("noise", <<4>>), Item("noise", <<5, 1, 2>>)}

VARIABLE part  \* the one this behaviour exercises

mc_vars == <<mt_vars, fr_vars, part>>

\* What has several initial states varies only where it is exercised.
MCInit ==
  /\ MtInit /\ FrInit
  /\ part \in {"tcp", "framing"}
  /\ part # "framing" => protocol = "mbap"

MCNext ==
  \/ part = "tcp" /\ MtNext /\ UNCHANGED <<fr_vars, part>>
  \/ part = "framing" /\ FrNext /\ UNCHANGED <<mt_vars, part>>

MCSpec ==
  /\ MCInit /\ [][MCNext]_mc_vars
  /\ WF_mt_vars(ServerStep) /\ WF_mt_vars(stop_listening \/ join)
=============================================================================
