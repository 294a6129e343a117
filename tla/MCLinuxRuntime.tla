--------------------------- MODULE MCLinuxRuntime ---------------------------
(***************************************************************************)
(* LinuxRuntime under every caller, on a small instance.                   *)
(***************************************************************************)
EXTENDS LinuxRuntime

CONSTANTS Sessions, Sequences, Deadlines

\* A zero session, a zero sequence and an empty mask are legal inputs that must be refused.
MCCommands ==
  [session : Sessions, sequence : Sequences, mask : {{0}}, values : {{}},
   deadline : Deadlines]
    \cup {[session |-> 1, sequence |-> 1, mask |-> {}, values |-> {}, deadline |-> MaxTime + 1]}
=============================================================================
