----------------------------- MODULE ModbusTcp ------------------------------
(***************************************************************************)
(* The Modbus TCP experiment: one synchronous Client, the RefServer with   *)
(* its single thread, and the TCP connections between them. Frames are     *)
(* whole here (StreamFraming has the bytes). A connection that the client  *)
(* has left stays with the server, with what was sent on it, until the     *)
(* server comes to it.                                                     *)
(***************************************************************************)
EXTENDS Naturals, Sequences

CONSTANTS
  Size,         \* holding registers of the server
  MaxQuantity,  \* registers in one request: 125 to read, 123 to write
  Ops,          \* what the application asks for
  Attempts,     \* ClientConfig::reconnect_attempts
  TidMod,       \* transaction identifiers count modulo this: 2^16
  MaxCalls,     \* bound: calls the application makes
  MaxBacklog    \* bound: connections the kernel queues for the server

\* Two transactions of a call at most: no identifier comes round again.
ASSUME ModbusTcpAssumption ==
  /\ Size \in Nat \ {0} /\ MaxQuantity \in Nat \ {0} /\ Attempts \in Nat \ {0}
  /\ MaxCalls \in Nat /\ TidMod \in Nat /\ TidMod > 2 * MaxCalls + 1
  /\ MaxBacklog \in Nat \ {0}

VARIABLES
  client,     \* where the call is: pc, operation, transaction, resend, attempts left
  fd,         \* fd_ is open
  next_tid,   \* next_tid_
  rx,         \* answers that have come on the client's connection, and were not popped
  backlog,    \* connections not yet accepted
  server,     \* where the server's thread is, with the connection it serves
  owner,      \* where the server's owner is in start() and stop()
  running,    \* running_
  listening,  \* listen_fd_ is open
  map,        \* HoldingMap
  calls,      \* calls made so far
  known,      \* what the client has been told of the registers, and has not written since
  runs, lost  \* per call: how often the server carried it out, and lost connections

client_vars == <<client, fd, next_tid>>
server_vars == <<server, running, listening, owner, map>>
ghosts == <<calls, known, runs, lost>>
mt_vars == <<client_vars, rx, backlog, server_vars, ghosts>>

Unknown == <<>>

-----------------------------------------------------------------------------
(* HoldingMap and the PDUs                                                 *)

Span(op) == op.address .. op.address + op.quantity - 1

\* encode_*_request refuses the quantities that the server would refuse.
Encodes(op) == op.quantity \in 1 .. MaxQuantity

\* FC06 and FC16. A range that is not within the map leaves it alone.
write_multiple(m, op) ==
  IF Span(op) \subseteq DOMAIN m
    THEN [a \in DOMAIN m |-> IF a \in Span(op) THEN op.values[a - op.address + 1] ELSE m[a]]
    ELSE m

\* The answer: an exception, the echo of a write, or the registers read.
handle_pdu(m, op) ==
  IF ~(Span(op) \subseteq DOMAIN m) THEN [kind |-> "exception", values |-> <<>>]
  ELSE IF op.fn = "write" THEN [kind |-> "echo", values |-> op.values]
  ELSE [kind |-> "values", values |-> [i \in 1 .. op.quantity |-> m[op.address + i - 1]]]

MapAfter(m, op) == IF op.fn = "write" THEN write_multiple(m, op) ELSE m

-----------------------------------------------------------------------------
(* Connections. Only the client's present one is "mine".                   *)

Fresh == [inbox |-> <<>>, mine |-> TRUE]

Alive == server.mine \/ \E i \in DOMAIN backlog : backlog[i].mine

Left(connection) == [connection EXCEPT !.mine = FALSE]

LeaveAll ==
  /\ backlog' = [i \in DOMAIN backlog |-> Left(backlog[i])]
  /\ server' = Left(server)

Put(connection, request) ==
  IF connection.mine THEN [connection EXCEPT !.inbox = Append(@, request)] ELSE connection

\* Client::close. What was sent stays on its way to the server.
Close == fd' = FALSE /\ rx' = <<>> /\ LeaveAll

\* Client::connect, once the old connection is closed.
Connected ==
  /\ listening /\ Len(backlog) < MaxBacklog
  /\ fd' = TRUE /\ rx' = <<>>
  /\ backlog' = Append([i \in DOMAIN backlog |-> Left(backlog[i])], Fresh)
  /\ server' = Left(server)

-----------------------------------------------------------------------------
(* Client: read_holding, write_single and write_multiple                   *)

Idle == [pc |-> "idle", op |-> <<>>, tid |-> 0, again |-> FALSE, attempts |-> 0]

Targets(op) == IF op.fn = "write" THEN Span(op) \cap DOMAIN map ELSE {}

\* The call begins: from here until an answer the client knows nothing of the
\* registers it may be writing.
call(op) ==
  /\ client.pc = "idle" /\ calls < MaxCalls
  /\ IF Encodes(op)
       THEN /\ client' = [Idle EXCEPT !.pc = IF fd THEN "send" ELSE "connect",
                                      !.op = op, !.attempts = Attempts]
            /\ calls' = calls + 1
            /\ known' = [known EXCEPT !.now = [a \in DOMAIN @ |-> IF a \in Targets(op) THEN Unknown
                                                                  ELSE @[a]],
                                      !.before = known.now]
       ELSE UNCHANGED <<client, calls, known>>
  /\ UNCHANGED <<fd, next_tid, rx, backlog, server_vars, runs, lost>>

Returns == client' = Idle

\* reconnect_with_backoff: the attempts of ensure_connected or of a resend.
reconnect ==
  /\ client.pc = "connect"
  /\ \/ Connected /\ client' = [client EXCEPT !.pc = "send"]
     \/ /\ Close
        /\ IF client.attempts > 1 THEN client' = [client EXCEPT !.attempts = @ - 1] ELSE Returns
  /\ UNCHANGED <<next_tid, running, listening, owner, map, ghosts>>

\* The identifier 0 is left out.
NextTid(t) == IF (t + 1) % TidMod = 0 THEN 1 ELSE (t + 1) % TidMod

\* Closed or Io: the first time, the connection is given up and the request is
\* to be sent once more; the second time it is the result, and fd_ stays.
connection_fails ==
  /\ lost' = [lost EXCEPT ![calls] = @ + 1]
  /\ IF client.again THEN Returns /\ UNCHANGED <<fd, rx, backlog, server>>
     ELSE /\ client' = [client EXCEPT !.pc = "connect", !.again = TRUE, !.attempts = Attempts]
          /\ Close

\* transact_once up to send_all. On a connection that the server has left, the
\* bytes vanish or the send fails.
send_request ==
  LET request == [tid |-> next_tid, op |-> client.op, call |-> calls]
  IN  /\ client.pc = "send"
      /\ next_tid' = NextTid(next_tid)
      /\ \/ /\ client' = [client EXCEPT !.pc = "recv", !.tid = next_tid]
            /\ backlog' = [i \in DOMAIN backlog |-> Put(backlog[i], request)]
            /\ server' = Put(server, request)
            /\ UNCHANGED <<fd, rx, lost>>
         \/ ~Alive /\ connection_fails
      /\ UNCHANGED <<running, listening, owner, map, calls, known, runs>>

\* What an answer tells of the registers: the ones just written or read, or that
\* the request has changed nothing.
Learns(op, pdu) ==
  [known EXCEPT !.now =
     IF pdu.kind = "exception" THEN known.before
     ELSE [a \in DOMAIN @ |-> IF a \in Span(op) THEN <<pdu.values[a - op.address + 1]>> ELSE @[a]]]

\* Mutant of Accepts: the transaction identifier is not compared.
AcceptsAny(answer) ==
  Len(answer.pdu.values) = client.op.quantity

Accepts(answer) == answer.tid = client.tid

\* recv_adu pops a frame. One of another transaction is reported as a mismatch,
\* and neither retried nor followed by a close.
receive ==
  /\ client.pc = "recv" /\ rx # <<>>
  /\ rx' = Tail(rx)
  /\ known' = IF Accepts(Head(rx)) THEN Learns(client.op, Head(rx).pdu) ELSE known
  /\ Returns
  /\ UNCHANGED <<fd, next_tid, backlog, server_vars, calls, runs, lost>>

\* The other end has gone: the answers that came before are read, or lost.
receive_fails ==
  /\ client.pc = "recv" /\ ~Alive
  /\ connection_fails
  /\ UNCHANGED <<next_tid, running, listening, owner, map, calls, known, runs>>

\* Mutant of response_timeout: the request is sent again, as for a lost
\* connection.
response_timeout_resends ==
  /\ client.pc = "recv" /\ rx = <<>>
  /\ IF client.again THEN Returns ELSE client' = [client EXCEPT !.pc = "send", !.again = TRUE]
  /\ UNCHANGED <<fd, next_tid, rx, backlog, server_vars, ghosts>>

\* The connection stays, and the answer may still come on it.
response_timeout ==
  /\ client.pc = "recv" /\ rx = <<>>
  /\ Returns
  /\ UNCHANGED <<fd, next_tid, rx, backlog, server_vars, ghosts>>

close ==
  /\ client.pc = "idle" /\ fd
  /\ Close
  /\ UNCHANGED <<client, next_tid, running, listening, owner, map, ghosts>>

\* connect() from the application: one attempt.
connect ==
  /\ client.pc = "idle"
  /\ Connected
  /\ UNCHANGED <<client, next_tid, running, listening, owner, map, ghosts>>

ClientStep == reconnect \/ send_request \/ receive \/ receive_fails \/ response_timeout

-----------------------------------------------------------------------------
(* RefServer: its owner                                                    *)

Listening == [pc |-> "accept", inbox |-> <<>>, todo |-> <<>>, mine |-> FALSE]

start ==
  /\ owner = "stopped"
  /\ owner' = "started" /\ running' = TRUE /\ listening' = TRUE
  /\ server' = Listening
  /\ UNCHANGED <<client_vars, rx, backlog, map, ghosts>>

stop_running ==
  /\ owner = "started"
  /\ owner' = "stopping" /\ running' = FALSE
  /\ UNCHANGED <<client_vars, rx, backlog, server, listening, map, ghosts>>

\* The queue goes with the listening socket.
stop_listening ==
  /\ owner = "stopping"
  /\ owner' = "joining" /\ listening' = FALSE
  /\ backlog' = <<>>
  /\ UNCHANGED <<client_vars, rx, server, running, map, ghosts>>

join ==
  /\ owner = "joining" /\ server.pc = "done"
  /\ owner' = "stopped"
  /\ UNCHANGED <<client_vars, rx, backlog, server, running, listening, map, ghosts>>

-----------------------------------------------------------------------------
(* RefServer: thread_main and serve_client                                 *)

Thread == UNCHANGED <<client_vars, running, listening, owner, calls, known, lost>>

\* running_ may have been cleared since the loop looked.
accept ==
  /\ server.pc = "accept" /\ backlog # <<>>
  /\ server' = [Listening EXCEPT !.pc = "serve", !.inbox = Head(backlog).inbox,
                                 !.mine = Head(backlog).mine]
  /\ backlog' = Tail(backlog)
  /\ Thread /\ UNCHANGED <<rx, map, runs>>

thread_ends ==
  /\ server.pc = "accept" /\ ~running
  /\ server' = [server EXCEPT !.pc = "done"]
  /\ Thread /\ UNCHANGED <<rx, backlog, map, runs>>

\* One recv, of some of the requests that have come.
serve_recv ==
  /\ server.pc = "serve" /\ running /\ server.inbox # <<>>
  /\ \E n \in 1 .. Len(server.inbox) :
       server' = [server EXCEPT !.pc = "handle", !.todo = SubSeq(server.inbox, 1, n),
                                !.inbox = SubSeq(@, n + 1, Len(@))]
  /\ Thread /\ UNCHANGED <<rx, backlog, map, runs>>

\* Each frame of that recv is carried out and answered, with its identifier. An
\* answer that nobody reads is lost; the send may fail, which ends the serving.
serve_handle ==
  LET request == Head(server.todo)
      rest    == Tail(server.todo)
      went_on == [server EXCEPT !.todo = rest, !.pc = IF rest = <<>> THEN "serve" ELSE "handle"]
  IN  /\ server.pc = "handle"
      /\ map' = MapAfter(map, request.op)
      /\ runs' = [runs EXCEPT ![request.call] = @ + 1]
      /\ rx' = IF server.mine THEN Append(rx, [tid |-> request.tid, pdu |-> handle_pdu(map, request.op)]) ELSE rx
      /\ server' \in {went_on} \cup (IF server.mine THEN {} ELSE {Listening})
      /\ Thread /\ UNCHANGED backlog

\* Mutant of serve_ends: a client that stays connected keeps the thread.
serve_ends_at_eof ==
  /\ server.pc = "serve" /\ ~server.mine
  /\ server' = Listening
  /\ Thread /\ UNCHANGED <<rx, backlog, map, runs>>

\* The client has gone, or the server stops. A connection that was reset takes
\* the requests it holds with it.
serve_ends ==
  /\ server.pc = "serve" /\ (~running \/ ~server.mine)
  /\ server' = Listening
  /\ Thread /\ UNCHANGED <<rx, backlog, map, runs>>

ServerStep == accept \/ thread_ends \/ serve_recv \/ serve_handle \/ serve_ends

-----------------------------------------------------------------------------
\* The network breaks the client's connection. (External.)
reset ==
  /\ fd /\ Alive
  /\ LeaveAll
  /\ rx' \in {rx, <<>>}
  /\ UNCHANGED <<client_vars, running, listening, owner, map, ghosts>>

MtInit ==
  /\ client = Idle /\ fd = FALSE /\ next_tid = 1 /\ rx = <<>> /\ backlog = <<>>
  /\ server = [Listening EXCEPT !.pc = "done"]
  /\ owner = "stopped" /\ running = FALSE /\ listening = FALSE
  /\ map = [a \in 0 .. Size - 1 |-> 0]
  /\ calls = 0
  /\ known = [now |-> [a \in 0 .. Size - 1 |-> Unknown], before |-> [a \in 0 .. Size - 1 |-> Unknown]]
  /\ runs = [c \in 1 .. MaxCalls |-> 0] /\ lost = [c \in 1 .. MaxCalls |-> 0]

MtNext ==
  \/ \E op \in Ops : call(op)
  \/ ClientStep \/ close \/ connect
  \/ start \/ stop_running \/ stop_listening \/ join
  \/ ServerStep \/ reset

\* The server's threads run. No call has to be made, and no stop requested.
MtSpec ==
  MtInit /\ [][MtNext]_mt_vars /\ WF_mt_vars(ServerStep) /\ WF_mt_vars(stop_listening \/ join)

-----------------------------------------------------------------------------
(* Properties. *)

\* Types and bounds; the first conjunct of ToldIsTrue.
MtTypeOK ==
  /\ client.pc \in {"idle", "connect", "send", "recv"} /\ client.attempts \in 0 .. Attempts
  /\ next_tid \in 1 .. TidMod - 1
  /\ fd \in BOOLEAN /\ running \in BOOLEAN /\ listening \in BOOLEAN
  /\ owner \in {"stopped", "started", "stopping", "joining"}
  /\ server.pc \in {"accept", "serve", "handle", "done"}
  /\ Len(backlog) <= MaxBacklog
  /\ calls \in 0 .. MaxCalls

(***************************************************************************)
(* What the client has been told of a register is so, and stays so until   *)
(* it asks to write it: no write that timed out, was sent twice or was     *)
(* left behind on an old connection overtakes a later one that succeeded,  *)
(* no answer is taken for that of another request, and an exception means  *)
(* that nothing was written.                                               *)
(***************************************************************************)
ToldIsTrue ==
  MtTypeOK /\ \A a \in DOMAIN map : known.now[a] # Unknown => known.now[a] = <<map[a]>>

(***************************************************************************)
(* A request is carried out once, and once more for each connection that   *)
(* its call has lost: neither a timeout nor an exception nor a mismatch    *)
(* makes the client repeat a write.                                        *)
(***************************************************************************)
NoSilentReplay == \A c \in 1 .. calls : runs[c] <= 1 + lost[c]

(***************************************************************************)
(* stop() returns, whatever the server's thread is doing and however long  *)
(* its client stays connected.                                             *)
(***************************************************************************)
StopReturns == owner = "stopping" ~> owner = "stopped"

(***************************************************************************)
(* "outstanding=1：发完一请求必须等对应 TransID 响应再发下一笔" (client.hpp): a     *)
(* request is sent only when the earlier ones have had their answer.       *)
(***************************************************************************)
OneOutstanding ==
  /\ Len(rx) + (IF server.mine THEN Len(server.inbox) + Len(server.todo) ELSE 0) <= 1
  /\ \A i \in DOMAIN backlog : backlog[i].mine => Len(backlog[i].inbox) <= 1
=============================================================================
