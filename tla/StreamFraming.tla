--------------------------- MODULE StreamFraming ----------------------------
(***************************************************************************)
(* Frames on a byte stream, as the four protocols of the repository cut    *)
(* them out: the MBAP framer of the Modbus TCP experiment, the parser of   *)
(* the remote workbench, and the decoders of the cell (CEL1) and of the    *)
(* Modbus agent, whose two ends read differently. A field of a header that *)
(* the readers look at is one symbol here, whatever its width; a read may  *)
(* end between any two symbols.                                            *)
(***************************************************************************)
EXTENDS Integers, Sequences, SequencesExt

CONSTANTS
  Items,      \* what a peer may send, well formed or not
  MaxItems,   \* bound: items on one connection
  MaxPayload, \* kRemoteMaxPayloadSize and its counterparts
  Base        \* checksums are modulo this: 2^16

ASSUME FramingAssumption == MaxItems \in Nat /\ MaxPayload \in Nat \ {0} /\ Base \in Nat \ {0, 1}

VARIABLES
  protocol,  \* whose stream this is
  sent,      \* the items the peer has sent on this connection
  wire,      \* their symbols that have not been read yet
  buffer,    \* buffer_
  popped,    \* the frames cut out; ghost: where on the connection each began
  forgotten, \* ghost: the items of which a symbol was dropped without a look
  reader     \* "wait" for more, "pop" what there is, "closed" by an error, "down"

fr_vars == <<protocol, sent, wire, buffer, popped, forgotten, reader>>

\* The agent's requests are read by its server, its replies by its client.
AgentEnds == {"agent_server", "agent_client"}

Protocols == {"mbap", "remote", "cell"} \cup AgentEnds

\* MBAP has a protocol id. kRemoteFrameMagic, kCellAppMagic and kModbusAgentMagic
\* differ, but no connection carries two of them.
Magic(p) == IF p = "mbap" THEN 0 ELSE 5

Version == 1

\* remote_crc16 and modbus_rtu_crc16: a function of the symbols, no more.
crc16(symbols) == FoldSeq(LAMBDA x, y : (2 * y + x + 1) % Base, 0, symbols)

-----------------------------------------------------------------------------
(* What the peer puts on the wire                                          *)

MbapSize == 2

HeaderSize == 3

CrcSize == 1

Sealed(body) == Append(body, crc16(body))

encode_adu(pdu) == <<Magic("mbap"), Len(pdu)>> \o pdu

encode_remote_frame(payload) == Sealed(<<Magic("remote"), Version, Len(payload)>> \o payload)

encode_cell_app_frame(payload) == Sealed(<<Magic("cell"), Version, Len(payload)>> \o payload)

encode_modbus_agent_frame(payload) ==
  Sealed(<<Magic("agent_server"), Version, Len(payload)>> \o payload)

Encoded(p, payload) ==
  CASE p = "mbap" -> encode_adu(payload)
    [] p = "remote" -> encode_remote_frame(payload)
    [] p = "cell" -> encode_cell_app_frame(payload)
    [] p \in AgentEnds -> encode_modbus_agent_frame(payload)

\* A frame, or what a faulty peer or line makes of one.
Symbols(p, item) ==
  LET frame   == Encoded(p, item.payload)
      version == IF p = "mbap" THEN 1 ELSE 2
      length  == IF p = "mbap" THEN 2 ELSE 3
  IN  CASE item.kind = "frame"    -> frame
        [] item.kind = "version"  -> [frame EXCEPT ![version] = @ + 1]
        [] item.kind = "oversize" -> [frame EXCEPT ![length] = MaxPayload + 1]
        [] item.kind = "crc"      -> IF p = "mbap" THEN [frame EXCEPT ![length] = 0]
                                     ELSE [frame EXCEPT ![Len(frame)] = (@ + 1) % Base]
        [] item.kind = "noise"    -> item.payload

Wire(p, items) == FlattenSeq([i \in DOMAIN items |-> Symbols(p, items[i])])

-----------------------------------------------------------------------------
(* One attempt to cut a frame off the front of the buffer: what it found,  *)
(* and how many symbols it takes away.                                     *)

Found(status, payload, used) == [status |-> status, payload |-> payload, used |-> used]

NeedMore == Found("NeedMore", <<>>, 0)

Fatal == Found("Fatal", <<>>, 0)

Skip(n) == Found("Skip", <<>>, n)

\* StreamFramer::try_pop_adu. There is no way back into step.
try_pop_adu(b) ==
  LET total == MbapSize + b[2]
  IN  IF Len(b) < MbapSize THEN NeedMore
      ELSE IF b[1] # Magic("mbap") \/ b[2] < 1 \/ b[2] > MaxPayload THEN Fatal
      ELSE IF Len(b) < total THEN NeedMore
      ELSE Found("Ok", SubSeq(b, MbapSize + 1, total), total)

\* Mutant of try_pop: a bad header costs as much as it claims to announce.
try_pop_believes_header(b) ==
  LET total == HeaderSize + b[3] + CrcSize
  IN  IF Len(b) < HeaderSize THEN NeedMore
      ELSE IF b[1] # Magic("remote") THEN Skip(1)
      ELSE IF Len(b) < total THEN NeedMore
      ELSE IF b[2] # Version \/ b[3] > MaxPayload \/ crc16(SubSeq(b, 1, total - 1)) # b[total]
           THEN Skip(total)
      ELSE Found("Ok", SubSeq(b, HeaderSize + 1, total - 1), total)

\* RemoteFrameParser::try_pop skips a symbol, a header or a frame.
try_pop(b) ==
  LET total == HeaderSize + b[3] + CrcSize
  IN  IF Len(b) < HeaderSize THEN NeedMore
      ELSE IF b[1] # Magic("remote") THEN Skip(1)
      ELSE IF b[2] # Version \/ b[3] > MaxPayload THEN Skip(HeaderSize)
      ELSE IF Len(b) < total THEN NeedMore
      ELSE IF crc16(SubSeq(b, 1, total - 1)) # b[total] THEN Skip(total)
      ELSE Found("Ok", SubSeq(b, HeaderSize + 1, total - 1), total)

Decoded(magic, b) ==
  LET total == HeaderSize + b[3] + CrcSize
  IN  IF Len(b) < HeaderSize + CrcSize THEN NeedMore
      ELSE IF b[1] # magic \/ b[2] # Version \/ b[3] > MaxPayload THEN Fatal
      ELSE IF Len(b) < total THEN NeedMore
      ELSE IF crc16(SubSeq(b, 1, total - 1)) # b[total] THEN Fatal
      ELSE Found("Ok", SubSeq(b, HeaderSize + 1, total - 1), total)

try_decode_cell_app_frame(b) == Decoded(Magic("cell"), b)

try_decode_modbus_agent_frame(b) == Decoded(Magic("agent_server"), b)

Cut(b) ==
  CASE protocol = "mbap" -> try_pop_adu(b)
    [] protocol = "remote" -> try_pop(b)
    [] protocol = "cell" -> try_decode_cell_app_frame(b)
    [] protocol \in AgentEnds -> try_decode_modbus_agent_frame(b)

-----------------------------------------------------------------------------
(* The reader                                                              *)

\* kRemoteRxBufferCapacity. The other buffers grow as they must.
Capacity == 2 * (HeaderSize + MaxPayload + CrcSize)

\* Where on the connection the buffer begins.
Here == Len(Wire(protocol, sent)) - Len(wire) - Len(buffer) + 1

\* Where item i begins.
At(i) == Len(Wire(protocol, SubSeq(sent, 1, i - 1))) + 1

\* The items with a symbol at one of these places.
ItemsAt(places) ==
  {i \in DOMAIN sent : \E p \in places : At(i) <= p /\ p < At(i) + Len(Symbols(protocol, sent[i]))}

\* push_bytes: a chunk that does not fit is dropped together with what was there,
\* the session is faulted, and the next chunk is parsed as ever.
append(n) ==
  /\ reader = "wait" /\ n \in 1 .. Len(wire)
  /\ wire' = SubSeq(wire, n + 1, Len(wire))
  /\ IF protocol = "remote" /\ Len(buffer) + n > Capacity
     THEN /\ buffer' = <<>>
          /\ forgotten' = forgotten \cup ItemsAt(Here .. Here + Len(buffer) + n - 1)
          /\ UNCHANGED reader
     ELSE buffer' = buffer \o SubSeq(wire, 1, n) /\ reader' = "pop" /\ UNCHANGED forgotten
  /\ UNCHANGED <<protocol, sent, popped>>

\* read_request and read_frame start every call with an empty buffer: what came
\* behind the frame they return, or with what is no frame, is gone.
Forgets(found) ==
  \/ protocol \in AgentEnds /\ found.status = "Ok"
  \/ protocol = "agent_client" /\ found.status = "Fatal"

\* An error ends the connection, but for the agent's client: exchange keeps fd_.
After(found) ==
  CASE found.status = "NeedMore" -> "wait"
    [] found.status = "Fatal" -> IF protocol = "agent_client" THEN "wait" ELSE "closed"
    [] OTHER -> IF Forgets(found) THEN "wait" ELSE "pop"

\* The loops of serve_client, push_bytes, service_client, serve_one and exchange.
pop ==
  LET found == Cut(buffer)
  IN  /\ reader = "pop" /\ reader' = After(found)
      /\ IF Forgets(found)
         THEN /\ buffer' = <<>>
              /\ forgotten' = forgotten \cup ItemsAt(Here + found.used .. Here + Len(buffer) - 1)
         ELSE buffer' = SubSeq(buffer, found.used + 1, Len(buffer)) /\ UNCHANGED forgotten
      /\ popped' = IF found.status = "Ok"
                    THEN Append(popped, [at |-> Here, payload |-> found.payload]) ELSE popped
      /\ UNCHANGED <<protocol, sent, wire>>

\* read_frame gives up on half a reply, and the connection stays.
read_times_out ==
  /\ protocol = "agent_client" /\ reader = "wait" /\ buffer # <<>>
  /\ buffer' = <<>>
  /\ forgotten' = forgotten \cup ItemsAt(Here .. Here + Len(buffer) - 1)
  /\ UNCHANGED <<protocol, sent, wire, popped, reader>>

\* What a peer may have sent before the reader looks: the agent's client sends
\* its next request after a timeout, with the first still unanswered.
Streams == UNION {[1 .. n -> Items] : n \in 0 .. MaxItems}

\* The connection ends at any point, and clear() forgets its half frame.
clear ==
  /\ reader # "down" /\ reader' = "down"
  /\ sent' = <<>> /\ wire' = <<>> /\ popped' = <<>> /\ forgotten' = {} /\ buffer' = <<>>
  /\ UNCHANGED protocol

reopen ==
  /\ reader = "down" /\ reader' = "wait"
  /\ sent' \in Streams /\ wire' = Wire(protocol, sent')
  /\ UNCHANGED <<protocol, buffer, popped, forgotten>>

FrInit ==
  /\ protocol \in Protocols
  /\ sent = <<>> /\ wire = <<>>
  /\ buffer = <<>> /\ popped = <<>> /\ forgotten = {} /\ reader = "down"

FrNext == (\E n \in 1 .. Len(wire) : append(n)) \/ pop \/ read_times_out \/ clear \/ reopen

-----------------------------------------------------------------------------
(* Properties. *)

FrameSize(payload) == Len(Encoded(protocol, payload))

MaxFrameSize == FrameSize([i \in 1 .. MaxPayload |-> 0])

\* The frames sent, with the item that carries each.
Frames == {i \in DOMAIN sent : sent[i].kind = "frame"}

Whole(i) == [at |-> At(i), payload |-> sent[i].payload]

\* A symbol that passes for the first of a frame: it begins none, not even a
\* damaged one, and no frame that was cut out around it hides it.
Decoy(p) ==
  /\ p \in DOMAIN Wire(protocol, sent) /\ Wire(protocol, sent)[p] = Magic(protocol)
  /\ \A i \in DOMAIN sent : At(i) = p => sent[i].kind = "noise"
  /\ \A m \in Range(popped) : ~(m.at < p /\ p < m.at + FrameSize(m.payload))

\* A header made up of a decoy and what follows may claim as much as a frame.
Misled(i) == \E p \in At(i) - MaxFrameSize + 1 .. At(i) - 1 : Decoy(p)

(***************************************************************************)
(* Wherever the reads end, the frames handed on are those the peer sent,   *)
(* each once and in order, none merged or cut short, and nothing of an     *)
(* earlier connection is in the buffer; none is invented but from a symbol *)
(* that passes for the first of a header. None is missing that the reader  *)
(* has gone past, or that is there when all has been read, unless such a   *)
(* symbol misled the reader within a frame's length before it, or the      *)
(* frame was dropped without a look: by an overflow of the remote parser,  *)
(* by a read of the agent that brought it behind another frame, or by one  *)
(* of its client that failed or timed out in it. A damaged header, a       *)
(* damaged frame or a bad symbol costs the remote parser no other frame.   *)
(* And a connection is given up only where no frame begins.                *)
(***************************************************************************)
FramesAreThoseSent ==
  /\ reader \in {"down", "wait", "pop", "closed"} /\ wire \in Seq(Nat) /\ buffer \in Seq(Nat)
  /\ Here > 0
  /\ \A k \in DOMAIN popped :
       /\ popped[k] \in {Whole(i) : i \in Frames} \/ Decoy(popped[k].at)
       /\ k > 1 => popped[k - 1].at < popped[k].at
  /\ \A i \in Frames :
       At(i) < Here \/ (reader = "wait" /\ wire = <<>>) =>
         Whole(i) \in Range(popped) \/ i \in forgotten \/ Misled(i)
  /\ reader = "closed" => \A i \in Frames : At(i) # Here
=============================================================================
