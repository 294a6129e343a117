------------------------ MODULE RemoteSessionProofs -------------------------
(***************************************************************************)
(* The Connection page and the endpoint agree, for every view the runtime  *)
(* may offer and any length of session. Page, client and endpoint are      *)
(* three copies of one fact that different slots update; the invariant     *)
(* says how they follow each other.                                        *)
(***************************************************************************)
EXTENDS RemoteSession, TLAPS

RsSpec == RsInit /\ [][RsNext]_rs_vars

\* The records, as far as the argument reads them.
RsShape ==
  /\ client.connected \in BOOLEAN
  /\ client.ok \in Nat /\ client.missed \in Nat /\ client.statuses \in Nat
  /\ client = [connected |-> client.connected, ok |-> client.ok, missed |-> client.missed,
               statuses |-> client.statuses, status |-> client.status]
  /\ endpoint = [state |-> endpoint.state, replies |-> endpoint.replies,
                 status |-> endpoint.status]

\* The client has a session exactly when the endpoint has one, and only in the
\* remote mode: the page, which also asks for the mode, misses none.
SessionAgrees ==
  /\ client.connected <=> endpoint.state = "Established"
  /\ client.connected => remote_mode = "RemoteLoopback"

\* A session counts one status for each heartbeat, answered or not, and shows the
\* status the endpoint was handed last.
StatusAgrees ==
  client.connected =>
    /\ client.statuses = client.ok + client.missed
    /\ client.statuses > 0 => client.status = endpoint.status

\* The page shows the client.
PageFollows ==
  /\ page.connected <=> client.connected
  /\ client.connected => page.status = client.status
  /\ page.statuses = client.statuses

RsInv == RsShape /\ SessionAgrees /\ StatusAgrees /\ PageFollows

\* publishRemoteConnection makes the page follow a client whose session goes with
\* the remote mode.
LEMMA PublishedFollows ==
  ASSUME publishRemoteConnection, client'.connected \in BOOLEAN,
         client'.connected => remote_mode' = "RemoteLoopback"
  PROVE  PageFollows'
BY DEF publishRemoteConnection, PageFollows

\* disconnect_session ends the session on both sides, whatever mode it leaves.
LEMMA DisconnectKeeps ==
  ASSUME RsInv, disconnect_session
  PROVE  /\ (RsShape /\ StatusAgrees)' /\ ~client'.connected
         /\ endpoint'.state = "WaitingHello"
BY DEF RsInv, RsShape, disconnect_session, reset_session, StatusAgrees

\* A session that has ended agrees.
LEMMA EndedAgrees ==
  ASSUME RsInv, disconnect_session, publishRemoteConnection
  PROVE  RsInv'
<1>1. (RsShape /\ StatusAgrees)' /\ ~client'.connected /\ endpoint'.state = "WaitingHello"
  BY DisconnectKeeps
<1>2. SessionAgrees'  BY <1>1 DEF SessionAgrees
<1>3. client'.connected \in BOOLEAN  BY <1>1 DEF RsShape
<1>4. PageFollows'  BY <1>1, <1>3, PublishedFollows
<1>5. QED  BY <1>1, <1>2, <1>4 DEF RsInv

\* Connect always gets its HelloAck, and counts from zero.
LEMMA ConnectKeeps ==
  ASSUME RsInv, connectRemoteLoopback
  PROVE  RsInv'
<1>1. Greeted(runtime).reply = "HelloAck"
  BY DEF Greeted, handle_frame
<1>2. Greeted(runtime).endpoint = [endpoint EXCEPT !.state = "Established",
                                     !.replies = TRUE, !.status = runtime]
  BY DEF Greeted, handle_frame, reset_session, RsInv, RsShape
<1>3. client' = [client EXCEPT !.connected = TRUE, !.ok = 0, !.missed = 0, !.statuses = 0]
  BY <1>1 DEF connectRemoteLoopback, connect_session
<1>4. endpoint' = [endpoint EXCEPT !.state = "Established", !.replies = TRUE,
                                   !.status = runtime]
  BY <1>2 DEF connectRemoteLoopback, connect_session
<1>5. RsShape' /\ client'.connected /\ endpoint'.state = "Established"
      /\ client'.statuses = 0 /\ client'.ok = 0 /\ client'.missed = 0
  BY <1>3, <1>4 DEF RsInv, RsShape
<1>6. SessionAgrees'  BY <1>5 DEF SessionAgrees, connectRemoteLoopback
<1>7. StatusAgrees'  BY <1>5 DEF StatusAgrees
<1>8. PageFollows'
  BY <1>5, PublishedFollows DEF connectRemoteLoopback, RsShape
<1>9. QED  BY <1>5, <1>6, <1>7, <1>8 DEF RsInv

\* The timer asks for a heartbeat and for a status: whatever becomes of the
\* heartbeat, the status comes.
LEMMA TickKeeps ==
  ASSUME RsInv, tickRemoteLoopback
  PROVE  RsInv'
<1>1. CASE remote_mode = "RemoteLoopback" /\ client.connected
  <2> DEFINE polled == poll_heartbeat(client, endpoint')
  <2>1. endpoint' = [endpoint EXCEPT !.status = runtime]
        /\ client' = refresh_status(polled, endpoint')
    BY <1>1 DEF tickRemoteLoopback
  <2>2. endpoint'.state = "Established" /\ endpoint'.status = runtime
        /\ endpoint' = [state |-> endpoint'.state, replies |-> endpoint'.replies,
                        status |-> endpoint'.status]
    BY <1>1, <2>1 DEF RsInv, RsShape, SessionAgrees
  <2>3. handle_frame(endpoint', "GetStatus").reply = "Status"
        /\ handle_frame(endpoint', "GetStatus").view = runtime
    BY <2>2 DEF handle_frame
  <2>4. \/ polled = [client EXCEPT !.ok = @ + 1]
        \/ polled = [client EXCEPT !.missed = @ + 1]
    BY DEF poll_heartbeat
  <2> HIDE DEF polled
  <2>5. client' = [polled EXCEPT !.status = runtime, !.statuses = @ + 1]
    BY <2>1, <2>3 DEF refresh_status
  <2>6. RsShape' /\ client'.connected = client.connected
        /\ client'.status = runtime
        /\ client'.statuses = client.statuses + 1
        /\ client'.ok + client'.missed = client.ok + client.missed + 1
    <3>1. CASE polled = [client EXCEPT !.ok = @ + 1]
      <4>1. client' = [client EXCEPT !.ok = @ + 1, !.status = runtime, !.statuses = @ + 1]
        BY <2>5, <3>1 DEF RsInv, RsShape
      <4>2. client' = [connected |-> client.connected, ok |-> client.ok + 1,
                       missed |-> client.missed, statuses |-> client.statuses + 1,
                       status |-> runtime]
        BY <4>1 DEF RsInv, RsShape
      <4>3. QED  BY <2>2, <4>2 DEF RsInv, RsShape
    <3>2. CASE polled = [client EXCEPT !.missed = @ + 1]
      <4>1. client' = [client EXCEPT !.missed = @ + 1, !.status = runtime, !.statuses = @ + 1]
        BY <2>5, <3>2 DEF RsInv, RsShape
      <4>2. client' = [connected |-> client.connected, ok |-> client.ok,
                       missed |-> client.missed + 1, statuses |-> client.statuses + 1,
                       status |-> runtime]
        BY <4>1 DEF RsInv, RsShape
      <4>3. QED  BY <2>2, <4>2 DEF RsInv, RsShape
    <3>3. QED  BY <2>4, <3>1, <3>2
  <2>7. client'.connected /\ remote_mode' = "RemoteLoopback"
    BY <1>1, <2>6 DEF tickRemoteLoopback
  <2>8. SessionAgrees'  BY <2>2, <2>7 DEF SessionAgrees
  <2>9. StatusAgrees'
    BY <1>1, <2>2, <2>6 DEF StatusAgrees, RsInv, RsShape
  <2>10. PageFollows'
    BY <2>6, <2>7, PublishedFollows DEF tickRemoteLoopback, RsShape
  <2>11. QED  BY <2>6, <2>8, <2>9, <2>10 DEF RsInv
<1>2. CASE ~(remote_mode = "RemoteLoopback" /\ client.connected)
  <2>1. UNCHANGED <<client, endpoint, remote_mode>> /\ publishRemoteConnection
    BY <1>2 DEF tickRemoteLoopback
  <2>2. (RsShape /\ SessionAgrees /\ StatusAgrees)'
    BY <2>1 DEF RsInv, RsShape, SessionAgrees, StatusAgrees
  <2>3. PageFollows'
    BY <2>1, <2>2, PublishedFollows DEF SessionAgrees, RsShape
  <2>4. QED  BY <2>2, <2>3 DEF RsInv
<1>3. QED  BY <1>1, <1>2

\* Every slot and the timer keep the invariant.
LEMMA RsStep == RsInv /\ [RsNext]_rs_vars => RsInv'
<1> SUFFICES ASSUME RsInv, [RsNext]_rs_vars PROVE RsInv'  OBVIOUS
<1>1. CASE selectLocalBackend \/ disconnectRemoteLoopback
  BY <1>1, EndedAgrees DEF selectLocalBackend, disconnectRemoteLoopback
<1>2. CASE selectRemoteLoopbackBackend
  <2>1. CASE client.connected
    BY <1>2, <2>1, EndedAgrees DEF selectRemoteLoopbackBackend
  <2>2. CASE ~client.connected
    <3>1. UNCHANGED <<client, endpoint>> /\ publishRemoteConnection
      BY <1>2, <2>2 DEF selectRemoteLoopbackBackend
    <3>2. (RsShape /\ SessionAgrees /\ StatusAgrees)'
      BY <2>2, <3>1 DEF RsInv, RsShape, SessionAgrees, StatusAgrees
    <3>3. PageFollows'
      BY <2>2, <3>1, <3>2, PublishedFollows DEF SessionAgrees, RsShape
    <3>4. QED  BY <3>2, <3>3 DEF RsInv
  <2>3. QED  BY <2>1, <2>2
<1>3. CASE connectRemoteLoopback  BY <1>3, ConnectKeeps
<1>4. ASSUME NEW enabled \in BOOLEAN, setRemoteHeartbeatRepliesEnabled(enabled)
      PROVE  RsInv'
  BY <1>4 DEF setRemoteHeartbeatRepliesEnabled, RsInv, RsShape, SessionAgrees,
              StatusAgrees, PageFollows
<1>5. CASE tickRemoteLoopback  BY <1>5, TickKeeps
<1>6. CASE runtime_changes \/ UNCHANGED rs_vars
  BY <1>6 DEF runtime_changes, rs_vars, RsInv, RsShape, SessionAgrees, StatusAgrees,
              PageFollows
<1>7. QED  BY <1>1, <1>2, <1>3, <1>4, <1>5, <1>6 DEF RsNext

(***************************************************************************)
(* The page shows a session exactly while the endpoint has one, and once   *)
(* it counts a reply it shows the status of that session, however the      *)
(* operator switches backends and whatever heartbeats stay unanswered.     *)
(***************************************************************************)
THEOREM PageTheorem == RsSpec => []PageIsOfTheSession
<1>1. RsInit => RsInv
  <2> SUFFICES ASSUME RsInit PROVE RsInv  OBVIOUS
  <2>1. client = [connected |-> FALSE, ok |-> 0, missed |-> 0, statuses |-> 0,
                  status |-> NoView]
        /\ endpoint = [state |-> "WaitingHello", replies |-> TRUE, status |-> NoView]
        /\ page = [connected |-> FALSE, status |-> "n/a", statuses |-> 0]
    BY DEF RsInit
  <2>2. RsShape  BY <2>1 DEF RsShape
  <2>3. client.connected = FALSE /\ page.connected = FALSE
    BY <2>1
  <2>4. endpoint.state # "Established" /\ page.statuses = client.statuses  BY <2>1
  <2>5. SessionAgrees /\ StatusAgrees /\ PageFollows
    BY <2>3, <2>4 DEF SessionAgrees, StatusAgrees, PageFollows
  <2>6. QED  BY <2>2, <2>5 DEF RsInv
<1>2. RsInv /\ [RsNext]_rs_vars => RsInv'  BY RsStep
<1>3. RsInv => PageIsOfTheSession
  BY DEF RsInv, SessionAgrees, StatusAgrees, PageFollows, PageIsOfTheSession
<1>4. QED  BY <1>1, <1>2, <1>3, PTL DEF RsSpec
=============================================================================
