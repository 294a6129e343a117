--------------------------- MODULE RemoteSession ----------------------------
(***************************************************************************)
(* The Connection page of the workbench: RemoteRuntimeClient, the          *)
(* RemoteControlEndpoint it talks to in the same process, and the          *)
(* controller's slots and 100 ms timer that drive both on the UI thread.   *)
(*                                                                         *)
(* A request is handed to the endpoint whole and answered at once, so a    *)
(* frame is its message type here; how frames are cut out of a stream is   *)
(* StreamFraming. Of a status only the part that changes is kept. The      *)
(* workbench owns a runtime; without one (adapter_ is null) Connect and    *)
(* the timer do nothing.                                                   *)
(***************************************************************************)
EXTENDS Naturals

CONSTANTS
  RuntimeViews, \* what the runtime may look like to project_remote_status
  MaxReplies    \* bound: heartbeats and statuses counted in one session

ASSUME RemoteAssumption == MaxReplies \in Nat \ {0}

VARIABLES
  runtime,     \* what adapter_->snapshot() projects to
  remote_mode, \* remote_mode_
  client,      \* RemoteRuntimeClient
  endpoint,    \* RemoteControlEndpoint
  page         \* what updateRemoteConnection put on the page

rs_vars == <<runtime, remote_mode, client, endpoint, page>>

NoView == "none"

\* reset_session() keeps the status it was last given.
reset_session(e) == [e EXCEPT !.state = "WaitingHello", !.replies = TRUE]

\* handle_frame: the endpoint and its reply, "empty" where it sends none.
handle_frame(e, type) ==
  CASE type = "Hello" ->
         [endpoint |-> [e EXCEPT !.state = "Established"], reply |-> "HelloAck", view |-> NoView]
    [] type = "Heartbeat" ->
         [endpoint |-> e, view |-> NoView,
          reply |-> IF e.state # "Established" THEN "Error"
                    ELSE IF e.replies THEN "HeartbeatAck" ELSE "empty"]
    [] type = "GetStatus" ->
         [endpoint |-> e, view |-> e.status,
          reply |-> IF e.state = "Established" THEN "Status" ELSE "Error"]
    [] OTHER -> [endpoint |-> e, reply |-> "Error", view |-> NoView]

\* connect_session(status) leaves the last status of the session before it.
Greeted(view) == handle_frame([reset_session(endpoint) EXCEPT !.status = view], "Hello")

connect_session(view) ==
  /\ endpoint' = Greeted(view).endpoint
  /\ client' = [client EXCEPT !.connected = Greeted(view).reply = "HelloAck",
                              !.ok = 0, !.missed = 0, !.statuses = 0]

\* Mutant of disconnect_session: the endpoint is not reset.
disconnect_session_client_only ==
  client' = [client EXCEPT !.connected = FALSE] /\ UNCHANGED endpoint

disconnect_session ==
  /\ client' = [client EXCEPT !.connected = FALSE]
  /\ endpoint' = reset_session(endpoint)

\* poll_heartbeat: anything but the acknowledgement is a missed one.
poll_heartbeat(c, e) ==
  IF handle_frame(e, "Heartbeat").reply = "HeartbeatAck"
    THEN [c EXCEPT !.ok = @ + 1] ELSE [c EXCEPT !.missed = @ + 1]

\* refresh_status, through exchange.
refresh_status(c, e) ==
  IF handle_frame(e, "GetStatus").reply = "Status"
    THEN [c EXCEPT !.status = handle_frame(e, "GetStatus").view, !.statuses = @ + 1] ELSE c

\* snapshot(mode), as the page shows it.
publishRemoteConnection ==
  LET connected == client'.connected /\ remote_mode' = "RemoteLoopback"
  IN  page' = [connected |-> connected,
               status    |-> IF connected THEN client'.status ELSE "n/a",
               statuses  |-> client'.statuses]

-----------------------------------------------------------------------------
selectLocalBackend ==
  /\ remote_mode' = "Local"
  /\ disconnect_session
  /\ publishRemoteConnection
  /\ UNCHANGED runtime

\* Only the mode changes: a session has to be asked for.
selectRemoteLoopbackBackend ==
  /\ remote_mode' = "RemoteLoopback"
  /\ IF client.connected THEN disconnect_session ELSE UNCHANGED <<client, endpoint>>
  /\ publishRemoteConnection
  /\ UNCHANGED runtime

connectRemoteLoopback ==
  /\ remote_mode' = "RemoteLoopback"
  /\ connect_session(runtime)
  /\ publishRemoteConnection
  /\ UNCHANGED runtime

disconnectRemoteLoopback ==
  /\ disconnect_session
  /\ UNCHANGED <<runtime, remote_mode>>
  /\ publishRemoteConnection

setRemoteHeartbeatRepliesEnabled(enabled) ==
  /\ endpoint' = [endpoint EXCEPT !.replies = enabled]
  /\ UNCHANGED <<runtime, remote_mode, client, page>>

\* The timer: publishSnapshot's tickRemoteLoopback and publishRemoteConnection.
tickRemoteLoopback ==
  /\ client.ok + client.missed < MaxReplies
  /\ UNCHANGED <<runtime, remote_mode>>
  /\ IF remote_mode = "RemoteLoopback" /\ client.connected
       THEN /\ endpoint' = [endpoint EXCEPT !.status = runtime]
            /\ client' = refresh_status(poll_heartbeat(client, endpoint'), endpoint')
       ELSE UNCHANGED <<client, endpoint>>
  /\ publishRemoteConnection

\* The runtime goes its own way.
runtime_changes ==
  /\ runtime' \in RuntimeViews
  /\ UNCHANGED <<remote_mode, client, endpoint, page>>

RsInit ==
  /\ runtime \in RuntimeViews
  /\ remote_mode = "Local"
  /\ client = [connected |-> FALSE, ok |-> 0, missed |-> 0, statuses |-> 0, status |-> NoView]
  /\ endpoint = [state |-> "WaitingHello", replies |-> TRUE, status |-> NoView]
  /\ page = [connected |-> FALSE, status |-> "n/a", statuses |-> 0]

RsNext ==
  \/ selectLocalBackend \/ selectRemoteLoopbackBackend
  \/ connectRemoteLoopback \/ disconnectRemoteLoopback
  \/ \E enabled \in BOOLEAN : setRemoteHeartbeatRepliesEnabled(enabled)
  \/ tickRemoteLoopback \/ runtime_changes
-----------------------------------------------------------------------------
(***************************************************************************)
(* The page and the endpoint agree about the session, and a page that      *)
(* counts status replies shows a status the endpoint gave in this session, *)
(* the one it was last handed: neither a change of backend, a reconnect    *)
(* nor a heartbeat that stays unanswered leaves the page with a session    *)
(* the endpoint does not have or a status of an earlier one. Before the    *)
(* first reply of a session the page does show the last status of the      *)
(* session before it (connect_session keeps last_status_); the count says  *)
(* so.                                                                     *)
(***************************************************************************)
PageIsOfTheSession ==
  /\ page.connected <=> endpoint.state = "Established"
  /\ page.connected /\ page.statuses > 0 => page.status = endpoint.status
  /\ client.connected => client.statuses = client.ok + client.missed
=============================================================================
