--------------------------- MODULE RuntimeDaemon ----------------------------
(***************************************************************************)
(* The life of rcrd: RuntimeDaemon::start, wait_and_stop and stop on the   *)
(* main thread, the CanIoLoop thread, the scheduler's worker, the thread   *)
(* that watches the duration, and whoever calls request_stop.              *)
(*                                                                         *)
(* What the two workers do while they run is modelled elsewhere; here they *)
(* run until they are told to stop or fail.                                *)
(***************************************************************************)
EXTENDS Naturals

CONSTANT MaxStarts  \* bound: calls of start()

ASSUME DaemonAssumption == MaxStarts \in Nat

VARIABLES
  main,            \* where the main thread is
  daemon_stop,  \* RuntimeDaemon::stop_requested_
  exit_code,       \* RuntimeDaemon::exit_code_
  io,              \* CanIoLoop: its thread, stop_requested_, stop_event_, stop_reason_
  sched_worker,          \* PeriodicScheduler: its thread, stop_requested_, worker_error_
  timer,           \* duration_thread_: "none", "watching" or "exited"
  signal,          \* a shutdown signal is pending on the signalfd
  cause,           \* what happened first since start(): a stop, a signal, a failure
  starts           \* calls of start()

dl_vars == <<main, daemon_stop, exit_code, io, sched_worker, timer, signal, cause, starts>>

\* The I/O thread's loop: "top", "polling" (in epoll_wait), handling frames
\* ("work", "busy"), "exited".
NoIo == [thread |-> "none", stop |-> FALSE, event |-> FALSE, reason |-> "None"]

NoWorker == [thread |-> "none", stop |-> FALSE, error |-> FALSE]

First(c) == IF cause = "none" THEN c ELSE cause

\* CanIoLoop::request_stop keeps a reason that is already there; the eventfd stays
\* readable until the loop drains it.
IoToldToStop ==
  [io EXCEPT !.stop = TRUE, !.event = TRUE, !.reason = IF @ = "None" THEN "EventFd" ELSE @]

\* ~SignalFd restores the signal mask: a signal that nobody has read from the
\* signalfd then takes its default action.
Closed(pc) == IF signal THEN "killed" ELSE pc

-----------------------------------------------------------------------------
(* start(). Each failure is rolled back before it returns. *)

daemon_start ==
  /\ main \in {"down", "failed"} /\ starts < MaxStarts
  /\ starts' = starts + 1
  /\ main' = "start_worker"
  /\ cause' = "none"
  /\ UNCHANGED <<daemon_stop, exit_code, io, sched_worker, timer, signal>>

\* The configuration, the interface or a file descriptor is refused.
start_refused ==
  /\ main = "start_worker"
  /\ exit_code' \in {"ConfigError", "InterfaceError"}
  /\ main' = "failed"
  /\ UNCHANGED <<daemon_stop, io, sched_worker, timer, signal, cause, starts>>

\* scheduler.start(): the handshake reports the worker up, or the worker has
\* ended and been joined.
start_worker ==
  /\ main = "start_worker"
  /\ \/ sched_worker' = [NoWorker EXCEPT !.thread = "running"] /\ main' = "start_io" /\ UNCHANGED exit_code
     \/ /\ exit_code' \in {"ConfigError", "PermissionError", "WorkerFailure"}
        /\ main' = "failed" /\ UNCHANGED sched_worker
  /\ UNCHANGED <<daemon_stop, io, timer, signal, cause, starts>>

\* io_ = make_unique<CanIoLoop>: from here on a request_stop reaches the loop.
create_io ==
  /\ main = "start_io" /\ main' = "io_made"
  /\ UNCHANGED <<daemon_stop, exit_code, io, sched_worker, timer, signal, cause, starts>>

\* CanIoLoop::start() forgets a stop requested before it, but not on the eventfd.
io_resets ==
  /\ main = "io_made" /\ main' = "io_starting"
  /\ io' = [io EXCEPT !.stop = FALSE, !.reason = "None"]
  /\ UNCHANGED <<daemon_stop, exit_code, sched_worker, timer, signal, cause, starts>>

\* The rest of CanIoLoop::start(): no thread, a thread that ended in its startup,
\* or one that is too slow: it is told to stop and joined.
start_io ==
  /\ main = "io_starting"
  /\ \/ io' = [io EXCEPT !.thread = "top"] /\ main' = "started" /\ UNCHANGED exit_code
     \/ /\ exit_code' \in {"ConfigError", "PermissionError", "InterfaceError"}
        /\ main' = "roll_back" /\ UNCHANGED io
  /\ UNCHANGED <<daemon_stop, sched_worker, timer, signal, cause, starts>>

start_io_slow ==
  /\ main = "io_starting"
  /\ io' = [IoToldToStop EXCEPT !.thread = "top"]
  /\ exit_code' = "InterfaceError"
  /\ main' = "roll_back"
  /\ UNCHANGED <<daemon_stop, sched_worker, timer, signal, cause, starts>>

\* rollback_started_parts: the I/O thread first, then runtime_->stop().
roll_back_io ==
  /\ main = "roll_back" /\ io.thread \in {"none", "exited"}
  /\ io' = NoIo
  /\ sched_worker' = [sched_worker EXCEPT !.stop = TRUE]
  /\ main' = "roll_back_worker"
  /\ UNCHANGED <<daemon_stop, exit_code, timer, signal, cause, starts>>

roll_back_worker ==
  /\ main = "roll_back_worker" /\ sched_worker.thread = "exited"
  /\ sched_worker' = NoWorker
  /\ main' = Closed("failed")
  /\ UNCHANGED <<daemon_stop, exit_code, io, timer, signal, cause, starts>>

finish_start ==
  /\ main = "started"
  /\ daemon_stop' = FALSE
  /\ exit_code' = "Ok"
  /\ timer' \in {"none", "watching"}
  /\ main' = "wait"
  /\ UNCHANGED <<io, sched_worker, signal, cause, starts>>

-----------------------------------------------------------------------------
(* wait_and_stop(), and the stop() at its end. *)

\* Mutant of wait_ends: only the I/O thread is watched.
wait_ends_on_io_only ==
  /\ main = "wait"
  /\ daemon_stop \/ io.thread = "exited"
  /\ main' = "classify"
  /\ UNCHANGED <<daemon_stop, exit_code, io, sched_worker, timer, signal, cause, starts>>

wait_ends ==
  /\ main = "wait"
  /\ daemon_stop \/ io.thread = "exited" \/ (sched_worker.thread = "exited" /\ sched_worker.error)
  /\ main' = "classify"
  /\ UNCHANGED <<daemon_stop, exit_code, io, sched_worker, timer, signal, cause, starts>>

\* Mutant of classify_stop: the worker's error is not asked for.
classify_stop_io_only ==
  /\ main = "classify"
  /\ exit_code' = IF io.reason \in {"IoError", "SendFailure"} THEN "WorkerFailure" ELSE "Ok"
  /\ main' = "stop"
  /\ UNCHANGED <<daemon_stop, io, sched_worker, timer, signal, cause, starts>>

classify_stop ==
  /\ main = "classify"
  /\ exit_code' = IF io.reason \in {"IoError", "SendFailure"} \/ sched_worker.error
                    THEN "WorkerFailure" ELSE "Ok"
  /\ main' = "stop"
  /\ UNCHANGED <<daemon_stop, io, sched_worker, timer, signal, cause, starts>>

stop ==
  /\ main = "stop"
  /\ daemon_stop' = TRUE
  /\ io' = IoToldToStop
  /\ main' = "join_io"
  /\ UNCHANGED <<exit_code, sched_worker, timer, signal, cause, starts>>

join_io ==
  /\ main = "join_io" /\ io.thread = "exited"
  /\ main' = "join_timer"
  /\ UNCHANGED <<daemon_stop, exit_code, io, sched_worker, timer, signal, cause, starts>>

\* runtime_->stop() asks the worker to stop only once the timer is joined.
join_timer ==
  /\ main = "join_timer" /\ timer # "watching"
  /\ timer' = "none"
  /\ sched_worker' = [sched_worker EXCEPT !.stop = TRUE]
  /\ main' = "join_worker"
  /\ UNCHANGED <<daemon_stop, exit_code, io, signal, cause, starts>>

join_worker ==
  /\ main = "join_worker" /\ sched_worker.thread = "exited"
  /\ sched_worker' = NoWorker /\ io' = NoIo
  /\ main' = Closed("down")
  /\ UNCHANGED <<daemon_stop, exit_code, timer, signal, cause, starts>>

Main ==
  \/ start_refused \/ start_worker \/ create_io \/ io_resets \/ start_io \/ start_io_slow
  \/ roll_back_io \/ roll_back_worker \/ finish_start
  \/ wait_ends \/ classify_stop \/ stop \/ join_io \/ join_timer \/ join_worker

-----------------------------------------------------------------------------
(* The other threads. *)

\* if (io_)
IoExists == main \notin {"down", "failed", "start_worker", "start_io", "roll_back_worker"}

\* request_stop() from the duration thread, whose deadline has passed, or from
\* the application, at any time. Where there is no io_ it sets the daemon's flag
\* and nothing else: finish_start takes that back, so it is not a cause.
daemon_request_stop ==
  /\ main # "killed"
  /\ daemon_stop' = TRUE
  /\ IF IoExists THEN io' = IoToldToStop /\ cause' = First("stop") ELSE UNCHANGED <<io, cause>>
  /\ UNCHANGED <<main, exit_code, sched_worker, signal, starts>>

duration_elapsed == timer = "watching" /\ ~daemon_stop /\ timer' = "exited" /\ daemon_request_stop

app_request_stop == daemon_request_stop /\ UNCHANGED timer

duration_cancelled ==
  /\ timer = "watching" /\ daemon_stop
  /\ timer' = "exited"
  /\ UNCHANGED <<main, daemon_stop, exit_code, io, sched_worker, signal, cause, starts>>

\* SIGINT or SIGTERM, blocked since start() opened the signalfd.
signal_arrives ==
  /\ main \notin {"down", "failed", "killed", "start_worker"} /\ ~signal
  /\ signal' = TRUE
  /\ cause' = First("signal")
  /\ UNCHANGED <<main, daemon_stop, exit_code, io, sched_worker, timer, starts>>

\* The loop ends when told; reactor_.wait may fail, which ends it too.
io_top ==
  /\ io.thread = "top"
  /\ \/ ~io.stop /\ io' = [io EXCEPT !.thread = "polling"] /\ UNCHANGED cause
     \/ io.stop /\ io' = [io EXCEPT !.thread = "exited"] /\ UNCHANGED cause
     \/ /\ ~io.stop /\ io' = [io EXCEPT !.thread = "exited", !.reason = "IoError"]
        /\ cause' = First("failure")
  /\ UNCHANGED <<main, daemon_stop, exit_code, sched_worker, timer, signal, starts>>

\* What epoll reported, in the order the loop handles it: the eventfd, which it
\* drains, the signalfd, an error on the socket.
io_events ==
  /\ io.thread = "polling"
  /\ signal' = FALSE
  /\ \E can_error \in BOOLEAN :
       /\ io' = [thread |-> "work",
                 stop   |-> io.stop \/ io.event \/ signal \/ can_error,
                 event  |-> FALSE,
                 reason |-> IF can_error THEN "IoError" ELSE IF signal THEN "Signal"
                            ELSE IF io.event THEN "EventFd" ELSE io.reason]
       /\ cause' = IF can_error THEN First("failure") ELSE cause
  /\ UNCHANGED <<main, daemon_stop, exit_code, sched_worker, timer, starts>>

\* handle_can_ready and pump_output, unless a stop was seen; one may fail even if
\* a stop is requested meanwhile.
io_work ==
  /\ io.thread = "work"
  /\ io' = [io EXCEPT !.thread = IF io.stop THEN "top" ELSE "busy"]
  /\ UNCHANGED <<main, daemon_stop, exit_code, sched_worker, timer, signal, cause, starts>>

io_done ==
  /\ io.thread = "busy"
  /\ \/ io' = [io EXCEPT !.thread = "top"] /\ UNCHANGED cause
     \/ /\ \E reason \in {"IoError", "SendFailure"} :
             io' = [io EXCEPT !.thread = "top", !.stop = TRUE, !.reason = reason]
        /\ cause' = First("failure")
  /\ UNCHANGED <<main, daemon_stop, exit_code, sched_worker, timer, signal, starts>>

Io == io_top \/ io_events \/ io_work \/ io_done

\* The clock failed, or the callback threw.
worker_fails ==
  /\ sched_worker.thread = "running"
  /\ sched_worker' = [sched_worker EXCEPT !.thread = "exited", !.error = TRUE]
  /\ cause' = First("failure")
  /\ UNCHANGED <<main, daemon_stop, exit_code, io, timer, signal, starts>>

worker_exits ==
  /\ sched_worker.thread = "running" /\ sched_worker.stop
  /\ sched_worker' = [sched_worker EXCEPT !.thread = "exited"]
  /\ UNCHANGED <<main, daemon_stop, exit_code, io, timer, signal, cause, starts>>

-----------------------------------------------------------------------------
DlInit ==
  /\ main = "down" /\ daemon_stop = FALSE /\ exit_code = "Ok"
  /\ io = NoIo /\ sched_worker = NoWorker /\ timer = "none"
  /\ signal = FALSE /\ cause = "none" /\ starts = 0

DlNext ==
  \/ daemon_start \/ Main
  \/ duration_elapsed \/ app_request_stop \/ duration_cancelled \/ signal_arrives
  \/ Io \/ worker_fails \/ worker_exits

\* Threads that can run do: the main thread, the I/O loop (epoll waits at most 10 ms), the
\* worker towards its exit once told, and the duration thread towards noticing the stop.
DlFairness ==
  /\ WF_dl_vars(Main) /\ WF_dl_vars(Io)
  /\ WF_dl_vars(worker_exits) /\ WF_dl_vars(duration_cancelled)

DlSpec == DlInit /\ [][DlNext]_dl_vars /\ DlFairness

-----------------------------------------------------------------------------
\* Types and bounds of the state; the first conjunct of StopIsComplete.
DlTypeOK ==
  /\ main \in {"down", "failed", "killed", "start_worker", "start_io", "io_made", "io_starting",
               "started", "wait", "classify", "stop",
               "join_io", "join_timer", "join_worker", "roll_back", "roll_back_worker"}
  /\ exit_code \in {"Ok", "ConfigError", "InterfaceError", "PermissionError", "WorkerFailure"}
  /\ io \in [thread : {"none", "top", "polling", "work", "busy", "exited"}, stop : BOOLEAN,
             event : BOOLEAN, reason : {"None", "EventFd", "Signal", "IoError", "SendFailure"}]
  /\ sched_worker \in [thread : {"none", "running", "exited"}, stop : BOOLEAN, error : BOOLEAN]
  /\ timer \in {"none", "watching", "exited"}
  /\ daemon_stop \in BOOLEAN /\ signal \in BOOLEAN /\ starts \in 0 .. MaxStarts
  /\ cause \in {"none", "stop", "signal", "failure"}

(***************************************************************************)
(* When start() has failed or stop() has returned, no thread is left, at   *)
(* whichever step it failed and whatever the threads were doing; and a     *)
(* daemon brought down by the failure of one of its workers says so: the   *)
(* exit code is WorkerFailure, even if a stop or a signal comes on top.    *)
(***************************************************************************)
StopIsComplete ==
  /\ DlTypeOK
  /\ main \in {"down", "failed"} => io = NoIo /\ sched_worker = NoWorker /\ timer = "none"
  /\ main = "down" /\ cause = "failure" => exit_code = "WorkerFailure"

(***************************************************************************)
(* A stop requested once the I/O loop exists, even while start() is still  *)
(* starting it and forgets the flags it set, a signal, or the failure of   *)
(* either worker ends the daemon: wait_and_stop returns, and nobody joins  *)
(* a thread that waits for the joiner.                                     *)
(***************************************************************************)
DaemonComesDown == cause # "none" ~> main \in {"down", "failed", "killed"}

=============================================================================
