------------------------------ MODULE HealthRun -----------------------------
(***************************************************************************)
(* A health test from the button to the files: WorkbenchController on the  *)
(* UI thread, HealthTestWorker on its own thread, TestRunner::run with the *)
(* callbacks of the CAN health case, and ResultWriter. The two threads     *)
(* meet in the runner's start_cancel_mutex_ and in queued signals.         *)
(***************************************************************************)
EXTENDS CanHealth

CONSTANTS
  Snapshots,  \* what the Runtime or its CEL1 status may look like
  Window,     \* observation_window
  Interval,   \* sample_interval
  Timeout,    \* test_timeout
  RunIds,     \* the run ids the wall clock gives; two runs may get the same
  MaxRuns     \* bound: health tests started

ASSUME HealthAssumption ==
  /\ {Window, Interval, MaxRuns} \subseteq Nat \ {0}
  /\ Timeout \in Nat /\ Timeout > Window

VARIABLES
  ui,              \* the controller: "open", "joining" in its destructor, "closed"
  health_running,  \* health_running_
  signals,         \* queued signals between the threads
  worker,          \* where the worker thread is; "gone" when it has ended
  running,         \* running_
  cancel_requested,\* cancel_requested_
  stage,           \* stage_
  t, began,        \* time since started_ns, and when execute began
  obs,             \* ObservationState
  result,          \* the TestResult
  runs, run_id,    \* runs started, and the id of the current one
  json, csv,       \* the files, by run id: 0 or the run that wrote them
  whole,           \* history: the window was observed to its end
  cancelled        \* history: a cancel was stored before the verdict

ui_vars == <<ui, health_running, signals>>

flags == <<running, cancel_requested, stage>>

files == <<json, csv>>

ghosts == <<whole, cancelled>>

case_vars == <<t, began, obs, result>>

hr_vars == <<ui_vars, worker, flags, case_vars, runs, run_id, files, ghosts>>

Evidence == {"reason", "criteria", "measurements", "diagnostics"}

\* outcome is Error until something else is decided.
FreshResult == [outcome |-> "Error", cleanup |-> "NotRun", evidence |-> {}]

HrInit ==
  /\ ui = "open" /\ health_running = FALSE /\ signals = {}
  /\ worker = "idle" /\ running = FALSE /\ cancel_requested = FALSE
  /\ stage = "Idle"
  /\ t = 0 /\ began = 0 /\ obs = NoObservation /\ result = FreshResult
  /\ runs = 0 /\ run_id = CHOOSE i \in RunIds : TRUE
  /\ json = [i \in RunIds |-> 0] /\ csv = [i \in RunIds |-> 0]
  /\ whole = FALSE /\ cancelled = FALSE

-----------------------------------------------------------------------------
(* The UI thread. *)

startHealth ==
  /\ ui = "open" /\ ~health_running /\ runs < MaxRuns
  /\ health_running' = TRUE /\ signals' = signals \cup {"healthRequested"}
  /\ runs' = runs + 1 /\ run_id' \in RunIds
  /\ UNCHANGED <<ui, worker, flags, case_vars, files, ghosts>>

\* The worker has not given its verdict yet.
BeforeVerdict ==
  worker \in {"clock", "prepare", "prepared", "loop", "sampled", "executed",
              "evaluate", "evaluated"}

\* request_cancel(), called on the UI thread: only an active run takes it.
request_cancel ==
  /\ cancel_requested' = (cancel_requested \/ running)
  /\ cancelled' = (cancelled \/ (running /\ BeforeVerdict))

cancelHealth ==
  /\ ui = "open" /\ health_running
  /\ request_cancel
  /\ UNCHANGED <<ui_vars, worker, running, stage, case_vars, runs, run_id,
                 files, whole>>

healthCompleted ==
  /\ ui = "open" /\ "completed" \in signals
  /\ health_running' = FALSE /\ signals' = signals \ {"completed"}
  /\ UNCHANGED <<ui, worker, flags, case_vars, runs, run_id, files, ghosts>>

\* The destructor cancels, quits the worker's event loop and waits for it.
destroy ==
  /\ ui = "open"
  /\ ui' = "joining"
  /\ request_cancel
  /\ UNCHANGED <<health_running, signals, worker, running, stage, case_vars,
                 runs, run_id, files, whole>>

joined ==
  /\ ui = "joining" /\ worker = "gone"
  /\ ui' = "closed"
  /\ UNCHANGED <<health_running, signals, worker, flags, case_vars, runs,
                 run_id, files, ghosts>>

-----------------------------------------------------------------------------
(* The worker's event loop. *)

\* quit() takes effect when the loop has control; a request still queued is
\* served before it or never.
thread_exit ==
  /\ worker = "idle" /\ ui = "joining"
  /\ worker' = "gone"
  /\ UNCHANGED <<ui_vars, flags, case_vars, runs, run_id, files, ghosts>>

\* runHealth. With a CEL1 peer it first opens a connection of its own, which
\* may fail; then the result is reported and not written.
runHealth ==
  /\ worker = "idle" /\ "healthRequested" \in signals
  /\ signals' = signals \ {"healthRequested"}
  /\ worker' \in {"enter", "emit"}
  /\ UNCHANGED <<ui, health_running, flags, case_vars, runs, run_id, files,
                 ghosts>>

emit_completed ==
  /\ worker = "emit"
  /\ worker' = "idle" /\ signals' = signals \cup {"completed"}
  /\ result' = FreshResult
  /\ UNCHANGED <<ui, health_running, flags, t, began, obs, runs, run_id, files,
                 ghosts>>

-----------------------------------------------------------------------------
(* TestRunner::run. *)

Later == t .. Timeout

\* seal_failure_evidence: a failed run carries everything its review needs.
seal(r) ==
  IF r.outcome \in {"Failed", "Error"} THEN [r EXCEPT !.evidence = Evidence]
  ELSE [r EXCEPT !.evidence = @ \cup {"reason"}]

\* set_step_error
StepError(r) == [r EXCEPT !.outcome = "Error", !.evidence = @ \cup {"reason"}]

\* The section under start_cancel_mutex_: the cancel of an earlier run is
\* cleared where the run becomes active. A runner that is busy refuses.
run_enter ==
  /\ worker = "enter"
  /\ IF running
     THEN /\ worker' = "write_json" /\ result' = seal(FreshResult)
          /\ UNCHANGED flags
     ELSE /\ cancel_requested' = FALSE /\ stage' = "Idle" /\ running' = TRUE
          /\ worker' = "clock" /\ result' = FreshResult
  /\ UNCHANGED <<ui_vars, t, began, obs, runs, run_id, files, ghosts>>

\* The start time is sampled. Without it the run ends before Prepare.
run_clock ==
  /\ worker = "clock"
  /\ \/ worker' = "prepare" /\ stage' = "Preparing" /\ UNCHANGED result
     \/ worker' = "return" /\ UNCHANGED stage /\ result' = seal(result)
  /\ UNCHANGED <<ui_vars, running, cancel_requested, t, began, obs, runs,
                 run_id, files, ghosts>>

ToCleanup(r) ==
  worker' = "cleanup" /\ stage' = "CleaningUp" /\ result' = r

run_prepare ==
  /\ worker = "prepare"
  /\ \E s \in Snapshots : obs' = Baseline(s)
  /\ t' \in Later
  /\ IF Prepared(obs')
     THEN worker' = "prepared" /\ UNCHANGED <<stage, result>>
     ELSE ToCleanup(StepError([result EXCEPT !.evidence = @ \cup {"diagnostics"}]))
  /\ UNCHANGED <<ui_vars, running, cancel_requested, began, runs, run_id,
                 files, ghosts>>

\* should_stop and what the run makes of it: a cancel before the deadline, and
\* the clock may fail. Go is the next stage when nothing stops the run.
should_stop(Go) ==
  IF cancel_requested
  THEN ToCleanup([result EXCEPT !.outcome = "Aborted",
                                !.evidence = @ \cup {"reason"}])
  ELSE \/ ToCleanup(StepError(result))
       \/ t < Timeout /\ Go

run_prepared ==
  /\ worker = "prepared"
  /\ should_stop(worker' = "loop" /\ stage' = "Executing" /\ UNCHANGED result)
  /\ began' = t
  /\ UNCHANGED <<ui_vars, running, cancel_requested, t, obs, runs, run_id,
                 files, ghosts>>

\* Mutant of run_loop: the loop samples without waiting for its interval.
run_loop_spins ==
  /\ worker = "loop"
  /\ IF cancel_requested \/ t = Timeout
     THEN worker' = "executed" /\ UNCHANGED <<t, obs, whole>>
     ELSE IF t - began >= Window
     THEN worker' = "sampled" /\ whole' = TRUE /\ UNCHANGED <<t, obs>>
     ELSE /\ t' \in Later
          /\ \E s \in Snapshots : obs' = Observe(obs, s)
          /\ UNCHANGED <<worker, whole>>
  /\ UNCHANGED <<ui_vars, flags, began, result, runs, run_id, files, cancelled>>

\* One turn of the execute loop: a cancel or the deadline ends it with success,
\* so does the end of the window; otherwise it sleeps and takes a sample.
run_loop ==
  /\ worker = "loop"
  /\ IF cancel_requested \/ t = Timeout
     THEN worker' = "executed" /\ UNCHANGED <<t, obs, whole>>
     ELSE IF t - began >= Window
     THEN worker' = "sampled" /\ whole' = TRUE /\ UNCHANGED <<t, obs>>
     ELSE LET left == Window - (t - began)
              wait == IF Interval < left THEN Interval ELSE left
          IN /\ t' \in {n \in Later : n >= t + wait}
             /\ \E s \in Snapshots : obs' = Observe(obs, s)
             /\ UNCHANGED <<worker, whole>>
  /\ UNCHANGED <<ui_vars, flags, began, result, runs, run_id, files, cancelled>>

\* The clock or the sleep fails within the loop.
run_loop_fails ==
  /\ worker = "loop" /\ ~cancel_requested
  /\ ToCleanup(StepError(result))
  /\ UNCHANGED <<ui_vars, running, cancel_requested, t, began, obs, runs,
                 run_id, files, ghosts>>

run_deltas ==
  /\ worker = "sampled"
  /\ LET measured == [result EXCEPT !.evidence = @ \cup {"measurements"}]
     IN IF CountersAdvance(obs)
        THEN worker' = "executed" /\ result' = measured /\ UNCHANGED stage
        ELSE ToCleanup(StepError(measured))
  /\ UNCHANGED <<ui_vars, running, cancel_requested, t, began, obs, runs,
                 run_id, files, ghosts>>

run_executed ==
  /\ worker = "executed"
  /\ should_stop(worker' = "evaluate" /\ stage' = "Evaluating" /\ UNCHANGED result)
  /\ UNCHANGED <<ui_vars, running, cancel_requested, t, began, obs, runs,
                 run_id, files, ghosts>>

\* evaluate records measurements and, where a criterion fails, diagnostics.
\* Its verdict is used only after one more look at the cancel and the clock.
run_evaluate ==
  /\ worker = "evaluate"
  /\ worker' = "evaluated" /\ t' \in Later
  /\ result' = [result EXCEPT !.evidence =
                  @ \cup {"measurements"}
                    \cup (IF Healthy(obs) THEN {} ELSE {"diagnostics"})]
  /\ UNCHANGED <<ui_vars, flags, began, obs, runs, run_id, files, ghosts>>

\* Mutant of run_evaluated: the verdict is used without another look at the
\* cancel.
run_evaluated_unchecked ==
  /\ worker = "evaluated"
  /\ ToCleanup([result EXCEPT !.outcome = IF Healthy(obs) THEN "Passed" ELSE "Failed",
                              !.evidence = @ \cup {"criteria", "reason"}])
  /\ UNCHANGED <<ui_vars, running, cancel_requested, t, began, obs, runs,
                 run_id, files, ghosts>>

run_evaluated ==
  /\ worker = "evaluated"
  /\ should_stop(ToCleanup([result EXCEPT
                   !.outcome = IF Healthy(obs) THEN "Passed" ELSE "Failed",
                   !.evidence = @ \cup {"criteria", "reason"}]))
  /\ UNCHANGED <<ui_vars, running, cancel_requested, t, began, obs, runs,
                 run_id, files, ghosts>>

\* Mutant of run_cleanup: a failed cleanup leaves the outcome.
run_cleanup_ignored ==
  /\ worker = "cleanup"
  /\ \E cleaned \in BOOLEAN :
       result' = [result EXCEPT !.cleanup = IF cleaned THEN "Passed" ELSE "Failed"]
  /\ worker' = "finish"
  /\ UNCHANGED <<ui_vars, flags, t, began, obs, runs, run_id, files, ghosts>>

run_cleanup ==
  /\ worker = "cleanup"
  /\ \E cleaned \in BOOLEAN :
       result' = [result EXCEPT
         !.cleanup = IF cleaned THEN "Passed" ELSE "Failed",
         !.outcome = IF ~cleaned /\ @ = "Passed" THEN "Error" ELSE @]
  /\ worker' = "finish"
  /\ UNCHANGED <<ui_vars, flags, t, began, obs, runs, run_id, files, ghosts>>

\* The finish time is sampled; a pass without one is an error.
run_finish ==
  /\ worker = "finish"
  /\ \E sampled \in BOOLEAN :
       result' = seal([result EXCEPT
         !.outcome = IF ~sampled /\ @ = "Passed" THEN "Error" ELSE @])
  /\ worker' = "return"
  /\ UNCHANGED <<ui_vars, flags, t, began, obs, runs, run_id, files, ghosts>>

\* The locals of the run end, and ~RunningGuard stores the stage first, then
\* running_.
run_return ==
  /\ worker = "return"
  /\ stage' = "Completed" /\ worker' = "release"
  /\ t' = 0 /\ began' = 0 /\ obs' = NoObservation
  /\ whole' = FALSE /\ cancelled' = FALSE
  /\ UNCHANGED <<ui_vars, running, cancel_requested, result, runs, run_id, files>>

run_release ==
  /\ worker = "release"
  /\ running' = FALSE /\ worker' = "write_json"
  /\ UNCHANGED <<ui_vars, cancel_requested, stage, case_vars, runs, run_id,
                 files, ghosts>>

-----------------------------------------------------------------------------
(* ResultWriter::write. *)

validate_persistable(r) ==
  r.outcome \in {"Failed", "Error"} => Evidence \subseteq r.evidence

\* Mutant of MayWrite: a JSON without its CSV is taken for abandoned and
\* replaced.
MayReplaceHalf(file) ==
  file[run_id] = 0 \/ csv[run_id] = 0

\* write_file_atomically refuses an existing file; any other failure leaves
\* nothing behind, success the whole file.
MayWrite(file) == file[run_id] = 0

write_json ==
  /\ worker = "write_json"
  /\ \/ /\ validate_persistable(result) /\ MayWrite(json)
        /\ json' = [json EXCEPT ![run_id] = runs] /\ worker' = "write_csv"
     \/ worker' = "emit" /\ UNCHANGED json
  /\ UNCHANGED <<ui_vars, flags, case_vars, runs, run_id, csv, ghosts>>

\* A failed CSV takes the JSON with it, if it can be removed.
write_csv ==
  /\ worker = "write_csv" /\ worker' = "emit"
  /\ \/ MayWrite(csv) /\ csv' = [csv EXCEPT ![run_id] = runs] /\ UNCHANGED json
     \/ json' \in {json, [json EXCEPT ![run_id] = 0]} /\ UNCHANGED csv
  /\ UNCHANGED <<ui_vars, flags, case_vars, runs, run_id, ghosts>>

-----------------------------------------------------------------------------
Runner ==
  \/ run_enter \/ run_clock \/ run_prepare \/ run_prepared \/ run_loop
  \/ run_loop_fails \/ run_deltas \/ run_executed \/ run_evaluate
  \/ run_evaluated \/ run_cleanup \/ run_finish \/ run_return \/ run_release

Worker ==
  thread_exit \/ runHealth \/ Runner \/ write_json \/ write_csv \/ emit_completed

\* Everything is over.
Done == ui = "closed" /\ UNCHANGED hr_vars

HrNext ==
  \/ startHealth \/ cancelHealth \/ healthCompleted \/ destroy \/ joined
  \/ Worker \/ Done

\* Both threads run: the worker takes its next step, the UI thread delivers a
\* completion and returns from its wait.
HrSpec ==
  /\ HrInit /\ [][HrNext]_hr_vars
  /\ WF_hr_vars(Worker) /\ WF_hr_vars(healthCompleted) /\ WF_hr_vars(joined)

-----------------------------------------------------------------------------
(* Properties. *)

\* Types of the run, the files and the two threads; the first conjunct of
\* PassIsEarned.
HrTypeOK ==
  /\ ui \in {"open", "joining", "closed"} /\ health_running \in BOOLEAN
  /\ signals \subseteq {"healthRequested", "completed"}
  /\ {running, cancel_requested, whole, cancelled} \subseteq BOOLEAN
  /\ stage \in {"Idle", "Preparing", "Executing", "Evaluating", "CleaningUp",
                "Completed"}
  /\ t \in 0 .. Timeout /\ began \in 0 .. Timeout
  /\ result.outcome \in {"Passed", "Failed", "Error", "Aborted"}
  /\ result.cleanup \in {"NotRun", "Passed", "Failed"}
  /\ json \in [RunIds -> 0 .. MaxRuns] /\ csv \in [RunIds -> 0 .. MaxRuns]

\* run() has finished its result.
Returned == worker = "return"

\* A pass is earned: the whole window was observed, and not a part of it that a
\* cancel or the deadline cut short with success; every criterion held; and
\* cleanup went well.
PassIsEarned ==
  /\ HrTypeOK
  /\ Returned /\ result.outcome = "Passed" =>
       whole /\ Prepared(obs) /\ CountersAdvance(obs) /\ Healthy(obs)
       /\ result.cleanup = "Passed"

\* A cancel that the runner takes before the verdict decides it: the run is
\* aborted or had already failed, it never passes or fails on its criteria.
CancelDecides ==
  Returned /\ cancelled => result.outcome \in {"Aborted", "Error"}

\* Recorded evidence is never overwritten, even when two runs get the same id or
\* a file cannot be written or removed: a summary row has its full result beside
\* it, from the same run, a file keeps its run, and only the run that wrote a
\* JSON takes it back.
EvidenceIsKept ==
  /\ [](\A i \in RunIds : csv[i] # 0 => json[i] = csv[i])
  /\ [][\A i \in RunIds :
          /\ json[i] # 0 =>
               json'[i] = json[i] \/ (json'[i] = 0 /\ json[i] = runs /\ csv[i] = 0)
          /\ csv[i] # 0 => csv'[i] = csv[i]]_hr_vars

\* Every health test that was started comes back to the panel, unless the
\* window is closed first; and closing it during a test does not hang: the wait
\* for the worker ends.
TestComesBack ==
  /\ health_running ~> (~health_running \/ ui # "open")
  /\ ui = "joining" ~> ui = "closed"
=============================================================================
