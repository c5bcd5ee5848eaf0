--------------------------- MODULE SupervisedProc ---------------------------
(***************************************************************************)
(* The worker's side of one runner of jobs: ipc/supervised_proc.py with    *)
(* ipc/job_proc_executor.py (a process), or ipc/job_thread_executor.py (a  *)
(* thread of the worker, which speaks the same protocol).                  *)
(*                                                                         *)
(* ipc_ch is left out: the main task takes each message of the read task   *)
(* as soon as it is there.  So are the pings: what matters of them are     *)
(* the two timeouts, which may fire at any time.                           *)
(*                                                                         *)
(* First comes the socket pair between the two (utils/aio/duplex_unix.py). *)
(* A message written while both ends are open is delivered in order.  When *)
(* the process goes, what it had not read is lost, and the reset this      *)
(* makes may take with it what the worker had not read.                    *)
(***************************************************************************)
EXTENDS Naturals, Sequences, SequencesExt

CONSTANTS
    Requests,       \* the inferences the job asks for (a bound)
    Faults          \* what may go wrong: a subset of AllFaults

AllFaults == {"early exit", "crash", "hang", "init error", "worker dies", "tracing"}

ASSUME SupervisedProcAssumption == Requests \subseteq Nat \ {0} /\ Faults \subseteq AllFaults

VARIABLES
    proc,           \* the process: none, boot, user (its initialize_fnc), run, stuck (its main
                    \* returned, a thread of it goes on), exited
    exitcode,       \* none, zero, nonzero
    toProc,         \* what the worker sent, unread
    toWorker,       \* what the process sent, unread
    workerOpen      \* the worker has not closed its end

duplexVars == <<proc, exitcode, toProc, toWorker, workerOpen>>

Msg(t) == [type |-> t, id |-> 0]

ToProcMessages ==
    [type : {"InitializeRequest", "StartJobRequest", "TracingRequest", "ShutdownRequest"}, id : {0}]
        \cup [type : {"InferenceResponse"}, id : Requests]

ToWorkerMessages ==
    [type : {"InitializeResponse", "InitializeError", "Exiting", "TracingResponse"}, id : {0}]
        \cup [type : {"InferenceRequest"}, id : Requests]

DuplexTypeOK ==
    /\ proc \in {"none", "boot", "user", "run", "stuck", "exited"}
    /\ exitcode \in {"none", "zero", "nonzero"}
    /\ toProc \in Seq(ToProcMessages) /\ toWorker \in Seq(ToWorkerMessages)
    /\ workerOpen \in BOOLEAN

DuplexInit ==
    /\ proc = "none" /\ exitcode = "none"
    /\ toProc = <<>> /\ toWorker = <<>> /\ workerOpen = TRUE

\* A send from either end raises DuplexClosed once one of them is closed.
Connected == workerOpen /\ proc # "exited"

\* send_bytes of the worker.  The caller looks at Connected for what is raised.
SendToProc(msg) ==
    /\ toProc' = IF Connected THEN Append(toProc, msg) ELSE toProc
    /\ UNCHANGED <<proc, exitcode, toWorker, workerOpen>>

\* send_bytes of the process.
SendToWorker(msg) ==
    toWorker' = IF Connected THEN Append(toWorker, msg) ELSE toWorker

\* recv_bytes: the next message, or DuplexClosed at the end of the stream.
WorkerReads(msg) ==
    /\ toWorker # <<>> /\ msg = Head(toWorker)
    /\ toWorker' = Tail(toWorker)
    /\ UNCHANGED <<proc, exitcode, toProc, workerOpen>>

WorkerReadsEnd == toWorker = <<>> /\ ~Connected

ProcReadsEnd == toProc = <<>> /\ ~Connected

\* The process is gone, with its end of the socket.
Exit(code) ==
    /\ proc' = "exited" /\ exitcode' = code
    /\ toProc' = <<>>
    /\ toWorker' \in {toWorker} \cup (IF toProc = <<>> THEN {} ELSE {<<>>})
    /\ UNCHANGED workerOpen

----------------------------------------------------------------------------
(* The supervisor *)

VARIABLES
    kind,           \* process or thread
    sup,            \* _supervise_task (_main_task of a thread): none, init, run, ended, gone
    init,           \* _initialize_fut: pending, ok, failed
    initCall,       \* initialize(): no, waiting, over
    closing,        \* _closing
    killSent,       \* _kill_sent
    launch,         \* launch_job(): no, sent, raised; _running_job is set unless no
    status,         \* _job_status: none, running, success, failed
    closeCall,      \* aclose() or kill(): no, waiting, killed, over
    reader,         \* _read_ipc_task (_monitor_task of a thread): none, run, ended
    infTask,        \* _do_inference_task of each request: none, run, ended
    trace           \* tracing_info(): no, waiting, answered, raised

superVars == <<kind, sup, init, initCall, closing, killSent, launch, status, closeCall, reader, infTask, trace>>

SuperTypeOK ==
    /\ kind \in {"process", "thread"}
    /\ sup \in {"none", "init", "run", "ended", "gone"}
    /\ init \in {"pending", "ok", "failed"} /\ initCall \in {"no", "waiting", "over"}
    /\ closing \in BOOLEAN /\ killSent \in BOOLEAN
    /\ launch \in {"no", "sent", "raised"}
    /\ status \in {"none", "running", "success", "failed"}
    /\ closeCall \in {"no", "waiting", "killed", "over"}
    /\ reader \in {"none", "run", "ended"}
    /\ infTask \in [Requests -> {"none", "run", "ended"}]
    /\ trace \in {"no", "waiting", "answered", "raised"}

SuperInit ==
    /\ kind \in {"process", "thread"}
    /\ sup = "none" /\ init = "pending" /\ initCall = "no"
    /\ closing = FALSE /\ killSent = FALSE
    /\ launch = "no" /\ status = "none" /\ closeCall = "no"
    /\ reader = "none"
    /\ infTask = [r \in Requests |-> "none"]
    /\ trace = "no"

Process == kind = "process"

----------------------------------------------------------------------------
(* Starting and initialising *)

\* start() and _start(): the process runs, the supervision waits for its initialisation.
Start ==
    /\ sup = "none" /\ ~closing
    /\ proc' = "boot" /\ sup' = "init"
    /\ UNCHANGED <<exitcode, toProc, toWorker, workerOpen, kind, init, initCall, closing, killSent,
                   launch, status, closeCall, reader, infTask, trace>>

\* initialize() up to its wait.  A failing send is outside its try: the future stays pending.
Initialize ==
    /\ initCall = "no" /\ sup = "init"
    /\ SendToProc(Msg("InitializeRequest"))
    /\ initCall' = IF Connected THEN "waiting" ELSE "over"
    /\ UNCHANGED <<kind, sup, init, closing, killSent, launch, status, closeCall, reader, infTask, trace>>

\* The answer; a thread's initialize() does not look at its error.
InitializeAnswered ==
    /\ initCall = "waiting"
    /\ \E msg \in ToSet(toWorker) :
          /\ WorkerReads(msg)
          /\ init' = IF Process /\ msg.type = "InitializeError" THEN "failed" ELSE "ok"
    /\ initCall' = "over"
    /\ UNCHANGED <<kind, sup, closing, killSent, launch, status, closeCall, reader, infTask,
                   trace>>

\* _send_kill_signal: nothing is sent to a process that is gone, or reaped.
Kill ==
    IF proc # "exited" /\ sup # "ended"
    THEN Exit("nonzero") /\ killSent' = TRUE
    ELSE UNCHANGED <<duplexVars, killSent>>

\* The timeout of the answer: a process is killed, a thread goes on.
InitializeTimesOut ==
    /\ initCall = "waiting"
    /\ initCall' = "over" /\ init' = "failed"
    /\ IF Process THEN Kill ELSE UNCHANGED <<duplexVars, killSent>>
    /\ UNCHANGED <<kind, sup, closing, launch, status, closeCall, reader, infTask, trace>>

\* The process closed the socket instead of answering.
InitializeLost ==
    /\ initCall = "waiting" /\ WorkerReadsEnd
    /\ initCall' = "over" /\ init' = "failed"
    /\ UNCHANGED <<duplexVars, kind, sup, closing, killSent, launch, status, closeCall, reader, infTask, trace>>

----------------------------------------------------------------------------
(* Supervising *)

\* The initialisation is settled, one way or the other: the tasks are created.
SuperviseBegins ==
    /\ sup = "init" /\ init # "pending"
    /\ sup' = "run" /\ reader' = "run"
    /\ UNCHANGED <<duplexVars, kind, init, initCall, closing, killSent, launch, status, closeCall,
                   infTask, trace>>

\* _read_ipc_task and the main task of its executor: an inference is started.  Only a thread's
\* executor looks at the answers to tracing_info().
ReadMessage ==
    /\ reader = "run"
    /\ \E msg \in ToSet(toWorker) :
          /\ WorkerReads(msg)
          /\ infTask' = IF msg.type = "InferenceRequest"
                        THEN [infTask EXCEPT ![msg.id] = "run"] ELSE infTask
          /\ trace' = IF ~Process /\ msg.type = "TracingResponse" /\ trace = "waiting"
                      THEN "answered" ELSE trace
    /\ UNCHANGED <<kind, sup, init, initCall, closing, killSent, launch, status, closeCall, reader>>

ReadEnds ==
    /\ reader = "run" /\ WorkerReadsEnd
    /\ reader' = "ended"
    /\ UNCHANGED <<duplexVars, kind, sup, init, initCall, closing, killSent, launch, status,
                   closeCall, infTask, trace>>

\* Mutant: an inference that fails is not answered.
InferenceErrorSilent(r) ==
    /\ infTask[r] = "run"
    /\ infTask' = [infTask EXCEPT ![r] = "ended"]
    /\ \/ SendToProc([type |-> "InferenceResponse", id |-> r])
       \/ UNCHANGED duplexVars
    /\ UNCHANGED <<kind, sup, init, initCall, closing, killSent, launch, status, closeCall, reader, trace>>

\* _do_inference_task: data or an error, an answer is sent.
InferenceEnds(r) ==
    /\ infTask[r] = "run"
    /\ infTask' = [infTask EXCEPT ![r] = "ended"]
    /\ SendToProc([type |-> "InferenceResponse", id |-> r])
    /\ UNCHANGED <<kind, sup, init, initCall, closing, killSent, launch, status, closeCall, reader, trace>>

\* The pong timeout of _ping_pong_task fires (the pings and their answers change nothing else,
\* and any of them may be late), or _memory_monitor_task finds the process too big: it is killed.
KilledByWorker ==
    /\ Process /\ sup = "run" /\ "hang" \in Faults
    /\ proc # "exited"
    /\ Kill
    /\ UNCHANGED <<kind, sup, init, initCall, closing, launch, status, closeCall, reader, infTask,
                   trace>>

\* Mutant: only a process that was initialised is watched.
PongTimesOutOnceInitialized ==
    /\ sup = "run" /\ proc = "stuck" /\ init = "ok"
    /\ Kill
    /\ UNCHANGED <<kind, sup, init, initCall, closing, launch, status, closeCall, reader, infTask,
                   trace>>

\* The same timeout, of a process that answers no ping any more: it does fire.
PongTimesOut ==
    /\ sup = "run" /\ proc = "stuck"
    /\ Kill
    /\ UNCHANGED <<kind, sup, init, initCall, closing, launch, status, closeCall, reader, infTask,
                   trace>>

\* Mutant: whatever the exit code, the job is said to have succeeded.
SuperviseEndsWell ==
    /\ sup = "run" /\ proc = "exited"
    /\ sup' = "ended" /\ reader' = "ended"
    /\ infTask' = [r \in Requests |-> IF infTask[r] = "run" THEN "ended" ELSE infTask[r]]
    /\ workerOpen' = FALSE /\ status' = "success"
    /\ UNCHANGED <<proc, exitcode, toProc, toWorker, kind, init, initCall, closing, killSent, launch,
                   closeCall, trace>>

\* The process is joined: every task is cancelled, the socket closed, the status known.  A
\* thread always succeeds.
SuperviseEnds ==
    /\ sup = "run" /\ proc = "exited"
    /\ sup' = "ended" /\ reader' = "ended"
    /\ infTask' = [r \in Requests |-> IF infTask[r] = "run" THEN "ended" ELSE infTask[r]]
    /\ workerOpen' = FALSE
    /\ status' = IF Process /\ exitcode # "zero" THEN "failed" ELSE "success"
    /\ UNCHANGED <<proc, exitcode, toProc, toWorker, kind, init, initCall, closing, killSent, launch,
                   closeCall, trace>>

----------------------------------------------------------------------------
(* What the pool and the worker call *)

\* launch_job(): the job is the executor's before the request is sent, and stays if that raises.
\* The pool launches on executors whose initialize() returned; closing is not looked at.
LaunchJob ==
    /\ launch = "no" /\ init = "ok" /\ sup # "gone"
    /\ status' = "running"
    /\ SendToProc(Msg("StartJobRequest"))
    /\ launch' = IF Connected THEN "sent" ELSE "raised"
    /\ UNCHANGED <<kind, sup, init, initCall, closing, killSent, closeCall, reader, infTask,
                   trace>>

\* tracing_info(), from the page of the worker that shows a runner, busy or idle.
TracingInfo ==
    /\ "tracing" \in Faults
    /\ trace = "no" /\ sup \notin {"none", "gone"}
    /\ SendToProc(Msg("TracingRequest"))
    /\ trace' = IF Connected THEN "waiting" ELSE "raised"
    /\ UNCHANGED <<kind, sup, init, initCall, closing, killSent, launch, status, closeCall, reader, infTask>>

\* aclose() up to its wait.
Close ==
    /\ closeCall = "no" /\ sup # "none"
    /\ closing' = TRUE /\ closeCall' = "waiting"
    /\ SendToProc(Msg("ShutdownRequest"))
    /\ UNCHANGED <<kind, sup, init, initCall, killSent, launch, status, reader, infTask,
                   trace>>

\* Mutant: nobody kills a process that does not stop.
CloseTimesOutGently ==
    /\ closeCall = "waiting" /\ sup # "ended"
    /\ closeCall' = "killed"
    /\ UNCHANGED <<duplexVars, killSent, kind, sup, init, initCall, closing, launch, status, reader, infTask, trace>>

\* close_timeout: a process is killed, a thread waited for.
CloseTimesOut ==
    /\ closeCall = "waiting" /\ sup # "ended"
    /\ closeCall' = "killed"
    /\ IF Process THEN Kill ELSE UNCHANGED <<duplexVars, killSent>>
    /\ UNCHANGED <<kind, sup, init, initCall, closing, launch, status, reader, infTask,
                   trace>>

\* kill() of a process: no request, no timeout.
KillCall ==
    /\ Process /\ closeCall = "no" /\ sup # "none" /\ "hang" \in Faults
    /\ closing' = TRUE /\ closeCall' = "killed"
    /\ Kill
    /\ UNCHANGED <<kind, sup, init, initCall, launch, status, reader, infTask, trace>>

CloseReturns ==
    /\ closeCall \in {"waiting", "killed"} /\ sup = "ended"
    /\ closeCall' = "over"
    /\ UNCHANGED <<duplexVars, kind, sup, init, initCall, closing, killSent, launch, status, reader, infTask, trace>>

=============================================================================
