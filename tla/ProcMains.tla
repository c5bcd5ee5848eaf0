------------------------------ MODULE ProcMains -------------------------------
(***************************************************************************)
(* The process that runs one job (or the thread): ipc/proc_client.py and   *)
(* ipc/job_proc_lazy_main.py, with the shutdown() and the callbacks of     *)
(* job.py.  Extends the worker's side, whose messages it answers.  What    *)
(* the process logs goes its own way (LogForwarding).                      *)
(***************************************************************************)
EXTENDS SupervisedProc, LogForwarding

VARIABLES
    reading,        \* _read_ipc_task of the client: none, run, ended
    clientExit,     \* exit_flag of the client (ipc_ch is then closed)
    inbox,          \* ipc_ch: from the client to the entrypoint
    listener,       \* _read_ipc_task of the entrypoint: none, run, tracing, ended
    exitFlag,       \* _exit_proc_flag
    job,            \* _job_task: none, run, leaving, callbacks, ended, failed
    shutdown,       \* _shutdown_fut: none, request, room, user
    inference       \* do_inference() of the job: none, sent, answered, failed

jobVars == <<reading, clientExit, inbox, listener, exitFlag, job, shutdown, inference>>

JobTypeOK ==
    /\ reading \in {"none", "run", "ended"} /\ clientExit \in BOOLEAN
    /\ inbox \in Seq(ToProcMessages)
    /\ listener \in {"none", "run", "tracing", "ended"} /\ exitFlag \in BOOLEAN
    /\ job \in {"none", "run", "leaving", "callbacks", "ended", "failed"}
    /\ shutdown \in {"none", "request", "room", "user"}
    /\ inference \in [Requests -> {"none", "sent", "answered", "failed"}]

JobInit ==
    /\ reading = "none" /\ clientExit = FALSE /\ inbox = <<>>
    /\ listener = "none" /\ exitFlag = FALSE
    /\ job = "none" /\ shutdown = "none"
    /\ inference = [r \in Requests |-> "none"]

----------------------------------------------------------------------------
(* _ProcClient *)

\* The client failed and proc_main returns.  A thread ends; a process does not: nothing tells the
\* thread that forwards its logs to stop (only run() closes the handler), and the interpreter waits
\* for that thread, which a record it could not send to a dead worker may have ended before.
GivesUp(rest, sent) ==
    \/ /\ ~Process \/ ~workerOpen
       /\ proc' = "exited" /\ exitcode' = "zero" /\ toProc' = <<>>
       /\ toWorker' \in {sent} \cup (IF rest = <<>> THEN {} ELSE {<<>>})
       /\ UNCHANGED workerOpen
    \/ /\ Process
       /\ proc' = "stuck" /\ toProc' = rest /\ toWorker' = sent
       /\ UNCHANGED <<exitcode, workerOpen>>

\* initialize(): the first message must be the request; anything else, or the end of the
\* stream, is a failure.
ClientBegins ==
    /\ proc = "boot"
    /\ \/ /\ toProc # <<>> /\ Head(toProc).type = "InitializeRequest"
          /\ proc' = "user" /\ toProc' = Tail(toProc)
          /\ UNCHANGED <<exitcode, toWorker, workerOpen>>
       \/ /\ IF toProc = <<>> THEN ProcReadsEnd ELSE Head(toProc).type # "InitializeRequest"
          /\ GivesUp(IF toProc = <<>> THEN toProc ELSE Tail(toProc), toWorker)
    /\ UNCHANGED <<superVars, jobVars>>

\* initialize_process_fnc returned and the answer is sent: run() starts the monitor, the read
\* task and the entrypoint.
ClientRuns ==
    /\ proc = "user" /\ Connected
    /\ proc' = "run" /\ SendToWorker(Msg("InitializeResponse"))
    /\ reading' = "run" /\ listener' = "run"
    /\ UNCHANGED <<exitcode, toProc, workerOpen, superVars, clientExit, inbox, exitFlag, job, shutdown,
                   inference>>

\* It raised: the error is sent.
ClientFails ==
    /\ proc = "user" /\ ("init error" \in Faults \/ ~Connected)
    /\ GivesUp(toProc, IF Connected THEN Append(toWorker, Msg("InitializeError")) ELSE toWorker)
    /\ UNCHANGED <<superVars, jobVars>>

\* _read_ipc_task: every message is handed to the entrypoint (the channel is closed once the
\* client exits).
ClientReads ==
    /\ proc = "run" /\ reading = "run" /\ toProc # <<>>
    /\ toProc' = Tail(toProc)
    /\ inbox' = IF clientExit THEN inbox ELSE Append(inbox, Head(toProc))
    /\ UNCHANGED <<proc, exitcode, toWorker, workerOpen, superVars, reading, clientExit, listener,
                   exitFlag, job, shutdown, inference>>

\* The worker closed its end, or nothing came within ping_timeout (a process only).
ClientLosesWorker ==
    /\ proc = "run" /\ reading = "run"
    /\ ProcReadsEnd \/ (Process /\ "hang" \in Faults)
    /\ reading' = "ended" /\ clientExit' = TRUE
    /\ UNCHANGED <<duplexVars, superVars, inbox, listener, exitFlag, job, shutdown, inference>>

\* The rest of _monitor_task and of run(): the process ends, whatever the job task is doing.
ClientEnds ==
    /\ proc = "run" /\ clientExit
    /\ Exit("zero")
    /\ UNCHANGED <<superVars, jobVars>>

----------------------------------------------------------------------------
(* _JobProc.entrypoint *)

Take(msg) == /\ proc = "run" /\ listener = "run"
             /\ inbox # <<>> /\ msg = Head(inbox) /\ inbox' = Tail(inbox)

\* A job is started unless one was, running or not.
OnStartJob(msg) ==
    /\ msg.type = "StartJobRequest"
    /\ job' = IF job = "none" THEN "run" ELSE job
    /\ UNCHANGED <<listener, exitFlag, shutdown, inference>>

\* Mutant: a shutdown exits at once although a job runs.
OnShutdownAbrupt(msg) ==
    /\ msg.type = "ShutdownRequest"
    /\ exitFlag' = TRUE /\ listener' = "ended"
    /\ UNCHANGED <<job, shutdown, inference>>

\* Without a job the process exits, with one the job is told, once.
OnShutdown(msg) ==
    /\ msg.type = "ShutdownRequest"
    /\ IF job = "none"
       THEN exitFlag' = TRUE /\ listener' = "ended" /\ UNCHANGED shutdown
       ELSE /\ shutdown' = IF shutdown = "none" THEN "request" ELSE shutdown
            /\ UNCHANGED <<exitFlag, listener>>
    /\ UNCHANGED <<job, inference>>

OnInferenceResponse(msg) ==
    /\ msg.type = "InferenceResponse"
    /\ inference' = [inference EXCEPT ![msg.id] = IF @ = "sent" THEN "answered" ELSE @]
    /\ UNCHANGED <<job, listener, exitFlag, shutdown>>

\* The tracing callbacks run, and no other message is read; without a job the task returns.
OnTracingRequest(msg) ==
    /\ msg.type = "TracingRequest"
    /\ listener' = IF job = "none" THEN "ended" ELSE "tracing"
    /\ UNCHANGED <<job, exitFlag, shutdown, inference>>

\* The iteration of _read_ipc_task over the messages (the others are ignored).
Listen ==
    /\ \E msg \in ToSet(inbox) :
          /\ Take(msg)
          /\ OnStartJob(msg) \/ OnShutdown(msg) \/ OnInferenceResponse(msg) \/ OnTracingRequest(msg)
    /\ UNCHANGED <<duplexVars, superVars, reading, clientExit>>

\* The callbacks are over: the answer is sent (or raises, which ends the task).
TracingAnswered ==
    /\ proc = "run" /\ listener = "tracing"
    /\ SendToWorker(Msg("TracingResponse"))
    /\ listener' = IF Connected THEN "run" ELSE "ended"
    /\ UNCHANGED <<proc, exitcode, toProc, workerOpen, superVars, reading, clientExit, inbox, exitFlag,
                   job, shutdown, inference>>

\* entrypoint() returns once the flag is set; the client ends with it.
EntrypointEnds ==
    /\ proc = "run" /\ exitFlag /\ ~clientExit
    /\ listener' = "ended" /\ clientExit' = TRUE
    /\ UNCHANGED <<duplexVars, superVars, reading, inbox, exitFlag, job, shutdown, inference>>

----------------------------------------------------------------------------
(* The job: _run_job_task.  The user's entrypoint may end whenever it likes: nothing follows. *)

\* ctx.shutdown() or a disconnected room: the first one to say so.
JobAsksShutdown ==
    /\ proc = "run" /\ job = "run" /\ shutdown = "none"
    /\ shutdown' \in {"room", "user"}
    /\ UNCHANGED <<duplexVars, superVars, reading, clientExit, inbox, listener, exitFlag, job, inference>>

\* The future is set: Exiting is sent; if that raises the task fails and the process exits.
JobLeaves ==
    /\ proc = "run" /\ job = "run" /\ shutdown # "none"
    /\ SendToWorker(Msg("Exiting"))
    /\ job' = IF Connected THEN "leaving" ELSE "failed"
    /\ exitFlag' = (exitFlag \/ ~Connected)
    /\ UNCHANGED <<proc, exitcode, toProc, workerOpen, superVars, reading, clientExit, inbox, listener,
                   shutdown, inference>>

\* room.disconnect() returns: the shutdown callbacks start.
RoomLeft ==
    /\ proc = "run" /\ job = "leaving"
    /\ job' = "callbacks"
    /\ UNCHANGED <<duplexVars, superVars, reading, clientExit, inbox, listener, exitFlag, shutdown,
                   inference>>

\* They are over (an exception is logged), the http session closed: the process may exit.
JobEnds ==
    /\ proc = "run" /\ job = "callbacks"
    /\ job' = "ended" /\ exitFlag' = TRUE
    /\ UNCHANGED <<duplexVars, superVars, reading, clientExit, inbox, listener, shutdown, inference>>

\* do_inference(): the future is registered when the send returns, before any answer is read.
Infer(r) ==
    /\ proc = "run" /\ job \in {"run", "leaving", "callbacks"} /\ inference[r] = "none"
    /\ SendToWorker([type |-> "InferenceRequest", id |-> r])
    /\ inference' = [inference EXCEPT ![r] = IF Connected THEN "sent" ELSE "failed"]
    /\ UNCHANGED <<proc, exitcode, toProc, workerOpen, superVars, reading, clientExit, inbox, listener,
                   exitFlag, job, shutdown>>

----------------------------------------------------------------------------
(* Crashes *)

ProcCrashes ==
    /\ Process /\ proc \in {"boot", "user", "run"}
    /\ "crash" \in Faults
    /\ proc = "boot" => ("early exit" \in Faults \/ initCall # "no")
    /\ Exit("nonzero")
    /\ UNCHANGED <<superVars, jobVars>>

\* The worker dies: its end of the socket is closed, nothing of it goes on.
WorkerDies ==
    /\ "worker dies" \in Faults /\ Process /\ sup \in {"init", "run"}
    /\ sup' = "gone" /\ initCall' = "over" /\ closeCall' = "over"
    /\ reader' = "ended" /\ infTask' = [r \in Requests |-> "ended"]
    /\ trace' = "raised" /\ workerOpen' = FALSE /\ toWorker' = <<>>
    /\ UNCHANGED <<proc, exitcode, toProc, kind, init, closing, killSent, launch, status, jobVars>>

----------------------------------------------------------------------------
(* The two together *)

JobLinkInit == DuplexInit /\ SuperInit /\ JobInit

WorkerStep ==
    \/ Start \/ Initialize \/ InitializeAnswered \/ InitializeTimesOut \/ InitializeLost
    \/ SuperviseBegins \/ ReadMessage \/ ReadEnds \/ KilledByWorker \/ PongTimesOut \/ SuperviseEnds
    \/ LaunchJob \/ TracingInfo \/ Close \/ CloseTimesOut \/ KillCall \/ CloseReturns
    \/ \E r \in Requests : InferenceEnds(r)

ProcStep ==
    \/ ClientBegins \/ ClientRuns \/ ClientFails \/ ClientReads \/ ClientLosesWorker \/ ClientEnds
    \/ Listen \/ TracingAnswered \/ EntrypointEnds
    \/ JobAsksShutdown \/ JobLeaves \/ RoomLeft \/ JobEnds \/ ProcCrashes \/ WorkerDies
    \/ \E r \in Requests : Infer(r)

JobLinkNext == (WorkerStep /\ UNCHANGED jobVars) \/ ProcStep

execVars == <<duplexVars, superVars>>
jobLinkVars == <<duplexVars, superVars, jobVars>>

(***************************************************************************)
(* The loops run what is ready, the timeouts fire, the inferences of the   *)
(* worker and the tracing callbacks end.  The rest of the user's code      *)
(* (initialize_process_fnc, the entrypoint, the shutdown callbacks) may    *)
(* take for ever.                                                          *)
(***************************************************************************)
JobLinkFairness ==
    /\ WF_execVars(SuperviseBegins) /\ WF_execVars(SuperviseEnds)
    /\ WF_execVars(ReadMessage) /\ WF_execVars(InitializeTimesOut)
    /\ WF_execVars(CloseTimesOut) /\ WF_execVars(CloseReturns) /\ WF_execVars(PongTimesOut)
    /\ \A r \in Requests : WF_execVars(InferenceEnds(r))
    /\ WF_jobLinkVars(ClientReads) /\ WF_jobLinkVars(ClientEnds) /\ WF_jobLinkVars(EntrypointEnds)
    /\ WF_jobLinkVars(Listen) /\ WF_jobLinkVars(TracingAnswered)

JobLinkSpec == JobLinkInit /\ [][JobLinkNext]_jobLinkVars /\ JobLinkFairness

----------------------------------------------------------------------------
(* Properties *)

JobLinkTypeOK == DuplexTypeOK /\ SuperTypeOK /\ JobTypeOK

\* The shutdown callbacks of a started job have run when its process exits, whichever of the
\* request, the room and the user came first, unless the process was killed or crashed, the
\* client gave the worker up, or the worker was gone when the job said it was leaving.
CallbacksRunBeforeExit ==
    proc = "exited" /\ job \notin {"none", "ended"}
        => exitcode = "nonzero" \/ reading = "ended" \/ job = "failed"

\* A job whose executor says SUCCESS was run to its end, unless aclose() came before it was
\* started, or the client gave the worker up (its process then exits with 0 all the same).
SuccessIsEarned ==
    Process /\ status = "success" /\ launch = "sent"
        => job = "ended" \/ (job = "none" /\ closing) \/ reading = "ended"

\* What is there before the process runs, and of one that never ran.
NothingBeforeRun ==
    /\ proc \notin {"run", "exited"} => reading = "none"
    /\ proc = "run" => reading # "none"
    /\ reading = "none" => job = "none" /\ ~exitFlag /\ ~clientExit
    /\ reading = "none" /\ Process =>
           init # "ok" /\ \A m \in ToSet(toWorker) : m.type = "InitializeError"

\* The life of an executor goes one way.
ExecutorInOrder ==
    /\ sup = "none" => proc = "none" /\ initCall = "no" /\ closeCall = "no" /\ workerOpen
    /\ initCall # "over" => init = "pending"
    /\ launch # "no" => init = "ok"
    /\ ~workerOpen => sup \in {"ended", "gone"}
    /\ sup = "ended" => proc = "exited"

\* Why a process may exit: the flag is set by a job that is over, or without a job by an executor
\* that closes; a job fails when the worker is gone.
ExitHasReason ==
    /\ exitFlag => job \in {"ended", "failed"} \/ (job = "none" /\ listener = "ended" /\ closing)
    /\ clientExit => exitFlag \/ reading = "ended"
    /\ job = "failed" => sup = "gone"
    /\ \A m \in ToSet(toProc) \cup ToSet(inbox) : m.type = "ShutdownRequest" => closing

\* What the exit code and the status say.
StatusTells ==
    /\ proc = "exited" /\ reading # "none" => exitcode = "nonzero" \/ clientExit
    /\ status = "success" => sup = "ended" /\ (Process => exitcode = "zero")

\* The inductive invariant.
JobLinkInv == JobLinkTypeOK /\ NothingBeforeRun /\ ExecutorInOrder /\ ExitHasReason /\ StatusTells

\* What cannot last: aclose() returns even if the user's code hangs, as the process is killed; so is
\* a process whose initialisation failed, while a worker supervises it; an inference asked by the job
\* is answered, data or error, while the process is supervised.
JobLinkPending ==
    \/ proc = "stuck" /\ sup = "run"
    \/ Process /\ closeCall \in {"waiting", "killed"} /\ init # "pending"
    \/ proc # "exited" /\ sup = "run" /\ \E r \in Requests : inference[r] = "sent"

\* join() "wait[s] for the process to finish": it returns when the process has.
JoinReturns == Process /\ proc = "exited" ~> sup \in {"ended", "gone"}

----------------------------------------------------------------------------
(***************************************************************************)
(* The process that runs the inferences of all jobs: the requests of       *)
(* ipc/inference_proc_executor.py and the loop of                          *)
(* ipc/inference_proc_lazy_main.py that serves them one by one.            *)
(***************************************************************************)

CONSTANTS
    Callers,            \* the calls of do_inference() (a bound)
    CancelInSend        \* a call may be cancelled while its request is being sent

ASSUME InferenceProcAssumption == CancelInSend \in BOOLEAN

VARIABLES
    infCall,            \* each call: none, waiting, data, error, cancelled
    infActive,          \* _active_requests
    infRequests,        \* requests sent, unread
    infServing,         \* the request the process runs, or none (a sequence of at most one)
    infAnswers,         \* answers sent, unread
    infHandler,         \* _main_task of the executor: run, ended
    infProc             \* the process: up, told (to shut down), exited

infVars == <<infCall, infActive, infRequests, infServing, infAnswers, infHandler, infProc>>

InferenceTypeOK ==
    /\ infCall \in [Callers -> {"none", "waiting", "data", "error", "cancelled"}]
    /\ infActive \subseteq Callers
    /\ {infRequests, infServing, infAnswers} \subseteq Seq(Callers)
    /\ infHandler \in {"run", "ended"} /\ infProc \in {"up", "told", "exited"}

InferenceInit ==
    /\ infCall = [c \in Callers |-> "none"] /\ infActive = {}
    /\ infRequests = <<>> /\ infServing = <<>> /\ infAnswers = <<>>
    /\ infHandler = "run" /\ infProc = "up"

\* do_inference(): the request is sent, then the future registered; a call cancelled in its
\* send leaves a request without a future.
DoInference(c) ==
    /\ infCall[c] = "none" /\ infProc = "up"
    /\ infRequests' = Append(infRequests, c)
    /\ \/ infCall' = [infCall EXCEPT ![c] = "waiting"] /\ infActive' = infActive \cup {c}
       \/ CancelInSend /\ infCall' = [infCall EXCEPT ![c] = "cancelled"] /\ UNCHANGED infActive
    /\ UNCHANGED <<infServing, infAnswers, infHandler, infProc>>

\* The caller is cancelled while it waits: the future stays registered.
InferenceCancelled(c) ==
    /\ infCall[c] = "waiting"
    /\ infCall' = [infCall EXCEPT ![c] = "cancelled"]
    /\ UNCHANGED <<infActive, infRequests, infServing, infAnswers, infHandler, infProc>>

\* entrypoint of the process: a request is run in a thread, while the others wait.
ServeRequest ==
    /\ infProc \in {"up", "told"} /\ infServing = <<>> /\ infRequests # <<>>
    /\ infServing' = <<Head(infRequests)>> /\ infRequests' = Tail(infRequests)
    /\ UNCHANGED <<infCall, infActive, infAnswers, infHandler, infProc>>

\* It ends, with data or an exception (an unknown method is one): the answer is sent.
RequestServed ==
    /\ infProc \in {"up", "told"} /\ infServing # <<>>
    /\ infAnswers' = infAnswers \o infServing /\ infServing' = <<>>
    /\ UNCHANGED <<infCall, infActive, infRequests, infHandler, infProc>>

\* Mutant: the answer to a call that went away ends the task.
HandleAnswerStrict ==
    /\ infHandler = "run" /\ infAnswers # <<>>
    /\ infAnswers' = Tail(infAnswers)
    /\ LET c == Head(infAnswers)
       IN  /\ infActive' = infActive \ {c}
           /\ infHandler' = IF infCall[c] = "waiting" THEN "run" ELSE "ended"
           /\ \E res \in {"data", "error"} :
                 infCall' = IF infCall[c] = "waiting" THEN [infCall EXCEPT ![c] = res] ELSE infCall
    /\ UNCHANGED <<infRequests, infServing, infProc>>

\* _main_task: sets the future of the answer, if its caller still waits; an answer without a
\* future ends the task.
HandleAnswer ==
    /\ infHandler = "run" /\ infAnswers # <<>>
    /\ infAnswers' = Tail(infAnswers)
    /\ LET c == Head(infAnswers)
       IN  IF c \notin infActive
           THEN infHandler' = "ended" /\ UNCHANGED <<infCall, infActive>>
           ELSE /\ infActive' = infActive \ {c} /\ UNCHANGED infHandler
                /\ \E res \in {"data", "error"} :
                      infCall' = IF infCall[c] = "waiting" THEN [infCall EXCEPT ![c] = res]
                                 ELSE infCall
    /\ UNCHANGED <<infRequests, infServing, infProc>>

\* aclose() asks for the shutdown, which is read after the requests sent before.
InferenceClose ==
    /\ infProc = "up"
    /\ infProc' = "told"
    /\ UNCHANGED <<infCall, infActive, infRequests, infServing, infAnswers, infHandler>>

\* The process ends: told to and idle, or a crash.
InferenceExits ==
    /\ infProc # "exited"
    /\ infProc' = "exited" /\ infRequests' = <<>> /\ infServing' = <<>>
    /\ UNCHANGED <<infCall, infActive, infAnswers, infHandler>>

InferenceNext ==
    \/ \E c \in Callers : DoInference(c) \/ InferenceCancelled(c)
    \/ ServeRequest \/ RequestServed \/ HandleAnswer \/ InferenceClose \/ InferenceExits

\* The loops run, and a runner ends.
InferenceFairness ==
    WF_infVars(ServeRequest) /\ WF_infVars(RequestServed) /\ WF_infVars(HandleAnswer)

InferenceSpec == InferenceInit /\ [][InferenceNext]_infVars /\ InferenceFairness

\* What cannot last: a call is answered, whatever calls before it were cancelled, unless the
\* process exits (which no future learns) or a call was cancelled in its send.
InferencePending == infProc # "exited" /\ \E c \in Callers : infCall[c] = "waiting"

\* How a job ends, between its executor and its process, and what its process logs on the way (ipc/).
JobsEndWell ==
    /\ JobLinkTypeOK /\ InferenceTypeOK /\ CallbacksRunBeforeExit /\ SuccessIsEarned
    /\ LogTypeOK /\ LogsInOrder /\ LogsAreSent

===============================================================================
