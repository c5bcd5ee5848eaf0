------------------------------- MODULE Worker -------------------------------
(***************************************************************************)
(* The worker and its connection to the server: registration and retries,  *)
(* the offers of jobs and their assignments, the status updates, and       *)
(* aclose() (worker.py).  The pool of processes is ProcPool's; here a      *)
(* launch returns, or never does once the pool is closed.  The server is   *)
(* the environment: what it sends and what it has heard.                   *)
(***************************************************************************)
EXTENDS Naturals, Sequences, FiniteSets, SequencesExt

CONSTANTS
    Jobs,
    Offers,         \* the availability requests the server sends (a bound)
    NoJob,
    MaxRetry,       \* max_retry
    ChanSize,       \* the capacity of _msg_chan (128)
    MaxLosses       \* how often the connection fails (a bound)

ASSUME WorkerAssumption ==
    /\ NoJob \notin Jobs /\ 0 \notin Offers /\ IsFiniteSet(Offers)
    /\ MaxRetry \in Nat /\ ChanSize \in Nat \ {0} /\ MaxLosses \in Nat

VARIABLES
    wclosed,        \* _closed
    wdraining,      \* _draining
    connecting,     \* _connecting
    conn,           \* _connection_task: none, idle, dialing, registering, up, ended, failed
    retry,          \* retry_count
    losses,         \* connections refused or lost so far
    failures,       \* history: those since the last registration
    msgChan,        \* _msg_chan
    blocked,        \* the messages whose senders wait in _msg_chan.send()
    fromServer,     \* what the server sent on the open connection
    offerJob,       \* the job of each offer
    request,        \* the task of each offer: none, asked, queueing, waiting, launching, launched, over
    pendingAssign,  \* _pending_assignments: the offer whose future each job has, 0 if none
    assigned,       \* the offers whose future is set
    assignments,    \* history: how many assignments of each job were received
    jobProc,        \* the process of each job: none, running, exited
    updates,        \* the job updates whose task has not run yet
    heard,          \* the last status of each job the server has heard
    heardFull,      \* the server has heard that the worker takes no more jobs
    wclose          \* aclose(): no, pool, gather, over

workerVars == <<wclosed, wdraining, connecting, conn, retry, losses, failures, msgChan, blocked, fromServer,
                offerJob, request, pendingAssign, assigned, assignments, jobProc, updates, heard,
                heardFull, wclose>>
connVars == <<connecting, conn, retry, losses, failures>>
offerVars == <<offerJob, request, pendingAssign, assigned, assignments>>
workerJobVars == <<jobProc, updates>>
serverVars == <<heard, heardFull>>
chanVars == <<msgChan, blocked>>

WorkerTypeOK ==
    /\ {wclosed, wdraining, connecting, heardFull} \subseteq BOOLEAN
    /\ conn \in {"none", "idle", "dialing", "registering", "up", "ended", "failed"}
    /\ retry \in 0..MaxRetry
    /\ Len(msgChan) <= ChanSize
    /\ offerJob \in [Offers -> Jobs \cup {NoJob}]
    /\ request \in [Offers -> {"none", "asked", "queueing", "waiting", "launching", "launched",
                               "over"}]
    /\ pendingAssign \in [Jobs -> Offers \cup {0}]
    /\ assigned \subseteq Offers
    /\ jobProc \in [Jobs -> {"none", "running", "exited"}]
    /\ heard \in [Jobs -> {"none", "running", "done"}]
    /\ wclose \in {"no", "pool", "gather", "over"}

WorkerInit ==
    /\ wclosed = TRUE /\ wdraining = FALSE /\ connecting = FALSE
    /\ conn = "none" /\ retry = 0 /\ losses = 0 /\ failures = 0
    /\ msgChan = <<>> /\ blocked = {} /\ fromServer = <<>>
    /\ offerJob = [o \in Offers |-> NoJob]
    /\ request = [o \in Offers |-> "none"]
    /\ pendingAssign = [j \in Jobs |-> 0] /\ assigned = {}
    /\ assignments = [j \in Jobs |-> 0]
    /\ jobProc = [j \in Jobs |-> "none"] /\ updates = {}
    /\ heard = [j \in Jobs |-> "none"] /\ heardFull = FALSE
    /\ wclose = "no"

----------------------------------------------------------------------------
(* _connection_task *)

\* The except clause: give up, or wait and try again.
Retry ==
    /\ losses' = losses + 1 /\ failures' = failures + 1
    /\ IF retry >= MaxRetry
       THEN conn' = "failed" /\ UNCHANGED retry
       ELSE conn' = "idle" /\ retry' = retry + 1

\* run(): the worker counts as closed until then.
Run ==
    /\ wclosed /\ conn = "none"
    /\ wclosed' = FALSE /\ conn' = "idle"
    /\ UNCHANGED <<wdraining, connecting, retry, losses, failures, chanVars, fromServer, offerVars,
                   workerJobVars, serverVars, wclose>>

Dial ==
    /\ conn = "idle" /\ ~wclosed
    /\ conn' = "dialing" /\ connecting' = TRUE
    /\ UNCHANGED <<wclosed, wdraining, retry, losses, failures, chanVars, fromServer, offerVars, workerJobVars,
                   serverVars, wclose>>

DialFails ==
    /\ conn = "dialing" /\ losses < MaxLosses
    /\ Retry
    /\ UNCHANGED <<wclosed, wdraining, connecting, chanVars, fromServer, offerVars, workerJobVars,
                   serverVars, wclose>>

\* The socket is open: the retries start again from 0, and the worker asks to be registered.
Dialed ==
    /\ conn = "dialing"
    /\ conn' = "registering" /\ retry' = 0
    /\ UNCHANGED <<wclosed, wdraining, connecting, losses, failures, chanVars, fromServer, offerVars, workerJobVars,
                   serverVars, wclose>>

RegisterFails ==
    /\ conn = "registering" /\ losses < MaxLosses
    /\ Retry
    /\ UNCHANGED <<wclosed, wdraining, connecting, chanVars, fromServer, offerVars, workerJobVars,
                   serverVars, wclose>>

\* _handle_register, then _run_ws; the server starts from what this worker tells it now.
Registered ==
    /\ conn = "registering"
    /\ conn' = "up" /\ connecting' = FALSE /\ failures' = 0
    /\ fromServer' = <<>> /\ heardFull' = FALSE
    /\ UNCHANGED <<wclosed, wdraining, retry, losses, chanVars, offerVars, workerJobVars, heard, wclose>>

\* The connection is lost, with what was sent on it and, perhaps, the message the send task
\* had taken from the channel.
ConnectionLost ==
    /\ conn = "up" /\ losses < MaxLosses
    /\ Retry
    /\ fromServer' = <<>>
    /\ msgChan' \in {msgChan} \cup (IF msgChan = <<>> THEN {} ELSE {Tail(msgChan)})
    /\ UNCHANGED <<wclosed, wdraining, connecting, blocked, offerVars, workerJobVars, serverVars, wclose>>

----------------------------------------------------------------------------
(* _msg_chan *)

\* A status of the worker is dropped while it connects.
Dropped(m) == connecting /\ m.type = "worker"

\* Mutant: nobody waits for room in the channel.
QueueUnbounded(m) ==
    /\ msgChan' = IF Dropped(m) THEN msgChan ELSE Append(msgChan, m)
    /\ UNCHANGED blocked

\* _queue_msg: a sender waits while the channel is full.
Queue(m) ==
    IF Dropped(m) THEN UNCHANGED chanVars
    ELSE IF Len(msgChan) < ChanSize
    THEN msgChan' = Append(msgChan, m) /\ UNCHANGED blocked
    ELSE blocked' = blocked \cup {m} /\ UNCHANGED msgChan

WorkerStatus == [type |-> "worker", of |-> wdraining]
Answer(o, yes) == [type |-> "availability", of |-> <<o, yes>>]

\* The future of an accepted offer is made once its answer is in the channel: it replaces the
\* one an earlier offer of the job may still wait for.
AwaitAssignment(o) ==
    /\ request' = [request EXCEPT ![o] = "waiting"]
    /\ pendingAssign' = [pendingAssign EXCEPT ![offerJob[o]] = o]

\* A sender finds room: those who wait may be overtaken by one another and by newcomers.
SenderResumes ==
    /\ Len(msgChan) < ChanSize
    /\ \E m \in blocked :
          /\ msgChan' = Append(msgChan, m) /\ blocked' = blocked \ {m}
          /\ IF m.type # "availability" THEN UNCHANGED <<request, pendingAssign>>
             ELSE IF m.of[2] THEN AwaitAssignment(m.of[1])
             ELSE /\ request' = [request EXCEPT ![m.of[1]] = "over"]
                  /\ UNCHANGED pendingAssign
    /\ UNCHANGED <<wclosed, wdraining, connVars, fromServer, offerJob, assigned, assignments, workerJobVars,
                   serverVars, wclose>>

\* The send task of _run_ws, and what the server makes of the message.
SendMessage ==
    /\ conn = "up" /\ msgChan # <<>>
    /\ msgChan' = Tail(msgChan)
    /\ LET m == Head(msgChan)
       IN  /\ heard' = IF m.type = "job" THEN [heard EXCEPT ![m.of[1]] = m.of[2]] ELSE heard
           /\ heardFull' = IF m.type = "worker" THEN m.of ELSE heardFull
           /\ \/ /\ m.type = "availability" /\ m.of[2]
                 /\ fromServer' = Append(fromServer, [type |-> "assignment",
                                                      of |-> offerJob[m.of[1]]])
              \/ UNCHANGED fromServer
    /\ UNCHANGED <<wclosed, wdraining, connVars, blocked, offerVars, workerJobVars, wclose>>

\* Mutant: a draining worker does not say so again on a new connection.
StatusTickOnce ==
    /\ conn = "up" /\ ~wdraining
    /\ ~ \E i \in DOMAIN msgChan : msgChan[i].type = "worker"
    /\ Len(msgChan) < ChanSize
    /\ Queue(WorkerStatus)
    /\ UNCHANGED <<wclosed, wdraining, connVars, fromServer, offerVars, workerJobVars, serverVars, wclose>>

\* _load_task of _run_ws: the status, at once and then every 2.5 s (one at a time, a bound).
StatusTick ==
    /\ conn = "up"
    /\ ~ \E i \in DOMAIN msgChan : msgChan[i].type = "worker"
    /\ Len(msgChan) < ChanSize
    /\ Queue(WorkerStatus)
    /\ UNCHANGED <<wclosed, wdraining, connVars, fromServer, offerVars, workerJobVars, serverVars, wclose>>

\* drain() up to its wait for the jobs, which ProcPool models.
StartDrain ==
    /\ ~wdraining /\ ~wclosed
    /\ wdraining' = TRUE
    /\ Queue([type |-> "worker", of |-> TRUE])
    /\ UNCHANGED <<wclosed, connVars, fromServer, offerVars, workerJobVars, serverVars, wclose>>

----------------------------------------------------------------------------
(* Offers and assignments *)

\* The server offers a job (again, maybe) to a worker it does not know to be full.
ServerOffers(o) ==
    /\ conn = "up" /\ ~heardFull /\ offerJob[o] = NoJob
    /\ \E j \in Jobs : /\ offerJob' = [offerJob EXCEPT ![o] = j]
                       /\ fromServer' = Append(fromServer, [type |-> "availability", of |-> o])
    /\ UNCHANGED <<wclosed, wdraining, connVars, chanVars, request, pendingAssign, assigned,
                   assignments, workerJobVars, serverVars, wclose>>

\* Mutant: an assignment sets the future of every offer of the job.
HandleAssignmentAll(j) ==
    /\ pendingAssign' = [pendingAssign EXCEPT ![j] = 0]
    /\ assigned' = assigned \cup {o \in Offers : offerJob[o] = j /\ request[o] = "waiting"}

\* _handle_assignment: sets the future of the job, unless that one timed out.
HandleAssignment(j) ==
    LET o == pendingAssign[j]
    IN  /\ pendingAssign' = [pendingAssign EXCEPT ![j] = 0]
        /\ assigned' = IF o # 0 /\ request[o] = "waiting" THEN assigned \cup {o} ELSE assigned

\* The receive task of _run_ws.  A termination asks the process of the job to exit.
Receive ==
    /\ conn = "up" /\ fromServer # <<>>
    /\ fromServer' = Tail(fromServer)
    /\ LET m == Head(fromServer)
       IN  IF m.type = "availability"
           THEN /\ request' = [request EXCEPT ![m.of] = "asked"]
                /\ UNCHANGED <<pendingAssign, assigned, assignments>>
           ELSE /\ HandleAssignment(m.of)
                /\ assignments' = [assignments EXCEPT ![m.of] = @ + 1]
                /\ UNCHANGED request
    /\ UNCHANGED <<wclosed, wdraining, connVars, chanVars, offerJob, workerJobVars, serverVars, wclose>>

\* request_fnc accepts or rejects (as a failing one does): the answer is queued.
AnswerOffer(o, yes) ==
    /\ request[o] = "asked"
    /\ Queue(Answer(o, yes))
    /\ IF Answer(o, yes) \in blocked'
       THEN request' = [request EXCEPT ![o] = "queueing"] /\ UNCHANGED pendingAssign
       ELSE IF yes THEN AwaitAssignment(o)
       ELSE request' = [request EXCEPT ![o] = "over"] /\ UNCHANGED pendingAssign
    /\ UNCHANGED <<wclosed, wdraining, connVars, fromServer, offerJob, assigned, assignments, workerJobVars,
                   serverVars, wclose>>

\* The wait for the assignment is over: launch_job() is called.
AssignmentComes(o) ==
    /\ request[o] = "waiting" /\ o \in assigned
    /\ request' = [request EXCEPT ![o] = "launching"]
    /\ UNCHANGED <<wclosed, wdraining, connVars, chanVars, fromServer, offerJob, pendingAssign,
                   assigned, assignments, workerJobVars, serverVars, wclose>>

\* Mutant: the wait for an assignment has no timeout.
AssignmentNeverTimesOut(o) == FALSE /\ UNCHANGED workerVars

\* ASSIGNMENT_TIMEOUT: the future is cancelled but stays in the table.
AssignmentTimesOut(o) ==
    /\ request[o] = "waiting" /\ o \notin assigned
    /\ request' = [request EXCEPT ![o] = "over"]
    /\ UNCHANGED <<wclosed, wdraining, connVars, chanVars, fromServer, offerJob, pendingAssign,
                   assigned, assignments, workerJobVars, serverVars, wclose>>

\* launch_job() returns: "process_job_launched" makes a task that reports the job.
JobLaunched(o) ==
    /\ request[o] = "launching" /\ wclose \in {"no", "pool"}
    /\ request' = [request EXCEPT ![o] = "launched"]
    /\ jobProc' = [jobProc EXCEPT ![offerJob[o]] = "running"]
    /\ updates' = updates \cup {offerJob[o]}
    /\ UNCHANGED <<wclosed, wdraining, connVars, chanVars, fromServer, offerJob, pendingAssign,
                   assigned, assignments, serverVars, wclose>>

\* launch_job() raises: the process it got is gone.
LaunchRaises(o) ==
    /\ request[o] = "launching"
    /\ request' = [request EXCEPT ![o] = "over"]
    /\ UNCHANGED <<wclosed, wdraining, connVars, chanVars, fromServer, offerJob, pendingAssign,
                   assigned, assignments, workerJobVars, serverVars, wclose>>

\* A process exits, by itself or terminated or closed: "process_closed" makes another task.
JobExits(j) ==
    /\ jobProc[j] = "running"
    /\ jobProc' = [jobProc EXCEPT ![j] = "exited"]
    /\ updates' = updates \cup {j}
    /\ UNCHANGED <<wclosed, wdraining, connVars, chanVars, fromServer, offerVars, serverVars, wclose>>

\* _update_job_status, with the status at the time the task runs.
UpdateJobStatus(j) ==
    /\ j \in updates
    /\ updates' = updates \ {j}
    /\ Queue([type |-> "job", of |-> <<j, IF jobProc[j] = "exited" THEN "done" ELSE "running">>])
    /\ UNCHANGED <<wclosed, wdraining, connVars, fromServer, offerVars, jobProc, serverVars, wclose>>

----------------------------------------------------------------------------
(* aclose() *)

\* The connection task is cancelled, then the pool closed.
WorkerClose ==
    /\ wclose = "no" /\ ~wclosed
    /\ wclosed' = TRUE /\ wclose' = "pool"
    /\ conn' = IF conn = "failed" THEN conn ELSE "ended"
    /\ fromServer' = <<>>
    /\ UNCHANGED <<wdraining, connecting, retry, losses, failures, chanVars, offerVars, workerJobVars, serverVars>>

\* ProcPool.aclose() returns: no process is left, and no launch will find one.
PoolClosed ==
    /\ wclose = "pool" /\ \A j \in Jobs : jobProc[j] # "running"
    /\ wclose' = "gather"
    /\ UNCHANGED <<wclosed, wdraining, connVars, chanVars, fromServer, offerVars, workerJobVars, serverVars>>

TasksLeft == {o \in Offers : request[o] \in {"asked", "queueing", "waiting", "launching"}}

\* Every task is gathered before the channel is closed.
TasksGathered ==
    /\ wclose = "gather" /\ TasksLeft = {} /\ updates = {}
    /\ \A m \in blocked : m.type = "worker"
    /\ wclose' = "over"
    /\ UNCHANGED <<wclosed, wdraining, connVars, chanVars, fromServer, offerVars, workerJobVars, serverVars>>

WorkerNext ==
    \/ Run \/ Dial \/ DialFails \/ Dialed \/ RegisterFails \/ Registered \/ ConnectionLost
    \/ SenderResumes \/ SendMessage \/ StatusTick \/ StartDrain \/ Receive
    \/ \E o \in Offers : \/ ServerOffers(o) \/ AnswerOffer(o, TRUE) \/ AnswerOffer(o, FALSE)
                         \/ AssignmentComes(o) \/ AssignmentTimesOut(o)
                         \/ JobLaunched(o) \/ LaunchRaises(o)
    \/ \E j \in Jobs : JobExits(j) \/ UpdateJobStatus(j)
    \/ WorkerClose \/ PoolClosed \/ TasksGathered

(***************************************************************************)
(* The loop runs what is ready and its timeouts fire; the server accepts   *)
(* connections and registrations in the end, as losses are bounded.  The   *)
(* offers, request_fnc, the end of the jobs and aclose() are up to others. *)
(***************************************************************************)
WorkerFairness ==
    /\ WF_workerVars(Dial) /\ WF_workerVars(Dialed) /\ WF_workerVars(Registered)
    /\ WF_workerVars(SenderResumes) /\ WF_workerVars(SendMessage)
    /\ WF_workerVars(StatusTick) /\ WF_workerVars(Receive)
    /\ WF_workerVars(PoolClosed) /\ WF_workerVars(TasksGathered)
    /\ \A o \in Offers : WF_workerVars(AssignmentComes(o)) /\ WF_workerVars(AssignmentTimesOut(o))
                         /\ WF_workerVars(JobLaunched(o))
    /\ \A j \in Jobs : WF_workerVars(UpdateJobStatus(j))
                       /\ WF_workerVars(wclose = "pool" /\ JobExits(j))

WorkerSpec == WorkerInit /\ [][WorkerNext]_workerVars /\ WorkerFairness

----------------------------------------------------------------------------
(* Properties *)

\* An assignment launches one job at most, however often the job was offered, answered late or
\* assigned again.
OneLaunchPerAssignment ==
    \A j \in Jobs :
        Cardinality({o \in Offers : offerJob[o] = j /\ request[o] \in {"launching", "launched"}})
            <= assignments[j]

\* The offers and the launches of the worker (worker.py), its states well formed.
LaunchesSafe == WorkerTypeOK /\ OneLaunchPerAssignment

(* The inductive invariant *)

\* What the worker and the server tell each other, of offers whose job is known.
KnownOffers == {o \in Offers : offerJob[o] # NoJob}
WorkerMessages ==
    [type : {"worker"}, of : BOOLEAN]
        \cup [type : {"availability"}, of : KnownOffers \X BOOLEAN]
        \cup [type : {"job"}, of : Jobs \X {"running", "done"}]
ServerMessages == [type : {"availability"}, of : KnownOffers] \cup [type : {"assignment"}, of : Jobs]

MessagesTypeOK ==
    /\ msgChan \in Seq(WorkerMessages) /\ blocked \subseteq WorkerMessages
    /\ fromServer \in Seq(ServerMessages)
    /\ updates \subseteq Jobs /\ assignments \in [Jobs -> Nat]

\* The future of a job is that of an offer of this job, and an offer keeps its job.
OffersKeepJobs ==
    /\ \A o \in Offers : request[o] # "none" \/ o \in assigned => o \in KnownOffers
    /\ \A j \in Jobs : pendingAssign[j] # 0 => offerJob[pendingAssign[j]] = j

\* Each assignment sets one future at most, and a launch has its future set.
Assigned(j) == {o \in assigned : offerJob[o] = j}
LaunchesAssigned ==
    /\ \A o \in Offers : request[o] \in {"launching", "launched"} => o \in assigned
    /\ \A j \in Jobs : Cardinality(Assigned(j)) <= assignments[j]

WorkerInv == WorkerTypeOK /\ MessagesTypeOK /\ OffersKeepJobs /\ LaunchesAssigned

\* What cannot last: a worker that drains is known to be full in the end, across lost
\* connections and the updates dropped while it reconnects, unless it gives up or closes; and
\* aclose() returns, unless a launch waits for a process when the pool closes, request_fnc has
\* not returned, or a sender waits on the full channel nobody reads any more.
WorkerPending ==
    \/ wdraining /\ ~heardFull /\ ~wclosed /\ conn # "failed"
    \/ wclose \in {"pool", "gather"} /\ blocked = {} /\ \A o \in TasksLeft : request[o] = "waiting"

=============================================================================
