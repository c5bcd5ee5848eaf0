------------------------------ MODULE ProcPool ------------------------------
(***************************************************************************)
(* The pool of job processes of a worker: ipc/proc_pool.py, with what it   *)
(* uses of a process (ipc/supervised_proc.py, ipc/job_proc_executor.py)    *)
(* and the drain() of the worker above it (worker.py).                     *)
(*                                                                         *)
(* All of it runs on the worker's asyncio loop: a step is the code between *)
(* two awaits.  The processes run by themselves: what one does is exit,    *)
(* because its job is over, because it was told to, or by a crash.         *)
(***************************************************************************)
EXTENDS Naturals, FiniteSets, SequencesExt

CONSTANTS
    Procs,          \* the processes that can be spawned (a bound)
    Jobs,           \* the jobs the worker is assigned
    None,
    NumIdle,        \* num_idle_processes
    Targets,        \* what the load task sets target_idle_processes to
    MaxInit,        \* MAX_CONCURRENT_INITIALIZATIONS
    MaxFailures,    \* how many initialisations fail or idle processes crash (a bound)
    Calls           \* what happens: a subset of AllCalls

AllCalls == {"crash", "drain", "aclose"}

ASSUME ProcPoolAssumption ==
    /\ None \notin Procs \cup Jobs /\ IsFiniteSet(Procs)
    /\ NumIdle \in Nat /\ Targets \subseteq Nat
    /\ MaxInit \in Nat \ {0} /\ MaxFailures \in Nat
    /\ Calls \subseteq AllCalls

VARIABLES
    executors,      \* _executors, a list
    spawn_tasks,    \* _spawn_tasks: the process of each task in the set
    task,           \* where the spawn task of each process is
    proc,           \* the process: none, up, stopping (told or killed), dead
    monitor,        \* its monitor task: none, joining, done
    warmed,         \* _warmed_proc_queue
    target,         \* _target_idle_processes
    running,        \* the running_job of each process
    job,            \* launch_job of each job: idle, waiting, running, lost
    main,           \* _main_task: loop, close, close_spawn, close_monitor, ended
    closed,         \* _closed
    awaited,        \* the processes the closing main task waits for
    drain,          \* Worker.drain: idle, or joins a process, or done
    drain_at,       \* the position of its iteration over the list
    drainees,       \* history: the processes with a running job when drain() was called
    failures,       \* how many initialisations failed or idle processes crashed
    ready           \* history: the processes whose initialize() returned

vars == <<executors, spawn_tasks, task, proc, monitor, warmed, target, running, job, main, closed,
          awaited, drain, drain_at, drainees, failures, ready>>

SpawnStages == {"none", "created", "sem", "starting", "init", "ended", "gone"}

TypeOK ==
    /\ executors \in Seq(Procs) /\ warmed \in Seq(Procs)
    /\ spawn_tasks \subseteq Procs
    /\ task \in [Procs -> SpawnStages]
    /\ proc \in [Procs -> {"none", "up", "stopping", "dead"}]
    /\ monitor \in [Procs -> {"none", "joining", "done"}]
    /\ target \in Nat
    /\ running \in [Procs -> Jobs \cup {None}]
    /\ job \in [Jobs -> {"idle", "waiting", "running", "lost"}]
    /\ main \in {"loop", "close", "close_spawn", "close_monitor", "ended"}
    /\ closed \in BOOLEAN
    /\ awaited \subseteq Procs
    /\ drain \in Procs \cup {"idle", "done"} /\ drain_at \in Nat /\ drainees \subseteq Procs
    /\ failures \in 0..MaxFailures /\ ready \subseteq Procs

\* start() has been called: the main task is about to fill the pool.
Init ==
    /\ executors = <<>> /\ spawn_tasks = {} /\ warmed = <<>>
    /\ task = [p \in Procs |-> "none"]
    /\ proc = [p \in Procs |-> "none"]
    /\ monitor = [p \in Procs |-> "none"]
    /\ target = NumIdle
    /\ running = [p \in Procs |-> None]
    /\ job = [j \in Jobs |-> "idle"]
    /\ main = "loop" /\ closed = FALSE /\ awaited = {}
    /\ drain = "idle" /\ drain_at = 0 /\ drainees = {}
    /\ failures = 0 /\ ready = {}

----------------------------------------------------------------------------
(* Spawning *)

drainVars == <<drain, drain_at, drainees>>

Unborn == {p \in Procs : task[p] = "none"}

\* n new processes (which names they get does not matter).
Fresh(n) == CHOOSE S \in SUBSET Unborn : Cardinality(S) = n

\* create_task(_proc_spawn_task()), once for each process of S.
Spawn(S) ==
    /\ task' = [p \in Procs |-> IF p \in S THEN "created" ELSE task[p]]
    /\ spawn_tasks' = spawn_tasks \cup S

\* Mutant: the spawn tasks under way are not counted.
MissingIgnoresSpawning == LET wanted == IF target < NumIdle THEN target ELSE NumIdle
                          IN  IF wanted > Len(warmed) THEN wanted - Len(warmed) ELSE 0

\* How many processes the main task finds missing.
Missing ==
    LET wanted == IF target < NumIdle THEN target ELSE NumIdle
        pending == Len(warmed) + Cardinality(spawn_tasks)
    IN  IF wanted > pending THEN wanted - pending ELSE 0

\* A turn of the loop of _main_task, every 0.1 s (as far as the bound Procs goes).
MainTick ==
    /\ main = "loop" /\ ~closed
    /\ Missing > 0 /\ Unborn # {}
    /\ Spawn(Fresh(Min({Missing, Cardinality(Unborn)})))
    /\ UNCHANGED <<executors, proc, monitor, warmed, target, running, job, main, closed, awaited,
                   drainVars, failures, ready>>

\* Mutant: a spawn task does not look whether the pool was closed while it waited.
EnterIgnoresClosed(p, list) ==
    /\ executors' = list
    /\ task' = [task EXCEPT ![p] = "starting"]

\* The semaphore is acquired: a closed pool starts nothing.
Enter(p, list) ==
    IF closed
    THEN /\ executors' = RemoveFirst(list, p)
         /\ task' = [task EXCEPT ![p] = "ended"]
    ELSE /\ executors' = list
         /\ task' = [task EXCEPT ![p] = "starting"]

SemFree == Cardinality({p \in Procs : task[p] \in {"starting", "init"}}) < MaxInit

\* _proc_spawn_task up to its first await.
SpawnTaskBegins(p) ==
    /\ task[p] = "created"
    /\ IF SemFree
       THEN Enter(p, Append(executors, p))
       ELSE /\ executors' = Append(executors, p)
            /\ task' = [task EXCEPT ![p] = "sem"]
    /\ UNCHANGED <<spawn_tasks, proc, monitor, warmed, target, running, job, main, closed,
                   awaited, drainVars, failures, ready>>

SemAcquired(p) ==
    /\ task[p] = "sem" /\ SemFree
    /\ Enter(p, executors)
    /\ UNCHANGED <<spawn_tasks, proc, monitor, warmed, target, running, job, main, closed,
                   awaited, drainVars, failures, ready>>

\* proc.start() returns: from now on the process is supervised.
ProcStarted(p) ==
    /\ task[p] = "starting"
    /\ proc' = [proc EXCEPT ![p] = "up"]
    /\ task' = [task EXCEPT ![p] = "init"]
    /\ UNCHANGED <<executors, spawn_tasks, monitor, warmed, target, running, job, main, closed,
                   awaited, drainVars, failures, ready>>

SpawnTaskEnds(p) ==
    /\ task[p] = "init"
    /\ task' = [task EXCEPT ![p] = "ended"]
    /\ monitor' = [monitor EXCEPT ![p] = "joining"]
    /\ UNCHANGED <<executors, spawn_tasks, target, running, job, main, closed, awaited,
                   drainVars>>

\* initialize() returns: the process is ready for a job.
Initialized(p) ==
    /\ SpawnTaskEnds(p)
    /\ warmed' = Append(warmed, p)
    /\ ready' = ready \cup {p}
    /\ UNCHANGED <<proc, failures>>

\* Mutant: a process that failed to initialise is offered to the jobs.
InitializeFailsQueued(p) ==
    /\ proc[p] = "up" => failures < MaxFailures
    /\ SpawnTaskEnds(p)
    /\ warmed' = Append(warmed, p)
    /\ proc' = [proc EXCEPT ![p] = IF @ = "up" THEN "stopping" ELSE @]
    /\ failures' = failures + 1
    /\ UNCHANGED ready

\* Mutant: a process that failed to initialise leaves the list before it has exited.
InitializeFailsUnlisted(p) ==
    /\ task[p] = "init"
    /\ task' = [task EXCEPT ![p] = "ended"]
    /\ monitor' = [monitor EXCEPT ![p] = "done"]
    /\ executors' = RemoveFirst(executors, p)
    /\ proc' = [proc EXCEPT ![p] = IF @ = "up" THEN "stopping" ELSE @]
    /\ UNCHANGED <<spawn_tasks, warmed, target, running, job, main, closed, awaited, drainVars,
                   failures, ready>>

\* initialize() raises: an error of prewarm_fnc (the process exits), a timeout (it is killed),
\* or the process is gone already.
InitializeFails(p) ==
    /\ proc[p] = "up" => failures < MaxFailures
    /\ SpawnTaskEnds(p)
    /\ proc' = [proc EXCEPT ![p] = IF @ = "up" THEN "stopping" ELSE @]
    /\ failures' = IF proc[p] = "up" THEN failures + 1 ELSE failures
    /\ UNCHANGED <<warmed, ready>>

\* Mutant: the done callback of the spawn task is missing.
SpawnTaskStays(p) ==
    /\ task[p] = "ended"
    /\ task' = [task EXCEPT ![p] = "gone"]
    /\ UNCHANGED <<executors, spawn_tasks, proc, monitor, warmed, target, running, job, main,
                   closed, awaited, drainVars, failures, ready>>

\* The done callback of the spawn task.
SpawnTaskDiscarded(p) ==
    /\ task[p] = "ended"
    /\ task' = [task EXCEPT ![p] = "gone"]
    /\ spawn_tasks' = spawn_tasks \ {p}
    /\ UNCHANGED <<executors, proc, monitor, warmed, target, running, job, main, closed,
                   awaited, drainVars, failures, ready>>

\* The load task of the worker, which is cancelled before the pool is closed.
SetTarget ==
    /\ ~closed
    /\ \E n \in Targets \ {target} : target' = n
    /\ UNCHANGED <<executors, spawn_tasks, task, proc, monitor, warmed, running, job, main,
                   closed, awaited, drainVars, failures, ready>>

----------------------------------------------------------------------------
(* Launching *)

\* Mutant: the process stays in the queue.
TakeWarmedAgain(j) ==
    LET p == Head(warmed)
    IN  /\ UNCHANGED warmed
        /\ running' = [running EXCEPT ![p] = j]
        /\ job' = [job EXCEPT ![j] = IF proc[p] = "up" THEN "running" ELSE "lost"]

\* Mutant: a launch that fails leaves no status.
TakeWarmedForgets(j) ==
    LET p == Head(warmed)
    IN  /\ warmed' = Tail(warmed)
        /\ running' = [running EXCEPT ![p] = j]
        /\ job' = [job EXCEPT ![j] = IF proc[p] = "up" THEN "running" ELSE None]

\* Job j gets the first process of the queue, which may have died since.
TakeWarmed(j) ==
    LET p == Head(warmed)
    IN  /\ warmed' = Tail(warmed)
        /\ running' = [running EXCEPT ![p] = j]
        /\ job' = [job EXCEPT ![j] = IF proc[p] = "up" THEN "running" ELSE "lost"]

\* The jobs come in any order: in one, as they do not differ.
NextJob == CHOOSE j \in Jobs : job[j] = "idle"

\* launch_job: spawns a process when none is ready or on its way.
LaunchJob(j) ==
    /\ job[j] = "idle" /\ j = NextJob
    /\ IF warmed # <<>>
       THEN TakeWarmed(j) /\ UNCHANGED <<task, spawn_tasks>>
       ELSE /\ job' = [job EXCEPT ![j] = "waiting"]
            /\ IF spawn_tasks = {}
               THEN Unborn # {} /\ Spawn(Fresh(1))
               ELSE UNCHANGED <<task, spawn_tasks>>
            /\ UNCHANGED <<warmed, running>>
    /\ UNCHANGED <<executors, proc, monitor, target, main, closed, awaited, drainVars, failures, ready>>

\* A job that waits in queue.get() is woken.
LaunchResumes(j) ==
    /\ job[j] = "waiting" /\ warmed # <<>>
    /\ TakeWarmed(j)
    /\ UNCHANGED <<executors, spawn_tasks, task, proc, monitor, target, main, closed, awaited,
                   drainVars, failures, ready>>

----------------------------------------------------------------------------
(* The processes *)

\* The process exits: its job is over, it was told to, or it was killed.
ProcExits(p) ==
    /\ proc[p] = "stopping" \/ (proc[p] = "up" /\ running[p] # None)
    /\ proc' = [proc EXCEPT ![p] = "dead"]
    /\ UNCHANGED <<executors, spawn_tasks, task, monitor, warmed, target, running, job, main,
                   closed, awaited, drainVars, failures, ready>>

\* A process crashes while it has no job (in a closed pool it is about to exit anyway).
Crash(p) ==
    /\ "crash" \in Calls /\ ~closed
    /\ proc[p] = "up" /\ running[p] = None
    /\ failures < MaxFailures
    /\ proc' = [proc EXCEPT ![p] = "dead"]
    /\ failures' = failures + 1
    /\ UNCHANGED <<executors, spawn_tasks, task, monitor, warmed, target, running, job, main,
                   closed, awaited, drainVars, ready>>

\* The supervision of p is over (it begins by waiting for the initialisation).
Joined(p) == proc[p] = "dead" /\ task[p] # "init"

\* _monitor_process_task: the process leaves the list.
MonitorEnds(p) ==
    /\ monitor[p] = "joining" /\ Joined(p)
    /\ monitor' = [monitor EXCEPT ![p] = "done"]
    /\ executors' = RemoveFirst(executors, p)
    /\ UNCHANGED <<spawn_tasks, task, proc, warmed, target, running, job, main, closed, awaited,
                   drainVars, failures, ready>>

----------------------------------------------------------------------------
(* Worker.drain: joins the processes that have a job, while iterating over the live list *)

\* The iteration goes on from position i.
DrainFrom(i) ==
    LET busy == {k \in i..Len(executors) : running[executors[k]] # None}
    IN  IF busy = {}
        THEN drain' = "done" /\ drain_at' = 0
        ELSE \E k \in busy : /\ \A n \in busy : k <= n
                             /\ drain' = executors[k]
                             /\ drain_at' = k

\* (Without a job to wait for, drain() returns at once.)
Drain ==
    /\ "drain" \in Calls
    /\ drain = "idle" /\ ~closed
    /\ drainees' = {p \in ToSet(executors) : running[p] # None}
    /\ drainees' # {}
    /\ DrainFrom(1)
    /\ UNCHANGED <<executors, spawn_tasks, task, proc, monitor, warmed, target, running, job,
                   main, closed, awaited, failures, ready>>

\* proc.join() returns; the monitor of the process joined it before.
DrainResumes ==
    /\ drain \in Procs
    /\ monitor[drain] = "done"
    /\ DrainFrom(drain_at + 1)
    /\ UNCHANGED <<executors, spawn_tasks, task, proc, monitor, warmed, target, running, job,
                   main, closed, awaited, drainees, failures, ready>>

----------------------------------------------------------------------------
(* Closing *)

Starting == {p \in Procs : task[p] = "starting"}

AClose ==
    /\ "aclose" \in Calls
    /\ ~closed /\ drain \notin Procs
    /\ closed' = TRUE /\ drainees' = {}
    /\ UNCHANGED <<executors, spawn_tasks, task, proc, monitor, warmed, target, running, job,
                   main, awaited, drain, drain_at, failures, ready>>

\* Mutant: a process that has a job is not closed.
CloseIdleOnly ==
    /\ main = "loop" /\ closed
    /\ main' = "close"
    /\ awaited' = {p \in ToSet(executors) : proc[p] # "none" /\ running[p] = None}
    /\ proc' = [p \in Procs |-> IF p \in awaited' /\ proc[p] = "up" THEN "stopping" ELSE proc[p]]
    /\ UNCHANGED <<executors, spawn_tasks, task, monitor, warmed, target, running, job, closed,
                   drainVars, failures, ready>>

\* The main task is cancelled: aclose() of every process, which does nothing to one that is
\* not started yet.
CloseProcesses ==
    /\ main = "loop" /\ closed
    /\ main' = "close"
    /\ awaited' = {p \in ToSet(executors) : proc[p] # "none"}
    /\ proc' = [p \in Procs |-> IF p \in awaited' /\ proc[p] = "up" THEN "stopping" ELSE proc[p]]
    /\ UNCHANGED <<executors, spawn_tasks, task, monitor, warmed, target, running, job, closed,
                   drainVars, failures, ready>>

\* Then it gathers the spawn tasks, and the monitor tasks.
GatherSpawnTasks ==
    /\ main = "close" /\ \A p \in awaited : Joined(p)
    /\ main' = "close_spawn"
    /\ awaited' = spawn_tasks
    /\ UNCHANGED <<executors, spawn_tasks, task, proc, monitor, warmed, target, running, job,
                   closed, drainVars, failures, ready>>

GatherMonitorTasks ==
    /\ main = "close_spawn" /\ \A p \in awaited : task[p] \in {"ended", "gone"}
    /\ main' = "close_monitor"
    /\ awaited' = {p \in Procs : monitor[p] = "joining"}
    /\ UNCHANGED <<executors, spawn_tasks, task, proc, monitor, warmed, target, running, job,
                   closed, drainVars, failures, ready>>

MainEnds ==
    /\ main = "close_monitor" /\ \A p \in awaited : monitor[p] = "done"
    /\ main' = "ended" /\ awaited' = {}
    /\ UNCHANGED <<executors, spawn_tasks, task, proc, monitor, warmed, target, running, job,
                   closed, drainVars, failures, ready>>

Closing == CloseProcesses \/ GatherSpawnTasks \/ GatherMonitorTasks \/ MainEnds

SpawnStep(p) ==
    \/ SpawnTaskBegins(p) \/ SemAcquired(p) \/ ProcStarted(p)
    \/ Initialized(p) \/ InitializeFails(p) \/ SpawnTaskDiscarded(p)

Next ==
    \/ MainTick \/ SetTarget \/ AClose \/ Closing \/ Drain \/ DrainResumes
    \/ \E p \in Procs : SpawnStep(p) \/ ProcExits(p) \/ Crash(p) \/ MonitorEnds(p)
    \/ \E j \in Jobs : LaunchJob(j) \/ LaunchResumes(j)

Spec == Init /\ [][Next]_vars

(***************************************************************************)
(* The loop runs every ready coroutine, an initialisation ends within its  *)
(* timeout, a process that was told to stop does or is killed.  A job need *)
(* not end, nor a process crash, nor anybody launch, drain or close.       *)
(***************************************************************************)
Fairness ==
    /\ WF_vars(MainTick) /\ WF_vars(Closing) /\ WF_vars(DrainResumes)
    /\ \A p \in Procs : /\ WF_vars(SpawnStep(p)) /\ WF_vars(MonitorEnds(p))
                        /\ WF_vars(proc[p] = "stopping" /\ ProcExits(p))
    /\ \A j \in Jobs : WF_vars(LaunchResumes(j))

FairSpec == Spec /\ Fairness

----------------------------------------------------------------------------
(* Safety *)

Alive == {p \in Procs : proc[p] \in {"up", "stopping"}}

\* A process runs one job: one that was given a job is not offered to another, and none is
\* offered twice.
OneJobPerProcess ==
    /\ IsInjective(warmed)
    /\ \A p \in ToSet(warmed) : running[p] = None
    /\ \A p, q \in Procs : running[p] = running[q] /\ running[p] # None => p = q

\* The processes that are ready for a job, or about to be.
OnTheWay == ToSet(warmed) \cup {p \in spawn_tasks : task[p] # "ended"}

\* The pool is never over-provisioned, whatever launches and failures do to the counts: at
\* most num_idle_processes (or the one a launch spawns) are ready or on their way.
NotTooManyWarm == Cardinality(OnTheWay) <= IF NumIdle = 0 THEN 1 ELSE NumIdle

\* A process that is alive is in the list, so that drain(), aclose() and get_by_job_id() find it.
AliveIsListed == Alive \subseteq ToSet(executors)

\* When aclose() returns no process is left, nor is one still to come.
ClosedLeavesNoProcess == main = "ended" => Alive = {} /\ Starting = {}

\* A job is never launched on a process whose initialisation failed or timed out, whatever became
\* of the process meanwhile; the one a job is lost on came up and crashed in the queue, or was
\* stopped by aclose().
NoJobLost ==
    \A j \in Jobs, p \in Procs :
        running[p] = j => p \in ready /\ (job[j] = "lost" => failures > 0 \/ closed)

\* drain() waits "for jobs to finish before shutting down".
DrainWaitsForJobs == drain = "done" => \A p \in drainees : proc[p] = "dead"

\* No process is forgotten: those that live are listed, and when aclose() returned there is none.
NoProcessForgotten == TypeOK /\ AliveIsListed /\ ClosedLeavesNoProcess

\* Each job has a process of its own that came up, and the pool is not over-provisioned.
JobsHaveTheirProcess == OneJobPerProcess /\ NoJobLost /\ NotTooManyWarm

(* The inductive invariant *)

\* How far the spawn task of a process is tells whether the process, and its monitor, are there.
SpawnInOrder ==
    \A p \in Procs :
        /\ p \in spawn_tasks <=> task[p] \in {"created", "sem", "starting", "init", "ended"}
        /\ task[p] \in {"none", "created", "sem", "starting"} => proc[p] = "none"
        /\ task[p] = "init" => proc[p] # "none"
        /\ monitor[p] = "none" <=> proc[p] = "none" \/ task[p] = "init"
        /\ monitor[p] = "done" => proc[p] = "dead"

\* A process is in the list from the wait for the semaphore until it is dead.
Listed == \A p \in Procs : task[p] \in {"sem", "starting"} \/ p \in Alive => p \in ToSet(executors)

\* Something happened to the processes: one failed, or the pool is closed.
Trouble == failures > 0 \/ closed

\* A process comes up, waits for its job in the queue, and runs it: one after the other.
WarmInOrder ==
    /\ \A p \in Procs :
        /\ p \in ToSet(warmed) \/ running[p] # None => monitor[p] # "none" /\ p \in ready
        /\ (p \in ToSet(warmed) \/ task[p] = "init") /\ proc[p] # "up" => Trouble
    /\ \A p \in Procs, j \in Jobs :
        running[p] = j => job[j] = "running" \/ (job[j] = "lost" /\ Trouble)

\* The closing main task has waited for whatever could still start.
ClosesInOrder ==
    /\ main # "loop" => closed
    /\ main = "close_spawn" => {p \in Procs : task[p] \in {"starting", "init"}} \subseteq awaited
    /\ main \in {"close_monitor", "ended"} => \A p \in Procs : task[p] \notin {"starting", "init"}
    /\ main = "close_monitor" => Alive \subseteq awaited
    /\ main = "ended" => Alive = {}

Inv ==
    /\ TypeOK /\ SpawnInOrder /\ Listed /\ OneJobPerProcess /\ WarmInOrder /\ ClosesInOrder
    /\ NotTooManyWarm

(* Liveness *)

\* A launched job gets a process, in spite of crashes and failing initialisations, unless the pool
\* is closed, or none is to be idle (the process the launch spawned may fail, and no other follows:
\* proc_pool.py:95).
JobGetsProcess ==
    []<>(target # 0 /\ ~closed => \A j \in Jobs : job[j] # "waiting")

\* aclose() returns, unless a process is in proc.start() until the main task closes the list:
\* the main task then waits for a process it has not told to stop.
CloseReturns == closed /\ main = "loop" /\ Starting = {} ~> main = "ended"

=============================================================================
