------------------------------- MODULE Reload -------------------------------
(***************************************************************************)
(* The reload of a worker in development mode: the watch server replaces   *)
(* the worker process when a file changes, and hands the jobs of one on to *)
(* the next over a socket that both inherit, so that a message one worker  *)
(* did not read is read by the next.  (livekit.agents.cli)                 *)
(***************************************************************************)
EXTENDS Naturals, Sequences, FiniteSets

CONSTANTS ReloadJobs,               \* jobs, each begun once at most
          MaxFileChanges            \* changes that are noticed (a bound)

ASSUME ReloadAssumption == IsFiniteSet(ReloadJobs) /\ MaxFileChanges \in Nat

VARIABLES
    devWorker,      \* the process: [number; state: down, runs, closes; count: its reload_count; jobs: how often each runs;
                    \* todo: the jobs its client is about to launch; busy: it reloads; asks: it has to ask]
    toClient,       \* _pch to _cch: [kind: active, jobs; jobs; for: the worker it is meant for]
    toServer,       \* _cch to _pch: [kind: active, jobs, reloaded; jobs; count; from: a worker]
    activeJobs,     \* active_jobs of _read_ipc_task
    workerReloading, reloadCount,
    onReload,       \* the callback of watchfiles: idle, asks, waits, done
    jobsFuture,     \* _recv_jobs_fut is done
    fileChanges,    \* how many there were
    begun, over,    \* the jobs that the server assigned, and those that ended
    handedOver,     \* jobs of the last list that came in time
    stray           \* a worker read a message that was meant for another
watchVars == <<activeJobs, workerReloading, reloadCount, onReload, jobsFuture>>
reloadVars == <<devWorker, toClient, toServer, watchVars, fileChanges, begun, over, handedOver, stray>>

Workers == 0..MaxFileChanges
NoneRuns == [j \in ReloadJobs |-> 0]
Running(w) == {j \in ReloadJobs : w.jobs[j] > 0}
Ask(w) == [kind |-> "active", jobs |-> {}, for |-> w]
HandOver(jobs, w) == [kind |-> "jobs", jobs |-> jobs, for |-> w]

ReloadTypeOK ==
    /\ devWorker.state \in {"down", "runs", "closes"} /\ {devWorker.count, devWorker.number} \subseteq Workers
    /\ devWorker.jobs \in [ReloadJobs -> Nat] /\ devWorker.todo \subseteq ReloadJobs
    /\ \A k \in DOMAIN toClient : toClient[k].kind \in {"active", "jobs"} /\ toClient[k].for \in Workers
    /\ \A k \in DOMAIN toServer : toServer[k].kind \in {"active", "jobs", "reloaded"} /\ toServer[k].count \in Workers
    /\ reloadCount \in Workers /\ onReload \in {"idle", "asks", "waits", "done"}
    /\ UNION {activeJobs, begun, over, handedOver} \subseteq ReloadJobs /\ fileChanges \in Workers
    /\ {workerReloading, jobsFuture, stray} \subseteq BOOLEAN

ReloadInit ==
    /\ devWorker = [number |-> 0, state |-> "down", count |-> 0, jobs |-> NoneRuns, todo |-> {},
                     busy |-> FALSE, asks |-> TRUE]
    /\ toClient = <<>> /\ toServer = <<>> /\ activeJobs = {} /\ workerReloading = FALSE /\ reloadCount = 0
    /\ onReload = "idle" /\ jobsFuture = FALSE /\ fileChanges = 0
    /\ begun = {} /\ over = {} /\ handedOver = {} /\ stray = FALSE

----------------------------------------------------------------------------
(* The worker process and its WatchClient *)

Live == devWorker.state \in {"runs", "closes"}
ToServer(kind, jobs) ==
    toServer' = Append(toServer, [kind |-> kind, jobs |-> jobs, count |-> devWorker.count, from |-> devWorker.number])

\* run_worker(): the client asks for the jobs of the worker before.
WorkerBoots ==
    /\ devWorker.state = "down" /\ devWorker.asks
    /\ devWorker' = [devWorker EXCEPT !.state = "runs", !.asks = FALSE]
    /\ ToServer("jobs", {})
    /\ UNCHANGED <<toClient, watchVars, fileChanges, begun, over, handedOver, stray>>

\* The changed file cannot be run.
WorkerFailsToBoot ==
    /\ devWorker.state = "down" /\ devWorker.asks
    /\ devWorker' = [devWorker EXCEPT !.asks = FALSE]
    /\ UNCHANGED <<toClient, toServer, watchVars, fileChanges, begun, over, handedOver, stray>>

JobBegins(j) ==
    /\ devWorker.state = "runs" /\ j \notin begun
    /\ begun' = begun \cup {j} /\ devWorker' = [devWorker EXCEPT !.jobs[j] = 1]
    /\ UNCHANGED <<toClient, toServer, watchVars, fileChanges, over, handedOver, stray>>

JobOver(j) ==
    /\ Live /\ devWorker.jobs[j] > 0
    /\ over' = over \cup {j} /\ devWorker' = [devWorker EXCEPT !.jobs[j] = 0]
    /\ UNCHANGED <<toClient, toServer, watchVars, fileChanges, begun, handedOver, stray>>

\* The client is asked for the active jobs, or is given those to reload.
WatchClientReads ==
    /\ Live /\ ~devWorker.busy /\ toClient # <<>>
    /\ LET msg == Head(toClient)
       IN /\ IF msg.kind = "active"
               THEN ToServer("active", Running(devWorker)) /\ UNCHANGED devWorker
               ELSE devWorker' = [devWorker EXCEPT !.todo = msg.jobs, !.busy = TRUE] /\ UNCHANGED toServer
          /\ stray' = (stray \/ msg.for # devWorker.number)
    /\ toClient' = Tail(toClient)
    /\ UNCHANGED <<watchVars, fileChanges, begun, over, handedOver>>

\* Worker._reload_jobs(): the jobs are launched one after the other.
LaunchReloaded ==
    /\ devWorker.state = "runs" /\ devWorker.busy
    /\ \E j \in devWorker.todo :
           devWorker' = [devWorker EXCEPT !.todo = @ \ {j}, !.jobs[j] = @ + 1]
    /\ UNCHANGED <<toClient, toServer, watchVars, fileChanges, begun, over, handedOver, stray>>

TellReloaded ==
    /\ Live /\ devWorker.busy /\ devWorker.todo = {}
    /\ devWorker' = [devWorker EXCEPT !.busy = FALSE] /\ ToServer("reloaded", {})
    /\ UNCHANGED <<toClient, watchVars, fileChanges, begun, over, handedOver, stray>>

----------------------------------------------------------------------------
(* The WatchServer *)

\* A change: the worker is asked for its jobs, unless it reloads them itself.
FileChanged ==
    /\ onReload = "idle" /\ fileChanges < MaxFileChanges /\ fileChanges' = fileChanges + 1
    /\ workerReloading' = TRUE
    /\ IF workerReloading
         THEN onReload' = "done" /\ UNCHANGED toClient
         ELSE onReload' = "asks" /\ toClient' = Append(toClient, Ask(devWorker.number))
    /\ UNCHANGED <<devWorker, toServer, activeJobs, reloadCount, jobsFuture, begun, over, handedOver, stray>>

\* The future is made after the request is sent: what was answered in between is not waited for.
FutureMade ==
    /\ onReload = "asks" /\ onReload' = "waits" /\ jobsFuture' = FALSE
    /\ UNCHANGED <<devWorker, toClient, toServer, activeJobs, workerReloading, reloadCount, fileChanges, begun, over, handedOver, stray>>

\* The jobs are known, or 1.5 s are over.
ReloadDecided ==
    /\ onReload = "waits" /\ onReload' = "done" /\ reloadCount' = reloadCount + 1
    /\ UNCHANGED <<devWorker, toClient, toServer, activeJobs, workerReloading, jobsFuture, fileChanges, begun, over, handedOver, stray>>

\* Mutant: an answer of a worker that was replaced counts.
TakesListAnyhow(msg) == TRUE
TakesList(msg) == msg.count = reloadCount

ServerReads ==
    /\ toServer # <<>> /\ toServer' = Tail(toServer)
    /\ LET msg == Head(toServer)
       IN CASE msg.kind = "active" ->
                 /\ IF TakesList(msg)
                      THEN activeJobs' = msg.jobs /\ jobsFuture' = TRUE
                      ELSE UNCHANGED <<activeJobs, jobsFuture>>
                 /\ handedOver' = IF TakesList(msg) /\ onReload \in {"asks", "waits"} THEN msg.jobs ELSE handedOver
                 /\ UNCHANGED <<toClient, workerReloading>>
            [] msg.kind = "jobs" ->
                 /\ toClient' = Append(toClient, HandOver(activeJobs, msg.from))
                 /\ UNCHANGED <<activeJobs, jobsFuture, handedOver, workerReloading>>
            [] msg.kind = "reloaded" ->
                 /\ workerReloading' = FALSE /\ UNCHANGED <<activeJobs, jobsFuture, handedOver, toClient>>
    /\ UNCHANGED <<devWorker, reloadCount, onReload, fileChanges, begun, over, stray>>

\* watchfiles stops the process, which closes its jobs, and starts another.
WorkerCloses ==
    /\ onReload = "done" /\ devWorker.state = "runs"
    /\ devWorker' = [devWorker EXCEPT !.state = "closes", !.jobs = NoneRuns]
    /\ UNCHANGED <<toClient, toServer, watchVars, fileChanges, begun, over, handedOver, stray>>

WorkerReplaced ==
    /\ onReload = "done" /\ devWorker.state # "runs" /\ onReload' = "idle"
    /\ devWorker' = [number |-> fileChanges, state |-> "down", count |-> reloadCount, jobs |-> NoneRuns,
                    todo |-> {}, busy |-> FALSE, asks |-> TRUE]
    /\ UNCHANGED <<toClient, toServer, activeJobs, workerReloading, reloadCount, jobsFuture, fileChanges, begun, over, handedOver, stray>>

ReloadNext ==
    \/ WorkerBoots \/ WorkerFailsToBoot \/ WatchClientReads \/ LaunchReloaded \/ TellReloaded
    \/ \E j \in ReloadJobs : JobBegins(j) \/ JobOver(j)
    \/ FileChanged \/ FutureMade \/ ReloadDecided \/ ServerReads \/ WorkerCloses \/ WorkerReplaced

\* What the two processes do of themselves; a worker boots, jobs begin and end and files change when they like.
ReloadSteps ==
    \/ WatchClientReads \/ LaunchReloaded \/ TellReloaded
    \/ FutureMade \/ ReloadDecided \/ ServerReads \/ WorkerCloses \/ WorkerReplaced

ReloadFairness == WF_reloadVars(ReloadSteps)

ReloadSpec == ReloadInit /\ [][ReloadNext]_reloadVars /\ ReloadFairness

----------------------------------------------------------------------------
(* Properties *)

\* Once a worker has reloaded and both sockets are read, every job of the list that was handed over last runs
\* in it or is over, though it was replaced while it reloaded or the one before answered late; unless a worker
\* read what was left of another on the socket they share (watcher.py:72, 101-131).
JobsSurviveReload ==
    (/\ ~stray /\ ~workerReloading /\ toServer = <<>> /\ toClient = <<>>
     /\ devWorker.state = "runs" /\ ~devWorker.busy /\ ~devWorker.asks)
        => handedOver \ over \subseteq Running(devWorker)

\* A job does not run twice in a worker, unless it was given the answer to the worker before (watcher.py:127).
RunsOnce == ~stray => \A j \in ReloadJobs : devWorker.jobs[j] <= 1

\* What cannot last: a reload comes to its end, unless the worker cannot run the file.
ReloadPending == workerReloading /\ devWorker.state # "down"

=============================================================================
