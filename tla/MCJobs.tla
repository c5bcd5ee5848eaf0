------------------------------- MODULE MCJobs -------------------------------
(***************************************************************************)
(* A small instance of the worker, of one executor with its process, of    *)
(* the log records of a process, of the inference process, of the hot      *)
(* reload, of the context of a job and of the browser process.  They are   *)
(* checked in one run but in turn: "part" says which of them a behaviour   *)
(* is about, the others stay in their initial state, where nothing fair    *)
(* is enabled.                                                             *)
(***************************************************************************)
EXTENDS Worker, ProcMains, JobContext, Browser

CONSTANTS j1

OneJob == {j1}
TwoOffers == {1, 2}
TwoCallers == {1, 2}
OneRequest == {1}
TwoIdentities == {"p", "q"}
WithoutEarlyExit == AllFaults \ {"early exit"}
EarlyExit == {"early exit", "crash"}

VARIABLE part

Parts == {"worker", "executor", "logs", "inference", "reload", "context", "browser"}

allVars == <<part, workerVars, jobLinkVars, logVars, infVars, reloadVars, ctxVars, browserVars>>

\* The variables of every part but p.
Still(p) ==
    /\ UNCHANGED part
    /\ p # "worker" => UNCHANGED workerVars
    /\ p # "executor" => UNCHANGED jobLinkVars
    /\ p # "logs" => UNCHANGED logVars
    /\ p # "inference" => UNCHANGED infVars
    /\ p # "reload" => UNCHANGED reloadVars
    /\ p # "context" => UNCHANGED ctxVars
    /\ p # "browser" => UNCHANGED browserVars

Init == /\ part \in Parts
        /\ WorkerInit /\ JobLinkInit /\ LogInit /\ InferenceInit /\ ReloadInit /\ JobContextInit
        /\ BrowserInit
        /\ part = "executor" \/ kind = "process"

Next == \/ part = "worker" /\ WorkerNext /\ Still("worker")
        \/ part = "executor" /\ JobLinkNext /\ Still("executor")
        \/ part = "logs" /\ LogNext /\ Still("logs")
        \/ part = "inference" /\ InferenceNext /\ Still("inference")
        \/ part = "reload" /\ ReloadNext /\ Still("reload")
        \/ part = "context" /\ JobContextNext /\ Still("context")
        \/ part = "browser" /\ BrowserNext /\ Still("browser")

Spec == /\ Init /\ [][Next]_allVars
        /\ WorkerFairness /\ JobLinkFairness /\ LogFairness /\ InferenceFairness /\ ReloadFairness
        /\ BrowserFairness

\* Again and again nothing is owed: a drain is announced, every aclose() returns, every
\* inference is answered, every process that is over is joined, every reload ends, every page opens
\* and closes, but for the cases the Pending definitions name.
JobsSettle ==
    []<>~(WorkerPending \/ JobLinkPending \/ LogsPending \/ InferencePending \/ ReloadPending \/ PagesPending)

=============================================================================
