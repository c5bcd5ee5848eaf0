---------------------------- MODULE LogForwarding ----------------------------
(***************************************************************************)
(* The log records of a job process on their way to the worker             *)
(* (ipc/log_queue.py), with what ipc/proc_client.py and                    *)
(* ipc/supervised_proc.py do of it: in the process a queue and a thread    *)
(* that forwards it, a socket pair, and in the worker the thread that      *)
(* reads and the thread that joins the process.                            *)
(***************************************************************************)
EXTENDS Naturals, Sequences

CONSTANTS
    MaxRecords,     \* records logged (a bound)
    WireSize        \* records the socket holds

ASSUME LogAssumption == MaxRecords \in Nat /\ WireSize \in Nat \ {0}

VARIABLES
    logged,         \* how many records were emitted
    logQueue,       \* _send_q, with 0 for the sentinel
    forwarder,      \* _forward_logs: run, ended
    wire,           \* what the socket holds
    logProc,        \* the process: run, over (its main returned), exited
    toldToStop,     \* history: close() of the handler was called, with so many records emitted; or none
    killedLogging,  \* history: the process was killed, or crashed
    listening,       \* _monitor: run, ended
    handled,        \* the records handled by the worker
    joiner          \* proc_join_thread: join, stop, joining, done (_join_fut is set)

logVars == <<logged, logQueue, forwarder, wire, logProc, toldToStop, killedLogging, listening, handled, joiner>>

Sentinel == 0
NotTold == MaxRecords + 1

LogTypeOK ==
    /\ logged \in 0..MaxRecords /\ logQueue \in Seq(0..MaxRecords)
    /\ forwarder \in {"run", "ended"} /\ listening \in {"run", "ended"}
    /\ wire \in Seq(1..MaxRecords) /\ Len(wire) <= WireSize
    /\ logProc \in {"run", "over", "exited"} /\ killedLogging \in BOOLEAN
    /\ toldToStop \in 0..NotTold
    /\ handled \in Seq(1..MaxRecords)
    /\ joiner \in {"join", "stop", "joining", "done"}

\* _start() and initialize_logger(): both threads of the worker run, and the one of the process.
LogInit ==
    /\ logged = 0 /\ logQueue = <<>> /\ forwarder = "run" /\ wire = <<>>
    /\ logProc = "run" /\ toldToStop = NotTold /\ killedLogging = FALSE
    /\ listening = "run" /\ handled = <<>> /\ joiner = "join"

----------------------------------------------------------------------------
(* The process *)

\* Mutant: a record goes straight to the socket if there is room.
EmitDirectly ==
    /\ logProc # "exited" /\ logged < MaxRecords
    /\ logged' = logged + 1
    /\ IF Len(wire) < WireSize
       THEN wire' = Append(wire, logged') /\ UNCHANGED logQueue
       ELSE logQueue' = Append(logQueue, logged') /\ UNCHANGED wire
    /\ UNCHANGED <<forwarder, logProc, toldToStop, killedLogging, listening, handled, joiner>>

\* emit(), by any thread of the process.
Emit ==
    /\ logProc # "exited" /\ logged < MaxRecords
    /\ logged' = logged + 1 /\ logQueue' = Append(logQueue, logged')
    /\ UNCHANGED <<forwarder, wire, logProc, toldToStop, killedLogging, listening, handled, joiner>>

\* _forward_logs: a record is sent (a full socket blocks), the sentinel ends the thread.
ForwardLog ==
    /\ logProc # "exited" /\ forwarder = "run" /\ logQueue # <<>>
    /\ logQueue' = Tail(logQueue)
    /\ IF Head(logQueue) = Sentinel
       THEN forwarder' = "ended" /\ UNCHANGED wire
       ELSE /\ Len(wire) < WireSize
            /\ wire' = Append(wire, Head(logQueue)) /\ UNCHANGED forwarder
    /\ UNCHANGED <<logged, logProc, toldToStop, killedLogging, listening, handled, joiner>>

\* run() returns: its finally closes the handler, which queues the sentinel.
RunReturns ==
    /\ logProc = "run"
    /\ logProc' = "over" /\ toldToStop' = logged
    /\ logQueue' = Append(logQueue, Sentinel)
    /\ UNCHANGED <<logged, forwarder, wire, killedLogging, listening, handled, joiner>>

\* initialize() raised and proc_main returns: nobody closes the handler.
MainGivesUp ==
    /\ logProc = "run"
    /\ logProc' = "over"
    /\ UNCHANGED <<logged, logQueue, forwarder, wire, toldToStop, killedLogging, listening, handled, joiner>>

\* Mutant: the thread is a daemon, the process does not wait for it.
ExitsAtOnce ==
    /\ logProc = "over"
    /\ logProc' = "exited"
    /\ UNCHANGED <<logged, logQueue, forwarder, wire, toldToStop, killedLogging, listening, handled, joiner>>

\* The interpreter joins the forwarding thread before it leaves.
ExitsAfterForwarder ==
    /\ logProc = "over" /\ forwarder = "ended"
    /\ logProc' = "exited"
    /\ UNCHANGED <<logged, logQueue, forwarder, wire, toldToStop, killedLogging, listening, handled, joiner>>

\* Killed (by the pong timeout, aclose() or kill()), or crashed.
KilledWithLogs ==
    /\ logProc # "exited"
    /\ logProc' = "exited" /\ killedLogging' = TRUE
    /\ UNCHANGED <<logged, logQueue, forwarder, wire, toldToStop, listening, handled, joiner>>

----------------------------------------------------------------------------
(* The worker *)

\* Mutant: the worker keeps its copy of the process's end.
StreamNeverEnds == FALSE

\* The end of the stream: the forwarding thread closes the socket when it is over, the system when
\* the process is gone; the worker closed its copy after the start.
StreamEnds == forwarder = "ended" \/ logProc = "exited"

\* _monitor: a record is read and handled, until stop() has closed the socket.
HandleRecord ==
    /\ listening = "run" /\ wire # <<>> /\ joiner # "joining"
    /\ wire' = Tail(wire) /\ handled' = Append(handled, Head(wire))
    /\ UNCHANGED <<logged, logQueue, forwarder, logProc, toldToStop, killedLogging, listening, joiner>>

\* A record that cannot be unpickled, or a handler that raises, ends the thread.
RecordRaises ==
    /\ listening = "run" /\ wire # <<>> /\ joiner # "joining"
    /\ wire' = Tail(wire) /\ listening' = "ended"
    /\ UNCHANGED <<logged, logQueue, forwarder, logProc, toldToStop, killedLogging, handled, joiner>>

\* recv_bytes raises: at the end of the stream, or because stop() closed the socket, which does
\* not wake up a thread that is already blocked in its read.
MonitorEnds ==
    /\ listening = "run"
    /\ (wire = <<>> /\ StreamEnds) \/ (joiner = "joining" /\ wire # <<>>)
    /\ listening' = "ended"
    /\ UNCHANGED <<logged, logQueue, forwarder, wire, logProc, toldToStop, killedLogging, handled, joiner>>

\* _sync_run: join() returns; stop() closes the socket; then it joins the thread of the listener
\* and the future is set.
JoinThread ==
    /\ \/ joiner = "join" /\ logProc = "exited" /\ joiner' = "stop"
       \/ joiner = "stop" /\ joiner' = "joining"
       \/ joiner = "joining" /\ listening = "ended" /\ joiner' = "done"
    /\ UNCHANGED <<logged, logQueue, forwarder, wire, logProc, toldToStop, killedLogging, listening, handled>>

----------------------------------------------------------------------------

LogNext ==
    \/ Emit \/ ForwardLog \/ RunReturns \/ MainGivesUp \/ ExitsAfterForwarder \/ KilledWithLogs
    \/ HandleRecord \/ RecordRaises \/ MonitorEnds \/ JoinThread

\* The threads run, and the worker kills a process whose main is over and does not exit: it
\* answers no ping.
LogFairness ==
    /\ WF_logVars(ForwardLog) /\ WF_logVars(ExitsAfterForwarder)
    /\ WF_logVars(HandleRecord) /\ WF_logVars(MonitorEnds) /\ WF_logVars(JoinThread)
    /\ WF_logVars(logProc = "over" /\ KilledWithLogs)

LogSpec == LogInit /\ [][LogNext]_logVars /\ LogFairness

\* The worker handles the records in the order they were emitted, without a gap, wherever the
\* queue, the socket and the two threads are.
LogsInOrder == \A i \in DOMAIN handled : handled[i] = i

\* A process that ends in order has sent what was logged before run() returned (what the
\* worker then reads of it is another matter: stop() may come first).
LogsAreSent ==
    logProc = "exited" /\ ~killedLogging =>
        \A i \in DOMAIN logQueue : logQueue[i] \notin 1..toldToStop

\* close() was called, and its sentinel is still in the queue: after it are the records emitted since.
Told == toldToStop # NotTold
SentinelWaits == Told /\ forwarder = "run"
SentinelAt == Len(logQueue) + toldToStop - logged

\* The queue holds the last records emitted, in their order, and the sentinel at its place.
QueueInOrder ==
    /\ SentinelWaits =>
         /\ SentinelAt \in 1..Len(logQueue) /\ Len(logQueue) <= logged + 1
         /\ logQueue[SentinelAt] = Sentinel
         /\ \A i \in 1..(SentinelAt - 1) : logQueue[i] = (logged + i + 1) - Len(logQueue)
         /\ \A i \in (SentinelAt + 1)..Len(logQueue) : logQueue[i] = (logged + i) - Len(logQueue)
    /\ ~SentinelWaits =>
         /\ Len(logQueue) <= logged
         /\ \A i \in 1..Len(logQueue) : logQueue[i] = (logged + i) - Len(logQueue)

\* How many records left the queue.
Forwarded == (logged + (IF SentinelWaits THEN 1 ELSE 0)) - Len(logQueue)

\* The records that were sent are handled or in the socket, while the worker listens.
WireInOrder ==
    listening = "run" =>
        /\ Len(handled) + Len(wire) = Forwarded
        /\ \A i \in 1..Len(wire) : wire[i] = Len(handled) + i

\* How the forwarder and the process end.
EndsInOrder ==
    /\ Told => toldToStop <= logged /\ logProc # "run"
    /\ forwarder = "ended" => Told /\ Len(logQueue) + toldToStop <= logged
    /\ logProc = "exited" /\ ~killedLogging => forwarder = "ended"

\* The inductive invariant.
LogInv == LogTypeOK /\ LogsInOrder /\ QueueInOrder /\ WireInOrder /\ EndsInOrder

\* What cannot last: a process whose main is over, a join that is not reported.
LogsPending == logProc = "over" \/ (logProc = "exited" /\ joiner # "done")

=============================================================================
