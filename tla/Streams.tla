------------------------------- MODULE Streams -------------------------------
(***************************************************************************)
(* What the streams of the providers have in common: RecognizeStream       *)
(* (stt/stt.py), ChunkedStream and SynthesizeStream (tts/tts.py),          *)
(* LLMStream (llm/llm.py) and VADStream (vad.py).  A task runs the         *)
(* provider, again after a failure; its events go through a tee            *)
(* (utils/aio/itertools.py) to the consumer and to a metrics task.  Inputs *)
(* and events are counted.  _run() itself is the provider's.               *)
(***************************************************************************)
EXTENDS Naturals

CONSTANTS MaxRetry,             \* conn_options.max_retry
          MaxInputs, MaxEvents  \* bounds: inputs pushed, events of an attempt

ASSUME StreamsAssumption == {MaxRetry, MaxInputs, MaxEvents} \subseteq Nat

VARIABLES
    base,       \* the class: stt, synthesize, chunked, llm, vad
    input,      \* _input_ch: [pushed, read, ended]
    attempt,    \* [number, state: runs, sleeps, ok, raised, cancelled; events, held] of _main_task
    events,     \* _event_ch: [sent, taken, closed]
    readers,    \* of the consumer and of the metrics task, [state, buffer, got]
    locked,     \* which reader holds the lock of the tee
    gaveUp,     \* history: the consumer's task was cancelled in a read
    closing     \* aclose(): no, cancels, metrics, done

streamVars == <<base, input, attempt, events, readers, locked, gaveUp, closing>>

Readers == {"consumer", "metrics"}
TaskOutcomes == {"ok", "raised", "cancelled"}
HasInput == base \in {"stt", "synthesize", "vad"}

StreamsTypeOK ==
    /\ base \in {"stt", "synthesize", "chunked", "llm", "vad"}
    /\ input \in [pushed : 0..MaxInputs, read : 0..MaxInputs, ended : BOOLEAN]
    /\ attempt.number \in 0..MaxRetry /\ attempt.events \in 0..MaxEvents /\ attempt.held \in BOOLEAN
    /\ attempt.state \in {"runs", "sleeps"} \cup TaskOutcomes
    /\ events.taken \in 0..events.sent /\ events.closed \in BOOLEAN
    /\ \A r \in Readers : readers[r].state \in {"absent", "reads", "rests", "stopped", "raised", "invalid"}
    /\ locked \in Readers \cup {"nobody"} /\ gaveUp \in BOOLEAN
    /\ closing \in {"no", "cancels", "metrics", "done"}

\* The metrics of a SynthesizeStream begin with the first text.
StreamsInit ==
    /\ base \in {"stt", "synthesize", "chunked", "llm", "vad"}
    /\ input = [pushed |-> 0, read |-> 0, ended |-> FALSE]
    /\ attempt = [number |-> 0, state |-> "runs", events |-> 0, held |-> FALSE]
    /\ events = [sent |-> 0, taken |-> 0, closed |-> FALSE]
    /\ readers = [r \in Readers |->
                    [state |-> IF r = "metrics" /\ base = "synthesize" THEN "absent" ELSE "reads",
                     buffer |-> 0, got |-> 0]]
    /\ locked = "nobody" /\ gaveUp = FALSE /\ closing = "no"

----------------------------------------------------------------------------
(* The input *)

\* _check_input_not_ended and _check_not_closed.
Accepts == HasInput /\ ~input.ended /\ ~events.closed

\* push_frame() of an stt or a vad.
PushFrame ==
    /\ Accepts /\ base # "synthesize" /\ input.pushed < MaxInputs
    /\ input' = [input EXCEPT !.pushed = @ + 1]
    /\ UNCHANGED <<base, attempt, events, readers, locked, gaveUp, closing>>

\* push_text().  The metrics task is made before the checks.
PushText ==
    /\ base = "synthesize" /\ input.pushed < MaxInputs
    /\ readers' = [readers EXCEPT !["metrics"].state = IF @ = "absent" THEN "reads" ELSE @]
    /\ input' = IF Accepts THEN [input EXCEPT !.pushed = @ + 1] ELSE input
    /\ UNCHANGED <<base, attempt, events, locked, gaveUp, closing>>

\* end_input(): a flush, then the end.
EndInput ==
    /\ Accepts
    /\ input' = [input EXCEPT !.ended = TRUE]
    /\ UNCHANGED <<base, attempt, events, readers, locked, gaveUp, closing>>

----------------------------------------------------------------------------
(* The task *)

ReadInput ==
    /\ attempt.state = "runs" /\ input.read < input.pushed
    /\ input' = [input EXCEPT !.read = @ + 1]
    /\ UNCHANGED <<base, attempt, events, readers, locked, gaveUp, closing>>

\* An event of the provider.  The emitter of a synthesis holds one frame back, to mark the last one.
EmitEvent ==
    /\ attempt.state = "runs" /\ ~events.closed /\ attempt.events < MaxEvents
    /\ LET holds == base \in {"synthesize", "chunked"}
       IN /\ attempt' = [attempt EXCEPT !.events = @ + 1, !.held = holds]
          /\ events' = IF ~holds \/ attempt.held THEN [events EXCEPT !.sent = @ + 1] ELSE events
    /\ UNCHANGED <<base, input, readers, locked, gaveUp, closing>>

\* _run() returns, after the flush of the emitter.
RunReturns ==
    /\ attempt.state = "runs"
    /\ attempt' = [attempt EXCEPT !.state = "ok", !.held = FALSE]
    /\ events' = IF attempt.held THEN [events EXCEPT !.sent = @ + 1] ELSE events
    /\ UNCHANGED <<base, input, readers, locked, gaveUp, closing>>

\* An attempt failed: what was held is lost, and there is another one or none.
Failed(again) ==
    /\ attempt.state = "runs"
    /\ attempt' = [attempt EXCEPT !.held = FALSE,
                                  !.state = IF again /\ attempt.number < MaxRetry THEN "sleeps" ELSE "raised"]
    /\ UNCHANGED <<base, input, events, readers, locked, gaveUp, closing>>

\* The retry loops: any APIError, the retryable ones for an LLM, none for a VAD; other exceptions
\* end the task.
RecognizeFails == base = "stt" /\ \E isAPIError \in BOOLEAN : Failed(isAPIError)
ChunkedFails == base = "chunked" /\ \E isAPIError \in BOOLEAN : Failed(isAPIError)
SynthesizeFails == base = "synthesize" /\ \E isAPIError \in BOOLEAN : Failed(isAPIError)
LLMFails == base = "llm" /\ \E isAPIError, retryable \in BOOLEAN : Failed(isAPIError /\ retryable)
VADFails == base = "vad" /\ Failed(FALSE)

Retry ==
    /\ attempt.state = "sleeps"
    /\ attempt' = [number |-> attempt.number + 1, state |-> "runs", events |-> 0, held |-> FALSE]
    /\ UNCHANGED <<base, input, events, readers, locked, gaveUp, closing>>

\* The done callback of the task.
TaskDone ==
    /\ attempt.state \in TaskOutcomes /\ ~events.closed
    /\ events' = [events EXCEPT !.closed = TRUE]
    /\ UNCHANGED <<base, input, attempt, readers, locked, gaveUp, closing>>

----------------------------------------------------------------------------
(* The tee *)

Available == events.taken < events.sent

\* tee_peer: a reader with an empty buffer waits under the lock, and gives what it gets to both.
AwaitEvent(r) ==
    /\ readers[r].state = "reads" /\ readers[r].buffer = 0 /\ locked = "nobody"
    /\ ~Available /\ ~events.closed
    /\ locked' = r
    /\ UNCHANGED <<base, input, attempt, events, readers, gaveUp, closing>>

TakeEvent(r) ==
    /\ readers[r].state = "reads"
    /\ IF readers[r].buffer > 0
       THEN /\ readers' = [readers EXCEPT ![r].buffer = @ - 1, ![r].got = @ + 1]
            /\ UNCHANGED <<events, locked>>
       ELSE /\ Available /\ locked \in {"nobody", r}
            /\ events' = [events EXCEPT !.taken = @ + 1]
            /\ readers' = [p \in Readers |-> IF p = r THEN [readers[p] EXCEPT !.got = @ + 1]
                                            ELSE [readers[p] EXCEPT !.buffer = @ + 1]]
            /\ locked' = "nobody"
    /\ UNCHANGED <<base, input, attempt, gaveUp, closing>>

\* Mutant: the end does not look at the exception of the task.
EndQuietly == "stopped"

\* __anext__ at the end: the exception of the task, which is an error of its own if it still runs.
EndOfStream ==
    IF attempt.state = "raised" THEN "raised"
    ELSE IF attempt.state \in TaskOutcomes THEN "stopped" ELSE "invalid"

ReadEnd(r) ==
    /\ readers[r].state = "reads" /\ readers[r].buffer = 0
    /\ \/ ~Available /\ events.closed /\ locked \in {"nobody", r}
       \/ r = "consumer" /\ gaveUp      \* its generator is over
    /\ readers' = [readers EXCEPT ![r].state = IF r = "metrics" THEN "stopped" ELSE EndOfStream]
    /\ locked' = IF locked = r THEN "nobody" ELSE locked
    /\ UNCHANGED <<base, input, attempt, events, gaveUp, closing>>

\* The consumer stops reading for good, or is cancelled (a timeout) as it waits: the lock is released.
ConsumerRests ==
    /\ readers["consumer"].state = "reads" /\ locked # "consumer"
    /\ readers' = [readers EXCEPT !["consumer"].state = "rests"]
    /\ UNCHANGED <<base, input, attempt, events, locked, gaveUp, closing>>

ConsumerTimesOut ==
    /\ locked = "consumer"
    /\ locked' = "nobody" /\ gaveUp' = TRUE
    /\ UNCHANGED <<base, input, attempt, events, readers, closing>>

----------------------------------------------------------------------------
(* aclose() *)

Aclose ==
    /\ closing = "no"
    /\ closing' = "cancels"
    /\ input' = [input EXCEPT !.ended = @ \/ HasInput]
    /\ UNCHANGED <<base, attempt, events, readers, locked, gaveUp>>

\* cancel_and_wait(); a chunked stream and a VAD close the channel themselves too.
TaskCancelled ==
    /\ closing = "cancels"
    /\ closing' = IF readers["metrics"].state = "absent" THEN "done" ELSE "metrics"
    /\ attempt' = IF attempt.state \in TaskOutcomes THEN attempt
                  ELSE [attempt EXCEPT !.state = "cancelled", !.held = FALSE]
    /\ events' = [events EXCEPT !.closed = @ \/ base \in {"chunked", "vad"}]
    /\ UNCHANGED <<base, input, readers, locked, gaveUp>>

AcloseEnds ==
    /\ closing = "metrics" /\ readers["metrics"].state = "stopped"
    /\ closing' = "done"
    /\ UNCHANGED <<base, input, attempt, events, readers, locked, gaveUp>>

StreamsNext ==
    \/ PushFrame \/ PushText \/ EndInput
    \/ ReadInput \/ EmitEvent \/ RunReturns \/ Retry \/ TaskDone
    \/ RecognizeFails \/ ChunkedFails \/ SynthesizeFails \/ LLMFails \/ VADFails
    \/ \E r \in Readers : AwaitEvent(r) \/ TakeEvent(r) \/ ReadEnd(r)
    \/ ConsumerRests \/ ConsumerTimesOut
    \/ Aclose \/ TaskCancelled \/ AcloseEnds

\* The event loop runs what is ready; a provider may hang.
StreamsFairness ==
    /\ \A r \in Readers : WF_streamVars(AwaitEvent(r)) /\ WF_streamVars(TakeEvent(r)) /\ WF_streamVars(ReadEnd(r))
    /\ WF_streamVars(Retry) /\ WF_streamVars(TaskDone)
    /\ WF_streamVars(TaskCancelled) /\ WF_streamVars(AcloseEnds)

StreamsSpec == StreamsInit /\ [][StreamsNext]_streamVars /\ StreamsFairness

----------------------------------------------------------------------------
(* Properties *)

\* The consumer that reads to the end got every event the task sent, in all its attempts, and is
\* told how the task ended: the event channel closes only after the task has its result
\* (tts/tts.py:128, 216-225).  The metrics counted the same events.
EndTellsTruth ==
    /\ readers["consumer"].state \in {"stopped", "raised"} /\ ~gaveUp =>
          /\ readers["consumer"].got = events.sent
          /\ (readers["consumer"].state = "raised") <=> (attempt.state = "raised")
    /\ readers["metrics"].state = "stopped" => readers["metrics"].got = events.sent
    /\ readers["consumer"].state = "invalid" => gaveUp

\* What cannot last: an aclose() under way, whoever reads, sleeps or holds the lock of the tee, and a
\* consumer that reads after the task is over.
StreamPending == closing = "cancels" \/ (attempt.state \in TaskOutcomes /\ readers["consumer"].state = "reads")

=============================================================================
