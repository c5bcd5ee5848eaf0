--------------------------- MODULE ToolExecution ---------------------------
(***************************************************************************)
(* voice/generation.py, _execute_tools_task: the task that runs the tools  *)
(* the LLM calls during one speech, with the part of _pipeline_reply_task  *)
(* (voice/agent_activity.py) that starts it, cancels it, and turns the     *)
(* outputs into the next request to the LLM.  The tools are user code: a   *)
(* tool takes any time and ends in any of the ways of Endings.             *)
(***************************************************************************)
EXTENDS Naturals, Sequences, FiniteSets, SequencesExt

CONSTANTS
    ToolCalls,  \* the calls the LLM may make in one reply (a bound)
    Endings,    \* the ways a tool may end: a subset of AllEndings
    Interrupts, \* may the speech be interrupted?
    None

\* An output of a tool: a value, nothing the LLM can be told of (None, an invalid value
\* or several agents), an agent, an agent together with a value.  An exception: ToolError,
\* StopResponse, any other.
Returns == {"value", "nothing", "agent", "agent_and_value"}
Raises == {"ToolError", "StopResponse", "exception"}
AllEndings == Returns \cup Raises

ASSUME ToolsAssumption ==
    /\ None \notin ToolCalls \cup AllEndings /\ IsFiniteSet(ToolCalls)
    /\ Endings \subseteq AllEndings
    /\ Interrupts \in BOOLEAN

VARIABLES
    function_ch,    \* the calls the LLM made that the execution has not taken yet
    llm_done,       \* has the LLM task ended, and closed function_ch?
    exe,            \* where exe_task is
    cancelled,      \* has exe_task.cancel() been called?
    exe_failed,     \* did an exception of a tool end exe_task?
    tool,           \* the life of the tool of each call
    ending,         \* how it ended
    tasks,          \* the list `tasks`
    awaited,        \* the tools the gather, or cancel_and_wait, of exe_task waits for
    ready,          \* ended tools whose done callbacks the loop has yet to run
    bound,          \* the last call started: what fnc_call and py_out name in every callback
    py_out,         \* the two fields of each call's _PythonOutput: whose output, whose exception
    output,         \* tool_output.output: the calls of the _PythonOutput objects in it
    speech,         \* where the reply's task is
    reply,          \* what the reply's task made of the outputs
    overlapped      \* history: calls whose tool had not ended when another was started

vars == <<function_ch, llm_done, exe, cancelled, exe_failed, tool, ending, tasks, awaited,
          ready, bound, py_out, output, speech, reply, overlapped>>

NoReply == [messages |-> <<>>, switch |-> None]

TypeOK ==
    /\ function_ch \in Seq(ToolCalls) /\ llm_done \in BOOLEAN
    /\ exe \in {"stream", "gather", "pending", "cleanup", "over"}
    /\ cancelled \in BOOLEAN /\ exe_failed \in BOOLEAN
    /\ tool \in [ToolCalls -> {"none", "called", "ignored", "running", "cancelling", "ended",
                               "over", "cancelled"}]
    /\ ending \in [ToolCalls -> Endings \cup {None}]
    /\ tasks \subseteq ToolCalls /\ awaited \subseteq ToolCalls /\ overlapped \subseteq ToolCalls
    /\ ready \in Seq(ToolCalls) /\ output \in Seq(ToolCalls)
    /\ bound \in ToolCalls \cup {None}
    /\ py_out \in [ToolCalls -> [output : ToolCalls \cup {None},
                                 exception : ToolCalls \cup {None}]]
    /\ speech \in {"playing", "interrupted", "awaiting_tools", "cancelling_tools",
                   "replied", "failed", "silent"}

Init ==
    /\ function_ch = <<>> /\ llm_done = FALSE
    /\ exe = "stream" /\ cancelled = FALSE /\ exe_failed = FALSE
    /\ tool = [c \in ToolCalls |-> "none"]
    /\ ending = [c \in ToolCalls |-> None]
    /\ tasks = {} /\ awaited = {} /\ overlapped = {}
    /\ ready = <<>> /\ output = <<>> /\ bound = None
    /\ py_out = [c \in ToolCalls |-> [output |-> None, exception |-> None]]
    /\ speech = "playing" /\ reply = NoReply

Become(c, life) == tool' = [tool EXCEPT ![c] = life]

----------------------------------------------------------------------------
(* The LLM *)

Call(c) ==
    /\ ~llm_done /\ tool[c] = "none"
    /\ Become(c, "called")
    /\ function_ch' = Append(function_ch, c)
    /\ UNCHANGED <<llm_done, exe, cancelled, exe_failed, ending, tasks, awaited, ready, bound,
                   py_out, output, speech, reply, overlapped>>

LLMEnds ==
    /\ ~llm_done
    /\ llm_done' = TRUE
    /\ UNCHANGED <<function_ch, exe, cancelled, exe_failed, tool, ending, tasks, awaited, ready,
                   bound, py_out, output, speech, reply, overlapped>>

----------------------------------------------------------------------------
(* exe_task *)

\* A call is ignored: tool_choice is "none", the tool is unknown, or its arguments are invalid.
IgnoreCall ==
    /\ exe = "stream" /\ ~cancelled /\ function_ch # <<>>
    /\ Become(Head(function_ch), "ignored")
    /\ function_ch' = Tail(function_ch)
    /\ UNCHANGED <<llm_done, exe, cancelled, exe_failed, ending, tasks, awaited, ready, bound,
                   py_out, output, speech, reply, overlapped>>

\* Mutant: fnc_call and py_out of the first call are kept for the later ones.
StartToolKeepsFirst ==
    /\ exe = "stream" /\ ~cancelled /\ function_ch # <<>>
    /\ LET c == Head(function_ch) IN
        /\ Become(c, "running")
        /\ tasks' = tasks \cup {c}
        /\ bound' = IF bound = None THEN c ELSE bound
        /\ overlapped' = overlapped \cup {t \in ToolCalls : tool[t] \in {"running", "ended"}}
    /\ function_ch' = Tail(function_ch)
    /\ UNCHANGED <<llm_done, exe, cancelled, exe_failed, ending, awaited, ready, py_out, output,
                   speech, reply>>

\* A task is created for the call; the callback it is given reads fnc_call and py_out when it
\* runs, from the loop's frame.
StartTool ==
    /\ exe = "stream" /\ ~cancelled /\ function_ch # <<>>
    /\ LET c == Head(function_ch) IN
        /\ Become(c, "running")
        /\ tasks' = tasks \cup {c}
        /\ bound' = c
        /\ overlapped' = overlapped \cup {t \in ToolCalls : tool[t] \in {"running", "ended"}}
    /\ function_ch' = Tail(function_ch)
    /\ UNCHANGED <<llm_done, exe, cancelled, exe_failed, ending, awaited, ready, py_out, output,
                   speech, reply>>

\* The channel is closed and empty: await asyncio.shield(asyncio.gather(*tasks)).
GatherTools ==
    /\ exe = "stream" /\ ~cancelled /\ function_ch = <<>> /\ llm_done
    /\ exe' = "gather"
    /\ awaited' = tasks
    /\ UNCHANGED <<function_ch, llm_done, cancelled, exe_failed, tool, ending, tasks, ready,
                   bound, py_out, output, speech, reply, overlapped>>

\* Mutant: the cancellation does not wait for the pending tools.
PendingDropped ==
    /\ exe \in {"stream", "gather"} /\ cancelled
    /\ exe' = "over"
    /\ UNCHANGED <<function_ch, llm_done, cancelled, exe_failed, tool, ending, tasks, awaited,
                   ready, bound, py_out, output, speech, reply, overlapped>>

\* Mutant: the cancellation goes straight to finally and cancels the pending tools.
PendingCancelled ==
    /\ exe \in {"stream", "gather"} /\ cancelled
    /\ exe' = "cleanup"
    /\ awaited' = tasks
    /\ tool' = [c \in ToolCalls |-> IF tool[c] = "running" THEN "cancelling" ELSE tool[c]]
    /\ UNCHANGED <<function_ch, llm_done, cancelled, exe_failed, ending, tasks, ready, bound,
                   py_out, output, speech, reply, overlapped>>

\* except asyncio.CancelledError: no more calls are taken, the pending tools are gathered.
GatherPending ==
    /\ exe \in {"stream", "gather"} /\ cancelled
    /\ exe' = "pending"
    /\ awaited' = tasks
    /\ UNCHANGED <<function_ch, llm_done, cancelled, exe_failed, tool, ending, tasks, ready,
                   bound, py_out, output, speech, reply, overlapped>>

Raised(c) == tool[c] = "over" /\ ending[c] \in Raises
\* Mutant: cancel_and_wait waits for the tools to return.
SettledIfReturned(c) == tool[c] = "over"

Settled(c) == tool[c] \in {"over", "cancelled"}

\* The cancellation interrupts the first gather only.
Undisturbed == exe = "gather" => ~cancelled

\* The gather raises the exception of a tool: finally cancels every tool not yet over.
GatherRaises ==
    /\ exe \in {"gather", "pending"} /\ Undisturbed
    /\ \E c \in awaited : Raised(c)
    /\ exe' = "cleanup" /\ exe_failed' = TRUE
    /\ awaited' = tasks
    /\ tool' = [c \in ToolCalls |-> IF c \in tasks /\ tool[c] = "running" THEN "cancelling"
                                    ELSE tool[c]]
    /\ UNCHANGED <<function_ch, llm_done, cancelled, ending, tasks, ready, bound, py_out, output,
                   speech, reply, overlapped>>

\* Every tool gathered has returned: `tasks` is empty, finally has nothing to wait for.
GatherReturns ==
    /\ exe \in {"gather", "pending"} /\ Undisturbed
    /\ \A c \in awaited : Settled(c) /\ ~Raised(c)
    /\ exe' = "over"
    /\ UNCHANGED <<function_ch, llm_done, cancelled, exe_failed, tool, ending, tasks, awaited,
                   ready, bound, py_out, output, speech, reply, overlapped>>

\* cancel_and_wait in finally returns, and the exception goes on.
CleanupEnds ==
    /\ exe = "cleanup"
    /\ \A c \in awaited : Settled(c)
    /\ exe' = "over"
    /\ UNCHANGED <<function_ch, llm_done, cancelled, exe_failed, tool, ending, tasks, awaited,
                   ready, bound, py_out, output, speech, reply, overlapped>>

----------------------------------------------------------------------------
(* The tools *)

\* A tool returns or raises; a tool being cancelled may still do either.
ToolEnds(c, how) ==
    /\ tool[c] \in {"running", "cancelling"}
    /\ Become(c, "ended")
    /\ ending' = [ending EXCEPT ![c] = how]
    /\ ready' = Append(ready, c)
    /\ UNCHANGED <<function_ch, llm_done, exe, cancelled, exe_failed, tasks, awaited, bound,
                   py_out, output, speech, reply, overlapped>>

\* A tool gives in to the cancellation: _log_exceptions raises at task.exception().
ToolCancelled(c) ==
    /\ tool[c] = "cancelling"
    /\ Become(c, "cancelled")
    /\ UNCHANGED <<function_ch, llm_done, exe, cancelled, exe_failed, ending, tasks, awaited,
                   ready, bound, py_out, output, speech, reply, overlapped>>

\* Mutant: the callback drops an output there is nothing to tell of.
CallbackSkipsNothing ==
    /\ ready # <<>>
    /\ LET c == Head(ready) IN
        /\ Become(c, "over")
        /\ py_out' = [py_out EXCEPT ![bound].output = c]
        /\ tasks' = tasks \ {c}
        /\ output' = IF ending[c] = "nothing" THEN output ELSE Append(output, bound)
    /\ ready' = Tail(ready)
    /\ UNCHANGED <<function_ch, llm_done, exe, cancelled, exe_failed, ending, awaited, bound,
                   speech, reply, overlapped>>

\* Mutant: the callback appends an output that belongs to no call.
CallbackOfNone ==
    /\ ready # <<>>
    /\ LET c == Head(ready) IN
        /\ Become(c, "over")
        /\ py_out' = [py_out EXCEPT ![c].output = c]
        /\ tasks' = tasks \ {c}
        /\ output' = Append(output, None)
    /\ ready' = Tail(ready)
    /\ UNCHANGED <<function_ch, llm_done, exe, cancelled, exe_failed, ending, awaited, bound,
                   speech, reply, overlapped>>

\* The done callbacks of the next ended tool: _log_exceptions, then those of the gather.
ToolCallback ==
    /\ ready # <<>>
    /\ LET c == Head(ready) IN
        /\ Become(c, "over")
        /\ IF ending[c] \in Raises
           THEN /\ py_out' = [py_out EXCEPT ![bound].exception = c]
                /\ tasks' = tasks
           ELSE /\ py_out' = [py_out EXCEPT ![bound].output = c]
                /\ tasks' = tasks \ {c}
        /\ output' = Append(output, bound)
    /\ ready' = Tail(ready)
    /\ UNCHANGED <<function_ch, llm_done, exe, cancelled, exe_failed, ending, awaited, bound,
                   speech, reply, overlapped>>

----------------------------------------------------------------------------
(* The reply's task *)

Interrupt ==
    /\ Interrupts /\ speech = "playing"
    /\ speech' = "interrupted"
    /\ UNCHANGED <<function_ch, llm_done, exe, cancelled, exe_failed, tool, ending, tasks,
                   awaited, ready, bound, py_out, output, reply, overlapped>>

\* The LLM and the playout are over: await exe_task.
AwaitTools ==
    /\ speech = "playing" /\ llm_done
    /\ speech' = "awaiting_tools"
    /\ UNCHANGED <<function_ch, llm_done, exe, cancelled, exe_failed, tool, ending, tasks,
                   awaited, ready, bound, py_out, output, reply, overlapped>>

\* The LLM task was cancelled and has ended: cancel_and_wait(exe_task).  It interrupts the
\* taking of calls and the gather; it ends an exe_task that is cleaning up.
CancelTools ==
    /\ speech = "interrupted" /\ llm_done
    /\ speech' = "cancelling_tools"
    /\ cancelled' = (exe \in {"stream", "gather"})
    /\ exe' = IF exe = "cleanup" THEN "over" ELSE exe
    /\ UNCHANGED <<function_ch, llm_done, exe_failed, tool, ending, tasks, awaited, ready,
                   bound, py_out, output, reply, overlapped>>

InterruptedEnds ==
    /\ speech = "cancelling_tools" /\ exe = "over"
    /\ speech' = "silent"
    /\ UNCHANGED <<function_ch, llm_done, exe, cancelled, exe_failed, tool, ending, tasks,
                   awaited, ready, bound, py_out, output, reply, overlapped>>

\* await exe_task raises the tool's exception, and the reply's task ends with it.
ToolsFail ==
    /\ speech = "awaiting_tools" /\ exe = "over" /\ exe_failed
    /\ speech' = "failed"
    /\ UNCHANGED <<function_ch, llm_done, exe, cancelled, exe_failed, tool, ending, tasks,
                   awaited, ready, bound, py_out, output, reply, overlapped>>

\* sanitize(): what the LLM is told of the call, and the agent to switch to.  An exception
\* hides an output.
Sanitize(c) ==
    LET p == py_out[c] IN
    IF p.exception # None
    THEN [told |-> IF ending[p.exception] = "StopResponse" THEN None ELSE p.exception,
          agent |-> None]
    ELSE [told |-> IF ending[p.output] \in {"value", "agent_and_value"} THEN p.output ELSE None,
          agent |-> IF ending[p.output] \in {"agent", "agent_and_value"} THEN p.output ELSE None]

\* Mutant: two agents in a row do not cancel the switch.
GatheredTakesLast(acc, c) ==
    LET s == Sanitize(c) IN
    [messages |-> IF s.told = None THEN acc.messages
                  ELSE Append(acc.messages, [call |-> c, result |-> s.told]),
     agent |-> s.agent,
     ignored |-> FALSE]

\* One round of the loop over the outputs: the last output decides the agent, two agents in
\* a row cancel the switch.
Gathered(acc, c) ==
    LET s == Sanitize(c) IN
    [messages |-> IF s.told = None THEN acc.messages
                  ELSE Append(acc.messages, [call |-> c, result |-> s.told]),
     agent |-> s.agent,
     ignored |-> acc.ignored \/ (acc.agent # None /\ s.agent # None)]

\* What the loop has gathered after each of the outputs.
Gathering(outputs) ==
    LET all[n \in 0..Len(outputs)] ==
            IF n = 0 THEN [messages |-> <<>>, agent |-> None, ignored |-> FALSE]
            ELSE Gathered(all[n - 1], outputs[n])
    IN all

ReplyOf(outputs) ==
    LET all == Gathering(outputs)[Len(outputs)]
    IN [messages |-> all.messages, switch |-> IF all.ignored THEN None ELSE all.agent]

\* The outputs are collected, the session switches to the new agent, and a reply with the
\* calls and their outputs is created when there is any.
Respond ==
    /\ speech = "awaiting_tools" /\ exe = "over" /\ ~exe_failed
    /\ reply' = ReplyOf(output)
    /\ speech' = "replied"
    /\ UNCHANGED <<function_ch, llm_done, exe, cancelled, exe_failed, tool, ending, tasks,
                   awaited, ready, bound, py_out, output, overlapped>>

----------------------------------------------------------------------------
ExeStep == IgnoreCall \/ StartTool \/ GatherTools \/ GatherPending \/ GatherRaises
           \/ GatherReturns \/ CleanupEnds
ToolStep(c) == ToolCancelled(c) \/ \E how \in Endings : ToolEnds(c, how)
SpeechStep == AwaitTools \/ CancelTools \/ InterruptedEnds \/ ToolsFail \/ Respond

Next ==
    \/ LLMEnds \/ ToolCallback \/ Interrupt
    \/ ExeStep \/ SpeechStep
    \/ \E c \in ToolCalls : Call(c) \/ ToolStep(c)

Spec == Init /\ [][Next]_vars

\* The loop runs what is ready, the LLM ends, and so does every tool.
FairSpec ==
    /\ Spec
    /\ WF_vars(LLMEnds) /\ WF_vars(ToolCallback) /\ WF_vars(ExeStep) /\ WF_vars(SpeechStep)
    /\ \A c \in ToolCalls : WF_vars(ToolStep(c))

----------------------------------------------------------------------------
(* Properties *)

SpeechOver == speech \in {"replied", "failed", "silent"}
GivesValue(c) == ending[c] \in {"value", "agent_and_value"}
GivesAgent(c) == ending[c] \in {"agent", "agent_and_value"}

\* When the reply's task is over, by a reply, an exception or an interruption, no tool it
\* started is still running without having been told to stop.
NoToolLeftRunning == SpeechOver => \A c \in ToolCalls : tool[c] # "running"

\* Cancelling exe_task cancels no tool: those that had started run to their end before the
\* task ends (the docstring of _execute_tools_task).  So unless a tool raises: the others are
\* then cancelled.
PendingAwaited == cancelled /\ exe = "over" /\ (\A c \in ToolCalls : ending[c] \notin Raises) =>
    \A c \in ToolCalls : tool[c] \in {"none", "called", "ignored", "over"}

\* However the tools and the callbacks interleave with the calls, an execution that does not
\* fail has exactly one output for each tool it started.
OneOutputPerTool ==
    exe = "over" /\ ~exe_failed =>
        Len(output) = Cardinality({c \in ToolCalls : tool[c] \notin {"none", "called", "ignored"}})

\* The next reply tells the LLM the value of every tool that returned one, each once and under
\* the call that produced it.
ResultsReachTheirCalls ==
    speech = "replied" =>
        /\ Len(reply.messages) = Cardinality({c \in ToolCalls : GivesValue(c)})
        /\ \A c \in ToolCalls : GivesValue(c) =>
               \E i \in DOMAIN reply.messages : reply.messages[i] = [call |-> c, result |-> c]

\* The same when every tool ends before the next one starts.
SequentialResultsReachTheirCalls == overlapped = {} => ResultsReachTheirCalls

\* A session switches only to an agent that a tool of this speech returned.  When the tools run
\* one after the other it is the agent of the last one, provided the one before gave none.
NoDisputedSwitch ==
    LET n == Len(output) IN
    /\ reply.switch \in ToolCalls \cup {None}
    /\ speech = "replied" /\ reply.switch # None => GivesAgent(reply.switch)
    /\ speech = "replied" /\ overlapped = {} /\ n > 0 =>
         /\ GivesAgent(output[n]) /\ (\A i \in 1..(n - 1) : ~GivesAgent(output[i]))
              => reply.switch = output[n]
         /\ n > 1 /\ GivesAgent(output[n - 1]) => reply.switch = None

\* When the reply's task is over no tool of it is left running, those that had started before an
\* interruption ended by themselves, and each has one output.
ToolsAccounted == TypeOK /\ NoToolLeftRunning /\ OneOutputPerTool /\ PendingAwaited

\* What the tools gave reaches the next reply, and the session, as theirs.
OutcomesReachTheirUse == SequentialResultsReachTheirCalls /\ NoDisputedSwitch

(* The inductive invariants *)

UnderWay == {c \in ToolCalls : tool[c] \in {"running", "cancelling", "ended"}}

\* A call is taken once, and a tool ends once: the channel holds the calls that are not taken, the
\* loop the tools that have ended.
CallsInOrder ==
    /\ IsInjective(function_ch) /\ ToSet(function_ch) = {c \in ToolCalls : tool[c] = "called"}
    /\ IsInjective(ready) /\ ToSet(ready) = {c \in ToolCalls : tool[c] = "ended"}
    /\ \A c \in ToolCalls : ending[c] # None <=> tool[c] \in {"ended", "over"}
    /\ UnderWay # {} => bound # None

\* No tool under way is lost from `tasks`, from which the list to wait for is made.
WaitsForAll ==
    /\ UnderWay \subseteq tasks
    /\ exe \in {"gather", "pending", "cleanup"} => UnderWay \subseteq awaited
    /\ exe = "over" /\ ~exe_failed => UnderWay = {}
    /\ exe \in {"cleanup", "over"} => \A c \in ToolCalls : tool[c] # "running"
    /\ SpeechOver => exe = "over"

\* Only the exception of a tool has the others cancelled.
CancelledByFailure ==
    /\ exe = "cleanup" => exe_failed
    /\ exe_failed => exe \in {"cleanup", "over"} /\ \E c \in ToolCalls : Raised(c)
    /\ (\E c \in ToolCalls : tool[c] \in {"cancelling", "cancelled"}) => exe_failed

\* Each tool that is over has left one output.
OutputsCounted == Len(output) = Cardinality({c \in ToolCalls : tool[c] = "over"})

Inv == TypeOK /\ CallsInOrder /\ WaitsForAll /\ CancelledByFailure /\ OutputsCounted

\* A tool that raised stays in `tasks`, so that the gather meets it.
RaisedAreMet ==
    \A c \in ToolCalls : Raised(c) =>
        /\ c \in tasks
        /\ exe \in {"gather", "pending", "cleanup"} => c \in awaited
        /\ exe = "over" => exe_failed

\* As long as no two tools were at work at once, each callback writes to the output of its own tool.
OwnOutputs ==
    overlapped = {} =>
        /\ UnderWay \subseteq {bound}
        /\ IsInjective(output) /\ ToSet(output) = {c \in ToolCalls : tool[c] = "over"}
        /\ \A c \in ToolCalls :
              /\ tool[c] = "over" /\ ending[c] \in Returns =>
                     py_out[c].output = c /\ py_out[c].exception = None
              /\ tool[c] # "over" => py_out[c].output = None /\ py_out[c].exception = None

OutcomeInv ==
    /\ RaisedAreMet /\ OwnOutputs
    /\ speech # "replied" => reply = NoReply
    /\ speech = "replied" => ~exe_failed
    /\ OutcomesReachTheirUse

\* Every reply that makes tool calls ends, if the LLM and the tools do.
SpeechEnds == <>SpeechOver

=============================================================================
