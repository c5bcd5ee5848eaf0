--------------------------- MODULE AgentActivity ---------------------------
(***************************************************************************)
(* The speech scheduler of one agent: voice/agent_activity.py together     *)
(* with the SpeechHandle of voice/speech_handle.py.                        *)
(*                                                                         *)
(* Everything runs on one asyncio loop, so the code between two awaits is  *)
(* one step.  Three kinds of coroutines meet here: the main task, which    *)
(* hands the floor to one speech at a time; one task per speech (say,      *)
(* generate_reply, a tool response, a generation of the realtime model)    *)
(* and per hook (on_enter, on_exit); and the callers: the user's code, the *)
(* turn detection, the realtime session, the session that drains.          *)
(***************************************************************************)
EXTENDS Naturals

CONSTANTS
    Handles,        \* the SpeechHandles that can be created (a bound)
    None,           \* Python's None
    LLM,            \* "pipeline" for an llm.LLM, "realtime" for a RealtimeModel
    ServerTurns,    \* does the RealtimeModel detect the turns (capabilities.turn_detection)?
    Calls,          \* what this application and its user do: a subset of AllCalls
    Allow,          \* the values of allow_interruptions it uses
    Priorities,     \* the priorities speeches are scheduled with; the callers pass NORMAL only
    MaxToolSteps    \* VoiceOptions.max_tool_steps

LOW == 0
NORMAL == 5
HIGH == 10

AllCalls == {"say", "generate_reply", "interrupt", "talk_over", "end_turn", "await_in_tool",
             "drain"}

Hooks == {"on_enter", "on_exit"}
Tasks == Handles \cup Hooks

ASSUME ActivityAssumption ==
    /\ Handles \cap Hooks = {}
    /\ None \notin Tasks
    /\ LLM \in {"pipeline", "realtime"}
    /\ ServerTurns \in BOOLEAN
    /\ ServerTurns => LLM = "realtime" /\ Allow = {TRUE}     \* checked by AgentActivity.__init__
    /\ Calls \subseteq AllCalls /\ Allow \subseteq BOOLEAN
    /\ Priorities \subseteq {LOW, NORMAL, HIGH}
    /\ MaxToolSteps \in Nat

VARIABLES
    main,           \* _main_task: none, wait (q_updated), playing, exited
    draining,       \* _draining
    closed,         \* aclose() has run
    q_updated,      \* the event that wakes the main task
    speech_q,       \* the heap _speech_q, as the set of its speeches
    current,        \* _current_speech
    pc,             \* where each speech task or hook task is
    handle,         \* what each SpeechHandle was created with
    interrupted,    \* speeches whose _interrupt_fut is done
    authorized,     \* speeches whose _authorize_fut is done
    playout_done,   \* speeches whose _playout_done_fut is done
    tool,           \* the tool execution (exe_task) of each speech
    awaits,         \* the speech a running tool awaits
    eot,            \* on_end_of_turn: idle, or hook (inside Agent.on_end_of_turn)
    spoken,         \* speeches whose message is in the conversation
    recorded,       \* tool responses whose tool messages are in the chat context
    clock           \* time.time(), as the number of speeches created

vars == <<main, draining, closed, q_updated, speech_q, current, pc, handle, interrupted,
          authorized, playout_done, tool, awaits, eot, spoken, recorded, clock>>

Kinds == {"say", "reply", "rt_reply", "rt_gen"}

SpeechInfo == [kind : Kinds, allow_interruptions : BOOLEAN, priority : {LOW, NORMAL, HIGH},
               time : Nat, step : Nat, parent : Handles \cup {None},
               tools : BOOLEAN,     \* tool_choice is not "none"
               late : BOOLEAN]      \* history: created while the agent was draining

Unborn == [kind |-> "say", allow_interruptions |-> TRUE, priority |-> NORMAL, time |-> 0,
           step |-> 0, parent |-> None, tools |-> FALSE, late |-> FALSE]

Stages == {"none",      \* not created
           "run",       \* a hook's coroutine
           "auth",      \* awaits the authorization, or the interruption
           "request",   \* _realtime_reply_task asks the server for a generation
           "auth_gen",  \* the same wait, in _realtime_generation_task
           "play",      \* forwards text and audio, then waits for the playout
           "clear",     \* interrupted: cancels the forwarding, clears the buffer
           "cancel",    \* interrupted: cancels exe_task
           "tools",     \* awaits exe_task
           "sync",      \* realtime: sends the tool results to the server
           "finished",  \* the coroutine has ended, its callbacks have not run
           "gone"}      \* the callbacks have run

TypeOK ==
    /\ main \in {"none", "wait", "playing", "exited"}
    /\ draining \in BOOLEAN /\ closed \in BOOLEAN /\ q_updated \in BOOLEAN
    /\ speech_q \subseteq Handles
    /\ current \in Handles \cup {None}
    /\ pc \in [Tasks -> Stages]
    /\ handle \in [Handles -> SpeechInfo]
    /\ interrupted \subseteq Handles
    /\ authorized \subseteq Handles
    /\ playout_done \subseteq Handles
    /\ tool \in [Handles -> {"idle", "running", "reply", "last", "silent", "failed"}]
    /\ awaits \in [Handles -> Handles \cup {None}]
    /\ eot \in {"idle", "hook"}
    /\ spoken \subseteq Handles /\ recorded \subseteq Handles
    /\ clock \in Nat

Init ==
    /\ main = "none" /\ draining = FALSE /\ closed = FALSE /\ q_updated = FALSE
    /\ speech_q = {} /\ current = None
    /\ pc = [t \in Tasks |-> "none"]
    /\ handle = [h \in Handles |-> Unborn]
    /\ interrupted = {} /\ authorized = {} /\ playout_done = {}
    /\ tool = [h \in Handles |-> "idle"]
    /\ awaits = [h \in Handles |-> None]
    /\ eot = "idle" /\ spoken = {} /\ recorded = {} /\ clock = 0

----------------------------------------------------------------------------
(* Names for what the code asks of its state *)

\* _speech_tasks: a task is in the list from its creation to its done callbacks.
SpeechTasks == {t \in Tasks : pc[t] \notin {"none", "gone"}}

\* The speeches that wait for the floor.
Waiting == {h \in Handles : pc[h] \in {"auth", "auth_gen"}}

\* The ones whose next step is to speak; a realtime reply first asks the server.
AwaitsFloor(h) ==
    \/ pc[h] = "auth_gen"
    \/ pc[h] = "auth" /\ handle[h].kind # "rt_reply"

\* The speeches that use the audio and text outputs of the session.
Speaking == {h \in Handles : pc[h] \in {"play", "clear"}}

\* Mutant: the last speech scheduled is served first.
BeforeLastIn(g, h) ==
    \/ handle[g].priority < handle[h].priority
    \/ handle[g].priority = handle[h].priority /\ handle[g].time > handle[h].time

\* heapq orders the entries (priority, time, speech): the smallest is popped first.
Before(g, h) ==
    \/ handle[g].priority < handle[h].priority
    \/ handle[g].priority = handle[h].priority /\ handle[g].time < handle[h].time

\* The next identity for SpeechHandle.create(): which one does not matter.
Created == {h \in Handles : pc[h] # "none"}
NewHandle == CHOOSE h \in Handles : h \notin Created
CanCreate == Handles \ Created # {}

Interruptible == {h \in Handles : handle[h].allow_interruptions}

\* SpeechHandle.interrupt() on a speech that allows it: nothing once the speech is done.
Interrupted(S) == interrupted \cup (S \ playout_done)

Current == IF current = None THEN {} ELSE {current}

----------------------------------------------------------------------------
(* Creating and scheduling a speech *)

\* _create_speech_task: the task of speech h starts, waiting for the floor.
CreateSpeechTask(h, info, pcs) ==
    /\ handle' = [handle EXCEPT ![h] = info]
    /\ pc' = [pcs EXCEPT ![h] = IF info.kind = "rt_gen" THEN "auth_gen" ELSE "auth"]
    /\ clock' = clock + 1

\* _schedule_speech raises while draining: the task exists already, nobody will serve it.
ScheduleSpeech(h, bypass_draining) ==
    IF draining /\ ~bypass_draining
    THEN UNCHANGED <<speech_q, q_updated>>
    ELSE /\ speech_q' = speech_q \cup {h}
         /\ q_updated' = TRUE

\* A speech somebody asks for (not a tool response).
NewSpeech(k) ==
    /\ CanCreate
    /\ \E allow \in Allow, p \in Priorities :
          CreateSpeechTask(NewHandle,
              [kind |-> k, allow_interruptions |-> allow, priority |-> p, time |-> clock,
               step |-> 0, parent |-> None, tools |-> TRUE, late |-> draining], pc)
    /\ ScheduleSpeech(NewHandle, FALSE)

ReplyKind == IF LLM = "pipeline" THEN "reply" ELSE "rt_reply"

\* say(), through AgentSession.say, which turns to the next activity while draining.
Say ==
    /\ "say" \in Calls
    /\ ~draining
    /\ NewSpeech("say")
    /\ UNCHANGED <<main, draining, closed, current, interrupted, authorized, playout_done,
                   tool, awaits, eot, spoken, recorded>>

\* generate_reply(): refused while a speech that is not interrupted holds the floor.
GenerateReply ==
    /\ Current \subseteq interrupted
    /\ NewSpeech(ReplyKind)

\* AgentSession.generate_reply turns to the next activity while draining.
UserGenerateReply ==
    /\ "generate_reply" \in Calls
    /\ ~draining
    /\ GenerateReply
    /\ UNCHANGED <<main, draining, closed, current, interrupted, authorized, playout_done,
                   tool, awaits, eot, spoken, recorded>>

\* _on_generation_created: the server answers a turn it detected by itself.
OnGenerationCreated ==
    /\ "end_turn" \in Calls
    /\ LLM = "realtime" /\ ServerTurns
    /\ main # "none" /\ ~closed
    /\ ~draining
    /\ NewSpeech("rt_gen")
    /\ UNCHANGED <<main, draining, closed, current, interrupted, authorized, playout_done,
                   tool, awaits, eot, spoken, recorded>>

----------------------------------------------------------------------------
(* Interruptions and user turns *)

\* interrupt(): the current speech, then the queued ones; the first speech that does not
\* allow it raises, and the ones after it in the heap's list keep going.
Interrupt ==
    /\ "interrupt" \in Calls
    /\ ~closed
    /\ Current \subseteq Interruptible
    /\ \E S \in SUBSET (speech_q \cap Interruptible) :
          /\ speech_q \subseteq Interruptible => S = speech_q
          /\ interrupted' = Interrupted(Current \cup S)
    /\ UNCHANGED <<main, draining, closed, q_updated, speech_q, current, pc, handle,
                   authorized, playout_done, tool, awaits, eot, spoken, recorded, clock>>

\* on_vad_inference_done: the user has been talking over the current speech.
OnVadInferenceDone ==
    /\ "talk_over" \in Calls
    /\ main # "none" /\ ~closed
    /\ current # None /\ current \notin interrupted /\ current \in Interruptible
    /\ interrupted' = Interrupted({current})
    /\ UNCHANGED <<main, draining, closed, q_updated, speech_q, current, pc, handle,
                   authorized, playout_done, tool, awaits, eot, spoken, recorded, clock>>

\* on_end_of_turn up to its call of Agent.on_end_of_turn.  A current speech that does not
\* allow interruptions makes it skip the turn.
OnEndOfTurn ==
    /\ "end_turn" \in Calls
    /\ ~ServerTurns /\ eot = "idle"
    /\ main # "none" /\ ~closed
    /\ Current \subseteq Interruptible
    /\ interrupted' = Interrupted(Current)
    /\ eot' = IF draining THEN "idle" ELSE "hook"
    /\ UNCHANGED <<main, draining, closed, q_updated, speech_q, current, pc, handle,
                   authorized, playout_done, tool, awaits, spoken, recorded, clock>>

\* Mutant: draining is not read again.
AfterUserHookStale == GenerateReply

\* The rest of on_end_of_turn: draining is read again after the await.
AfterUserHook == ~draining /\ GenerateReply

OnEndOfTurnResumes ==
    /\ eot = "hook"
    /\ eot' = "idle"
    /\ \/ AfterUserHook
       \/ /\ draining \/ ~(Current \subseteq interrupted) \/ ~CanCreate
          /\ UNCHANGED <<q_updated, speech_q, pc, handle, clock>>
    /\ UNCHANGED <<main, draining, closed, current, interrupted, authorized, playout_done,
                   tool, awaits, spoken, recorded>>

\* The user speaks again: AudioRecognition cancels the end-of-turn task.
OnEndOfTurnCancelled ==
    /\ eot = "hook"
    /\ eot' = "idle"
    /\ UNCHANGED <<main, draining, closed, q_updated, speech_q, current, pc, handle,
                   interrupted, authorized, playout_done, tool, awaits, spoken, recorded, clock>>

----------------------------------------------------------------------------
(* The main task *)

\* Mutant: the main task does not look at the speech tasks.
MayExitEarly == draining

\* Only speech tasks can schedule a tool response while draining: without one, it is over.
MayExit == draining /\ SpeechTasks = {}

\* _main_task from one await to the next: the speeches that are done already are popped,
\* authorized and passed over in the same step.
ServeQueue ==
    LET live == speech_q \ playout_done
    IN  \/ \E h \in live :
              LET popped == {g \in speech_q : g = h \/ Before(g, h)}
              IN  /\ \A g \in live \ {h} : Before(h, g)
                  /\ speech_q' = speech_q \ popped
                  /\ authorized' = authorized \cup popped
                  /\ current' = h
                  /\ main' = "playing"
                  /\ UNCHANGED q_updated
        \/ /\ live = {}
           /\ speech_q' = {}
           /\ authorized' = authorized \cup speech_q
           /\ current' = None
           /\ IF MayExit
              THEN main' = "exited" /\ UNCHANGED q_updated
              ELSE main' = "wait" /\ q_updated' = FALSE

MainWakes == main = "wait" /\ q_updated /\ ServeQueue

\* Mutant: the main task does not wait for the playout.
MainDoesNotWait == main = "playing" /\ ServeQueue

MainSpeechDone == main = "playing" /\ current \in playout_done /\ ServeQueue

MainTask ==
    /\ MainWakes \/ MainSpeechDone
    /\ UNCHANGED <<draining, closed, pc, handle, interrupted, playout_done, tool, awaits,
                   eot, spoken, recorded, clock>>

----------------------------------------------------------------------------
(* The speech tasks *)

Goto(t, stage) == pc' = [pc EXCEPT ![t] = stage]

\* Mutant: the task does not look at interrupted after its wait.
BeginPlayUnchecked(h) ==
    /\ AwaitsFloor(h)
    /\ h \in authorized \cup interrupted
    /\ Goto(h, "play") \/ Goto(h, "finished")
    /\ UNCHANGED <<main, draining, closed, q_updated, speech_q, current, handle, interrupted,
                   authorized, playout_done, tool, awaits, eot, spoken, recorded, clock>>

\* _tts_task, _pipeline_reply_task or _realtime_generation_task has the floor.  The nodes of
\* the agent are user code: one that raises ends the task.
BeginPlay(h) ==
    /\ AwaitsFloor(h)
    /\ h \in authorized /\ h \notin interrupted
    /\ Goto(h, "play") \/ Goto(h, "finished")
    /\ UNCHANGED <<main, draining, closed, q_updated, speech_q, current, handle, interrupted,
                   authorized, playout_done, tool, awaits, eot, spoken, recorded, clock>>

\* Interrupted before it could speak.
GiveUp(h) ==
    /\ AwaitsFloor(h)
    /\ h \in interrupted
    /\ Goto(h, "finished")
    /\ UNCHANGED <<main, draining, closed, q_updated, speech_q, current, handle, interrupted,
                   authorized, playout_done, tool, awaits, eot, spoken, recorded, clock>>

\* _realtime_reply_task does not look at interrupted: either way it asks the server.
RealtimeRequest(h) ==
    /\ pc[h] = "auth" /\ handle[h].kind = "rt_reply"
    /\ h \in authorized \cup interrupted
    /\ Goto(h, "request")
    /\ UNCHANGED <<main, draining, closed, q_updated, speech_q, current, handle, interrupted,
                   authorized, playout_done, tool, awaits, eot, spoken, recorded, clock>>

\* The server's generation arrives, or update_chat_ctx or generate_reply raises.
RealtimeAnswer(h) ==
    /\ pc[h] = "request"
    /\ Goto(h, "auth_gen") \/ Goto(h, "finished")
    /\ UNCHANGED <<main, draining, closed, q_updated, speech_q, current, handle, interrupted,
                   authorized, playout_done, tool, awaits, eot, spoken, recorded, clock>>

\* Mutant: the tool messages of an interrupted response are dropped.
RecordUnlessInterrupted(h) ==
    recorded' = IF handle[h].kind = "reply" /\ handle[h].parent # None /\ h \notin interrupted
                THEN recorded \cup {h} ELSE recorded

\* The tool messages a tool response answers enter the chat context (pipeline only).
Record(h) ==
    recorded' = IF handle[h].kind = "reply" /\ handle[h].parent # None
                THEN recorded \cup {h} ELSE recorded

\* Mutant: a reply is marked done by the callbacks of its task only.
PlayEndsLate(h) ==
    /\ pc[h] = "play" /\ h \notin interrupted
    /\ spoken' = spoken \cup {h}
    /\ Record(h)
    /\ Goto(h, IF handle[h].kind = "say" THEN "finished" ELSE "tools")
    /\ UNCHANGED <<main, draining, closed, q_updated, speech_q, current, handle, interrupted,
                   authorized, playout_done, tool, awaits, eot, clock>>

\* The playout ends without an interruption.  A reply is marked done here, before its tools
\* are awaited; a say is done when its task is.
PlayEnds(h) ==
    /\ pc[h] = "play" /\ h \notin interrupted
    /\ spoken' = spoken \cup {h}
    /\ Record(h)
    /\ IF handle[h].kind = "say"
       THEN Goto(h, "finished") /\ UNCHANGED playout_done
       ELSE Goto(h, "tools") /\ playout_done' = playout_done \cup {h}
    /\ UNCHANGED <<main, draining, closed, q_updated, speech_q, current, handle, interrupted,
                   authorized, tool, awaits, eot, clock>>

\* Mutant: the speech is marked done before its buffer is cleared.
PlayInterruptedDone(h) ==
    /\ pc[h] = "play" /\ h \in interrupted
    /\ Goto(h, "clear")
    /\ Record(h)
    /\ playout_done' = playout_done \cup {h}
    /\ UNCHANGED <<main, draining, closed, q_updated, speech_q, current, handle, interrupted,
                   authorized, tool, awaits, eot, spoken, clock>>

\* The speech is interrupted: the forwarding is cancelled and the buffer cleared.
PlayInterrupted(h) ==
    /\ pc[h] = "play" /\ h \in interrupted
    /\ Goto(h, "clear")
    /\ Record(h)
    /\ UNCHANGED <<main, draining, closed, q_updated, speech_q, current, handle, interrupted,
                   authorized, playout_done, tool, awaits, eot, spoken, clock>>

\* The audio output has confirmed the interrupted playout.  A reply keeps the truncated text
\* only with an audio output; the realtime message waits for the tools.
BufferCleared(h) ==
    /\ pc[h] = "clear"
    /\ CASE handle[h].kind = "say" ->
              spoken' = spoken \cup {h} /\ Goto(h, "finished") /\ UNCHANGED playout_done
         [] handle[h].kind = "reply" ->
              /\ spoken' \in {spoken, spoken \cup {h}}
              /\ Goto(h, "cancel") /\ playout_done' = playout_done \cup {h}
         [] OTHER ->
              Goto(h, "cancel") /\ playout_done' = playout_done \cup {h} /\ UNCHANGED spoken
    /\ UNCHANGED <<main, draining, closed, q_updated, speech_q, current, handle, interrupted,
                   authorized, tool, awaits, eot, recorded, clock>>

\* Mutant: the message of an interrupted reply is added after the wait for its tools.
ToolsCancelledThenSpoken(h) ==
    /\ pc[h] = "cancel" /\ tool[h] # "running"
    /\ spoken' = spoken \cup {h}
    /\ Goto(h, "finished")
    /\ UNCHANGED <<main, draining, closed, q_updated, speech_q, current, handle, interrupted,
                   authorized, playout_done, tool, awaits, eot, recorded, clock>>

\* cancel_and_wait(exe_task) returns: no new tool starts, a running one is waited for.
ToolsCancelled(h) ==
    /\ pc[h] = "cancel" /\ tool[h] # "running"
    /\ spoken' = IF handle[h].kind = "reply" THEN spoken ELSE spoken \cup {h}
    /\ Goto(h, "finished")
    /\ UNCHANGED <<main, draining, closed, q_updated, speech_q, current, handle, interrupted,
                   authorized, playout_done, tool, awaits, eot, recorded, clock>>

----------------------------------------------------------------------------
(* The tools of a speech, and the speech that answers with their results *)

\* The model calls a tool: exe_task starts it unless tool_choice is "none".
ToolStarts(h) ==
    /\ pc[h] = "play" /\ handle[h].kind # "say" /\ handle[h].tools /\ tool[h] = "idle"
    /\ tool' = [tool EXCEPT ![h] = "running"]
    /\ UNCHANGED <<main, draining, closed, q_updated, speech_q, current, pc, handle, interrupted,
                   authorized, playout_done, awaits, eot, spoken, recorded, clock>>

\* A tool's code awaits a speech: its own, or one it or anybody else has scheduled.
ToolAwaits(h, g) ==
    /\ "await_in_tool" \in Calls
    /\ tool[h] = "running" /\ awaits[h] \in playout_done \cup {None}
    /\ g \in Created \ playout_done
    /\ awaits' = [awaits EXCEPT ![h] = g]
    /\ UNCHANGED <<main, draining, closed, q_updated, speech_q, current, pc, handle, interrupted,
                   authorized, playout_done, tool, eot, spoken, recorded, clock>>

\* exe_task ends: results the model is told of, no such result, or an exception.
ToolEnds(h) ==
    /\ tool[h] = "running" /\ awaits[h] \in playout_done \cup {None}
    /\ \E r \in {"reply", "silent", "failed"} : tool' = [tool EXCEPT ![h] = r]
    /\ awaits' = [awaits EXCEPT ![h] = None]
    /\ UNCHANGED <<main, draining, closed, q_updated, speech_q, current, pc, handle, interrupted,
                   authorized, playout_done, eot, spoken, recorded, clock>>

\* Is there a tool result to answer?  (CanCreate bounds the number of speeches.)
Answers(h) == tool[h] = "reply" /\ handle[h].step < MaxToolSteps /\ CanCreate

\* Mutant: only a switch of agent takes the tools away.
LastResponseOfSwitch(agent_switch) == agent_switch

\* Is the response to be the last one (tool_choice "none")?
LastResponse(agent_switch) == draining \/ agent_switch

\* The speech that carries on after the tools of h: it may be scheduled while draining.
ToolResponse(h, tools) ==
    /\ CreateSpeechTask(NewHandle,
           [kind |-> handle[h].kind, allow_interruptions |-> handle[h].allow_interruptions,
            priority |-> NORMAL, time |-> clock, step |-> handle[h].step + 1, parent |-> h,
            tools |-> tools, late |-> draining],
           [pc EXCEPT ![h] = "finished"])
    /\ ScheduleSpeech(NewHandle, TRUE)

ToolsFinished(h) ==
    /\ pc[h] = "tools" /\ tool[h] # "running"
    /\ IF ~Answers(h)
       THEN Goto(h, "finished") /\ UNCHANGED <<q_updated, speech_q, handle, tool, clock>>
       ELSE \E agent_switch \in BOOLEAN :
              IF LLM = "pipeline"
              THEN ToolResponse(h, ~LastResponse(agent_switch)) /\ UNCHANGED tool
              ELSE /\ Goto(h, "sync")
                   /\ tool' = IF LastResponse(agent_switch)
                              THEN [tool EXCEPT ![h] = "last"] ELSE tool
                   /\ UNCHANGED <<q_updated, speech_q, handle, clock>>
    /\ UNCHANGED <<main, draining, closed, current, interrupted, authorized, playout_done,
                   awaits, eot, spoken, recorded>>

\* Realtime: the results are on the server (or failed to get there), the answer is scheduled
\* with the draining flag read before the await.
ToolResultsSent(h) ==
    /\ pc[h] = "sync"
    /\ IF CanCreate
       THEN ToolResponse(h, tool[h] # "last")
       ELSE Goto(h, "finished") /\ UNCHANGED <<q_updated, speech_q, handle, clock>>
    /\ UNCHANGED <<main, draining, closed, current, interrupted, authorized, playout_done,
                   tool, awaits, eot, spoken, recorded>>

----------------------------------------------------------------------------
(* The life of the activity *)

\* start(): the main task, the recognition and on_enter.
Start ==
    /\ main = "none"
    /\ main' = "wait"
    /\ Goto("on_enter", "run")
    /\ UNCHANGED <<draining, closed, q_updated, speech_q, current, handle, interrupted,
                   authorized, playout_done, tool, awaits, eot, spoken, recorded, clock>>

\* drain() up to its wait for the main task.
Drain ==
    /\ "drain" \in Calls
    /\ main # "none" /\ ~draining
    /\ draining' = TRUE
    /\ q_updated' = TRUE
    /\ Goto("on_exit", "run")
    /\ UNCHANGED <<main, closed, speech_q, current, handle, interrupted, authorized,
                   playout_done, tool, awaits, eot, spoken, recorded, clock>>

\* aclose(), which _update_activity_task calls once drain() has returned.
AClose ==
    /\ draining /\ main = "exited" /\ ~closed
    /\ closed' = TRUE
    /\ eot' = "idle"
    /\ UNCHANGED <<main, draining, q_updated, speech_q, current, pc, handle, interrupted,
                   authorized, playout_done, tool, awaits, spoken, recorded, clock>>

HookEnds(t) ==
    /\ pc[t] = "run"
    /\ Goto(t, "finished")
    /\ UNCHANGED <<main, draining, closed, q_updated, speech_q, current, handle, interrupted,
                   authorized, playout_done, tool, awaits, eot, spoken, recorded, clock>>

\* Mutants: the callbacks miss the check of owned_speech_handle, the handle, or the wake-up.
CallbacksOfAnyTask(t) ==
    /\ pc[t] = "finished"
    /\ Goto(t, "gone")
    /\ playout_done' = playout_done \cup {t}
    /\ q_updated' = TRUE
    /\ UNCHANGED <<main, draining, closed, speech_q, current, handle, interrupted, authorized,
                   tool, awaits, eot, spoken, recorded, clock>>

CallbacksWithoutHandle(t) ==
    /\ pc[t] = "finished"
    /\ Goto(t, "gone")
    /\ q_updated' = TRUE
    /\ UNCHANGED <<main, draining, closed, speech_q, current, handle, interrupted, authorized,
                   playout_done, tool, awaits, eot, spoken, recorded, clock>>

CallbacksWithoutWakeUp(t) ==
    /\ pc[t] = "finished"
    /\ Goto(t, "gone")
    /\ playout_done' = playout_done \cup ({t} \cap Handles)
    /\ UNCHANGED <<main, draining, closed, q_updated, speech_q, current, handle, interrupted,
                   authorized, tool, awaits, eot, spoken, recorded, clock>>

\* The done callbacks of a speech task, in the order they were added: out of _speech_tasks,
\* the owned handle is done, the main task is woken.
TaskCallbacks(t) ==
    /\ pc[t] = "finished"
    /\ Goto(t, "gone")
    /\ playout_done' = playout_done \cup ({t} \cap Handles)
    /\ q_updated' = TRUE
    /\ UNCHANGED <<main, draining, closed, speech_q, current, handle, interrupted, authorized,
                   tool, awaits, eot, spoken, recorded, clock>>

----------------------------------------------------------------------------

SpeechStep(h) ==
    \/ BeginPlay(h) \/ GiveUp(h) \/ RealtimeRequest(h) \/ RealtimeAnswer(h)
    \/ PlayEnds(h) \/ PlayInterrupted(h) \/ BufferCleared(h) \/ ToolsCancelled(h)
    \/ ToolsFinished(h) \/ ToolResultsSent(h)

Callers ==
    \/ Say \/ UserGenerateReply \/ OnGenerationCreated
    \/ Interrupt \/ OnVadInferenceDone
    \/ OnEndOfTurn \/ OnEndOfTurnResumes \/ OnEndOfTurnCancelled

Next ==
    \/ Start \/ Drain \/ AClose \/ MainTask \/ Callers
    \/ \E h \in Handles : SpeechStep(h) \/ ToolStarts(h) \/ ToolEnds(h)
    \/ \E h, g \in Handles : ToolAwaits(h, g)
    \/ \E t \in Hooks : HookEnds(t)
    \/ \E t \in Tasks : TaskCallbacks(t)

Spec == Init /\ [][Next]_vars

(***************************************************************************)
(* The loop runs every ready coroutine.  What a speech task waits for does *)
(* come: the models end their streams, the audio output confirms every     *)
(* playout, a tool returns once what it awaits is done.  Nobody has to     *)
(* call say, interrupt or drain.                                           *)
(***************************************************************************)
Fairness ==
    /\ WF_vars(Start) /\ WF_vars(MainTask)
    /\ \A h \in Handles : WF_vars(SpeechStep(h)) /\ WF_vars(ToolEnds(h))
    /\ \A t \in Hooks : WF_vars(HookEnds(t))
    /\ \A t \in Tasks : WF_vars(TaskCallbacks(t))

FairSpec == Spec /\ Fairness

----------------------------------------------------------------------------
(* Safety *)

\* The audio and text outputs belong to one speech: whoever forwards to them, or is still
\* clearing them after an interruption, is the speech the main task authorized, and the
\* main task gives the floor to nobody else until then.
OneVoice == \A h \in Speaking : current = h /\ main = "playing" /\ h \notin playout_done

\* No speech task is left behind: one that still waits for the floor is in the queue of a
\* main task that will serve it.
NobodyForgotten ==
    \A h \in Waiting \ (interrupted \cup authorized) : h \in speech_q /\ main # "exited"

\* When drain() returns, everything that was scheduled has been played or given up, tool
\* responses included, and no task of the agent is left running.
DrainedClean == main = "exited" => speech_q = {} /\ current = None /\ SpeechTasks = {}

\* Speeches of the same priority get the floor in the order they were scheduled.
NoOvertaking ==
    \A g, h \in Created :
        /\ handle[g].priority = handle[h].priority
        /\ handle[g].time < handle[h].time
        /\ h \in authorized
        => g \in authorized

\* The tools cannot keep a draining agent alive: the tool response scheduled while draining
\* ("the last tool response") starts no tools, so it has no response of its own.
LastToolResponse ==
    \A h \in Created : handle[h].parent # None => ~handle[handle[h].parent].late

\* The model never reads an answer to tools without the calls and the results it answers.
AnswersFollowTools ==
    \A h \in spoken : handle[h].kind = "reply" /\ handle[h].parent # None => h \in recorded

(***************************************************************************)
(* Why the floor is safe: the inductive invariant.  A speech that exists   *)
(* is in the queue or has been served; every speech served but the current *)
(* one is done; a speech is not done as long as it may use the outputs.    *)
(***************************************************************************)

\* Hooks and speeches keep to their own stages.
StagesKept ==
    /\ \A h \in Handles : pc[h] # "run"
    /\ \A t \in Hooks : pc[t] \in {"none", "run", "finished", "gone"}

\* A SpeechHandle that was not created is nowhere.
UnbornNowhere ==
    \A h \in Handles : pc[h] = "none" =>
        h \notin speech_q /\ h \notin authorized /\ h \notin playout_done

\* A speech waits in the queue until the main task authorizes it, once.
QueuedOrServed ==
    \A h \in Handles : pc[h] # "none" => (h \in speech_q <=> h \notin authorized)

\* The main task passes from a speech to the next when it is done.
ServedInTurn == \A h \in authorized : h = current \/ h \in playout_done

HolderServed ==
    /\ current # None => current \in authorized
    /\ current # None <=> main = "playing"

\* A task that waits, asks, plays or clears has not released its handle.
NotDoneEarly ==
    \A h \in Handles : pc[h] \in {"auth", "request", "auth_gen", "play", "clear"}
        => h \notin playout_done

SpeakingServed == \A h \in Handles : pc[h] \in {"play", "clear"} => h \in authorized

\* The main task leaves when no task is left that could schedule a speech.
NothingAfterExit ==
    /\ main = "exited" => draining /\ speech_q = {}
    /\ main = "exited" => \A t \in Tasks : pc[t] \in {"none", "gone"}
    /\ main = "none" => ~draining

Inv ==
    /\ TypeOK /\ StagesKept /\ UnbornNowhere /\ QueuedOrServed /\ ServedInTurn
    /\ HolderServed /\ NotDoneEarly /\ SpeakingServed /\ NothingAfterExit

\* What an interrupted speech passes through; a tool response records its tools before that.
InterruptedInOrder ==
    \A h \in Handles :
        /\ pc[h] \in {"clear", "cancel"} => h \in interrupted
        /\ pc[h] = "cancel" => handle[h].kind # "say"
        /\ pc[h] = "clear" /\ handle[h].kind = "reply" /\ handle[h].parent # None => h \in recorded

HistoryInv ==
    /\ spoken \cup recorded \subseteq Created
    /\ InterruptedInOrder /\ AnswersFollowTools

\* Tools run for a speech that may call them, and one created while draining may not: it has no
\* answer of its own.  Only a realtime model has results to send ("sync").
LateWithoutTools ==
    /\ \A h \in Handles : tool[h] # "idle" => h \in Created /\ handle[h].tools
    /\ \A h \in Created : handle[h].late => ~handle[h].tools
    /\ \A h \in Created : handle[h].parent \in Created \cup {None}
    /\ \A h \in Handles : pc[h] # "sync"

(* Action properties *)

\* A speech that was interrupted before it had the floor stays silent.
SilencedStaysSilent ==
    [][\A h \in Handles : h \in interrupted /\ pc'[h] = "play" => pc[h] = "play"]_vars

\* A speech enters the conversation while it has the floor, so the conversation is in the
\* order the user heard (not so for an interrupted realtime message, which waits for tools).
SpokenInTurn ==
    [][\A h \in spoken' \ spoken :
          \/ current = h
          \/ handle[h].kind \in {"rt_reply", "rt_gen"} /\ h \in interrupted]_vars

(* Liveness *)

\* Whoever awaits a SpeechHandle gets an answer: every speech ends.
EverySpeechEnds == \A h \in Handles : (h \in Created) ~> (h \in playout_done)

\* drain() returns.
DrainReturns == draining ~> (main = "exited")

(* What the callers are promised *)

Floor == INSTANCE SpeechFloor WITH
    Speeches <- Handles, Nobody <- None,
    asked <- Created, floor <- current, speaking <- Speaking, over <- playout_done

\* The scheduler, with its queue, tasks, hooks, tools and drains, does what SpeechFloor says.
KeepsThePromise == Floor!Spec

=============================================================================
