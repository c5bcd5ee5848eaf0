----------------------------- MODULE ReplyNodes -----------------------------
(***************************************************************************)
(* A reply between its model and the outputs: that of an LLM pipeline, then *)
(* the generation of a realtime model.                                     *)
(***************************************************************************)
EXTENDS Naturals, Sequences

----------------------------------------------------------------------------
(***************************************************************************)
(* One reply as it runs through the nodes of the agent (voice/agent.py     *)
(* llm_node, tts_node, transcription_node): the tasks perform_* of         *)
(* voice/generation.py that drive them and pass words, calls and frames    *)
(* through channels, and the part of _pipeline_reply_task                  *)
(* (voice/agent_activity.py) that starts, awaits and cancels them.         *)
(* Words and frames keep their order in a channel, so each stage is known  *)
(* by how many it has taken; one frame is one spoken word.  The LLM, the   *)
(* TTS stream and the outputs are external here.                           *)
(***************************************************************************)

CONSTANT MaxReplyWords       \* bound: words of the reply

ASSUME ReplyNodesAssumption == MaxReplyWords \in Nat

VARIABLES
    step,           \* of the reply: thinking (not authorized), playing, playout, over
    stopped,        \* the speech is interrupted
    form,           \* what llm_node gives: stream, string, nothing
    hasAudio,       \* there is an audio output
    running,        \* the tasks not done: of llm, input (tts_node's _forward_input), tts, text, audio
    words,          \* sent to text_ch
    ttsGiven,         \* words the TTS stream was given
    inputEnded,     \* and its end_input()
    frames,         \* sent to audio_ch
    shown,          \* words of text_out.text
    captured,       \* frames given to the audio output
    flushes,        \* flush() of the text and of the audio output
    failures,       \* llm, tts: which of them raised
    message         \* words of the message added to the conversation; 0 is no message

nodesVars == <<step, stopped, form, hasAudio, running, words, ttsGiven, inputEnded, frames,
               shown, captured, flushes, failures, message>>

replyState == <<step, stopped, form, hasAudio, message>>
ttsSide == <<ttsGiven, inputEnded, frames>>
outSide == <<shown, captured, flushes>>

ReplyNodesTypeOK ==
    /\ step \in {"thinking", "playing", "playout", "over"} /\ stopped \in BOOLEAN
    /\ form \in {"stream", "string", "nothing"} /\ hasAudio \in BOOLEAN
    /\ running \subseteq {"llm", "input", "tts", "text", "audio"}
    /\ words \in 0 .. MaxReplyWords
    /\ ttsGiven \in 0 .. words /\ inputEnded \in BOOLEAN /\ frames \in 0 .. ttsGiven
    /\ shown \in 0 .. words /\ captured \in 0 .. frames
    /\ flushes \in [{"text", "audio"} -> 0 .. 1] /\ failures \subseteq {"llm", "tts"}
    /\ message \in 0 .. MaxReplyWords

\* perform_llm_inference, and perform_tts_inference when there is an audio output.
ReplyNodesInit ==
    /\ step = "thinking" /\ stopped = FALSE
    /\ form \in {"stream", "string", "nothing"} /\ hasAudio \in BOOLEAN
    /\ running = IF hasAudio THEN {"llm", "input", "tts"} ELSE {"llm"}
    /\ words = 0 /\ ttsGiven = 0 /\ inputEnded = FALSE /\ frames = 0
    /\ shown = 0 /\ captured = 0 /\ flushes = [o \in {"text", "audio"} |-> 0]
    /\ failures = {} /\ message = 0

Runs(t) == t \in running
TaskOver(t) == running' = running \ {t}

-----------------------------------------------------------------------------
(* perform_llm_inference and llm_node *)

\* A chunk with text.  (The calls go to function_ch: ToolExecution.)
LLMSays ==
    /\ Runs("llm") /\ form = "stream"
    /\ words < MaxReplyWords /\ words' = words + 1
    /\ UNCHANGED <<replyState, running, ttsSide, outSide, failures>>

\* The end of the answer, whatever its form.  The done callbacks close both channels.
LLMAnswered ==
    /\ Runs("llm") /\ TaskOver("llm")
    /\ words' = IF form = "string" /\ MaxReplyWords > 0 THEN 1 ELSE words
    /\ UNCHANGED <<replyState, ttsSide, outSide, failures>>

\* The error is logged and ends the task; its channels are closed like those of a whole answer.
LLMBreaks ==
    /\ Runs("llm") /\ TaskOver("llm")
    /\ failures' = failures \cup {"llm"}
    /\ UNCHANGED <<replyState, words, ttsSide, outSide>>

TextChEnds(taken) == taken = words /\ ~Runs("llm")

-----------------------------------------------------------------------------
(* perform_tts_inference and tts_node *)

\* _forward_input: a word from its copy of the text (itertools.tee).
TTSForwards ==
    /\ Runs("input") /\ ttsGiven < words
    /\ ttsGiven' = ttsGiven + 1
    /\ UNCHANGED <<replyState, running, words, inputEnded, frames, outSide, failures>>

\* Mutant of TTSInputEnds: the stream is not told that the text is over.
TTSInputEndsUntold ==
    /\ Runs("input") /\ TextChEnds(ttsGiven) /\ TaskOver("input")
    /\ UNCHANGED <<replyState, words, ttsSide, outSide, failures>>

\* _forward_input: end_input().
TTSInputEnds ==
    /\ Runs("input") /\ TextChEnds(ttsGiven) /\ TaskOver("input")
    /\ inputEnded' = TRUE
    /\ UNCHANGED <<replyState, words, ttsGiven, frames, outSide, failures>>

\* The TTS stream makes a frame, which goes through audio_ch.
TTSSpeaks ==
    /\ Runs("tts") /\ frames < ttsGiven
    /\ frames' = frames + 1
    /\ UNCHANGED <<replyState, running, words, ttsGiven, inputEnded, outSide, failures>>

TTSDone ==
    /\ Runs("tts") /\ inputEnded /\ frames = ttsGiven
    /\ TaskOver("tts")
    /\ UNCHANGED <<replyState, words, ttsSide, outSide, failures>>

\* The stream raises in tts_node: its forwarding is cancelled, audio_ch closed.
TTSBreaks ==
    /\ Runs("tts")
    /\ running' = running \ {"tts", "input"}
    /\ failures' = failures \cup {"tts"}
    /\ UNCHANGED <<replyState, words, ttsSide, outSide>>

-----------------------------------------------------------------------------
(* perform_text_forwarding with transcription_node, perform_audio_forwarding *)

TextForwards ==
    /\ Runs("text") /\ shown < words
    /\ shown' = shown + 1
    /\ UNCHANGED <<replyState, running, words, ttsSide, captured, flushes, failures>>

AudioForwards ==
    /\ Runs("audio") /\ captured < frames
    /\ captured' = captured + 1
    /\ UNCHANGED <<replyState, running, words, ttsSide, shown, flushes, failures>>

\* The finally clauses: the output is flushed however the task ends.
ForwardingEnds(tasks) ==
    /\ running' = running \ tasks
    /\ flushes' = [o \in {"text", "audio"} |->
                      IF o \in tasks \cap running THEN flushes[o] + 1 ELSE flushes[o]]

TextForwarded ==
    /\ Runs("text") /\ TextChEnds(shown) /\ ForwardingEnds({"text"})
    /\ UNCHANGED <<replyState, words, ttsSide, shown, captured, failures>>

AudioForwarded ==
    /\ Runs("audio") /\ captured = frames /\ ~Runs("tts") /\ ForwardingEnds({"audio"})
    /\ UNCHANGED <<replyState, words, ttsSide, shown, captured, failures>>

-----------------------------------------------------------------------------
(* _pipeline_reply_task *)

\* The speech is authorized: the forwarding begins.
PlayBegins ==
    /\ step = "thinking" /\ ~stopped
    /\ step' = "playing"
    /\ running' = running \cup (IF hasAudio THEN {"text", "audio"} ELSE {"text"})
    /\ UNCHANGED <<stopped, form, hasAudio, message, words, ttsSide, outSide, failures>>

StopSpeech ==
    /\ step # "over" /\ ~stopped /\ stopped' = TRUE
    /\ UNCHANGED <<step, form, hasAudio, message, running, words, ttsSide, outSide, failures>>

\* Mutant of TasksAwaited: the forwarding of the audio was not appended to the tasks.
TasksAwaitedButAudio == running \subseteq {"audio"}

\* tasks: the gather returns when all are done, raised or not.
TasksAwaited == running = {}

TasksForwarded ==
    /\ step = "playing" /\ ~stopped /\ TasksAwaited
    /\ step' = "playout"
    /\ UNCHANGED <<stopped, form, hasAudio, message, running, words, ttsSide, outSide, failures>>

PlayedOutWhole ==
    /\ step = "playout" /\ ~stopped
    /\ step' = "over" /\ message' = shown
    /\ UNCHANGED <<stopped, form, hasAudio, running, words, ttsSide, outSide, failures>>

\* Interrupted before it was authorized: nothing is left of the reply.
StoppedEarly ==
    /\ step = "thinking" /\ stopped
    /\ step' = "over" /\ running' = {}
    /\ UNCHANGED <<stopped, form, hasAudio, message, words, ttsSide, outSide, failures>>

\* truncate_message: the words said in the time played, at STANDARD_SPEECH_RATE per word.
TruncateMessage(text, played) == IF text <= played THEN text ELSE played

\* Interrupted while it plays: the tasks are cancelled, and what was played of the text goes
\* into the conversation; of a reply without audio, nothing does.
StoppedPlaying ==
    /\ step \in {"playing", "playout"} /\ stopped
    /\ step' = "over"
    /\ ForwardingEnds(running)
    /\ \E played \in 0 .. MaxReplyWords :
          message' = IF hasAudio THEN TruncateMessage(shown, played) ELSE message
    /\ UNCHANGED <<stopped, form, hasAudio, words, ttsSide, shown, captured, failures>>

NodeSteps ==
    \/ LLMAnswered \/ TTSForwards \/ TTSInputEnds \/ TTSSpeaks \/ TTSDone
    \/ TextForwards \/ AudioForwards \/ TextForwarded \/ AudioForwarded
    \/ PlayBegins \/ TasksForwarded \/ PlayedOutWhole \/ StoppedEarly \/ StoppedPlaying

ReplyNodesNext == NodeSteps \/ LLMSays \/ LLMBreaks \/ TTSBreaks \/ StopSpeech

\* Every task of the reply runs, the LLM and the TTS come to an end of what they were given
\* (their timeouts see to it), and the queue authorizes the speech.
ReplyNodesFairness == WF_nodesVars(NodeSteps)

ReplyNodesSpec == ReplyNodesInit /\ [][ReplyNodesNext]_nodesVars /\ ReplyNodesFairness

-----------------------------------------------------------------------------
\* A reply nobody stopped is over only when every word the LLM sent was shown and is in the
\* conversation and, unless the TTS failed, was spoken (_pipeline_reply_task).
ReplySaysAll ==
    step = "over" /\ ~stopped =>
        /\ shown = words /\ message = words
        /\ hasAudio /\ "tts" \notin failures => captured = words

\* A reply that began to play flushes each of its outputs exactly once, whatever ended it:
\* the playout of its segment is waited for on that flush (generation.py, the finally clauses).
FlushedOnce ==
    step = "over" /\ (~stopped \/ flushes["text"] + flushes["audio"] > 0) =>
        flushes = [text |-> 1, audio |-> IF hasAudio THEN 1 ELSE 0]

\* What cannot last: whatever fails, every reply comes to its end.
NodesPending == step # "over"

(* The inductive invariant *)

\* A reply whose tasks were not cancelled.
Uncut == step # "over" \/ ~stopped

\* The tasks of a reply are over with it, and the forwarding ones begin with the floor.
TasksOfSteps ==
    /\ step \in {"playout", "over"} => running = {}
    /\ step = "thinking" => running \cap {"text", "audio"} = {}
    /\ "audio" \in running => hasAudio
    /\ "llm" \in running /\ form # "stream" => words = 0

\* An output is flushed when the forwarding to it ends, which it does once.
FlushesTell ==
    /\ step = "thinking" => flushes["text"] = 0 /\ flushes["audio"] = 0
    /\ step \in {"playing", "playout"} =>
           /\ flushes["text"] = 1 <=> "text" \notin running
           /\ flushes["audio"] = 1 <=> hasAudio /\ "audio" \notin running
    /\ step = "over" =>
           \/ stopped /\ flushes["text"] = 0 /\ flushes["audio"] = 0
           \/ flushes["text"] = 1 /\ (flushes["audio"] = 1 <=> hasAudio)

\* A task that ended has taken all there is, and its own source is over.
EachTookAll ==
    /\ inputEnded => ttsGiven = words /\ "llm" \notin running /\ "input" \notin running
    /\ Uncut /\ hasAudio /\ "tts" \notin running \cup failures => inputEnded /\ frames = ttsGiven
    /\ Uncut /\ step # "thinking" /\ "text" \notin running => shown = words /\ "llm" \notin running
    /\ Uncut /\ step # "thinking" /\ hasAudio /\ "audio" \notin running =>
           captured = frames /\ "tts" \notin running
    /\ step = "over" /\ ~stopped => message = shown

NodesInv == ReplyNodesTypeOK /\ TasksOfSteps /\ FlushesTell /\ EachTookAll

----------------------------------------------------------------------------
(***************************************************************************)
(* A generation of a realtime model as _realtime_generation_task           *)
(* (voice/agent_activity.py) plays it: a task reads its messages and       *)
(* forwards the text and the audio of the first of them to the outputs,    *)
(* the other ones are not played.  Its tools are in ToolExecution and      *)
(* AgentActivity; the server, and the outputs, are external.               *)
(***************************************************************************)

CONSTANT MaxSaid            \* bound: the words, and the frames, of a message

ASSUME RealtimeReplyAssumption == MaxSaid \in Nat

VARIABLES
    rtStep,         \* of the speech: waits (not authorized), plays, playout, over
    rtStopped,      \* it is interrupted
    rtHasAudio,     \* there is an audio output
    rtAgent,        \* the state of the agent: listening, speaking
    rtServer,       \* of the generation: says, done, lost (its channels are never closed)
    rtSaid,         \* the messages: [count; of the first: words, frames, open]
    rtReader,       \* _read_messages: none, reads, gathers, done
    rtRead,         \* the messages it took
    rtForwards,     \* the forwarding tasks not done, of text, audio
    rtShown,        \* words of text_out.text
    rtCaptured,     \* frames given to the audio output
    rtFlushes,      \* flush() of the text and of the audio output
    rtBroken,       \* the forwarding of the audio raised
    rtRecorded      \* the messages added to the conversation: [words, interrupted]

rtOutVars == <<rtForwards, rtShown, rtCaptured, rtFlushes, rtBroken>>
rtReadVars == <<rtReader, rtRead, rtOutVars>>
rtServerVars == <<rtServer, rtSaid>>
rtReplyVars == <<rtStep, rtStopped, rtHasAudio, rtAgent, rtServerVars, rtReadVars, rtRecorded>>

RealtimeReplyTypeOK ==
    /\ rtStep \in {"waits", "plays", "playout", "over"}
    /\ rtStopped \in BOOLEAN /\ rtHasAudio \in BOOLEAN /\ rtBroken \in BOOLEAN
    /\ rtAgent \in {"listening", "speaking"} /\ rtServer \in {"says", "done", "lost"}
    /\ rtSaid \in [count : 0 .. 2, words : 0 .. MaxSaid, frames : 0 .. MaxSaid, open : BOOLEAN]
    /\ rtReader \in {"none", "reads", "gathers", "done"} /\ rtRead \in 0 .. rtSaid.count
    /\ rtForwards \subseteq {"text", "audio"}
    /\ rtShown \in 0 .. rtSaid.words /\ rtCaptured \in 0 .. rtSaid.frames
    /\ rtFlushes \in [{"text", "audio"} -> 0 .. 1]

RealtimeReplyInit ==
    /\ rtStep = "waits" /\ rtStopped = FALSE /\ rtHasAudio \in BOOLEAN /\ rtAgent = "listening"
    /\ rtServer = "says" /\ rtSaid = [count |-> 0, words |-> 0, frames |-> 0, open |-> FALSE]
    /\ rtReader = "none" /\ rtRead = 0 /\ rtForwards = {} /\ rtShown = 0 /\ rtCaptured = 0
    /\ rtFlushes = [o \in {"text", "audio"} |-> 0] /\ rtBroken = FALSE /\ rtRecorded = <<>>

-----------------------------------------------------------------------------
(* The server, through the session *)

RtMessageBegins ==
    /\ rtServer = "says" /\ rtSaid.count < 2 /\ ~rtSaid.open
    /\ rtSaid' = [rtSaid EXCEPT !.count = @ + 1, !.open = (rtSaid.count = 0)]
    /\ UNCHANGED <<rtStep, rtStopped, rtHasAudio, rtAgent, rtServer, rtReadVars, rtRecorded>>

RtMessageGrows ==
    /\ rtServer = "says" /\ rtSaid.open
    /\ \E field \in {"words", "frames"} :
          rtSaid[field] < MaxSaid /\ rtSaid' = [rtSaid EXCEPT ![field] = @ + 1]
    /\ UNCHANGED <<rtStep, rtStopped, rtHasAudio, rtAgent, rtServer, rtReadVars, rtRecorded>>

RtMessageEnds ==
    /\ rtServer = "says" /\ rtSaid.open /\ rtSaid' = [rtSaid EXCEPT !.open = FALSE]
    /\ UNCHANGED <<rtStep, rtStopped, rtHasAudio, rtAgent, rtServer, rtReadVars, rtRecorded>>

\* response.done closes every channel that is open; a lost connection closes none.
RtServerEnds(how) ==
    /\ rtServer = "says" /\ rtServer' = how
    /\ rtSaid' = IF how = "done" THEN [rtSaid EXCEPT !.open = FALSE] ELSE rtSaid
    /\ UNCHANGED <<rtStep, rtStopped, rtHasAudio, rtAgent, rtReadVars, rtRecorded>>

-----------------------------------------------------------------------------
(* _read_messages, and the forwarding tasks it starts *)

\* The first message is forwarded; the second one ends the reading.
RtReadsMessage ==
    /\ rtReader = "reads" /\ rtRead < rtSaid.count
    /\ rtRead' = rtRead + 1
    /\ IF rtRead = 0
         THEN rtForwards' = (IF rtHasAudio THEN {"text", "audio"} ELSE {"text"}) /\ UNCHANGED rtReader
         ELSE rtReader' = "gathers" /\ UNCHANGED rtForwards
    /\ UNCHANGED <<rtStep, rtStopped, rtHasAudio, rtAgent, rtServerVars, rtShown, rtCaptured, rtFlushes,
                   rtBroken, rtRecorded>>

RtReadsEnd ==
    /\ rtReader = "reads" /\ rtRead = rtSaid.count /\ rtServer = "done"
    /\ rtReader' = "gathers"
    /\ UNCHANGED <<rtStep, rtStopped, rtHasAudio, rtAgent, rtServerVars, rtRead, rtOutVars, rtRecorded>>

\* A word, or a frame; the first of what the user hears, or else reads, is when the agent speaks.
RtForwardsText ==
    /\ "text" \in rtForwards /\ rtShown < rtSaid.words /\ rtShown' = rtShown + 1
    /\ rtAgent' = IF rtHasAudio THEN rtAgent ELSE "speaking"
    /\ UNCHANGED <<rtStep, rtStopped, rtHasAudio, rtServerVars, rtReader, rtRead, rtForwards, rtCaptured,
                   rtFlushes, rtBroken, rtRecorded>>

RtForwardsAudio ==
    /\ "audio" \in rtForwards /\ rtCaptured < rtSaid.frames /\ rtCaptured' = rtCaptured + 1
    /\ rtAgent' = "speaking"
    /\ UNCHANGED <<rtStep, rtStopped, rtHasAudio, rtServerVars, rtReader, rtRead, rtForwards, rtShown,
                   rtFlushes, rtBroken, rtRecorded>>

\* The finally clause of each: its output is flushed.
RtForwardsEnd(tasks) ==
    /\ rtForwards' = rtForwards \ tasks
    /\ rtFlushes' = [o \in {"text", "audio"} |-> IF o \in tasks \cap rtForwards THEN rtFlushes[o] + 1 ELSE rtFlushes[o]]

RtForwarded ==
    /\ ~rtSaid.open
    /\ \/ "text" \in rtForwards /\ rtShown = rtSaid.words /\ RtForwardsEnd({"text"})
       \/ "audio" \in rtForwards /\ rtCaptured = rtSaid.frames /\ RtForwardsEnd({"audio"})
    /\ UNCHANGED <<rtStep, rtStopped, rtHasAudio, rtAgent, rtServerVars, rtReader, rtRead, rtShown, rtCaptured,
                   rtBroken, rtRecorded>>

\* capture_frame() raises.
RtAudioBreaks ==
    /\ "audio" \in rtForwards /\ rtBroken' = TRUE /\ RtForwardsEnd({"audio"})
    /\ UNCHANGED <<rtStep, rtStopped, rtHasAudio, rtAgent, rtServerVars, rtReader, rtRead, rtShown, rtCaptured,
                   rtRecorded>>

\* Mutant of RtReaderOver: the tasks are not cancelled with the one that reads.
RtReaderOverAlone == UNCHANGED <<rtForwards, rtFlushes>>

\* Mutant of RtReaderOver: the tasks are awaited, not cancelled.
RtReaderOverAwaited == rtForwards = {} /\ UNCHANGED <<rtForwards, rtFlushes>>

\* The finally clause: the forwarding tasks not done are cancelled.
RtReaderOver == RtForwardsEnd(rtForwards)

\* The gather ends when both tasks have, or one raised, which cancels the other.
RtGathered ==
    /\ rtReader = "gathers" /\ (rtForwards = {} \/ rtBroken)
    /\ rtReader' = "done" /\ RtReaderOver
    /\ UNCHANGED <<rtStep, rtStopped, rtHasAudio, rtAgent, rtServerVars, rtRead, rtShown, rtCaptured, rtBroken,
                   rtRecorded>>

-----------------------------------------------------------------------------
(* _realtime_generation_task *)

RtInterrupted ==
    /\ rtStep # "over" /\ ~rtStopped /\ rtStopped' = TRUE
    /\ UNCHANGED <<rtStep, rtHasAudio, rtAgent, rtServerVars, rtReadVars, rtRecorded>>

\* Authorized, it reads; interrupted before, it is over.
RtAuthorized ==
    /\ rtStep = "waits"
    /\ IF rtStopped THEN rtStep' = "over" /\ UNCHANGED rtReader ELSE rtStep' = "plays" /\ rtReader' = "reads"
    /\ UNCHANGED <<rtStopped, rtHasAudio, rtAgent, rtServerVars, rtRead, rtOutVars, rtRecorded>>

RtAllForwarded ==
    /\ rtStep = "plays" /\ ~rtStopped /\ rtReader = "done"
    /\ rtStep' = "playout"
    /\ UNCHANGED <<rtStopped, rtHasAudio, rtAgent, rtServerVars, rtReadVars, rtRecorded>>

\* The speech ends: the message that was forwarded is recorded, and the agent listens again; of a reply
\* without audio its state is left as it is.
RtEnds(interrupted) ==
    /\ rtStep' = "over"
    /\ rtAgent' = IF rtHasAudio THEN "listening" ELSE rtAgent
    /\ rtRecorded' = IF rtRead = 0 THEN <<>> ELSE <<[words |-> rtShown, interrupted |-> interrupted]>>

RtPlayedOut ==
    /\ rtStep = "playout" /\ ~rtStopped /\ RtEnds(FALSE)
    /\ UNCHANGED <<rtStopped, rtHasAudio, rtServerVars, rtReadVars>>

\* Interrupted: the reading is cancelled, and what was shown is recorded whether it was heard or not.
RtStoppedPlaying ==
    /\ rtStep \in {"plays", "playout"} /\ rtStopped
    /\ rtReader' = "done" /\ RtReaderOver /\ RtEnds(TRUE)
    /\ UNCHANGED <<rtStopped, rtHasAudio, rtServerVars, rtRead, rtShown, rtCaptured, rtBroken>>

RtTaskSteps ==
    \/ RtReadsMessage \/ RtReadsEnd \/ RtForwardsText \/ RtForwardsAudio \/ RtForwarded \/ RtGathered
    \/ RtAuthorized \/ RtAllForwarded \/ RtPlayedOut \/ RtStoppedPlaying

RealtimeReplyNext ==
    \/ RtTaskSteps \/ RtInterrupted \/ RtAudioBreaks
    \/ RtMessageBegins \/ RtMessageGrows \/ RtMessageEnds
    \/ \E how \in {"done", "lost"} : RtServerEnds(how)

\* The tasks run, the queue authorizes the speech, what is captured is played out, and a server that is not
\* lost ends its generation.
RealtimeReplyFairness == WF_rtReplyVars(RtTaskSteps) /\ WF_rtReplyVars(RtServerEnds("done"))

RealtimeReplySpec == RealtimeReplyInit /\ [][RealtimeReplyNext]_rtReplyVars /\ RealtimeReplyFairness

-----------------------------------------------------------------------------
\* A generation nobody stopped and whose audio did not break is over only when the whole of its first
\* message was forwarded and recorded, once (_realtime_generation_task).
GenerationSaysAll ==
    rtStep = "over" /\ ~rtStopped /\ ~rtBroken =>
        IF rtSaid.count = 0 THEN rtRecorded = <<>>
        ELSE /\ rtRecorded = <<[words |-> rtSaid.words, interrupted |-> FALSE]>>
             /\ rtHasAudio => rtCaptured = rtSaid.frames

\* When a generation is over, however it came to it, none of its tasks touches the outputs any more, each
\* output it used was flushed once, and an agent with a voice listens (_realtime_generation_task).
NothingGoesOn ==
    rtStep = "over" =>
        /\ rtForwards = {} /\ (rtHasAudio => rtAgent = "listening")
        /\ rtFlushes["text"] = (IF rtRead > 0 THEN 1 ELSE 0)
        /\ rtFlushes["audio"] = (IF rtRead > 0 /\ rtHasAudio THEN 1 ELSE 0)

\* What cannot last: a generation that is not over, unless the connection was lost and nobody stops it.
GenerationPending == rtStep # "over" /\ ~(rtServer = "lost" /\ ~rtStopped)

(* The inductive invariant *)

\* A generation whose reading was not cancelled.
RtUncut == rtStep # "over" \/ ~rtStopped

\* What the server said of the first message, before and after it was there.
SaidInMessages ==
    /\ rtSaid.open => rtSaid.count = 1 /\ rtServer # "done"
    /\ rtSaid.count = 0 => rtSaid.words = 0 /\ rtSaid.frames = 0

\* Where the speech is tells where the reading is; the forwarding goes on only while it reads.
ReadingInStep ==
    /\ rtStep = "waits" => rtReader = "none" /\ rtAgent = "listening"
    /\ rtReader = "none" => rtRead = 0 /\ (rtStep = "waits" \/ (rtStep = "over" /\ rtStopped))
    /\ rtStep \in {"playout", "over"} => rtReader \in {"none", "done"}
    /\ rtForwards # {} => rtRead > 0 /\ rtReader \in {"reads", "gathers"}
    /\ "audio" \in rtForwards => rtHasAudio
    /\ rtStep = "over" /\ rtHasAudio => rtAgent = "listening"

\* An output is flushed when the forwarding to it ends, which it does once.
RtFlushesTell ==
    /\ rtFlushes["text"] = 1 <=> rtRead > 0 /\ "text" \notin rtForwards
    /\ rtFlushes["audio"] = 1 <=> rtRead > 0 /\ rtHasAudio /\ "audio" \notin rtForwards

\* A forwarding task that ended has taken the whole message, unless it, or the other one, was cut.
RtEachTookAll ==
    RtUncut /\ ~rtBroken =>
        /\ rtRead > 0 /\ "text" \notin rtForwards => ~rtSaid.open /\ rtShown = rtSaid.words
        /\ rtRead > 0 /\ rtHasAudio /\ "audio" \notin rtForwards => ~rtSaid.open /\ rtCaptured = rtSaid.frames
        /\ rtReader \in {"gathers", "done"} => rtRead > 0 \/ (rtSaid.count = 0 /\ rtServer = "done")
        /\ rtStep = "over" /\ rtRead = 0 => rtRecorded = <<>>
        /\ rtStep = "over" /\ rtRead > 0 => rtRecorded = <<[words |-> rtShown, interrupted |-> FALSE]>>

RtInv == RealtimeReplyTypeOK /\ SaidInMessages /\ ReadingInStep /\ RtFlushesTell /\ RtEachTookAll

\* A reply is said, shown and recorded whole, and flushed once, whichever model says it (generation.py,
\* agent_activity.py).
ReplySafe ==
    /\ ReplyNodesTypeOK /\ ReplySaysAll /\ FlushedOnce
    /\ RealtimeReplyTypeOK /\ GenerationSaysAll /\ NothingGoesOn

=============================================================================
