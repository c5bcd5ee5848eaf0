----------------------------- MODULE SpeechToText -----------------------------
(***************************************************************************)
(* The recognition streams of the providers: what _run does between the    *)
(* base class (Streams) and a server.  A task sends the audio, another     *)
(* reads the answers, and update_options() makes the loop connect anew.    *)
(* "dialect" says whose code a behaviour is about.  The server is external:*)
(* it says what it likes in an order its documentation allows, and may     *)
(* close or fail at any time.                                              *)
(***************************************************************************)
EXTENDS Vad

CONSTANTS Dialects,
          MaxUnitsPushed,           \* frames of audio, numbered (a bound)
          MaxMarks,                 \* flushes, or ends of speech of the energy filter (a bound)
          MaxHeardEvents,           \* events the server causes (a bound)
          MaxAnew,                  \* updates of the options, and attempts after the first (a bound)
          FramesPerChunk            \* size of a chunk of AudioByteStream

ASSUME SttSocketsAssumption ==
    /\ Dialects \subseteq {"deepgram", "assemblyai", "speechmatics", "openai", "azure", "google", "aws"}
    /\ {MaxUnitsPushed, MaxMarks, MaxHeardEvents, MaxAnew} \subseteq Nat
    /\ FramesPerChunk \in Nat \ {0}

VARIABLES
    dialect,
    mic,            \* _input_ch: frames (numbers) and flushes (0); [queue, pushed, marks, closed]
    run,            \* of the base class: connecting, open, stopping (azure), over, failed
    runs, updates,  \* how many there were
    sender,         \* send_task: [state: none, starts, reads, done; buffer, out: a chunk or nothing, ended]
    recvDone,       \* recv_task returned
    closingWs, reconnect,
    started,        \* _recognition_started, _session_started_event; they are never cleared
    stopped,        \* _session_stopped_event
    thief,          \* a generator of an earlier connection waits for a frame
    isSpeaking,     \* _speaking; has_started of google
    seqNo,          \* _seq_no
    wires,          \* what each connection was sent: chunks of frames, <<0>> for FINALIZE
    told,           \* the server of this connection: [begun, last: the message that ends it]
    heardEvents     \* the events of the stream
sttSockVars == <<dialect, mic, run, runs, updates, sender, recvDone, closingWs, reconnect, started, stopped,
                 thief, isSpeaking, seqNo, wires, told, heardEvents>>

WithChunks == {"deepgram", "assemblyai", "speechmatics", "openai"}
MayGoOn == runs + updates <= MaxAnew
NoSender == [state |-> "none", buffer |-> <<>>, out |-> <<>>, ended |-> FALSE]
SpeechEvents == {"start", "interim", "final", "end"}
Frames == 1..MaxUnitsPushed

SttSocketsTypeOK ==
    /\ dialect \in Dialects
    /\ mic \in [queue : Seq(0..MaxUnitsPushed), pushed : 0..MaxUnitsPushed, marks : 0..MaxMarks, closed : BOOLEAN]
    /\ run \in {"connecting", "open", "stopping", "over", "failed"}
    /\ runs \in Nat \ {0} /\ updates \in Nat /\ runs + updates <= MaxAnew + 1
    /\ sender \in [state : {"none", "starts", "reads", "done"}, buffer : Seq(Frames), out : Seq(Frames),
                   ended : BOOLEAN]
    /\ Len(sender.buffer) < FramesPerChunk /\ Len(sender.out) <= FramesPerChunk
    /\ {recvDone, closingWs, reconnect, started, stopped, thief, isSpeaking} \subseteq BOOLEAN
    /\ wires \in Seq(Seq(Seq(0..MaxUnitsPushed))) /\ seqNo \in Nat
    /\ told \in [begun : BOOLEAN, last : {"no", "closes"}] /\ heardEvents \in Seq(SpeechEvents)

SttSocketsInit ==
    /\ dialect \in Dialects /\ mic = [queue |-> <<>>, pushed |-> 0, marks |-> 0, closed |-> FALSE]
    /\ run = "connecting" /\ runs = 1 /\ updates = 0 /\ sender = NoSender /\ recvDone = FALSE
    /\ closingWs = FALSE /\ reconnect = FALSE /\ started = FALSE /\ stopped = FALSE /\ thief = FALSE
    /\ isSpeaking = FALSE /\ seqNo = 0 /\ wires = <<>> /\ told = [begun |-> FALSE, last |-> "no"]
    /\ heardEvents = <<>>

----------------------------------------------------------------------------
(* The user of the stream *)

Pushes ==
    /\ ~mic.closed
    /\ \/ /\ mic.pushed < MaxUnitsPushed
          /\ mic' = [mic EXCEPT !.queue = Append(@, mic.pushed + 1), !.pushed = @ + 1]
       \/ /\ mic.marks < MaxMarks
          /\ mic' = [mic EXCEPT !.queue = Append(@, 0), !.marks = @ + 1]
       \/ mic' = [mic EXCEPT !.queue = Append(@, 0), !.closed = TRUE]
    /\ UNCHANGED <<dialect, run, runs, updates, sender, recvDone, closingWs, reconnect, started, stopped,
                   thief, isSpeaking, seqNo, wires, told, heardEvents>>

\* update_options(); the stream of aws has none.
UpdateOptions ==
    /\ dialect # "aws" /\ MayGoOn /\ run \notin {"over", "failed"}
    /\ updates' = updates + 1 /\ reconnect' = TRUE
    /\ UNCHANGED <<dialect, mic, run, runs, sender, recvDone, closingWs, started, stopped, thief, isSpeaking,
                   seqNo, wires, told, heardEvents>>

----------------------------------------------------------------------------
(* The loop of _run *)

Connects ==
    /\ run = "connecting"
    /\ run' = "open" /\ recvDone' = FALSE /\ wires' = Append(wires, <<>>)
    /\ told' = [begun |-> FALSE, last |-> "no"]
    /\ sender' = [NoSender EXCEPT !.state = IF dialect \in {"speechmatics", "azure"} THEN "starts" ELSE "reads"]
    /\ isSpeaking' = (isSpeaking /\ dialect # "google")
    /\ UNCHANGED <<dialect, mic, runs, updates, closingWs, reconnect, started, stopped, thief, seqNo, heardEvents>>

\* gRPC goes on waiting for a frame of a generator whose stream is over, unless it is cancelled.
LeavesAThief == thief \/ (dialect = "google" /\ sender.state = "reads" /\ run = "open")

\* The tasks are cancelled, with what they have in hand.  Azure first lets the old session finish, the first
\* time: the event stays set.
ConnectAgain ==
    /\ run = "open" /\ reconnect /\ ~(dialect = "azure" /\ sender.state = "starts")
    /\ reconnect' = FALSE /\ sender' = NoSender
    /\ run' = IF dialect = "azure" THEN "stopping" ELSE "connecting"
    /\ thief' = IF recvDone THEN LeavesAThief ELSE thief
    /\ UNCHANGED <<dialect, mic, runs, updates, recvDone, closingWs, started, stopped, isSpeaking, seqNo, wires,
                   told, heardEvents>>

SessionStopped ==
    /\ run = "stopping" /\ run' = "connecting" /\ stopped' = TRUE
    /\ UNCHANGED <<dialect, mic, runs, updates, sender, recvDone, closingWs, reconnect, started, thief,
                   isSpeaking, seqNo, wires, told, heardEvents>>

\* When the tasks are over.  Google's loop ends with its reader; azure's with the input, it stops the
\* recognizer without waiting for what that has still to say.
SocketOver == recvDone /\ sender.state = "done"
OpenAIOver == recvDone /\ sender.state = "done"
AwsOver == recvDone /\ sender.state = "done"
GoogleOver == recvDone
AzureOver == sender.state = "done"

RunReturns ==
    /\ run = "open" /\ ~reconnect
    /\ CASE dialect = "google" -> GoogleOver [] dialect = "azure" -> AzureOver
         [] dialect = "openai" -> OpenAIOver [] dialect = "aws" -> AwsOver [] OTHER -> SocketOver
    /\ run' = "over" /\ sender' = NoSender
    /\ UNCHANGED <<dialect, mic, runs, updates, recvDone, closingWs, reconnect, started, stopped, thief,
                   isSpeaking, seqNo, wires, told, heardEvents>>

\* The connection failed, was lost, or closed too early: the base class runs _run again, or gives up.
RunFails ==
    /\ run' = (IF MayGoOn THEN "connecting" ELSE "failed")
    /\ runs' = IF MayGoOn THEN runs + 1 ELSE runs
    /\ sender' = NoSender /\ recvDone' = FALSE /\ closingWs' = FALSE
    /\ thief' = LeavesAThief

----------------------------------------------------------------------------
(* send_task *)

\* speechmatics sends no audio before RecognitionStarted, azure none before the session started: of the
\* first connection, the events are not cleared.
SenderStarts ==
    /\ sender.state = "starts" /\ started
    /\ sender' = [sender EXCEPT !.state = "reads"]
    /\ UNCHANGED <<dialect, mic, run, runs, updates, recvDone, closingWs, reconnect, started, stopped, thief,
                   isSpeaking, seqNo, wires, told, heardEvents>>

\* AudioByteStream.
Write(f) == LET b == Append(sender.buffer, f)
            IN IF Len(b) = FramesPerChunk THEN [sender EXCEPT !.buffer = <<>>, !.out = b]
               ELSE [sender EXCEPT !.buffer = b]
Flush == [sender EXCEPT !.out = sender.buffer, !.buffer = <<>>]

\* Mutant: an end of speech drops what does not fill a chunk.
DeepgramReadsWhole(item) ==
    IF item = 0 THEN [sender EXCEPT !.buffer = <<>>, !.ended = TRUE] ELSE Write(item)

\* The end of a speech is marked even if there is nothing to send: FINALIZE follows the next chunk.
DeepgramReads(item) == IF item = 0 THEN [Flush EXCEPT !.ended = TRUE] ELSE Write(item)
AssemblyAIReads(item) == IF item = 0 THEN Flush ELSE Write(item)
SpeechmaticsReads(item) == IF item = 0 THEN Flush ELSE Write(item)
OpenAIReads(item) == IF item = 0 THEN Flush ELSE Write(item)
\* These send each frame, and no flush.
AzureReads(item) == IF item = 0 THEN sender ELSE [sender EXCEPT !.out = <<item>>]
GoogleReads(item) == IF item = 0 THEN sender ELSE [sender EXCEPT !.out = <<item>>]
AwsReads(item) == IF item = 0 THEN sender ELSE [sender EXCEPT !.out = <<item>>]

SenderReads ==
    /\ run = "open" /\ sender.state = "reads" /\ sender.out = <<>> /\ mic.queue # <<>>
    /\ mic' = [mic EXCEPT !.queue = Tail(@)]
    /\ LET item == Head(mic.queue)
       IN sender' = CASE dialect = "deepgram" -> DeepgramReads(item)
                      [] dialect = "assemblyai" -> AssemblyAIReads(item)
                      [] dialect = "speechmatics" -> SpeechmaticsReads(item)
                      [] dialect = "openai" -> OpenAIReads(item)
                      [] dialect = "azure" -> AzureReads(item)
                      [] dialect = "google" -> GoogleReads(item)
                      [] dialect = "aws" -> AwsReads(item)
    /\ UNCHANGED <<dialect, run, runs, updates, recvDone, closingWs, reconnect, started, stopped, thief,
                   isSpeaking, seqNo, wires, told, heardEvents>>

SenderSends ==
    /\ run = "open" /\ sender.out # <<>>
    /\ sender' = [sender EXCEPT !.out = <<>>, !.ended = FALSE]
    /\ wires' = [wires EXCEPT ![Len(wires)] = @ \o <<sender.out>> \o (IF sender.ended THEN <<<<0>>>> ELSE <<>>)]
    /\ seqNo' = IF dialect = "speechmatics" THEN seqNo + 1 ELSE seqNo
    /\ UNCHANGED <<dialect, mic, run, runs, updates, recvDone, closingWs, reconnect, started, stopped, thief,
                   isSpeaking, told, heardEvents>>

\* The end of the input; openai tells the server nothing.
SenderEnds ==
    /\ run = "open" /\ sender.state = "reads" /\ sender.out = <<>> /\ mic.queue = <<>> /\ mic.closed
    /\ sender' = [sender EXCEPT !.state = "done"]
    /\ closingWs' = (dialect \in WithChunks)
    /\ told' = [told EXCEPT !.last = IF dialect \in {"openai", "azure"} THEN @ ELSE "closes"]
    /\ UNCHANGED <<dialect, mic, run, runs, updates, recvDone, reconnect, started, stopped, thief, isSpeaking,
                   seqNo, wires, heardEvents>>

\* A generator of google that was left behind takes the next frame, and only then sees that it should stop.
ThiefTakes ==
    /\ thief /\ mic.queue # <<>>
    /\ thief' = FALSE /\ mic' = [mic EXCEPT !.queue = Tail(@)]
    /\ UNCHANGED <<dialect, run, runs, updates, sender, recvDone, closingWs, reconnect, started, stopped,
                   isSpeaking, seqNo, wires, told, heardEvents>>

----------------------------------------------------------------------------
(* What the server says: _process_stream_event and the callbacks.  Each gives the events and whether the
   stream is then speaking. *)

Heard(events, speaking) == [events |-> events, speaking |-> speaking]

\* Mutant: only SpeechStarted starts a speech.
DeepgramHearsStarts(what) ==
    CASE what = "start" -> Heard(IF isSpeaking THEN <<>> ELSE <<"start">>, TRUE)
      [] what = "end" -> Heard(IF isSpeaking THEN <<"end">> ELSE <<>>, FALSE)
      [] what = "begun" -> Heard(<<>>, isSpeaking)
      [] OTHER -> Heard(<<what>>, isSpeaking)

\* A transcript starts a speech if nothing else did; an endpoint ends a speech that started.
DeepgramHears(what) ==
    LET start == IF isSpeaking THEN <<>> ELSE <<"start">>
    IN CASE what = "start" -> Heard(start, TRUE)
         [] what = "end" -> Heard(IF isSpeaking THEN <<"end">> ELSE <<>>, FALSE)
         [] what = "begun" -> Heard(<<>>, isSpeaking)
         [] OTHER -> Heard(Append(start, what), TRUE)

\* The begin of a session is a start of speech; no speech ends.
AssemblyAIHears(what) ==
    CASE what = "begun" -> Heard(<<"start">>, isSpeaking)
      [] what \in {"interim", "final"} -> Heard(<<what>>, isSpeaking)
      [] OTHER -> Heard(<<>>, isSpeaking)

SpeechmaticsHears(what) == Heard(IF what \in {"interim", "final"} THEN <<what>> ELSE <<>>, isSpeaking)

\* Mutant: a second start is taken for a speech of its own.
AzureHearsAll(what) ==
    CASE what \in {"interim", "final"} -> Heard(<<what>>, isSpeaking)
      [] what \in {"start", "end"} -> Heard(<<what>>, what = "start")
      [] OTHER -> Heard(<<>>, isSpeaking)

AzureHears(what) ==
    CASE what = "start" -> Heard(IF isSpeaking THEN <<>> ELSE <<"start">>, TRUE)
      [] what = "end" -> Heard(IF isSpeaking THEN <<"end">> ELSE <<>>, FALSE)
      [] what \in {"interim", "final"} -> Heard(<<what>>, isSpeaking)
      [] OTHER -> Heard(<<>>, isSpeaking)

\* The last final of a session that is too old ends the speech.
GoogleHears(what, old) ==
    CASE what = "start" -> Heard(<<"start">>, TRUE)
      [] what = "end" -> Heard(<<"end">>, FALSE)
      [] what = "final" /\ old /\ isSpeaking -> Heard(<<"final", "end">>, FALSE)
      [] what \in {"interim", "final"} -> Heard(<<what>>, isSpeaking)
      [] OTHER -> Heard(<<>>, isSpeaking)

OpenAIHears(what) == Heard(IF what \in {"interim", "final"} THEN <<what>> ELSE <<>>, isSpeaking)

\* No start is ever seen: 0.0 is false; every final ends a speech.
AwsHears(what) ==
    CASE what = "interim" -> Heard(<<"interim">>, isSpeaking)
      [] what = "final" -> Heard(<<"final", "end">>, isSpeaking)
      [] OTHER -> Heard(<<>>, isSpeaking)

\* A message of the server; old: the session is beyond its maximum duration, the reader gives it up.
ServerSays(what, old) ==
    /\ run \in {"open", "stopping"} /\ ~recvDone /\ (what = "begun") = ~told.begun
    /\ what # "begun" => Len(heardEvents) < MaxHeardEvents /\ Last(wires) # <<>>
    /\ old => dialect \in {"google", "openai"} /\ what = "final" /\ run = "open" /\ MayGoOn
    /\ LET said == CASE dialect = "deepgram" -> DeepgramHears(what)
                     [] dialect = "assemblyai" -> AssemblyAIHears(what)
                     [] dialect = "speechmatics" -> SpeechmaticsHears(what)
                     [] dialect = "azure" -> AzureHears(what)
                     [] dialect = "google" -> GoogleHears(what, old)
                     [] dialect = "openai" -> OpenAIHears(what)
                     [] dialect = "aws" -> AwsHears(what)
       IN heardEvents' = heardEvents \o said.events /\ isSpeaking' = said.speaking
    /\ told' = [told EXCEPT !.begun = TRUE]
    /\ started' = (started \/ (what = "begun" /\ dialect \in {"speechmatics", "azure"}))
    /\ recvDone' = old /\ reconnect' = (reconnect \/ old) /\ updates' = IF old THEN updates + 1 ELSE updates
    /\ UNCHANGED <<dialect, mic, run, runs, sender, closingWs, stopped, thief, seqNo, wires>>

\* The server closes.  Who asked for it returns; so do google and aws, whose reader just ends; the reader of
\* assemblyai also returns after five quiet seconds.
ServerCloses ==
    /\ run = "open" /\ ~recvDone /\ dialect # "azure"
    /\ IF closingWs \/ dialect \in {"google", "aws"}
         THEN recvDone' = TRUE /\ UNCHANGED <<run, runs, sender, closingWs, thief>>
         ELSE RunFails
    /\ UNCHANGED <<dialect, mic, updates, reconnect, started, stopped, isSpeaking, seqNo, wires, told,
                   heardEvents>>

\* It cannot be reached, is not up in time (the session of azure), or breaks the connection.
ServerFails ==
    /\ \/ run = "connecting"
       \/ run = "open" /\ dialect \in {"google", "aws"}
       \/ dialect = "azure" /\ sender.state = "starts" /\ ~started
    /\ RunFails
    /\ UNCHANGED <<dialect, mic, updates, reconnect, started, stopped, isSpeaking, seqNo, wires, told,
                   heardEvents>>

SttSocketsNext ==
    \/ Pushes \/ UpdateOptions \/ Connects \/ ConnectAgain \/ SessionStopped \/ RunReturns
    \/ SenderStarts \/ SenderReads \/ SenderSends \/ SenderEnds \/ ThiefTakes
    \/ \E what \in SpeechEvents \cup {"begun"}, old \in BOOLEAN : ServerSays(what, old)
    \/ ServerCloses \/ ServerFails

\* The tasks run; a session of azure stops when it is asked to; a server begins, and closes when told.
SttSocketsFairness ==
    /\ WF_sttSockVars(Connects) /\ WF_sttSockVars(ConnectAgain) /\ WF_sttSockVars(SessionStopped)
    /\ WF_sttSockVars(RunReturns) /\ WF_sttSockVars(SenderStarts) /\ WF_sttSockVars(SenderReads)
    /\ WF_sttSockVars(SenderSends) /\ WF_sttSockVars(SenderEnds)
    /\ WF_sttSockVars(ServerSays("begun", FALSE)) /\ WF_sttSockVars(ServerCloses /\ told.last = "closes")

SttSocketsSpec == SttSocketsInit /\ [][SttSocketsNext]_sttSockVars /\ SttSocketsFairness

----------------------------------------------------------------------------
(* Properties *)

Below(S, T) == \A x \in S, y \in T : x < y
FramesOf(s) == ToSet(s) \cap Frames
Ascends(s) == \A j, k \in DOMAIN s : j < k /\ {s[j], s[k]} \subseteq Frames => s[j] < s[k]
FramesSent == {f \in Frames : \E c \in DOMAIN wires : \E k \in DOMAIN wires[c] : f \in ToSet(wires[c][k])}

\* No frame is sent twice or out of its order, over reconnections and retries; a connection that was never
\* disturbed was sent every frame before it is told the end (the chunks of send_task).
AudioInOrder ==
    /\ \A c \in DOMAIN wires : \A j \in DOMAIN wires[c] :
          /\ Ascends(wires[c][j])
          /\ \A d \in DOMAIN wires : \A k \in DOMAIN wires[d] :
                c < d \/ (c = d /\ j < k) => Below(FramesOf(wires[c][j]), FramesOf(wires[d][k]))
    /\ sender.state = "done" /\ updates = 0 /\ runs = 1 => FramesSent = 1..mic.pushed

\* After the first k events a speech has started that has not ended.
InSpeech(events, k) == \E j \in 1..k : events[j] = "start" /\ \A i \in j..k : events[i] # "end"

Alternates(events, within) ==
    \A k \in DOMAIN events : /\ events[k] = "start" => ~InSpeech(events, k - 1)
                             /\ events[k] \in {"end"} \cup within => InSpeech(events, k - 1)

\* What the events say is a speech, then the next: starts and ends alternate, though the server repeats
\* itself, and though connections come and go; a transcript of deepgram is within a speech
\* (deepgram/stt.py:622, 645, 668).
SpeechesAlternate ==
    dialect \in {"deepgram", "azure"} =>
        Alternates(heardEvents, IF dialect = "deepgram" THEN {"interim", "final"} ELSE {})

\* What cannot last: an input that ended under a stream that goes on.  (That of openai waits for a server
\* that was told nothing.)
SocketSttPending == dialect # "openai" /\ mic.closed /\ run \notin {"over", "failed"}

----------------------------------------------------------------------------
(***************************************************************************)
(* Recognition of a whole utterance: the retries of STT.recognize          *)
(* (stt/stt.py) around _recognize_impl of Deepgram, OpenAI, Google, fal    *)
(* and Clova.  Calls of one STT object overlap and share its options.      *)
(* The service (external) answers with a text, with no words, with a       *)
(* refusal, late, or not at all.                                           *)
(***************************************************************************)

CONSTANTS
    Recognizers,    \* the providers, of {"deepgram", "openai", "google", "fal", "clova"}
    Recognitions,   \* the calls of recognize()
    Languages,      \* language codes
    NotGiven,       \* the call names no language
    MaxRetry,       \* conn_options.max_retry
    MaxOptions      \* bound: calls of update_options()

ASSUME RecognizeAssumption ==
    /\ Recognizers \subseteq {"deepgram", "openai", "google", "fal", "clova"}
    /\ MaxRetry \in Nat /\ MaxOptions \in Nat /\ NotGiven \notin Languages

VARIABLES
    recognizer,     \* which provider this is
    language,       \* _opts.language
    recognition,    \* of each call: where it is, the language it was given, what it got
    options         \* calls of update_options() so far

recognizeVars == <<recognizer, language, recognition, options>>

Errors == {"timeout", "status", "connection"}       \* the APIErrors
Others == {"other"}                                 \* any other exception
ServiceAnswers == {"text", "silence", "refused", "late", "lost"}

RecognitionStages == {"none", "asking", "asked", "sleeping", "returned", "raised"}
Fresh == [stage |-> "none", given |-> NotGiven,
          attempts |-> 0, answer |-> "none", error |-> "none"]

RecognizeTypeOK ==
    /\ recognizer \in Recognizers /\ language \in Languages /\ options \in 0 .. MaxOptions
    /\ recognition \in [Recognitions ->
          [stage : RecognitionStages, given : Languages \cup {NotGiven}, attempts : 0 .. MaxRetry + 1,
           answer : ServiceAnswers \cup {"none"}, error : Errors \cup Others \cup {"none"}]]

RecognizeInit ==
    /\ recognizer \in Recognizers /\ language \in Languages /\ options = 0
    /\ recognition = [c \in Recognitions |-> Fresh]

At(c, stage) == recognition[c].stage = stage

Begin(c) ==
    /\ At(c, "none")
    /\ \E given \in Languages \cup {NotGiven} :
          recognition' = [recognition EXCEPT ![c].stage = "asking", ![c].given = given]
    /\ UNCHANGED <<recognizer, language, options>>

UpdateLanguage ==
    /\ options < MaxOptions /\ options' = options + 1
    /\ \E l \in Languages : language' = l
    /\ UNCHANGED <<recognizer, recognition>>

\* Deepgram, OpenAI and Google copy the options (_sanitize_options); fal and Clova write the
\* language of the call into their own.
WritesOptions == recognizer \in {"fal", "clova"}

Chosen(c) == IF recognition[c].given = NotGiven THEN language ELSE recognition[c].given

\* Up to the request, made in the language Chosen.
RecognizerAsks(c) ==
    /\ At(c, "asking")
    /\ recognition' = [recognition EXCEPT ![c].stage = "asked", ![c].attempts = @ + 1]
    /\ language' = IF WritesOptions THEN Chosen(c) ELSE language
    /\ UNCHANGED <<recognizer, options>>

(* What _recognize_impl raises for an answer, "none" when it returns an event. *)

\* The status is not looked at: a refusal is read as a transcript, and its missing key raises.
DeepgramRaises(answer) ==
    CASE answer \in {"text", "silence"} -> {"none"}
      [] answer = "late" -> {"timeout"}
      [] OTHER -> {"connection"}

OpenAIRaises(answer) ==
    CASE answer \in {"text", "silence"} -> {"none"}
      [] answer = "refused" -> {"status"}
      [] answer = "late" -> {"timeout"}
      [] answer = "lost" -> {"connection"}

\* A transcript without words has no result to take its times from: an IndexError.
GoogleRaises(answer) ==
    IF answer = "silence" THEN {"connection"} ELSE OpenAIRaises(answer)

\* Only what the client calls its own error is an APIError.
FalRaises(answer) ==
    CASE answer \in {"text", "silence"} -> {"none"}
      [] answer = "refused" -> {"connection"}
      [] OTHER -> {"connection", "other"}

\* An empty or a doubtful text and an error in the body are ValueErrors; an answer
\* that never comes raises what the client raises.
ClovaRaises(answer) ==
    CASE answer = "text" -> {"none", "other"}
      [] answer = "late" -> {"timeout"}
      [] answer = "refused" -> {"status", "other"}
      [] OTHER -> {"other"}

Raised(answer) ==
    CASE recognizer = "deepgram" -> DeepgramRaises(answer)
      [] recognizer = "openai" -> OpenAIRaises(answer)
      [] recognizer = "google" -> GoogleRaises(answer)
      [] recognizer = "fal" -> FalRaises(answer)
      [] recognizer = "clova" -> ClovaRaises(answer)

\* Mutant of AfterError: only an error of the connection is worth another attempt.
AfterErrorOfConnection(c, error) ==
    IF error # "connection" \/ recognition[c].attempts > MaxRetry THEN "raised" ELSE "sleeping"

\* The except clause of recognize(): an APIError is retried whatever it says of retryable,
\* anything else goes to the caller.
AfterError(c, error) ==
    IF error \in Others \/ recognition[c].attempts > MaxRetry THEN "raised" ELSE "sleeping"

RecognizerAnswers(c) ==
    /\ At(c, "asked")
    /\ \E answer \in ServiceAnswers : \E error \in Raised(answer) :
          recognition' = [recognition EXCEPT ![c].answer = answer, ![c].error = error,
              ![c].stage = IF error = "none" THEN "returned" ELSE AfterError(c, error)]
    /\ UNCHANGED <<recognizer, language, options>>

Slept(c) ==
    /\ At(c, "sleeping")
    /\ recognition' = [recognition EXCEPT ![c].stage = "asking"]
    /\ UNCHANGED <<recognizer, language, options>>

RecognizeNext ==
    \/ UpdateLanguage
    \/ \E c \in Recognitions : Begin(c) \/ RecognizerAsks(c) \/ RecognizerAnswers(c) \/ Slept(c)

RecognizeSpec == RecognizeInit /\ [][RecognizeNext]_recognizeVars

-----------------------------------------------------------------------------
\* A call is not given up before it has used its attempts, unless the error is none of the
\* API's; it returns what the service said of the audio, never the body of a refusal.
EveryAttemptUsed ==
    \A c \in Recognitions :
        /\ At(c, "raised") /\ recognition[c].error \in Errors
             => recognition[c].attempts = MaxRetry + 1
        /\ At(c, "returned") => recognition[c].answer \in {"text", "silence"}

\* The audio is sent in order, the events tell of one speech after the other, and every attempt of a
\* request is used (the stt.py of the plugins, vad.py).
RecognitionSafe ==
    /\ SttSocketsTypeOK /\ AudioInOrder /\ SpeechesAlternate
    /\ RecognizeTypeOK /\ EveryAttemptUsed
    /\ VadTypeOK /\ SpeechIsHeard /\ VadGoesOn

===============================================================================
