----------------------------- MODULE MCProviders -----------------------------
(***************************************************************************)
(* Small instances of what talks to the providers: the realtime session,   *)
(* the streams over a socket that recognise and say, the requests that     *)
(* recognise and say, the completion streams, the detection of speech and  *)
(* the formats of the conversation.  They share no state and are checked   *)
(* in one run, in turn: "piece" says which of them a behaviour is about;   *)
(* the others stay in one state, in which nothing fair is enabled.         *)
(***************************************************************************)
EXTENDS RealtimeSession, SpeechToText, TextToSpeech, LlmStreams, ChatFormats

SttDialects == {"deepgram", "assemblyai", "speechmatics", "openai", "azure", "google", "aws"}
WordDialects == {"elevenlabs", "cartesia", "deepgram", "neuphonic", "playai"}
SpeechDialects == {"cartesia", "neuphonic", "deepgram", "azure", "aws", "elevenlabs", "rime", "groq", "openai",
                   "playai", "google"}
CompletionDialects == {"openai", "anthropic", "google", "aws"}
SomeAnswers == {<<"text">>, <<"call", "call">>, <<"text", "call">>, <<"call", "text">>}
Providers == {"deepgram", "openai", "google", "fal", "clova"}
TwoCalls == {1, 2}
TwoLanguages == {"en", "fr"}
TwoTools == {"look", "book"}
\* A detection that needs two windows of speech, and one that is told at once of it.
SlowAndQuick ==
    {[speech |-> 2, silence |-> 2, padding |-> 1, buffered |-> 3],
     [speech |-> 1, silence |-> 2, padding |-> 2, buffered |-> 1]}

VARIABLE piece

allVars == <<piece, realtimeVars, sttSockVars, ttsSockVars, chunkVars, llmVars, recognizeVars,
             vadVars, formatVars>>

SttRests ==
    /\ dialect = "deepgram" /\ mic = [queue |-> <<>>, pushed |-> 0, marks |-> 0, closed |-> TRUE]
    /\ run = "over" /\ runs = 1 /\ updates = 0 /\ sender = NoSender /\ recvDone = FALSE
    /\ closingWs = FALSE /\ reconnect = FALSE /\ started = FALSE /\ stopped = FALSE /\ thief = FALSE
    /\ isSpeaking = FALSE /\ seqNo = 0 /\ wires = <<>> /\ told = [begun |-> FALSE, last |-> "no"]
    /\ heardEvents = <<>>

TtsRests ==
    /\ ttsDialect = "cartesia"
    /\ script = [queue |-> <<>>, pushed |-> 0, flushes |-> 0, closed |-> TRUE, first |-> 0]
    /\ segments = <<>> /\ writing = 0 /\ saying = 0 /\ taken = 0 /\ textOver = TRUE
    /\ ttsSender = "done" /\ ttsWire = <<>> /\ ttsReader = "done" /\ emitterFrame = 0 /\ audioOut = <<>>
    /\ ttsRun = "returned" /\ trouble = FALSE /\ ttsUpdates = 0

ChunkRests ==
    /\ chunkDialect = "cartesia" /\ answer = [state |-> "unsent", sent |-> 0] /\ feeder = "none"
    /\ decoder = [input |-> <<>>, ended |-> FALSE, started |-> FALSE, output |-> <<>>, closed |-> FALSE]
    /\ held = 0 /\ spoken = <<>> /\ synthesis = "failed"

Init == /\ piece \in {"realtime", "stt", "tts", "chunked", "llm", "recognize", "vad", "formats"}
        /\ RealtimeInit /\ LlmStreamsInit /\ RecognizeInit /\ VadInit /\ ChatFormatsInit
        /\ IF piece = "stt" THEN SttSocketsInit ELSE SttRests
        /\ IF piece = "tts" THEN TtsSocketsInit ELSE TtsRests
        /\ IF piece = "chunked" THEN ChunkedSpeechInit ELSE ChunkRests
        /\ piece = "llm" \/ (llmDialect = "openai" /\ blocks = <<"text">>)
        /\ piece = "recognize" \/ (recognizer = "openai" /\ language = "en")
        /\ piece = "vad" \/ vadOpts.padding = 1

Still(p) ==
    /\ UNCHANGED piece
    /\ p # "realtime" => UNCHANGED realtimeVars
    /\ p # "stt" => UNCHANGED sttSockVars
    /\ p # "tts" => UNCHANGED ttsSockVars
    /\ p # "chunked" => UNCHANGED chunkVars
    /\ p # "llm" => UNCHANGED llmVars
    /\ p # "recognize" => UNCHANGED recognizeVars
    /\ p # "vad" => UNCHANGED vadVars
    /\ p # "formats" => UNCHANGED formatVars

Next == \/ piece = "realtime" /\ RealtimeNext /\ Still("realtime")
        \/ piece = "stt" /\ SttSocketsNext /\ Still("stt")
        \/ piece = "tts" /\ TtsSocketsNext /\ Still("tts")
        \/ piece = "chunked" /\ ChunkedSpeechNext /\ Still("chunked")
        \/ piece = "llm" /\ LlmStreamsNext /\ Still("llm")
        \/ piece = "recognize" /\ RecognizeNext /\ Still("recognize")
        \/ piece = "vad" /\ VadNext /\ Still("vad")
        \/ piece = "formats" /\ ChatFormatsNext /\ Still("formats")

Spec == /\ Init /\ [][Next]_allVars
        /\ RealtimeFairness /\ SttSocketsFairness /\ TtsSocketsFairness /\ ChunkedSpeechFairness

\* What the LLM is told is what was said, and its answer is given whole (the llm.py and utils.py of the
\* plugins).
CompletionSafe ==
    /\ LlmStreamsTypeOK /\ CallsAreWhole /\ AnswerOnce /\ DoneIsWhole
    /\ ChatFormatsTypeOK /\ TurnsAlternate /\ CallsAreAnswered

\* Again and again nothing is owed: the generations and the requests are over, the streams whose input
\* ended too, but for the cases the Pending definitions name.
ProvidersSettle ==
    []<>~(RealtimePending \/ SocketSttPending \/ SocketTtsPending \/ ChunksPending)

=============================================================================
