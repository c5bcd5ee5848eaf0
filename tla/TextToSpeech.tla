----------------------------- MODULE TextToSpeech -----------------------------
(***************************************************************************)
(* The synthesis streams of the providers: what _run does between the base *)
(* class (Streams) and a server.  Text is cut into segments at the flushes,*)
(* a task sends the words, another reads the audio.  A word of text is one *)
(* frame of audio.  "ttsDialect" says whose code a behaviour is about.  The*)
(* server is external: it says what it was sent, in order, and may close   *)
(* the connection at any time.                                             *)
(***************************************************************************)
EXTENDS Naturals, Sequences

CONSTANTS TtsDialects,
          MaxWordsSaid, MaxFlushes,     \* words, numbered, and flushes before the end (bounds)
          MaxTtsUpdates                 \* updates of the options (a bound)

ASSUME TtsSocketsAssumption ==
    /\ TtsDialects \subseteq {"elevenlabs", "cartesia", "deepgram", "neuphonic", "playai"}
    /\ {MaxWordsSaid, MaxFlushes, MaxTtsUpdates} \subseteq Nat

VARIABLES
    ttsDialect,
    script,         \* _input_ch: words and flushes (0); [queue, pushed, flushes, closed, first: one more than
                    \* the words before the first flush that ended a segment, 0 for none yet]
    segments,       \* the word streams: [words, ended]
    writing,        \* word_stream of the tokenizer, 0 for None
    saying,         \* the word stream whose words are sent, 0 for none
    taken,          \* how many word streams were taken
    textOver,       \* the channel of word streams is closed
    ttsSender,      \* sends, waits (elevenlabs, for the audio of a segment), done
    ttsWire,        \* what the server was sent and has still to say: words, and 0 for the end
    ttsReader,      \* reads, done, stuck (elevenlabs: the decoder waits for data)
    emitterFrame,   \* the frame SynthesizedAudioEmitter holds back, 0 for None
    audioOut,       \* [word, final]
    ttsRun,         \* runs, returned, failed
    trouble,        \* the connection was closed too early, or left
    ttsUpdates
ttsSockVars == <<ttsDialect, script, segments, writing, saying, taken, textOver, ttsSender, ttsWire, ttsReader,
                 emitterFrame, audioOut, ttsRun, trouble, ttsUpdates>>

ScriptWords == 1..MaxWordsSaid

TtsSocketsTypeOK ==
    /\ ttsDialect \in TtsDialects
    /\ script \in [queue : Seq(0..MaxWordsSaid), pushed : 0..MaxWordsSaid, flushes : Nat, closed : BOOLEAN,
                   first : 0..MaxWordsSaid + 1]
    /\ segments \in Seq([words : Seq(ScriptWords), ended : BOOLEAN])
    /\ writing \in 0..Len(segments) /\ saying \in 0..taken /\ taken \in 0..Len(segments)
    /\ ttsSender \in {"sends", "waits", "done"} /\ ttsReader \in {"reads", "done", "stuck"}
    /\ ttsWire \in Seq(0..MaxWordsSaid) /\ emitterFrame \in 0..MaxWordsSaid
    /\ audioOut \in Seq([word : ScriptWords, final : BOOLEAN])
    /\ ttsRun \in {"runs", "returned", "failed"} /\ {trouble, textOver} \subseteq BOOLEAN /\ ttsUpdates \in Nat

TtsSocketsInit ==
    /\ ttsDialect \in TtsDialects
    /\ script = [queue |-> <<>>, pushed |-> 0, flushes |-> 0, closed |-> FALSE, first |-> 0]
    /\ segments = <<>> /\ writing = 0 /\ saying = 0 /\ taken = 0 /\ textOver = FALSE
    /\ ttsSender = "sends" /\ ttsWire = <<>> /\ ttsReader = "reads" /\ emitterFrame = 0 /\ audioOut = <<>>
    /\ ttsRun = "runs" /\ trouble = FALSE /\ ttsUpdates = 0

----------------------------------------------------------------------------
(* The text *)

PushesText ==
    /\ ~script.closed
    /\ \/ /\ script.pushed < MaxWordsSaid
          /\ script' = [script EXCEPT !.queue = Append(@, script.pushed + 1), !.pushed = @ + 1]
       \/ /\ script.flushes < MaxFlushes
          /\ script' = [script EXCEPT !.queue = Append(@, 0), !.flushes = @ + 1]
       \/ script' = [script EXCEPT !.queue = Append(@, 0), !.closed = TRUE]
    /\ UNCHANGED <<ttsDialect, segments, writing, saying, taken, textOver, ttsSender, ttsWire, ttsReader,
                   emitterFrame, audioOut, ttsRun, trouble, ttsUpdates>>

\* A word goes to the word stream that is written, or begins one.
Writes(word) ==
    /\ segments' = IF writing # 0 THEN [segments EXCEPT ![writing].words = Append(@, word)]
                   ELSE Append(segments, [words |-> <<word>>, ended |-> FALSE])
    /\ writing' = Len(segments')
    /\ UNCHANGED ttsWire

\* A flush ends the word stream, if there is one.
EndsSegment ==
    /\ segments' = IF writing = 0 THEN segments ELSE [segments EXCEPT ![writing].ended = TRUE]
    /\ writing' = 0 /\ UNCHANGED ttsWire

\* _tokenize_input, _input_task, _send_task, for one item of the input.
ElevenLabsTakes(item) == IF item = 0 THEN EndsSegment ELSE Writes(item)
DeepgramTakes(item) == IF item = 0 THEN EndsSegment ELSE Writes(item)
PlayAITakes(item) == IF item = 0 THEN EndsSegment ELSE Writes(item)
\* The tokenizer of cartesia makes no segments.
CartesiaTakes(item) == IF item = 0 THEN UNCHANGED <<segments, writing, ttsWire>> ELSE Writes(item)
\* Neuphonic sends at once, <STOP> for a flush.
NeuphonicTakes(item) == ttsWire' = Append(ttsWire, item) /\ UNCHANGED <<segments, writing>>

\* The words that were taken from the input: it still holds those after them.
WordsTaken == CHOOSE n \in 0..script.pushed :
                  {script.queue[k] : k \in DOMAIN script.queue} \ {0} = (n + 1)..script.pushed

TokenizeInput ==
    /\ ttsRun = "runs" /\ script.queue # <<>>
    /\ LET item == Head(script.queue)
           ends == item = 0 /\ (writing # 0 \/ ttsDialect = "neuphonic")
       IN /\ CASE ttsDialect = "elevenlabs" -> ElevenLabsTakes(item)
               [] ttsDialect = "deepgram" -> DeepgramTakes(item)
               [] ttsDialect = "playai" -> PlayAITakes(item)
               [] ttsDialect = "cartesia" -> CartesiaTakes(item)
               [] ttsDialect = "neuphonic" -> NeuphonicTakes(item)
          /\ script' = [script EXCEPT !.queue = Tail(@), !.first = IF @ = 0 /\ ends THEN WordsTaken + 1 ELSE @]
    /\ UNCHANGED <<ttsDialect, saying, taken, textOver, ttsSender, ttsReader, emitterFrame, audioOut, ttsRun,
                   trouble, ttsUpdates>>

\* The end of the input.
InputOver ==
    /\ ttsRun = "runs" /\ script.closed /\ script.queue = <<>> /\ ~textOver
    /\ textOver' = TRUE /\ writing' = 0
    /\ segments' = IF writing = 0 THEN segments ELSE [segments EXCEPT ![writing].ended = TRUE]
    /\ UNCHANGED <<ttsDialect, script, saying, taken, ttsSender, ttsWire, ttsReader, emitterFrame, audioOut,
                   ttsRun, trouble, ttsUpdates>>

----------------------------------------------------------------------------
(* The words *)

TakesSegment ==
    /\ ttsRun = "runs" /\ ttsSender = "sends" /\ saying = 0 /\ taken < Len(segments)
    /\ taken' = taken + 1 /\ saying' = taken + 1
    /\ UNCHANGED <<ttsDialect, script, segments, writing, textOver, ttsSender, ttsWire, ttsReader, emitterFrame,
                   audioOut, ttsRun, trouble, ttsUpdates>>

SendsWord ==
    /\ ttsRun = "runs" /\ saying # 0 /\ ttsSender = "sends" /\ segments[saying].words # <<>>
    /\ ttsWire' = Append(ttsWire, Head(segments[saying].words))
    /\ segments' = [segments EXCEPT ![saying].words = Tail(@)]
    /\ UNCHANGED <<ttsDialect, script, writing, saying, taken, textOver, ttsSender, ttsReader, emitterFrame,
                   audioOut, ttsRun, trouble, ttsUpdates>>

\* A segment of elevenlabs ends with its own end, and its audio is waited for; deepgram's with Flush.
ElevenLabsEndsSegment == ttsWire' = Append(ttsWire, 0) /\ ttsSender' = "waits" /\ UNCHANGED saying
DeepgramEndsSegment == ttsWire' = Append(ttsWire, 0) /\ saying' = 0 /\ UNCHANGED ttsSender

SegmentSent ==
    /\ ttsRun = "runs" /\ saying # 0 /\ ttsSender = "sends" /\ segments[saying].words = <<>> /\ segments[saying].ended
    /\ CASE ttsDialect = "elevenlabs" -> ElevenLabsEndsSegment
         [] ttsDialect = "deepgram" -> DeepgramEndsSegment
         [] OTHER -> saying' = 0 /\ UNCHANGED <<ttsWire, ttsSender>>
    /\ UNCHANGED <<ttsDialect, script, segments, writing, taken, textOver, ttsReader, emitterFrame, audioOut,
                   ttsRun, trouble, ttsUpdates>>

\* All was sent: cartesia sends a last packet, and the generator of playai ends; deepgram sends Close.
SendsEnd ==
    /\ ttsRun = "runs" /\ ttsSender = "sends" /\ textOver /\ saying = 0 /\ taken = Len(segments)
    /\ ttsSender' = "done"
    /\ ttsWire' = IF ttsDialect \in {"cartesia", "playai"} THEN Append(ttsWire, 0) ELSE ttsWire
    /\ UNCHANGED <<ttsDialect, script, segments, writing, saying, taken, textOver, ttsReader, emitterFrame,
                   audioOut, ttsRun, trouble, ttsUpdates>>

----------------------------------------------------------------------------
(* The audio *)

\* SynthesizedAudioEmitter._emit_frame.
Emitted(final) == IF emitterFrame = 0 THEN audioOut ELSE Append(audioOut, [word |-> emitterFrame, final |-> final])

\* Mutant: the frame that is held back is forgotten.
EmitterFlushForgets == audioOut' = audioOut /\ emitterFrame' = 0

EmitterPush(word) == audioOut' = Emitted(FALSE) /\ emitterFrame' = word
EmitterFlush == audioOut' = Emitted(TRUE) /\ emitterFrame' = 0

\* The end of the audio of a segment: elevenlabs goes on with the next, on a connection of its own.
ElevenLabsHearsEnd == EmitterFlush /\ ttsSender' = "sends" /\ saying' = 0 /\ UNCHANGED ttsReader
\* The others read no further, though a flush of deepgram or a stop of neuphonic may not be the last.
ReaderEnds == EmitterFlush /\ ttsReader' = "done" /\ UNCHANGED <<ttsSender, saying>>
DeepgramHearsEnd == ReaderEnds
NeuphonicHearsEnd == ReaderEnds
CartesiaHearsEnd == ReaderEnds
PlayAIHearsEnd == ReaderEnds

HearsEnd ==
    CASE ttsDialect = "elevenlabs" -> ElevenLabsHearsEnd
      [] ttsDialect = "deepgram" -> DeepgramHearsEnd
      [] ttsDialect = "neuphonic" -> NeuphonicHearsEnd
      [] ttsDialect = "cartesia" -> CartesiaHearsEnd
      [] ttsDialect = "playai" -> PlayAIHearsEnd

\* The server says the next word of what it was sent, or that it is over, and the reader hears it.
TtsServerSays ==
    /\ ttsRun = "runs" /\ ttsReader = "reads" /\ ttsWire # <<>>
    /\ ttsWire' = Tail(ttsWire)
    /\ IF Head(ttsWire) # 0 THEN EmitterPush(Head(ttsWire)) /\ UNCHANGED <<ttsSender, saying, ttsReader>>
       ELSE HearsEnd
    /\ UNCHANGED <<ttsDialect, script, segments, writing, taken, textOver, ttsRun, trouble, ttsUpdates>>

\* Mutant: a connection that closes is the end of the audio.
CartesiaLosesServerQuietly == ttsReader' = "done" /\ EmitterFlush /\ UNCHANGED ttsRun

\* What the reader makes of a connection the server closed.
CartesiaLosesServer == ttsRun' = "failed" /\ UNCHANGED <<ttsReader, audioOut, emitterFrame>>
NeuphonicLosesServer == ttsRun' = "failed" /\ UNCHANGED <<ttsReader, audioOut, emitterFrame>>
\* Once the end of the segment was sent, the reader of elevenlabs returns without ending the decoder.
ElevenLabsLosesServer ==
    /\ IF ttsSender = "waits" THEN ttsReader' = "stuck" /\ UNCHANGED ttsRun
       ELSE ttsRun' = "failed" /\ UNCHANGED ttsReader
    /\ UNCHANGED <<audioOut, emitterFrame>>
\* The error of a task of deepgram is not looked at: the loop ends as if all was said.
DeepgramLosesServer ==
    /\ IF ttsSender = "done" THEN ttsReader' = "done" /\ UNCHANGED ttsRun
       ELSE ttsRun' = "returned" /\ UNCHANGED ttsReader
    /\ UNCHANGED <<audioOut, emitterFrame>>
\* The decoder of playai is ended in any case, and the error is lost with its task.
PlayAILosesServer == ttsReader' = "done" /\ EmitterFlush /\ UNCHANGED ttsRun

TtsServerCloses ==
    /\ ttsRun = "runs" /\ ttsReader = "reads"
    /\ CASE ttsDialect = "elevenlabs" -> saying # 0 /\ ElevenLabsLosesServer
         [] ttsDialect = "deepgram" -> DeepgramLosesServer
         [] ttsDialect = "neuphonic" -> NeuphonicLosesServer
         [] ttsDialect = "cartesia" -> CartesiaLosesServer
         [] ttsDialect = "playai" -> PlayAILosesServer
    \* A server of deepgram that was told Close and has said all closes as it should.
    /\ trouble' = (trouble \/ ~(ttsDialect = "deepgram" /\ ttsSender = "done" /\ ttsWire = <<>>))
    /\ UNCHANGED <<ttsDialect, script, segments, writing, saying, taken, textOver, ttsSender, ttsWire, ttsUpdates>>

\* The options of deepgram are updated, or its connection is too old: all tasks begin anew, the word stream
\* that was written and that which was said are forgotten.
DeepgramReconnects ==
    /\ ttsDialect = "deepgram" /\ ttsRun = "runs" /\ ttsUpdates < MaxTtsUpdates
    /\ ttsUpdates' = ttsUpdates + 1 /\ trouble' = TRUE
    /\ writing' = 0 /\ saying' = 0 /\ ttsSender' = "sends" /\ ttsWire' = <<>> /\ ttsReader' = "reads"
    /\ emitterFrame' = 0
    /\ UNCHANGED <<ttsDialect, script, segments, taken, textOver, audioOut, ttsRun>>

\* The tasks returned; playai waits for its reader alone, and elevenlabs for its segments.
TtsRunReturns ==
    /\ ttsRun = "runs" /\ ttsRun' = "returned"
    /\ ttsSender = "done" \/ ttsDialect = "playai"
    /\ ttsReader = "done" \/ ttsDialect = "elevenlabs"
    /\ UNCHANGED <<ttsDialect, script, segments, writing, saying, taken, textOver, ttsSender, ttsWire, ttsReader,
                   emitterFrame, audioOut, trouble, ttsUpdates>>

TtsSocketsNext ==
    \/ PushesText \/ TokenizeInput \/ InputOver \/ TakesSegment \/ SendsWord \/ SegmentSent \/ SendsEnd
    \/ TtsServerSays \/ TtsServerCloses \/ DeepgramReconnects \/ TtsRunReturns

\* The tasks run, and a server says what it was sent, and closes when it is told.
TtsSocketsFairness ==
    /\ WF_ttsSockVars(TokenizeInput) /\ WF_ttsSockVars(InputOver) /\ WF_ttsSockVars(TakesSegment)
    /\ WF_ttsSockVars(SendsWord) /\ WF_ttsSockVars(SegmentSent) /\ WF_ttsSockVars(SendsEnd)
    /\ WF_ttsSockVars(TtsServerSays) /\ WF_ttsSockVars(TtsRunReturns)
    /\ WF_ttsSockVars(TtsServerCloses /\ ttsDialect = "deepgram" /\ ttsSender = "done" /\ ttsWire = <<>>)

TtsSocketsSpec == TtsSocketsInit /\ [][TtsSocketsNext]_ttsSockVars /\ TtsSocketsFairness

----------------------------------------------------------------------------
(* Properties *)

\* No word is said twice, or before one that precedes it, and a frame is final only if nothing of its
\* segment follows: the others than elevenlabs have one segment, unless they connect anew
\* (SynthesizedAudioEmitter).
SaysInOrder ==
    /\ \A j, k \in DOMAIN audioOut : j < k => audioOut[j].word < audioOut[k].word
    /\ ttsDialect # "elevenlabs" /\ ttsUpdates = 0 => \A k \in DOMAIN audioOut : audioOut[k].final => k = Len(audioOut)

\* A synthesis that returns said all it was given, and the last frame is final, though the server may have
\* closed: deepgram and playai would have to be told of it, and deepgram and neuphonic say one segment only
\* (deepgram/tts.py:403, neuphonic/tts.py:389).
ReturnsWhole ==
    LET expected == IF ttsDialect \in {"deepgram", "neuphonic"} /\ script.first # 0 THEN script.first - 1
                    ELSE script.pushed
    IN ttsRun = "returned" /\ (trouble => ttsDialect \notin {"deepgram", "playai"}) =>
           /\ Len(audioOut) = expected
           /\ expected # 0 => audioOut[expected].final

\* What cannot last: a text that is over under a synthesis that goes on, unless the decoder of elevenlabs
\* was left open, or deepgram forgot a word stream that nobody will end.
SocketTtsPending == script.closed /\ ~trouble /\ ttsRun = "runs"

----------------------------------------------------------------------------
(***************************************************************************)
(* The syntheses of a whole text (ChunkedStream): a request, whose answer  *)
(* comes in pieces.  Some providers send samples, the others a container   *)
(* that AudioStreamDecoder decodes in a thread, fed by a task of its own.  *)
(* A piece of the answer is one frame of audio.  "chunkDialect" says whose *)
(* code a behaviour is about.  The server is external.                     *)
(***************************************************************************)

CONSTANTS ChunkDialects, MaxPieces         \* pieces of an answer, numbered (a bound)

ASSUME ChunkedSpeechAssumption ==
    /\ ChunkDialects \subseteq {"cartesia", "deepgram", "neuphonic", "azure", "elevenlabs", "rime", "groq", "openai",
                                "playai", "aws", "google"}
    /\ MaxPieces \in Nat

VARIABLES
    chunkDialect,
    answer,         \* [state: unsent, comes, whole, broken, refused (an error), other (not audio); sent: pieces]
    feeder,         \* the task that reads the answer: none, feeds, ended, failed
    decoder,        \* [input, ended, started, output, closed]
    held,           \* the frame the emitter, or the byte stream, holds back, 0 for None
    spoken,         \* [piece, final]
    synthesis       \* runs, returned, failed
chunkVars == <<chunkDialect, answer, feeder, decoder, held, spoken, synthesis>>

Pieces == 1..MaxPieces
\* Providers that send samples.
Raw == {"cartesia", "deepgram", "neuphonic", "azure"}
\* Providers whose frames do not say which is the last.
Unmarked == {"deepgram", "azure"}
\* Providers who look at the kind of the answer, and return if it is not audio.
Looking == {"elevenlabs", "rime", "groq"}

ChunkedSpeechTypeOK ==
    /\ chunkDialect \in ChunkDialects
    /\ answer \in [state : {"unsent", "comes", "whole", "broken", "refused", "other"}, sent : 0..MaxPieces]
    /\ feeder \in {"none", "feeds", "ended", "failed"}
    /\ decoder \in [input : Seq(Pieces), ended : BOOLEAN, started : BOOLEAN, output : Seq(Pieces), closed : BOOLEAN]
    /\ held \in 0..MaxPieces /\ spoken \in Seq([piece : Pieces, final : BOOLEAN])
    /\ synthesis \in {"runs", "returned", "failed"}

ChunkedSpeechInit ==
    /\ chunkDialect \in ChunkDialects /\ answer = [state |-> "unsent", sent |-> 0] /\ feeder = "none"
    /\ decoder = [input |-> <<>>, ended |-> FALSE, started |-> FALSE, output |-> <<>>, closed |-> FALSE]
    /\ held = 0 /\ spoken = <<>> /\ synthesis = "runs"

----------------------------------------------------------------------------
(* SynthesizedAudioEmitter; the byte stream of azure and deepgram holds back what is no whole frame. *)

EmitHeld(final) == IF held = 0 THEN spoken ELSE Append(spoken, [piece |-> held, final |-> final])
Push(piece) == spoken' = EmitHeld(FALSE) /\ held' = piece
FlushHeld == spoken' = EmitHeld(chunkDialect \notin Unmarked) /\ held' = 0

\* AudioStreamDecoder.push: the first piece starts the thread.  end_input() starts nothing.
DecoderPush(piece) == decoder' = [decoder EXCEPT !.input = Append(@, piece), !.started = TRUE]
DecoderEndInput == decoder' = [decoder EXCEPT !.ended = TRUE]

----------------------------------------------------------------------------
(* The request *)

\* A refused request is an error at once, but the request of openai is made by its feeder, as that of playai:
\* the decoder is ended, and the error stays with the task.
RequestRefused ==
    /\ answer' = [answer EXCEPT !.state = "refused"]
    /\ IF chunkDialect \in {"openai", "playai"}
         THEN feeder' = "failed" /\ DecoderEndInput /\ UNCHANGED synthesis
         ELSE synthesis' = "failed" /\ UNCHANGED <<feeder, decoder>>

\* An answer that is no audio is logged, and nothing is said.
OtherAnswer ==
    /\ chunkDialect \in Looking /\ answer' = [answer EXCEPT !.state = "other"]
    /\ synthesis' = "returned" /\ UNCHANGED <<feeder, decoder>>

AnswerBegins ==
    /\ answer' = [answer EXCEPT !.state = "comes"]
    /\ feeder' = IF chunkDialect \in Raw THEN "none" ELSE "feeds"
    /\ UNCHANGED <<decoder, synthesis>>

Requests ==
    /\ answer.state = "unsent" /\ synthesis = "runs"
    /\ RequestRefused \/ OtherAnswer \/ AnswerBegins
    /\ UNCHANGED <<chunkDialect, held, spoken>>

----------------------------------------------------------------------------
(* The answer comes *)

Receives(piece) == IF chunkDialect \in Raw THEN Push(piece) /\ UNCHANGED decoder
                   ELSE DecoderPush(piece) /\ UNCHANGED <<held, spoken>>

\* The answer of google comes whole.
PieceComes ==
    /\ answer.state = "comes" /\ answer.sent < MaxPieces
    /\ answer' = [answer EXCEPT !.sent = @ + 1] /\ Receives(answer.sent + 1)
    /\ UNCHANGED <<chunkDialect, feeder, synthesis>>

\* The samples are over: what is held back is emitted.
CartesiaEnds == FlushHeld /\ synthesis' = "returned" /\ UNCHANGED <<feeder, decoder>>
NeuphonicEnds == FlushHeld /\ synthesis' = "returned" /\ UNCHANGED <<feeder, decoder>>
DeepgramEnds == FlushHeld /\ synthesis' = "returned" /\ UNCHANGED <<feeder, decoder>>

\* The result of the SDK, then the cleanup in an executor: the stream that is released is closed, and its
\* close() sends the rest to the loop before the executor's own result.
AzureEnds == FlushHeld /\ synthesis' = "returned" /\ UNCHANGED <<feeder, decoder>>

\* _decode_loop: the decoder is ended.
FeederEnds == feeder' = "ended" /\ DecoderEndInput /\ UNCHANGED <<held, spoken, synthesis>>

AnswerEnds ==
    /\ answer.state = "comes" /\ (chunkDialect = "google" => answer.sent > 0)
    /\ answer' = [answer EXCEPT !.state = "whole"]
    /\ CASE chunkDialect = "cartesia" -> CartesiaEnds
         [] chunkDialect = "neuphonic" -> NeuphonicEnds
         [] chunkDialect = "deepgram" -> DeepgramEnds
         [] chunkDialect = "azure" -> AzureEnds
         [] OTHER -> FeederEnds
    /\ UNCHANGED chunkDialect

\* Mutant: what came is all there is.
RawBreaksQuietly == FlushHeld /\ synthesis' = "returned" /\ UNCHANGED <<feeder, decoder>>

RawBreaks == synthesis' = "failed" /\ UNCHANGED <<feeder, decoder, held, spoken>>

\* The cleanup of azure comes first here too: the rest of what came is emitted before the error.
AzureBreaks == FlushHeld /\ synthesis' = "failed" /\ UNCHANGED <<feeder, decoder>>

\* The error of the feeder ends the decoder as the end of the answer does.
FeederBreaks == feeder' = "failed" /\ DecoderEndInput /\ UNCHANGED <<held, spoken, synthesis>>

AnswerBreaks ==
    /\ answer.state = "comes" /\ chunkDialect # "google"
    /\ answer' = [answer EXCEPT !.state = "broken"]
    /\ CASE chunkDialect = "azure" -> AzureBreaks
         [] chunkDialect \in Raw \ {"azure"} -> RawBreaks
         [] OTHER -> FeederBreaks
    /\ UNCHANGED chunkDialect

----------------------------------------------------------------------------
(* The thread of the decoder, and the reader of its frames *)

DecodesFrame ==
    /\ decoder.started /\ decoder.input # <<>>
    /\ decoder' = [decoder EXCEPT !.input = Tail(@), !.output = Append(@, Head(decoder.input))]
    /\ UNCHANGED <<chunkDialect, answer, feeder, held, spoken, synthesis>>

DecoderCloses ==
    /\ decoder.started /\ decoder.input = <<>> /\ decoder.ended /\ ~decoder.closed
    /\ decoder' = [decoder EXCEPT !.closed = TRUE]
    /\ UNCHANGED <<chunkDialect, answer, feeder, held, spoken, synthesis>>

\* A container that broke off may not be one that can be decoded: the error is logged.
DecoderFails ==
    /\ decoder.started /\ decoder.input # <<>> /\ decoder.ended /\ answer.state = "broken"
    /\ decoder' = [decoder EXCEPT !.input = <<>>, !.closed = TRUE]
    /\ UNCHANGED <<chunkDialect, answer, feeder, held, spoken, synthesis>>

ReadsFrame ==
    /\ synthesis = "runs" /\ decoder.output # <<>>
    /\ decoder' = [decoder EXCEPT !.output = Tail(@)] /\ Push(Head(decoder.output))
    /\ UNCHANGED <<chunkDialect, answer, feeder, synthesis>>

\* Mutant: nobody asks how the feeder ended.
AwsReadsEndAnyhow == synthesis' = "returned"

\* Only aws waits for its feeder, and so learns that the answer broke.
AwsReadsEnd == synthesis' = IF feeder = "failed" THEN "failed" ELSE "returned"
ElevenLabsReadsEnd == synthesis' = "returned"
RimeReadsEnd == synthesis' = "returned"
GroqReadsEnd == synthesis' = "returned"
OpenAIReadsEnd == synthesis' = "returned"
PlayAIReadsEnd == synthesis' = "returned"
GoogleReadsEnd == synthesis' = "returned"

ReadsEnd ==
    /\ synthesis = "runs" /\ decoder.output = <<>> /\ decoder.closed
    /\ FlushHeld
    /\ CASE chunkDialect = "aws" -> AwsReadsEnd
         [] chunkDialect = "elevenlabs" -> ElevenLabsReadsEnd
         [] chunkDialect = "rime" -> RimeReadsEnd
         [] chunkDialect = "groq" -> GroqReadsEnd
         [] chunkDialect = "openai" -> OpenAIReadsEnd
         [] chunkDialect = "playai" -> PlayAIReadsEnd
         [] chunkDialect = "google" -> GoogleReadsEnd
    /\ UNCHANGED <<chunkDialect, answer, feeder, decoder>>

ChunkedSpeechNext ==
    \/ Requests \/ PieceComes \/ AnswerEnds \/ AnswerBreaks
    \/ DecodesFrame \/ DecoderCloses \/ DecoderFails \/ ReadsFrame \/ ReadsEnd

\* The tasks and the thread run, and an answer ends.
ChunkedSpeechFairness ==
    /\ WF_chunkVars(Requests) /\ WF_chunkVars(PieceComes) /\ WF_chunkVars(AnswerEnds) /\ WF_chunkVars(DecodesFrame)
    /\ WF_chunkVars(DecoderCloses) /\ WF_chunkVars(ReadsFrame) /\ WF_chunkVars(ReadsEnd)

ChunkedSpeechSpec == ChunkedSpeechInit /\ [][ChunkedSpeechNext]_chunkVars /\ ChunkedSpeechFairness

----------------------------------------------------------------------------
(* Properties *)

\* A synthesis that returns said the whole answer, in order, the last frame as final, and only that; but
\* where the answer is fed to a decoder and the feeder is not asked how it ended, one that broke off is
\* taken for whole (openai/tts.py:218, elevenlabs/tts.py:288).
ReturnsWholeAnswer ==
    LET asked == chunkDialect \in Raw \cup {"aws", "google"}
    IN /\ \A k \in DOMAIN spoken : spoken[k].piece = k /\ (spoken[k].final => k = Len(spoken))
       /\ synthesis = "returned" =>
            /\ answer.state = "whole" => Len(spoken) = answer.sent
            /\ spoken # <<>> /\ chunkDialect \notin Unmarked => spoken[Len(spoken)].final
            /\ asked => answer.state = "whole"

\* A synthesis that returns said all it was given, in order (the tts.py of the plugins).
SynthesisSafe ==
    /\ TtsSocketsTypeOK /\ SaysInOrder /\ ReturnsWhole
    /\ ChunkedSpeechTypeOK /\ ReturnsWholeAnswer

\* What cannot last: an answer under a synthesis that goes on, unless not one byte of the answer reached
\* the decoder: it is started by the first, and its reader waits for ever (codecs/decoder.py:113).
ChunksPending ==
    answer.state # "unsent" /\ synthesis = "runs" /\ ~(feeder \in {"ended", "failed"} /\ ~decoder.started)

===============================================================================
