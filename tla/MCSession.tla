------------------------------ MODULE MCSession ------------------------------
(***************************************************************************)
(* Small instances of the parts of a session that do not share state: the  *)
(* handoffs, the turn detection, the participant it listens to, the        *)
(* background audio, the nodes and the playout of a reply, that of a        *)
(* realtime model, the avatar, the console, the published transcripts; of  *)
(* the streams that join the parts of a pipeline and what is wrapped       *)
(* around them: a channel, the base of the provider streams, the fallback  *)
(* adapters, the tokenizers, the stream adapters and the remote copy of    *)
(* the conversation.  They are checked in one run, in turn: "piece" says   *)
(* which of them a behaviour is about; the others stay in one state, in    *)
(* which nothing fair is enabled.                                          *)
(***************************************************************************)
EXTENDS Handoff, RoomAudio, Playout, Avatar, Console, TextOutput, ReplyNodes,
        Channel, Streams, FallbackStreams, TextStreams, RemoteChat

CONSTANTS a1, a2, a3, p1, p2, s1, s2, s3, r1, i1, i2, i3

ThreeAgents == {a1, a2, a3}
SomeRealtime == {a1, a3}
TwoSpeeches == {1, 2}
TwoParticipants == {p1, p2}
ThreeSenders == {s1, s2, s3}
OneReceiver == {r1}
ThreeItems == {i1, i2, i3}

VARIABLE piece

Pieces == {"handoff", "turns", "room", "background", "nodes", "playout", "avatar", "text",
           "channel", "stream", "calls", "stt", "speech", "tokens", "adapter", "chat", "generation",
           "console"}

allVars == <<piece, handoffVars, turnVars, roomVars, bgVars, nodesVars, playoutVars, avatarVars, textVars,
             chanVars, streamVars, callVars, sttVars, saidVars, tokenVars, adapterVars, chatVars,
             rtReplyVars, consoleVars>>

\* The variables of every piece but p.
Still(p) ==
    /\ UNCHANGED piece
    /\ p # "handoff" => UNCHANGED handoffVars
    /\ p # "turns" => UNCHANGED turnVars
    /\ p # "room" => UNCHANGED roomVars
    /\ p # "background" => UNCHANGED bgVars
    /\ p # "nodes" => UNCHANGED nodesVars
    /\ p # "playout" => UNCHANGED playoutVars
    /\ p # "avatar" => UNCHANGED avatarVars
    /\ p # "text" => UNCHANGED textVars
    /\ p # "channel" => UNCHANGED chanVars
    /\ p # "stream" => UNCHANGED streamVars
    /\ p # "calls" => UNCHANGED callVars
    /\ p # "stt" => UNCHANGED sttVars
    /\ p # "speech" => UNCHANGED saidVars
    /\ p # "tokens" => UNCHANGED tokenVars
    /\ p # "adapter" => UNCHANGED adapterVars
    /\ p # "chat" => UNCHANGED chatVars
    /\ p # "generation" => UNCHANGED rtReplyVars
    /\ p # "console" => UNCHANGED consoleVars

\* A reply without words that is over.
NodesRest ==
    /\ step = "over" /\ stopped = TRUE /\ form = "nothing" /\ hasAudio = FALSE /\ running = {}
    /\ words = 0 /\ ttsGiven = 0 /\ inputEnded = FALSE /\ frames = 0 /\ shown = 0 /\ captured = 0
    /\ flushes = [o \in {"text", "audio"} |-> 0] /\ failures = {} /\ message = 0

\* Streams that are over, with nothing fair left to do.
StreamsRest ==
    /\ base = "llm" /\ input = [pushed |-> 0, read |-> 0, ended |-> TRUE]
    /\ attempt = [number |-> 0, state |-> "ok", events |-> 0, held |-> FALSE]
    /\ events = [sent |-> 0, taken |-> 0, closed |-> TRUE]
    /\ readers = [r \in Readers |-> [state |-> "stopped", buffer |-> 0, got |-> 0]]
    /\ locked = "nobody" /\ gaveUp = FALSE /\ closing = "no"

\* A channel nobody uses any more.
ChanRest ==
    /\ futures = <<>> /\ gets = <<>> /\ puts = <<>> /\ chan = <<>> /\ chanClosed = TRUE
    /\ task = [t \in Senders \cup Receivers |-> [step |-> "raised", future |-> 0]]
    /\ accepted = <<>> /\ taken = 0

FallbackStreamsRest ==
    /\ sttAvailable = [p \in Stts |-> TRUE] /\ sttInput = [pushed |-> 0, ended |-> TRUE]
    /\ forwarder = [state |-> "none", next |-> 1]
    /\ main = [at |-> 0, frames |-> <<>>, ended |-> FALSE, over |-> FALSE]
    /\ recovery = [p \in Stts |-> "none"] /\ allFailed = FALSE
    /\ outcome = "returned" /\ disturbed = FALSE

\* A generation without messages that is over.
GenerationRest ==
    /\ rtStep = "over" /\ rtStopped = TRUE /\ rtHasAudio = FALSE /\ rtAgent = "listening"
    /\ rtServer = "done" /\ rtSaid = [count |-> 0, words |-> 0, frames |-> 0, open |-> FALSE]
    /\ rtReader = "done" /\ rtRead = 0 /\ rtForwards = {} /\ rtShown = 0 /\ rtCaptured = 0
    /\ rtFlushes = [o \in {"text", "audio"} |-> 0] /\ rtBroken = FALSE /\ rtRecorded = <<>>

Init == /\ piece \in Pieces
        /\ HandoffInit /\ BgInit /\ RemoteChatInit /\ ConsoleInit
        /\ TurnInit /\ (piece = "turns" \/ (vad /\ ~manual))
        /\ RoomInit /\ (piece = "room" \/ linked = NoParticipant)
        /\ AvatarInit /\ (piece = "avatar" \/ viaStream)
        /\ TextInit /\ (piece = "text" \/ (ofUser /\ legacy))
        /\ PlayoutInit
        \* A behaviour has two replies, or one and a switch of the transcription.
        /\ IF piece = "playout" THEN toggles = MaxToggles \/ current.reply = MaxReplies - 1
                                ELSE toggles = 0 /\ current.reply = 0
        /\ FallbackCallsInit /\ (piece = "calls" \/ synthesizes)
        /\ FallbackSpeechInit /\ (piece = "speech" \/ (marksFinal /\ namesSegments))
        /\ TokensInit /\ (piece = "tokens" \/ \A i \in DOMAIN text : text[i])
        /\ AdaptersInit /\ (piece = "adapter" \/ recognises)
        /\ IF piece = "nodes" THEN ReplyNodesInit ELSE NodesRest
        /\ IF piece = "channel" THEN ChanInit ELSE ChanRest
        /\ IF piece = "stream" THEN StreamsInit ELSE StreamsRest
        /\ IF piece = "stt" THEN FallbackStreamsInit ELSE FallbackStreamsRest
        /\ IF piece = "generation" THEN RealtimeReplyInit ELSE GenerationRest

Next == \E p \in Pieces :
            /\ piece = p
            /\ \/ p = "handoff" /\ HandoffNext
               \/ p = "turns" /\ TurnNext
               \/ p = "room" /\ RoomNext
               \/ p = "background" /\ BgNext
               \/ p = "nodes" /\ ReplyNodesNext
               \/ p = "playout" /\ PlayoutNext
               \/ p = "avatar" /\ AvatarNext
               \/ p = "text" /\ TextNext
               \/ p = "channel" /\ ChanNext
               \/ p = "stream" /\ StreamsNext
               \/ p = "calls" /\ FallbackCallsNext
               \/ p = "stt" /\ FallbackStreamsNext
               \/ p = "speech" /\ FallbackSpeechNext
               \/ p = "tokens" /\ TokensNext
               \/ p = "adapter" /\ AdaptersNext
               \/ p = "chat" /\ RemoteChatNext
               \/ p = "generation" /\ RealtimeReplyNext
               \/ p = "console" /\ ConsoleNext
            /\ Still(p)

Spec == /\ Init /\ [][Next]_allVars
        /\ HandoffFairness /\ TurnFairness /\ RoomFairness /\ BgFairness
        /\ ReplyNodesFairness /\ PlayoutFairness /\ AvatarFairness /\ TextFairness
        /\ ChanFairness /\ StreamsFairness /\ FallbackCallsFairness /\ FallbackStreamsFairness
        /\ AdaptersFairness /\ RealtimeReplyFairness /\ ConsoleFairness

\* Every word, every unit of text or speech and every item of a remote conversation goes through, once
\* and in its place (tokenize/, stream_adapter.py, remote_chat_context.py).
TextSafe ==
    /\ TokensTypeOK /\ EveryWordOnce /\ PrefixOfWhole
    /\ AdaptersTypeOK /\ ResultsInOrder
    /\ RemoteChatTypeOK /\ CopyFollows /\ UpdateDelivers

\* A step never ends the turn of a user who speaks (audio_recognition.py), nor cuts a stream of text
\* other than as the whole text is cut (tokenize/token_stream.py), nor synthesises again a speech of
\* which enough was heard (tts/fallback_adapter.py).
StepsAreSound == [][NoTurnWhileSpeaking /\ SplitsAsWhole /\ HeardOnce]_allVars

\* Again and again nothing is owed: the handoffs are carried out, the words taken, the linked
\* participant heard, the sounds over, the replies ended, the tasks on a closed channel told, the
\* streams and the calls over, but for the cases the Pending definitions name.
SessionSettles ==
    []<>~(\/ HandoffPending \/ WordsPending \/ LinkedUnheard \/ BackgroundPending
          \/ NodesPending \/ ReplyPending \/ AvatarPending \/ TextPending
          \/ ChannelPending \/ StreamPending \/ CallPending \/ RecognitionPending \/ AdapterPending
          \/ GenerationPending \/ ConsolePending)

=============================================================================
