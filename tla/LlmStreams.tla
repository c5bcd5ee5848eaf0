----------------------------- MODULE LlmStreams -----------------------------
(***************************************************************************)
(* The completion streams of the providers: _run and what parses the       *)
(* events of the answer into chunks, under the attempts of LLMStream.  An  *)
(* answer is blocks, texts and calls of functions, each in pieces; a       *)
(* request or an answer may fail at any point.  "llmDialect" says whose    *)
(* code a behaviour is about.  The server is external: it gives the same   *)
(* answer to every attempt.                                                *)
(***************************************************************************)
EXTENDS Naturals, Sequences, SequencesExt

CONSTANTS LlmDialects, Answers,       \* the answers: sequences of "text" and "call" (a bound)
          MaxPiecesOfBlock,           \* pieces of a block (a bound)
          MaxLlmRetries               \* APIConnectOptions.max_retry

ASSUME LlmStreamsAssumption ==
    /\ LlmDialects \subseteq {"openai", "anthropic", "google", "aws"}
    /\ Answers \subseteq Seq({"text", "call"})
    /\ MaxPiecesOfBlock \in Nat \ {0} /\ MaxLlmRetries \in Nat

VARIABLES
    llmDialect, blocks,     \* the answer
    llmTries,               \* attempts begun
    llmRun,                 \* request, streams, done, failed
    at,                     \* the next event: block and piece; 0 begins it, MaxPiecesOfBlock + 1 ends it
    call,                   \* _tool_call_id, _fnc_name, _fnc_raw_arguments: [block: 0 for None, pieces]
    heldText,               \* _text of aws: pieces
    chunks,                 \* what was emitted: [kind, block, pieces]
    retryable, streamTaken, \* anthropic: its awaitable was awaited
    refused                 \* a client error (4xx) was met
llmVars == <<llmDialect, blocks, llmTries, llmRun, at, call, heldText, chunks, retryable, streamTaken, refused>>

Ends == MaxPiecesOfBlock + 1
NoCall == [block |-> 0, pieces |-> <<>>]
Piece == 1..MaxPiecesOfBlock

LlmStreamsTypeOK ==
    /\ llmDialect \in LlmDialects /\ blocks \in Answers /\ llmTries \in 0..MaxLlmRetries + 1
    /\ llmRun \in {"request", "streams", "done", "failed"}
    /\ at.block \in 1..Len(blocks) + 1 /\ at.piece \in 0..Ends
    /\ call.block \in 0..Len(blocks) /\ call.pieces \in Seq(Piece) /\ heldText \in Seq(Piece)
    /\ \A k \in DOMAIN chunks : chunks[k].block \in DOMAIN blocks /\ chunks[k].kind = blocks[chunks[k].block]
    /\ {retryable, streamTaken, refused} \subseteq BOOLEAN

LlmStreamsInit ==
    /\ llmDialect \in LlmDialects /\ blocks \in Answers
    /\ llmTries = 1 /\ llmRun = "request" /\ at = [block |-> 1, piece |-> 0]
    /\ call = NoCall /\ heldText = <<>> /\ chunks = <<>> /\ retryable = TRUE
    /\ streamTaken = FALSE /\ refused = FALSE

----------------------------------------------------------------------------
(* An event of the answer, and the chunks it becomes.  e is the kind of the event: begins, piece, ends. *)

Kind == blocks[at.block]
Chunk(kind, block, pieces) == [kind |-> kind, block |-> block, pieces |-> pieces]
TextChunk(pieces) == <<Chunk("text", at.block, pieces)>>
CallChunk == IF call.block = 0 THEN <<>> ELSE <<Chunk("call", call.block, call.pieces)>>
Emits(new) == chunks' = chunks \o new /\ retryable' = (retryable /\ new = <<>>)

EmitsAny(new) == chunks' = chunks \o new /\ retryable' = FALSE   \* openai: every event is a chunk, if an empty one

BeginsCall == call' = [block |-> at.block, pieces |-> <<>>]
ExtendsCall == call' = [call EXCEPT !.pieces = Append(@, at.piece)]

\* Mutant: a call that begins forgets the one before it.
OpenAIParsesForgetting(e) ==
    CASE e = "begins" /\ Kind = "call" -> EmitsAny(<<>>) /\ BeginsCall /\ UNCHANGED heldText
      [] e = "piece" /\ Kind = "call" -> EmitsAny(<<>>) /\ ExtendsCall /\ UNCHANGED heldText
      [] e = "begins" /\ Kind = "text" -> EmitsAny(<<>>) /\ UNCHANGED <<call, heldText>>
      [] e = "piece" /\ Kind = "text" -> EmitsAny(TextChunk(<<at.piece>>)) /\ UNCHANGED <<call, heldText>>
      [] e = "ends" -> UNCHANGED <<chunks, retryable, call, heldText>>

\* A call is complete when another begins, or the answer is finished; no event ends a block.
OpenAIParses(e) ==
    CASE e = "begins" /\ Kind = "call" -> EmitsAny(CallChunk) /\ BeginsCall /\ UNCHANGED heldText
      [] e = "piece" /\ Kind = "call" -> EmitsAny(<<>>) /\ ExtendsCall /\ UNCHANGED heldText
      [] e = "begins" /\ Kind = "text" -> EmitsAny(<<>>) /\ UNCHANGED <<call, heldText>>
      [] e = "piece" /\ Kind = "text" -> EmitsAny(TextChunk(<<at.piece>>)) /\ UNCHANGED <<call, heldText>>
      [] e = "ends" -> UNCHANGED <<chunks, retryable, call, heldText>>

\* A block that ends completes the call that is not yet complete.
AnthropicParses(e) ==
    CASE e = "begins" /\ Kind = "call" -> Emits(<<>>) /\ BeginsCall /\ UNCHANGED heldText
      [] e = "piece" /\ Kind = "call" -> Emits(<<>>) /\ ExtendsCall /\ UNCHANGED heldText
      [] e = "piece" /\ Kind = "text" -> Emits(TextChunk(<<at.piece>>)) /\ UNCHANGED <<call, heldText>>
      [] e = "ends" -> Emits(CallChunk) /\ call' = NoCall /\ UNCHANGED heldText
      [] OTHER -> Emits(<<>>) /\ UNCHANGED <<call, heldText>>

\* A piece of a text is a part, and so is a call.
GoogleParses(e) ==
    /\ Emits(CASE e = "piece" /\ Kind = "text" -> TextChunk(<<at.piece>>)
               [] e = "ends" /\ Kind = "call" -> <<Chunk("call", at.block, [k \in Piece |-> k])>>
               [] OTHER -> <<>>)
    /\ UNCHANGED <<call, heldText>>

\* A text is emitted whole, when its block ends.
AwsParses(e) ==
    CASE e = "begins" /\ Kind = "call" -> Emits(<<>>) /\ BeginsCall /\ UNCHANGED heldText
      [] e = "piece" /\ Kind = "call" -> Emits(<<>>) /\ ExtendsCall /\ UNCHANGED heldText
      [] e = "piece" /\ Kind = "text" -> Emits(<<>>) /\ heldText' = Append(heldText, at.piece) /\ UNCHANGED call
      [] e = "ends" /\ heldText # <<>> -> Emits(TextChunk(heldText)) /\ heldText' = <<>> /\ UNCHANGED call
      [] e = "ends" /\ heldText = <<>> -> Emits(CallChunk) /\ call' = NoCall /\ UNCHANGED heldText
      [] OTHER -> Emits(<<>>) /\ UNCHANGED <<call, heldText>>

Parses(e) ==
    CASE llmDialect = "openai" -> OpenAIParses(e)
      [] llmDialect = "anthropic" -> AnthropicParses(e)
      [] llmDialect = "google" -> GoogleParses(e)
      [] llmDialect = "aws" -> AwsParses(e)

NextEvent == IF at.piece = Ends THEN [block |-> at.block + 1, piece |-> 0] ELSE [at EXCEPT !.piece = @ + 1]

EventComes ==
    /\ llmRun = "streams" /\ at.block <= Len(blocks)
    /\ Parses(IF at.piece = 0 THEN "begins" ELSE IF at.piece = Ends THEN "ends" ELSE "piece")
    /\ at' = NextEvent
    /\ UNCHANGED <<llmDialect, blocks, llmTries, llmRun, streamTaken, refused>>

----------------------------------------------------------------------------
(* The attempts *)

\* _run begins: openai forgets the call of an earlier attempt, the others keep it.
StreamBegins ==
    /\ llmRun = "request" /\ llmRun' = "streams"
    /\ at' = [block |-> 1, piece |-> 0] /\ streamTaken' = TRUE
    /\ call' = IF llmDialect = "openai" THEN NoCall ELSE call
    /\ UNCHANGED <<llmDialect, blocks, llmTries, heldText, chunks, retryable, refused>>

\* An attempt fails: it is repeated if the error is retryable and there are attempts left.  Anthropic has its
\* stream made once: the next attempt awaits it in vain, or goes on behind its end.
AttemptFails(again) ==
    /\ IF again /\ llmTries <= MaxLlmRetries
         THEN /\ llmTries' = llmTries + 1 /\ retryable' = TRUE
              /\ IF llmDialect = "anthropic" /\ streamTaken
                   THEN llmRun' = "streams" /\ at' = [block |-> Len(blocks) + 1, piece |-> 0]
                   ELSE llmRun' = (IF llmDialect = "anthropic" THEN "failed" ELSE "request") /\ UNCHANGED at
         ELSE llmRun' = "failed" /\ UNCHANGED <<llmTries, retryable, at>>
    /\ UNCHANGED <<llmDialect, blocks, call, heldText, chunks, streamTaken>>

\* Whether an error is retryable: what _run gives it or, for a status of anthropic, the status (_exceptions.py).
\* "busy" is the status 429.
LlmErrors == {"client", "busy", "server", "connection"}
OpenAIRetriesAnyhow(error) == TRUE   \* Mutant: an attempt that emitted something is repeated too.
OpenAIRetries(error) == retryable
AnthropicRetries(error) == IF error = "connection" THEN retryable ELSE error = "server"
GoogleRetries(error) == error = "busy" \/ (error # "client" /\ retryable)
AwsRetries(error) == retryable

\* The request is refused, or the server or the connection fails, then or later.
Fails(error) ==
    /\ llmRun = "request" \/ (llmRun = "streams" /\ at.block <= Len(blocks) /\ error \in {"server", "connection"})
    /\ refused' = (refused \/ error = "client")
    /\ AttemptFails(CASE llmDialect = "openai" -> OpenAIRetries(error)
                      [] llmDialect = "anthropic" -> AnthropicRetries(error)
                      [] llmDialect = "google" -> GoogleRetries(error)
                      [] llmDialect = "aws" -> AwsRetries(error))

\* The answer is over: openai emits the last call with its finish; the usage of aws is no valid chunk.
OpenAIFinishes == Emits(CallChunk) /\ call' = NoCall /\ llmRun' = "done" /\ UNCHANGED <<at, llmTries, heldText, streamTaken>>
AnthropicFinishes == llmRun' = "done" /\ UNCHANGED <<at, llmTries, call, heldText, chunks, retryable, streamTaken>>
GoogleFinishes == llmRun' = "done" /\ UNCHANGED <<at, llmTries, call, heldText, chunks, retryable, streamTaken>>
AwsFinishes == AttemptFails(retryable)

AnswerOver ==
    /\ llmRun = "streams" /\ at.block > Len(blocks)
    /\ CASE llmDialect = "openai" -> OpenAIFinishes
         [] llmDialect = "anthropic" -> AnthropicFinishes
         [] llmDialect = "google" -> GoogleFinishes
         [] llmDialect = "aws" -> AwsFinishes
    /\ UNCHANGED <<llmDialect, blocks, refused>>

LlmStreamsNext ==
    \/ StreamBegins \/ EventComes \/ AnswerOver
    \/ \E error \in LlmErrors : Fails(error)

LlmStreamsSpec == LlmStreamsInit /\ [][LlmStreamsNext]_llmVars

----------------------------------------------------------------------------
(* Properties *)

AllPieces == [k \in Piece |-> k]

\* A call is emitted with all its arguments, each once, whatever was before it in the answer and whatever
\* attempt failed in the middle of it (openai/llm.py:549).
CallsAreWhole == \A k \in DOMAIN chunks : chunks[k].kind = "call" => chunks[k].pieces = AllPieces

\* The texts are in order and without repetition, and so are the calls: an attempt that emitted something is
\* not repeated.  (openai gives a call after the text that follows it, when nothing else completes the call.
\* The text of aws is kept when an attempt fails, and said twice: aws/llm.py:233.)
AnswerOnce ==
    llmDialect # "aws" =>
        \A j, k \in DOMAIN chunks : j < k /\ chunks[j].kind = chunks[k].kind =>
            \/ chunks[j].block < chunks[k].block
            \/ chunks[j].block = chunks[k].block /\ chunks[j].kind = "text" /\ Last(chunks[j].pieces) < chunks[k].pieces[1]

\* A stream that is done gave the whole answer; that of anthropic, if its first attempt did not fail.
DoneIsWhole ==
    llmRun = "done" /\ (llmDialect = "anthropic" => llmTries = 1) =>
        \A b \in DOMAIN blocks :
            FlattenSeq([k \in DOMAIN chunks |-> IF chunks[k].block = b THEN chunks[k].pieces ELSE <<>>]) = AllPieces

=============================================================================
