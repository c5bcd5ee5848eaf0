----------------------------- MODULE TextStreams ------------------------------
(***************************************************************************)
(* The tokenizer between an LLM and a TTS: BufferedTokenStream             *)
(* (tokenize/token_stream.py) over split_sentences (_basic_sent.py).  A    *)
(* text is a sequence of words, [id, stops]: the rules say which of them   *)
(* stop a sentence, and lengths are counted in words.                      *)
(***************************************************************************)
EXTENDS Naturals, Sequences, SequencesExt

CONSTANTS MinSentence,  \* min_sentence_len, which is the min_token_len of the stream too
          MinContext,   \* stream_context_len
          MaxWordsPushed, MaxChunk      \* bounds: words of the text, words of one push

ASSUME TokensAssumption ==
    /\ {MinSentence, MinContext, MaxWordsPushed, MaxChunk} \subseteq Nat
    /\ MinContext <= MinSentence + 1

VARIABLES
    text,               \* all that is said, the stops among it
    given,              \* how many words were pushed
    inBuf, outBuf,      \* _in_buf, _out_buf
    tokens,             \* the tokens sent, [segment, words]
    segment,            \* _current_segment_id
    segmentStart        \* history: the words given before the segment

tokenVars == <<text, given, inBuf, outBuf, tokens, segment, segmentStart>>

TokensTypeOK ==
    /\ given \in 0..Len(text) /\ segmentStart \in 0..given
    /\ Len(inBuf) <= MaxWordsPushed /\ Len(outBuf) <= MaxWordsPushed
    /\ \A i \in DOMAIN tokens : tokens[i].segment \in 0..segment /\ tokens[i].words # <<>>

TokensInit ==
    /\ text \in [1..MaxWordsPushed -> BOOLEAN]
    /\ given = 0 /\ inBuf = <<>> /\ outBuf = <<>> /\ tokens = <<>> /\ segment = 0 /\ segmentStart = 0

----------------------------------------------------------------------------
Word(i) == [id |-> i, stops |-> text[i]]
WordsBetween(first, last) == [i \in 1..(last + 1 - first) |-> Word(first + i - 1)]

\* split_sentences: short sentences are joined with the next one, what is left over is one too.
Sentences(words) ==
    LET add(acc, w) == IF w.stops /\ Len(acc.buff) + 1 > MinSentence
                       THEN [done |-> Append(acc.done, Append(acc.buff, w)), buff |-> <<>>]
                       ELSE [acc EXCEPT !.buff = Append(@, w)]
        all == FoldLeft(add, [done |-> <<>>, buff |-> <<>>], words)
    IN IF all.buff = <<>> THEN all.done ELSE Append(all.done, all.buff)

Sent(words) == [segment |-> segment, words |-> words]

\* Mutant: a word between two sentences is skipped.
EmittedCut(buf, out) ==
    LET found == Sentences(buf)
    IN IF Len(found) <= 1 THEN [in |-> buf, out |-> out, sent |-> <<>>]
       ELSE [in |-> SubSeq(buf, Len(Head(found)) + 2, Len(buf)), out |-> <<>>, sent |-> <<Sent(out \o Head(found))>>]

\* The loop of push_text(): the first token goes out as long as it is not the last one.
Emitted(buf, out) ==
    LET step(acc, i) ==
            LET found == Sentences(acc.in)
                joined == acc.out \o Head(found)
            IN IF Len(found) <= 1 THEN acc
               ELSE IF Len(joined) >= MinSentence
               THEN [in |-> SubSeq(acc.in, Len(Head(found)) + 1, Len(acc.in)), out |-> <<>>,
                     sent |-> Append(acc.sent, Sent(joined))]
               ELSE [acc EXCEPT !.in = SubSeq(@, Len(Head(found)) + 1, Len(@)), !.out = joined]
    IN FoldLeft(step, [in |-> buf, out |-> out, sent |-> <<>>], [i \in 1..Len(buf) |-> i])

\* Mutant: the context is not kept, whatever is a sentence now goes out.
PushEager(n) ==
    /\ given + n <= Len(text) /\ given' = given + n
    /\ LET buf == inBuf \o WordsBetween(given + 1, given + n)
       IN /\ tokens' = tokens \o [i \in DOMAIN Sentences(buf) |-> Sent(Sentences(buf)[i])]
          /\ inBuf' = <<>> /\ outBuf' = <<>>
    /\ UNCHANGED <<text, segment, segmentStart>>

\* push_text() of n words.
PushWords(n) ==
    /\ given + n <= Len(text) /\ given' = given + n
    /\ LET buf == inBuf \o WordsBetween(given + 1, given + n)
           after == Emitted(buf, outBuf)
       IN IF Len(buf) < MinContext
          THEN inBuf' = buf /\ UNCHANGED <<outBuf, tokens>>
          ELSE inBuf' = after.in /\ outBuf' = after.out /\ tokens' = tokens \o after.sent
    /\ UNCHANGED <<text, segment, segmentStart>>

\* flush(): all that is left is one token, and a new segment begins.
FlushTokens ==
    /\ inBuf \o outBuf # <<>>
    /\ tokens' = Append(tokens, Sent(outBuf \o inBuf))
    /\ inBuf' = <<>> /\ outBuf' = <<>>
    /\ segment' = segment + 1 /\ segmentStart' = given
    /\ UNCHANGED <<text, given>>

TokensNext == (\E n \in 1..MaxChunk : PushWords(n)) \/ FlushTokens

TokensSpec == TokensInit /\ [][TokensNext]_tokenVars

----------------------------------------------------------------------------
(* Properties *)

\* However the text is cut into chunks and flushed, every word goes out once and in order.
EveryWordOnce ==
    FlattenSeq([i \in DOMAIN tokens |-> tokens[i].words]) \o outBuf \o inBuf = WordsBetween(1, given)

Split(ts, s) == LET own == SelectSeq(ts, LAMBDA t : t.segment = s) IN [i \in DOMAIN own |-> own[i].words]

\* The stream splits where split_sentences would with all of the text at hand: the tokens of a
\* segment begin as its sentences do, whatever text follows (token_stream.py:45-67).
PrefixOfWhole == IsPrefix(Split(tokens, segment), Sentences(WordsBetween(segmentStart + 1, Len(text))))

\* They are all of its sentences when the segment is flushed: a step never does otherwise.
SplitsAsWhole ==
    FlushTokens => Split(tokens', segment) = Sentences(WordsBetween(segmentStart + 1, given))

----------------------------------------------------------------------------
(***************************************************************************)
(* The adapters that make a stream of single calls: stt/stream_adapter.py  *)
(* recognises each speech a VAD found, tts/stream_adapter.py synthesises   *)
(* each sentence of a token stream.  The VAD and the tokenizer (the        *)
(* splitter) outlive an attempt of _run(), which is retried (see Streams). *)
(* Each input is one speech or sentence.                                   *)
(***************************************************************************)

CONSTANTS MaxUnits, MaxAgain    \* bounds: the inputs; max_retry

ASSUME AdaptersAssumption == {MaxUnits, MaxAgain} \subseteq Nat

VARIABLES
    recognises,         \* the adapter: STT or TTS
    units,              \* of the stream: [pushed, ended]
    splitter,           \* [given, ended]: _vad_stream, _sent_stream
    forwards,           \* _forward_input of this attempt: runs, done, broken
    serving,            \* the unit whose call is awaited, 0
    served,             \* the units read from the splitter
    adapter,            \* _main_task: [state: runs, sleeps, ok, raised; number]
    results             \* history: the events, [unit, what: start, end, result]

adapterVars == <<recognises, units, splitter, forwards, serving, served, adapter, results>>

AdaptersTypeOK ==
    /\ recognises \in BOOLEAN /\ serving \in 0..MaxUnits /\ served \in 0..splitter.given
    /\ units \in [pushed : 0..MaxUnits, ended : BOOLEAN]
    /\ splitter \in [given : 0..units.pushed, ended : BOOLEAN]
    /\ forwards \in {"runs", "done", "broken"}
    /\ adapter \in [state : {"runs", "sleeps", "ok", "raised"}, number : 0..MaxAgain]

AdaptersInit ==
    /\ recognises \in BOOLEAN
    /\ units = [pushed |-> 0, ended |-> FALSE] /\ splitter = [given |-> 0, ended |-> FALSE]
    /\ forwards = "runs" /\ serving = 0 /\ served = 0
    /\ adapter = [state |-> "runs", number |-> 0] /\ results = <<>>

PushUnit ==
    /\ ~units.ended
    /\ \/ units.pushed < MaxUnits /\ units' = [units EXCEPT !.pushed = @ + 1]
       \/ units' = [units EXCEPT !.ended = TRUE]
    /\ UNCHANGED <<recognises, splitter, forwards, serving, served, adapter, results>>

\* Mutant: the refusal of the splitter is suppressed.
ForwardUnitSuppressed ==
    /\ adapter.state = "runs" /\ forwards = "runs"
    /\ \/ /\ splitter.given < units.pushed
          /\ splitter' = [splitter EXCEPT !.given = @ + 1] /\ UNCHANGED forwards
       \/ /\ units.ended /\ splitter.given = units.pushed /\ ~splitter.ended
          /\ splitter' = [splitter EXCEPT !.ended = TRUE] /\ forwards' = "done"
    /\ UNCHANGED <<recognises, units, serving, served, adapter, results>>

\* _forward_input.  At the end a splitter that was ended by an attempt before refuses its end.
ForwardUnit ==
    /\ adapter.state = "runs" /\ forwards = "runs"
    /\ \/ /\ splitter.given < units.pushed
          /\ splitter' = [splitter EXCEPT !.given = @ + 1] /\ UNCHANGED forwards
       \/ /\ units.ended /\ splitter.given = units.pushed
          /\ splitter' = [splitter EXCEPT !.ended = TRUE]
          /\ forwards' = IF splitter.ended THEN "broken" ELSE "done"
    /\ UNCHANGED <<recognises, units, serving, served, adapter, results>>

\* _recognize, _synthesize: one unit after the other; the start and the end of a speech are told
\* before its call.
Serve ==
    /\ adapter.state = "runs" /\ forwards # "broken" /\ serving = 0 /\ served < splitter.given
    /\ served' = served + 1 /\ serving' = served + 1
    /\ results' = IF ~recognises THEN results
                  ELSE results \o <<[unit |-> served + 1, what |-> "start"], [unit |-> served + 1, what |-> "end"]>>
    /\ UNCHANGED <<recognises, units, splitter, forwards, adapter>>

\* The call is answered, with an empty text or no audio maybe.
CallAnswered ==
    /\ adapter.state = "runs" /\ serving # 0
    /\ serving' = 0
    /\ \E something \in BOOLEAN :
          results' = IF something THEN Append(results, [unit |-> serving, what |-> "result"]) ELSE results
    /\ UNCHANGED <<recognises, units, splitter, forwards, served, adapter>>

\* The end of an attempt, both of its tasks are cancelled.
AttemptOver(state) ==
    /\ adapter' = [adapter EXCEPT !.state = state]
    /\ serving' = 0

\* Mutant: the unit whose call failed is read again.
CallFailsUnread ==
    /\ adapter.state = "runs" /\ serving # 0
    /\ AttemptOver(IF adapter.number < MaxAgain THEN "sleeps" ELSE "raised")
    /\ served' = served - 1
    /\ UNCHANGED <<recognises, units, splitter, forwards, results>>

\* The call fails for good.  Its unit was read, the next attempt goes on with the one after.
CallFails ==
    /\ adapter.state = "runs" /\ serving # 0
    /\ AttemptOver(IF adapter.number < MaxAgain THEN "sleeps" ELSE "raised")
    /\ UNCHANGED <<recognises, units, splitter, forwards, served, results>>

\* The RuntimeError of the splitter is not retried.
ForwardBreaks ==
    /\ adapter.state = "runs" /\ forwards = "broken"
    /\ AttemptOver("raised")
    /\ UNCHANGED <<recognises, units, splitter, forwards, served, results>>

RunAgain ==
    /\ adapter.state = "sleeps"
    /\ adapter' = [state |-> "runs", number |-> adapter.number + 1]
    /\ forwards' = "runs"
    /\ UNCHANGED <<recognises, units, splitter, serving, served, results>>

RunOver ==
    /\ adapter.state = "runs" /\ forwards = "done" /\ serving = 0 /\ served = splitter.given
    /\ adapter' = [adapter EXCEPT !.state = "ok"]
    /\ UNCHANGED <<recognises, units, splitter, forwards, serving, served, results>>

AdaptersNext ==
    \/ PushUnit \/ ForwardUnit \/ Serve \/ CallAnswered \/ CallFails \/ ForwardBreaks \/ RunAgain \/ RunOver

\* A call is answered or fails.
AdaptersFairness ==
    /\ WF_adapterVars(ForwardUnit) /\ WF_adapterVars(Serve) /\ WF_adapterVars(CallAnswered)
    /\ WF_adapterVars(ForwardBreaks) /\ WF_adapterVars(RunAgain) /\ WF_adapterVars(RunOver)

AdaptersSpec == AdaptersInit /\ [][AdaptersNext]_adapterVars /\ AdaptersFairness

----------------------------------------------------------------------------
(* Properties *)

\* The events of a speech are together and in order, and no unit is answered twice, through failed
\* attempts too: a result is never that of an earlier speech than the last one told.
ResultsInOrder ==
    \A i \in 1..(Len(results) - 1) :
        LET a == results[i] b == results[i + 1]
        IN IF b.what = "end" THEN a = [b EXCEPT !.what = "start"]
           ELSE IF b.what = "result" /\ recognises THEN a = [b EXCEPT !.what = "end"]
           ELSE b.unit > a.unit

\* What cannot last: an input that ended under a stream that goes on.
AdapterPending == units.ended /\ adapter.state \notin {"ok", "raised"}

===============================================================================
