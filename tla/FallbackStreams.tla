--------------------------- MODULE FallbackStreams ---------------------------
(***************************************************************************)
(* The fallback adapters of TTS and STT (tts/fallback_adapter.py,          *)
(* stt/fallback_adapter.py): the calls, then the recognition streams, then *)
(* the synthesis streams.  They share no state here.                       *)
(***************************************************************************)
EXTENDS Channel, Streams

----------------------------------------------------------------------------
(***************************************************************************)
(* The calls of a fallback adapter that are answered by one provider       *)
(* after another: FallbackChunkedStream (tts/fallback_adapter.py) and      *)
(* FallbackAdapter.recognize (stt/fallback_adapter.py).  Calls share the   *)
(* availability of the providers and one recovery task for each.  The      *)
(* providers are external: an attempt works or fails while they are up or  *)
(* not.  The retries inside an attempt are those of module Streams.        *)
(***************************************************************************)

CONSTANTS Calls,        \* the calls
          Providers,    \* 1..n, in the order of the list
          MaxChanges    \* how often a provider goes up or down (a bound)

ASSUME FallbackCallsAssumption ==
    /\ Providers # {} /\ IsFiniteSet(Providers) /\ Providers = 1..Cardinality(Providers)
    /\ MaxChanges \in Nat

VARIABLES
    synthesizes,        \* TTS or STT
    up, changes,        \* of the providers themselves
    ranked,          \* _status[i].available
    recovering,         \* the recovery tasks of each provider that run
    call,               \* [state: idle, tries, answered, cut, failed; at, allFailed, audio]
    tried,              \* history: whom a call asked
    steady,             \* history: the providers available since the call began
    heard               \* history: [whom, enough]: the providers the caller heard, enough of one

callVars == <<synthesizes, up, changes, ranked, recovering, call, tried, steady, heard>>

Ended == {"answered", "cut", "failed"}

FallbackCallsTypeOK ==
    /\ synthesizes \in BOOLEAN /\ up \in [Providers -> BOOLEAN] /\ changes \in 0..MaxChanges
    /\ ranked \in [Providers -> BOOLEAN] /\ recovering \in [Providers -> Nat]
    /\ \A c \in Calls :
          /\ call[c].state \in {"idle", "tries"} \cup Ended /\ call[c].at \in Providers \cup {0}
          /\ call[c].allFailed \in BOOLEAN /\ call[c].audio \in {"none", "some", "enough"}

FallbackCallsInit ==
    /\ synthesizes \in BOOLEAN
    /\ up = [p \in Providers |-> TRUE] /\ changes = 0
    /\ ranked = [p \in Providers |-> TRUE]
    /\ recovering = [p \in Providers |-> 0]
    /\ call = [c \in Calls |-> [state |-> "idle", at |-> 0, allFailed |-> FALSE, audio |-> "none"]]
    /\ tried = [c \in Calls |-> {}] /\ steady = tried
    /\ heard = [c \in Calls |-> [whom |-> {}, enough |-> FALSE]]

----------------------------------------------------------------------------
\* Mutant: one provider too far.
NextAskedAfter(p, avail, allFailed) ==
    LET asked == {q \in Providers : q > p /\ (avail[q] \/ allFailed)}
    IN IF asked = {} THEN 0 ELSE CHOOSE q \in asked : \A r \in asked : q <= r

\* The first provider from p on that the loop asks, 0 if there is none.
NextAsked(p, avail, allFailed) ==
    LET asked == {q \in Providers : q >= p /\ (avail[q] \/ allFailed)}
    IN IF asked = {} THEN 0 ELSE CHOOSE q \in asked : \A r \in asked : q <= r

\* Mutant: a recovery is started beside the one that runs.
TryRecoveryAgain(ps) == [p \in Providers |-> recovering[p] + IF p \in ps THEN 1 ELSE 0]

\* _try_recovery for each provider of ps.
TryRecovery(ps) == [p \in Providers |-> IF p \in ps /\ recovering[p] = 0 THEN 1 ELSE recovering[p]]

\* The loop from p on, until an attempt is awaited: those it does not ask are recovered.
Proceed(c, p, avail, allFailed, failed) ==
    LET q == NextAsked(p, avail, allFailed)
        skipped == {r \in Providers : r >= p /\ (r < q \/ q = 0)}
    IN /\ call' = [call EXCEPT ![c] = [state |-> IF q = 0 THEN "failed" ELSE "tries", at |-> q,
                                       allFailed |-> allFailed, audio |-> "none"]]
       /\ tried' = IF q = 0 THEN tried ELSE [tried EXCEPT ![c] = @ \cup {q}]
       /\ recovering' = TryRecovery(failed \cup skipped)

\* _run() of a chunked stream, _recognize_impl(): all_failed is what was known at the start.
CallBegins(c) ==
    /\ call[c].state = "idle"
    /\ Proceed(c, 1, ranked, \A p \in Providers : ~ranked[p], {})
    /\ steady' = [steady EXCEPT ![c] = {p \in Providers : ranked[p]}]
    /\ UNCHANGED <<synthesizes, up, changes, ranked, heard>>

\* Audio of a synthesis, which may fail later.
Audio(c) ==
    /\ synthesizes /\ call[c].state = "tries" /\ call[c].audio # "enough"
    /\ call' = [call EXCEPT ![c].audio = IF @ = "none" THEN "some" ELSE "enough"]
    /\ heard' = [heard EXCEPT ![c] = [whom |-> @.whom \cup {call[c].at}, enough |-> call'[c].audio = "enough"]]
    /\ UNCHANGED <<synthesizes, up, changes, ranked, recovering, tried, steady>>

\* The attempt succeeds: a synthesis with audio.  Nothing is said of the availability.
Answered(c) ==
    /\ call[c].state = "tries" /\ up[call[c].at] /\ (synthesizes => call[c].audio # "none")
    /\ call' = [call EXCEPT ![c].state = "answered"]
    /\ UNCHANGED <<synthesizes, up, changes, ranked, recovering, tried, steady, heard>>

MarkUnavailable(p) ==
    /\ ranked' = [ranked EXCEPT ![p] = FALSE]
    /\ steady' = [d \in Calls |-> steady[d] \ {p}]

\* Mutant: another provider says the text again.
SynthesisAgain(c) ==
    /\ synthesizes /\ call[c].state = "tries"
    /\ MarkUnavailable(call[c].at)
    /\ Proceed(c, call[c].at + 1, ranked', call[c].allFailed, {call[c].at})
    /\ UNCHANGED <<synthesizes, up, changes, heard>>

\* _try_synthesize raises: a timeout, no audio, any error.  After enough audio nobody else is asked.
SynthesisFails(c) ==
    /\ synthesizes /\ call[c].state = "tries"
    /\ MarkUnavailable(call[c].at)
    /\ IF call[c].audio = "enough"
       THEN call' = [call EXCEPT ![c].state = "cut"] /\ UNCHANGED <<recovering, tried>>
       ELSE Proceed(c, call[c].at + 1, ranked', call[c].allFailed, {call[c].at})
    /\ UNCHANGED <<synthesizes, up, changes, heard>>

\* _try_recognize raises.
RecognitionFails(c) ==
    /\ ~synthesizes /\ call[c].state = "tries" /\ ~up[call[c].at]
    /\ MarkUnavailable(call[c].at)
    /\ Proceed(c, call[c].at + 1, ranked', call[c].allFailed, {call[c].at})
    /\ UNCHANGED <<synthesizes, up, changes, heard>>

\* The recovery of p repeats the call on it, and ends.
Recovers(p) ==
    /\ recovering[p] > 0
    /\ recovering' = [recovering EXCEPT ![p] = @ - 1]
    /\ ranked' = [ranked EXCEPT ![p] = @ \/ up[p]]
    /\ UNCHANGED <<synthesizes, up, changes, call, tried, steady, heard>>

\* aclose() of the adapter; calls that run go on.
AdapterClosed ==
    /\ \E p \in Providers : recovering[p] > 0
    /\ recovering' = [p \in Providers |-> 0]
    /\ UNCHANGED <<synthesizes, up, changes, ranked, call, tried, steady, heard>>

\* External: a provider goes down, or comes back.
ProviderChanges(p) ==
    /\ changes < MaxChanges
    /\ changes' = changes + 1
    /\ up' = [up EXCEPT ![p] = ~@]
    /\ UNCHANGED <<synthesizes, ranked, recovering, call, tried, steady, heard>>

FallbackCallsNext ==
    \/ \E c \in Calls : CallBegins(c) \/ Audio(c) \/ Answered(c) \/ SynthesisFails(c) \/ RecognitionFails(c)
    \/ \E p \in Providers : Recovers(p) \/ ProviderChanges(p)
    \/ AdapterClosed

\* An attempt ends: every wait of a provider has a timeout or an end.
FallbackCallsFairness ==
    /\ \A c \in Calls : WF_callVars(Answered(c) \/ SynthesisFails(c) \/ RecognitionFails(c))
    /\ \A p \in Providers : WF_callVars(Recovers(p))

FallbackCallsSpec == FallbackCallsInit /\ [][FallbackCallsNext]_callVars /\ FallbackCallsFairness

----------------------------------------------------------------------------
(* Properties *)

\* A call fails only after it asked every provider that was available all along, and at least one:
\* what other calls and recoveries do to the availability meanwhile hides none (tts/fallback_adapter.py:258-311).
FailedAskedAll ==
    \A c \in Calls : call[c].state = "failed" => tried[c] # {} /\ steady[c] \subseteq tried[c]

\* The caller never hears two providers once it heard enough of one ("to prevent unnaturally
\* resaying the same text", tts/fallback_adapter.py:71).
HeardOnce ==
    \A c \in Calls : heard[c].enough => heard'[c] = heard[c]

\* One recovery per provider, however many calls fail on it together.
OneRecovery == \A p \in Providers : recovering[p] <= 1

\* What cannot last: a call that tries a provider.
CallPending == \E c \in Calls : call[c].state = "tries"

----------------------------------------------------------------------------
(***************************************************************************)
(* FallbackRecognizeStream of stt/fallback_adapter.py: one task forwards   *)
(* the input to the main stream and to the streams that recover the        *)
(* providers that failed.  Providers are 1..n; their streams are external: *)
(* they end when their input ends, or fail.  Frames are numbered.          *)
(***************************************************************************)

CONSTANTS SttCount, MaxHeard    \* the providers, the frames pushed (a bound)

ASSUME FallbackStreamsAssumption == SttCount \in Nat \ {0} /\ MaxHeard \in Nat

Stts == 1..SttCount

VARIABLES
    sttAvailable,       \* _status[i].available
    sttInput,           \* [pushed, ended]: of the stream itself
    forwarder,          \* _forward_input_task: [state: none, runs, died, done; next]
    main,               \* the main stream: [at: its provider or 0, frames, ended: its input, over: its task]
    allFailed,          \* all_failed of _run()
    recovery,           \* of each provider: none, runs (listed), closed (listed, its task over), stuck
    outcome,            \* of _run(): none, runs, returned, failed
    disturbed           \* history: a stream that was closing met the forwarder

sttVars == <<sttAvailable, sttInput, forwarder, main, allFailed, recovery, outcome, disturbed>>

FallbackStreamsTypeOK ==
    /\ sttAvailable \in [Stts -> BOOLEAN] /\ {disturbed, allFailed} \subseteq BOOLEAN
    /\ sttInput \in [pushed : 0..MaxHeard, ended : BOOLEAN]
    /\ forwarder \in [state : {"none", "runs", "died", "done"}, next : 1..(MaxHeard + 1)]
    /\ main.at \in Stts \cup {0} /\ {main.ended, main.over} \subseteq BOOLEAN
    /\ recovery \in [Stts -> {"none", "runs", "closed", "stuck"}]
    /\ outcome \in {"none", "runs", "returned", "failed"}

\* The availability is that of the adapter, whatever other streams did to it.
FallbackStreamsInit ==
    /\ sttAvailable \in [Stts -> BOOLEAN]
    /\ sttInput = [pushed |-> 0, ended |-> FALSE]
    /\ forwarder = [state |-> "none", next |-> 1]
    /\ main = [at |-> 0, frames |-> <<>>, ended |-> FALSE, over |-> FALSE]
    /\ recovery = [p \in Stts |-> "none"]
    /\ allFailed = FALSE /\ outcome = "none" /\ disturbed = FALSE

----------------------------------------------------------------------------
PushHeard ==
    /\ sttInput.pushed < MaxHeard /\ ~sttInput.ended
    /\ sttInput' = [sttInput EXCEPT !.pushed = @ + 1]
    /\ UNCHANGED <<sttAvailable, forwarder, main, allFailed, recovery, outcome, disturbed>>

EndHeard ==
    /\ ~sttInput.ended
    /\ sttInput' = [sttInput EXCEPT !.ended = TRUE]
    /\ UNCHANGED <<sttAvailable, forwarder, main, allFailed, recovery, outcome, disturbed>>

\* Mutant: a forwarder that ended is not made again for the next stream.
ForwarderStartedOnce == IF forwarder.state = "none" THEN [forwarder EXCEPT !.state = "runs"] ELSE forwarder

\* The forwarder is made for the first stream, and again if it ended.
ForwarderStarted == IF forwarder.state # "runs" THEN [forwarder EXCEPT !.state = "runs"] ELSE forwarder

\* _try_recovery: a stream for each provider whose last recovery is done.
TryStreamRecovery(ps) == [p \in Stts |-> IF p \in ps /\ recovery[p] = "none" THEN "runs" ELSE recovery[p]]

\* The loop of _run() from p on: the next provider that is asked gets a stream.  At its end the
\* recovering streams are closed, and their tasks end.
NextStream(p, all, failed) ==
    LET asked == {q \in Stts : q >= p /\ (sttAvailable[q] \/ all)}
        first == CHOOSE q \in asked : \A r \in asked : q <= r
    IN IF asked = {}
       THEN /\ outcome' = "failed" /\ main' = [main EXCEPT !.over = TRUE]
            /\ forwarder' = [forwarder EXCEPT !.state = "done"]
            /\ recovery' = [q \in Stts |-> "none"]
       ELSE /\ outcome' = "runs"
            /\ main' = [at |-> first, frames |-> <<>>, ended |-> FALSE, over |-> FALSE]
            /\ forwarder' = ForwarderStarted
            /\ recovery' = TryStreamRecovery(failed \cup {r \in Stts : r >= p /\ r < first})

RunBegins ==
    /\ outcome = "none"
    /\ allFailed' = \A p \in Stts : ~sttAvailable[p]
    /\ NextStream(1, allFailed', {})
    /\ UNCHANGED <<sttAvailable, sttInput, disturbed>>

\* The main stream fails, and is closed before the next provider is asked.
MainFails ==
    /\ outcome = "runs" /\ ~main.over
    /\ main' = [main EXCEPT !.over = TRUE]
    /\ UNCHANGED <<sttAvailable, sttInput, forwarder, allFailed, recovery, outcome, disturbed>>

MainClosed ==
    /\ outcome = "runs" /\ main.over
    /\ sttAvailable' = [sttAvailable EXCEPT ![main.at] = FALSE]
    /\ NextStream(main.at + 1, allFailed, {main.at})
    /\ UNCHANGED <<sttInput, allFailed, disturbed>>

\* The main stream ends with its input; _run() returns and leaves the forwarder and the recovering
\* streams as they are.
MainEnds ==
    /\ outcome = "runs" /\ main.ended /\ ~main.over
    /\ main' = [main EXCEPT !.over = TRUE]
    /\ outcome' = "returned"
    /\ recovery' = [p \in Stts |-> IF recovery[p] = "runs" THEN "stuck" ELSE recovery[p]]
    /\ UNCHANGED <<sttAvailable, sttInput, forwarder, allFailed, disturbed>>

\* Mutant: the forwarder does not end the input of the main stream.
ForwardWithoutEnd ==
    /\ forwarder.state = "runs" /\ outcome = "runs"
    /\ forwarder.next <= sttInput.pushed
    /\ forwarder' = [forwarder EXCEPT !.next = @ + 1]
    /\ main' = [main EXCEPT !.frames = Append(@, forwarder.next)]
    /\ UNCHANGED <<disturbed, sttAvailable, sttInput, allFailed, recovery, outcome>>

\* _forward_input_task: to the recovering streams, then to the main one.  A stream that was closed
\* meanwhile ends the whole task, the frame in hand is for nobody.
Forward ==
    /\ forwarder.state = "runs" /\ outcome = "runs"
    /\ \/ /\ forwarder.next <= sttInput.pushed
          /\ IF main.over \/ \E p \in Stts : recovery[p] = "closed"
             THEN /\ forwarder' = [state |-> "died", next |-> forwarder.next + 1]
                  /\ disturbed' = (disturbed \/ ~main.over) /\ UNCHANGED main
             ELSE /\ forwarder' = [forwarder EXCEPT !.next = @ + 1]
                  /\ main' = [main EXCEPT !.frames = Append(@, forwarder.next)]
                  /\ UNCHANGED disturbed
       \/ /\ sttInput.ended /\ forwarder.next > sttInput.pushed
          /\ forwarder' = [forwarder EXCEPT !.state = "done"]
          /\ main' = [main EXCEPT !.ended = TRUE]
          /\ UNCHANGED disturbed
    /\ UNCHANGED <<sttAvailable, sttInput, allFailed, recovery, outcome>>

\* A recovering stream fails, or its task got a transcript and closes it: it is listed until the
\* recovery task is done.
RecoveringCloses(p) ==
    /\ recovery[p] = "runs"
    /\ recovery' = [recovery EXCEPT ![p] = "closed"]
    /\ UNCHANGED <<sttAvailable, sttInput, forwarder, main, allFailed, outcome, disturbed>>

RecoveryEnds(p) ==
    /\ recovery[p] = "closed"
    /\ recovery' = [recovery EXCEPT ![p] = "none"]
    /\ \E transcript \in BOOLEAN : sttAvailable' = [sttAvailable EXCEPT ![p] = @ \/ transcript]
    /\ UNCHANGED <<sttInput, forwarder, main, allFailed, outcome, disturbed>>

FallbackStreamsNext ==
    \/ PushHeard \/ EndHeard \/ RunBegins \/ MainFails \/ MainClosed \/ MainEnds \/ Forward
    \/ \E p \in Stts : RecoveringCloses(p) \/ RecoveryEnds(p)

\* What is ready runs; a main stream whose input ended ends.
FallbackStreamsFairness ==
    /\ WF_sttVars(RunBegins) /\ WF_sttVars(Forward) /\ WF_sttVars(MainClosed) /\ WF_sttVars(MainEnds)
    /\ \A p \in Stts : WF_sttVars(RecoveryEnds(p))

FallbackStreamsSpec == FallbackStreamsInit /\ [][FallbackStreamsNext]_sttVars /\ FallbackStreamsFairness

----------------------------------------------------------------------------
(* Properties *)

\* The main stream hears consecutive frames, the ones from the change of the stream on, each once,
\* whatever fails (fallback_adapter.py:263-311).
MainHearsNoGap ==
    \A i \in 1..Len(main.frames) : main.frames[i] = main.frames[1] + i - 1

\* What cannot last: a stream whose input ended and that is not over.  A recovering stream that
\* closes as the forwarder writes to it is the exception: the forwarder dies of it and the main
\* stream is never told of the end ("stream might be closed", stt/fallback_adapter.py:264).
RecognitionPending == sttInput.ended /\ outcome \notin {"returned", "failed"} /\ ~disturbed

----------------------------------------------------------------------------
(***************************************************************************)
(* FallbackSynthesizeStream of tts/fallback_adapter.py: the text of        *)
(* several segments goes to one provider after another, each hearing again *)
(* what is not known as spoken.  The providers are external: they speak    *)
(* the segments in order, mark the last frame of each or not, tell the     *)
(* segments apart or not, and may fail between two frames.  A segment is   *)
(* one text and its flush, spoken in two frames.                           *)
(***************************************************************************)
CONSTANTS TtsCount,     \* providers
          MaxSegments   \* segments pushed (a bound)

ASSUME FallbackSpeechAssumption == TtsCount \in Nat \ {0} /\ MaxSegments \in Nat

VARIABLES
    marksFinal, namesSegments,      \* of the providers: is_final, segment_id
    textItems,          \* items of _input_ch: the text and the flush of segment 1, 2, ..
    forwarded,          \* how many of them _forward_input_task read
    pending, currentSegment,   \* _pending_segments_chunks, _current_segment_text (0 for none)
    speechChan,               \* new_input_ch: the segments, text and flush
    speechTts,                \* the attempt: [at, spoken: items of the channel, frame: of the next, audio, last]
    runOutcome,         \* outcome of _run(): runs, returned, cut, failed
    said                \* history: the segments heard to their end

saidVars == <<marksFinal, namesSegments, textItems, forwarded, pending, currentSegment,
              speechChan, speechTts, runOutcome, said>>

Item(n) == [segment |-> (n + 1) \div 2, flush |-> n % 2 = 0]

FallbackSpeechTypeOK ==
    /\ {marksFinal, namesSegments} \subseteq BOOLEAN
    /\ forwarded \in 0..textItems /\ textItems \in 0..(2 * MaxSegments) /\ currentSegment \in 0..MaxSegments
    /\ \A i \in DOMAIN pending : pending[i] \in 1..MaxSegments
    /\ \A i \in DOMAIN speechChan : speechChan[i].segment \in 1..MaxSegments /\ speechChan[i].flush \in BOOLEAN
    /\ speechTts.at \in 1..TtsCount /\ speechTts.spoken \in 0..(2 * MaxSegments) /\ speechTts.frame \in {1, 2}
    /\ speechTts.audio \in Nat /\ speechTts.last \in 0..MaxSegments
    /\ runOutcome \in {"runs", "returned", "cut", "failed"} /\ said \in Seq(1..MaxSegments)

FallbackSpeechInit ==
    /\ marksFinal \in BOOLEAN /\ namesSegments \in BOOLEAN
    /\ textItems = 0 /\ forwarded = 0 /\ pending = <<>> /\ currentSegment = 0 /\ speechChan = <<>>
    /\ speechTts = [at |-> 1, spoken |-> 0, frame |-> 1, audio |-> 0, last |-> 0]
    /\ runOutcome = "runs" /\ said = <<>>

----------------------------------------------------------------------------
\* push_text() and flush().
PushItem ==
    /\ textItems < 2 * MaxSegments
    /\ textItems' = textItems + 1
    /\ UNCHANGED <<marksFinal, namesSegments, forwarded, pending, currentSegment, speechChan, speechTts, runOutcome, said>>

\* _forward_input_task.
ForwardItem ==
    /\ runOutcome = "runs" /\ forwarded < textItems
    /\ forwarded' = forwarded + 1
    /\ LET item == Item(forwarded + 1)
       IN /\ speechChan' = Append(speechChan, item)
          /\ currentSegment' = IF item.flush THEN 0 ELSE item.segment
          /\ pending' = IF item.flush /\ currentSegment # 0 THEN Append(pending, currentSegment) ELSE pending
    /\ UNCHANGED <<marksFinal, namesSegments, textItems, speechTts, runOutcome, said>>

\* The flushes the provider has still to speak, in its order: one without a text says nothing.
ToSpeak == {i \in (speechTts.spoken + 1)..Len(speechChan) :
               /\ speechChan[i].flush
               /\ \E j \in DOMAIN speechChan :
                     ~speechChan[j].flush /\ speechChan[j].segment = speechChan[i].segment}

\* Mutant: a segment stays pending though it was heard to its end.
PopsNever(segment, final) == FALSE

\* A frame ends the first pending segment: the last of a segment, or the first of another one.
Pops(segment, final) ==
    /\ pending # <<>>
    /\ final \/ (namesSegments /\ speechTts.last # 0 /\ segment # speechTts.last)

\* A frame of the provider.
Frame ==
    /\ runOutcome = "runs" /\ ToSpeak # {}
    /\ LET segment == speechChan[Min(ToSpeak)].segment
           ends == speechTts.frame = 2
           pops == Pops(segment, ends /\ marksFinal)
       IN /\ pending' = IF pops THEN Tail(pending) ELSE pending
          /\ speechTts' = [speechTts EXCEPT !.spoken = IF ends THEN Min(ToSpeak) ELSE @, !.frame = IF ends THEN 1 ELSE 2,
                                !.audio = IF pops THEN 0 ELSE @ + 1, !.last = segment]
          /\ said' = IF ends THEN Append(said, segment) ELSE said
    /\ UNCHANGED <<marksFinal, namesSegments, textItems, forwarded, currentSegment, speechChan, runOutcome>>

\* What the next provider hears first.
HeardAgain ==
    LET whole == [i \in 1..(2 * Len(pending)) |-> [segment |-> pending[(i + 1) \div 2], flush |-> i % 2 = 0]]
    IN IF currentSegment = 0 THEN whole ELSE Append(whole, [segment |-> currentSegment, flush |-> FALSE])

\* Mutant: the text that was not flushed yet is forgotten.
ProviderFailsForgetting(enough) ==
    /\ runOutcome = "runs"
    /\ IF enough /\ pending # <<>> THEN runOutcome' = "cut" /\ UNCHANGED <<speechChan, speechTts>>
       ELSE IF speechTts.at = TtsCount THEN runOutcome' = "failed" /\ UNCHANGED <<speechChan, speechTts>>
       ELSE /\ speechTts' = [at |-> speechTts.at + 1, spoken |-> 0, frame |-> 1, audio |-> 0, last |-> 0]
            /\ speechChan' = SelectSeq(HeardAgain, LAMBDA item : item.segment # currentSegment)
            /\ UNCHANGED runOutcome
    /\ UNCHANGED <<marksFinal, namesSegments, textItems, forwarded, pending, currentSegment, said>>

\* The attempt fails.  After enough audio (enough is only possible with some) nobody is asked
\* again if a segment is pending; otherwise the next provider is.
ProviderFails(enough) ==
    /\ runOutcome = "runs"
    /\ IF enough /\ pending # <<>> THEN runOutcome' = "cut" /\ UNCHANGED <<speechChan, speechTts>>
       ELSE IF speechTts.at = TtsCount THEN runOutcome' = "failed" /\ UNCHANGED <<speechChan, speechTts>>
       ELSE /\ speechTts' = [at |-> speechTts.at + 1, spoken |-> 0, frame |-> 1, audio |-> 0, last |-> 0]
            /\ speechChan' = HeardAgain
            /\ UNCHANGED runOutcome
    /\ UNCHANGED <<marksFinal, namesSegments, textItems, forwarded, pending, currentSegment, said>>

\* The provider spoke all there is, and the input ended.
SpeechReturns ==
    /\ runOutcome = "runs" /\ forwarded = 2 * MaxSegments /\ ToSpeak = {}
    /\ runOutcome' = "returned"
    /\ UNCHANGED <<marksFinal, namesSegments, textItems, forwarded, pending, currentSegment, speechChan, speechTts, said>>

FallbackSpeechNext ==
    \/ PushItem \/ ForwardItem \/ Frame \/ SpeechReturns
    \/ \E enough \in BOOLEAN : (enough => speechTts.audio > 0) /\ ProviderFails(enough)

FallbackSpeechSpec == FallbackSpeechInit /\ [][FallbackSpeechNext]_saidVars

----------------------------------------------------------------------------
(* Properties *)

\* A synthesis that returns normally said every segment to its end, whichever providers failed in
\* between and wherever in the text, if the providers do not name the segments.
AllSaid ==
    runOutcome = "returned" /\ ~namesSegments =>
        \A s \in 1..MaxSegments : \E i \in DOMAIN said : said[i] = s

\* A segment that was heard to its marked end is not said again by the next provider, and the
\* segments stay in order.
SaidInOrder == marksFinal => \A i, j \in DOMAIN said : i < j => said[i] < said[j]

\* Whoever waits on a channel is served, a stream's end tells how its task ended, and a provider
\* that fails costs neither a frame nor a sentence (channel.py, stt/, tts/, fallback_adapter.py).
StreamsSafe ==
    /\ ChanTypeOK /\ NoSenderForgotten
    /\ StreamsTypeOK /\ EndTellsTruth
    /\ FallbackCallsTypeOK /\ FailedAskedAll /\ OneRecovery
    /\ FallbackStreamsTypeOK /\ MainHearsNoGap
    /\ FallbackSpeechTypeOK /\ AllSaid /\ SaidInOrder

=============================================================================
