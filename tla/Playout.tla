------------------------------- MODULE Playout -------------------------------
(***************************************************************************)
(* How a reply is heard and read: the forwarding tasks of                  *)
(* voice/generation.py, the transcript synchronizer                        *)
(* (voice/transcription/synchronizer.py) and the audio output of the room  *)
(* (voice/io.py, voice/room_io/_output.py).  Each segment of audio has a   *)
(* segment synchronizer, replaced ("rotated") when its playback is over.   *)
(* The pace of the words is left out: any word may come at any time.       *)
(***************************************************************************)
EXTENDS Naturals, Sequences, FiniteSets

CONSTANTS
    MaxReplies,         \* the replies, one after the other (a bound)
    MaxDeltas,          \* deltas of text, and frames of audio, of a reply (a bound)
    MaxToggles          \* how often the transcription is switched (a bound)

ASSUME PlayoutAssumption == {MaxReplies, MaxDeltas, MaxToggles} \subseteq Nat

VARIABLES
    current,            \* the reply that plays, and its task: idle, forward, playout, cancel, cleared
    textTask,           \* [step: off, run; text: deltas it took from the LLM]
    audioTask,          \* [step: off, run, source (in AudioSource.capture_frame()); frames]
    segments, finished, \* __playback_segments_count, __playback_finished_count
    capturing,          \* [audio: __capturing of the output, text: _capturing of the synchronized text]
    pushed,             \* [room, sync: _pushed_duration > 0]
    playing,            \* the flush task of the room output runs
    interruptedEvent,   \* _interrupted_event
    enabled, toggles,   \* the synchronizer is enabled; how often it was switched
    impls,              \* the segment synchronizers; _impl is the last one
    rotations           \* the tasks of rotate_segment(): [step: begin, waits, done; impl]

replyVars == <<current, textTask, audioTask>>
roomOutVars == <<segments, finished, capturing, pushed, playing, interruptedEvent>>
syncVars == <<enabled, toggles, impls, rotations>>
playoutVars == <<replyVars, roomOutVars, syncVars>>

NewImpl == [started |-> FALSE, audioDone |-> FALSE, textDone |-> FALSE, closed |-> FALSE,
            completed |-> FALSE, text |-> 0, sent |-> 0, ended |-> FALSE]

ImplType == [started : BOOLEAN, audioDone : BOOLEAN, textDone : BOOLEAN, closed : BOOLEAN,
             completed : BOOLEAN, text : Nat, sent : Nat, ended : BOOLEAN]
RotationType == [step : {"begin", "waits", "done"}, impl : Nat]

PlayoutTypeOK ==
    /\ current \in [reply : 0..MaxReplies, step : {"idle", "forward", "playout", "cancel", "cleared"}]
    /\ textTask \in [step : {"off", "run"}, text : 0..MaxDeltas]
    /\ audioTask \in [step : {"off", "run", "source"}, frames : 0..MaxDeltas]
    /\ segments \in 0..MaxReplies /\ finished \in 0..segments
    /\ capturing \in [audio : BOOLEAN, text : BOOLEAN] /\ pushed \in [room : BOOLEAN, sync : BOOLEAN]
    /\ playing \in BOOLEAN /\ interruptedEvent \in BOOLEAN /\ enabled \in BOOLEAN
    /\ toggles \in 0..MaxToggles
    /\ impls \in Seq(ImplType) /\ impls # <<>> /\ rotations \in Seq(RotationType)
    /\ \A k \in DOMAIN impls : impls[k].sent <= impls[k].text
    /\ \A n \in DOMAIN rotations : rotations[n].impl \in 0..Len(impls)

\* The counters may start at any value: an instance trades replies for switches.
PlayoutInit ==
    /\ current \in [reply : 0..MaxReplies, step : {"idle"}]
    /\ textTask = [step |-> "off", text |-> 0] /\ audioTask = [step |-> "off", frames |-> 0]
    /\ segments = 0 /\ finished = 0
    /\ capturing = [audio |-> FALSE, text |-> FALSE] /\ pushed = [room |-> FALSE, sync |-> FALSE]
    /\ playing = FALSE /\ interruptedEvent = FALSE
    /\ enabled = TRUE /\ toggles \in 0..MaxToggles
    /\ impls = <<NewImpl>> /\ rotations = <<>>

----------------------------------------------------------------------------
(* The segments of the synchronizer *)

CurrentImpl == Len(impls)
Impl == impls[CurrentImpl]

\* barrier(): the last rotation is over.
Barrier == \A n \in DOMAIN rotations : n = Len(rotations) => rotations[n].step = "done"

\* rotate_segment().  The rotations are forgotten once all of them are over.
Rotated == Append(IF \A n \in DOMAIN rotations : rotations[n].step = "done" THEN <<>> ELSE rotations,
                  [step |-> "begin", impl |-> 0])

\* Mutant: a closed segment stops, completed or not.
ImplStoppedAnyway(i) == i.closed

\* _main_task: closed, the segment goes on only to flush what was completed.
ImplStopped(i) == i.closed /\ (~i.completed \/ ~i.started)

EndedBy(i) == ImplStopped(i) \/ (i.started /\ (i.closed \/ i.textDone) /\ i.sent = i.text)

\* _main_task and _capture_task: a word goes to the sink.
Emit(k) ==
    /\ impls[k].started /\ ~impls[k].ended /\ ~ImplStopped(impls[k]) /\ impls[k].sent < impls[k].text
    /\ impls' = [impls EXCEPT ![k].sent = @ + 1]
    /\ UNCHANGED <<replyVars, roomOutVars, enabled, toggles, rotations>>

\* What matters of a segment that is over.
Over(i) == IF i.sent = i.text
           THEN [NewImpl EXCEPT !.ended = TRUE, !.closed = i.closed, !.textDone = i.textDone]
           ELSE [i EXCEPT !.ended = TRUE]

\* The main task is over, then the capture task.
ImplEnds(k) ==
    /\ ~impls[k].ended /\ EndedBy(impls[k])
    /\ impls' = [impls EXCEPT ![k] = Over(@)]
    /\ UNCHANGED <<replyVars, roomOutVars, enabled, toggles, rotations>>

\* _rotate_segment_task: aclose() returns at once on a segment that is closed already.
RotationBegins(n) ==
    /\ rotations[n].step = "begin"
    /\ IF Impl.closed
       THEN /\ rotations' = [rotations EXCEPT ![n] = [step |-> "done", impl |-> 0]]
            /\ impls' = Append(impls, NewImpl)
       ELSE /\ rotations' = [rotations EXCEPT ![n] = [step |-> "waits", impl |-> CurrentImpl]]
            /\ impls' = [impls EXCEPT ![CurrentImpl].closed = TRUE]
    /\ UNCHANGED <<replyVars, roomOutVars, enabled, toggles>>

RotationEnds(n) ==
    /\ rotations[n].step = "waits" /\ impls[rotations[n].impl].ended
    /\ rotations' = [rotations EXCEPT ![n] = [step |-> "done", impl |-> 0]]
    /\ impls' = Append(impls, NewImpl)
    /\ UNCHANGED <<replyVars, roomOutVars, enabled, toggles>>

\* set_transcription_enabled(): on_attached() and on_detached() reach set_enabled().
Toggle ==
    /\ toggles < MaxToggles
    /\ toggles' = toggles + 1 /\ enabled' = ~enabled /\ rotations' = Rotated
    /\ UNCHANGED <<replyVars, roomOutVars, impls>>

----------------------------------------------------------------------------
(* Text *)

\* flush() of the synchronized text: end_text_input().  A closed segment only warns.
FlushText ==
    /\ capturing' = [capturing EXCEPT !.text = @ /\ ~enabled]
    /\ impls' = IF enabled /\ capturing.text /\ ~Impl.closed
                THEN [impls EXCEPT ![CurrentImpl].textDone = TRUE] ELSE impls

\* capture_text() of a delta: straight to the sink when the synchronizer is disabled.  A sentence
\* stream whose input has ended raises, and the task of the reply ends with it.
CaptureText ==
    /\ textTask.step = "run" /\ textTask.text < MaxDeltas /\ current.step # "cancel" /\ Barrier
    /\ IF enabled /\ Impl.textDone /\ ~Impl.closed
       THEN /\ textTask' = [step |-> "off", text |-> textTask.text + 1]
            /\ capturing' = [capturing EXCEPT !.text = FALSE]
            /\ UNCHANGED impls
       ELSE /\ textTask' = [textTask EXCEPT !.text = @ + 1]
            /\ capturing' = [capturing EXCEPT !.text = @ \/ enabled]
            /\ impls' = IF enabled /\ ~Impl.closed THEN [impls EXCEPT ![CurrentImpl].text = @ + 1] ELSE impls
    /\ UNCHANGED <<current, audioTask, segments, finished, pushed, playing, interruptedEvent,
                   enabled, toggles, rotations>>

\* _text_forwarding_task: the end of its source, or its cancellation.
TextEnds ==
    /\ textTask.step = "run"
    /\ textTask' = [textTask EXCEPT !.step = "off"]
    /\ FlushText
    /\ UNCHANGED <<current, audioTask, segments, finished, pushed, playing, interruptedEvent,
                   enabled, toggles, rotations>>

----------------------------------------------------------------------------
(* Audio *)

\* capture_frame(): the barrier, the flush that runs, then the audio source; the first frame opens
\* a segment.
CaptureFrame ==
    /\ audioTask.step = "run" /\ audioTask.frames < MaxDeltas /\ current.step # "cancel"
    /\ Barrier /\ ~playing
    /\ audioTask' = [audioTask EXCEPT !.step = "source"]
    /\ segments' = IF capturing.audio THEN segments ELSE segments + 1
    /\ capturing' = [capturing EXCEPT !.audio = TRUE]
    /\ pushed' = [pushed EXCEPT !.room = TRUE]
    /\ UNCHANGED <<current, textTask, finished, playing, interruptedEvent, syncVars>>

\* push_audio(): the first frame marks the start of the segment.
FrameCaptured ==
    /\ audioTask.step = "source" /\ current.step # "cancel"
    /\ audioTask' = [step |-> "run", frames |-> audioTask.frames + 1]
    /\ pushed' = [pushed EXCEPT !.sync = TRUE]
    /\ impls' = IF enabled /\ ~Impl.closed THEN [impls EXCEPT ![CurrentImpl].started = TRUE] ELSE impls
    /\ UNCHANGED <<current, textTask, segments, finished, capturing, playing, interruptedEvent,
                   enabled, toggles, rotations>>

\* flush(): the room output waits for the playout of what was pushed; the synchronizer ends the
\* audio of its segment, or rotates it when no frame came through.
FlushAudio ==
    /\ capturing' = [capturing EXCEPT !.audio = FALSE]
    /\ playing' = (playing \/ pushed.room)
    /\ rotations' = IF enabled /\ ~pushed.sync THEN Rotated ELSE rotations
    /\ impls' = IF enabled /\ pushed.sync /\ ~Impl.closed
                THEN [impls EXCEPT ![CurrentImpl].audioDone = TRUE] ELSE impls

\* _audio_forwarding_task: the end of its source, or its cancellation, between two frames or in one.
AudioEnds ==
    /\ audioTask.step = "run" \/ (audioTask.step = "source" /\ current.step = "cancel")
    /\ audioTask' = [audioTask EXCEPT !.step = "off"]
    /\ FlushAudio
    /\ UNCHANGED <<current, textTask, segments, finished, pushed, interruptedEvent,
                   enabled, toggles>>

\* Mutant: a segment that is cut is not reported.
PlayedOutUncounted ==
    /\ playing
    /\ playing' = FALSE /\ interruptedEvent' = FALSE
    /\ finished' = IF interruptedEvent THEN finished ELSE finished + 1
    /\ pushed' = [room |-> FALSE, sync |-> FALSE]
    /\ rotations' = Rotated
    /\ UNCHANGED <<replyVars, impls, segments, capturing, enabled, toggles>>

\* on_playback_finished() of the base class: no more segments than were captured.
Report == finished' = IF finished < segments THEN finished + 1 ELSE finished

\* playback_finished() of a segment: it is completed when its text and audio were all there and
\* nobody interrupted.
PlaybackFinished(i) ==
    IF ~i.closed /\ i.textDone /\ i.audioDone /\ ~interruptedEvent THEN [i EXCEPT !.completed = TRUE] ELSE i

\* on_playback_finished() of the synchronized output, told through the chain.
SegmentPlayed ==
    IF enabled THEN /\ impls' = [impls EXCEPT ![CurrentImpl] = PlaybackFinished(@)]
                    /\ rotations' = Rotated
                    /\ pushed' = [room |-> FALSE, sync |-> FALSE]
    ELSE pushed' = [pushed EXCEPT !.room = FALSE] /\ UNCHANGED <<impls, rotations>>

\* _wait_for_playout: the queue of the source is empty, or was cleared.
PlayedOut ==
    /\ playing
    /\ playing' = FALSE /\ interruptedEvent' = FALSE
    /\ Report /\ SegmentPlayed
    /\ UNCHANGED <<replyVars, segments, capturing, enabled, toggles>>

----------------------------------------------------------------------------
(* The reply *)

\* A reply that may play starts to forward.
ReplyBegins ==
    /\ current.step = "idle" /\ current.reply < MaxReplies
    /\ current' = [reply |-> current.reply + 1, step |-> "forward"]
    /\ textTask' = [step |-> "run", text |-> 0] /\ audioTask' = [step |-> "run", frames |-> 0]
    /\ UNCHANGED <<roomOutVars, syncVars>>

TasksOff == textTask.step = "off" /\ audioTask.step = "off"

Forwarded ==
    /\ current.step = "forward" /\ TasksOff
    /\ current' = [current EXCEPT !.step = "playout"]
    /\ UNCHANGED <<textTask, audioTask, roomOutVars, syncVars>>

Interrupt ==
    /\ current.step \in {"forward", "playout"}
    /\ current' = [current EXCEPT !.step = "cancel"]
    /\ UNCHANGED <<textTask, audioTask, roomOutVars, syncVars>>

\* Mutant: the event is set whatever was pushed.
ClearBufferAlways ==
    /\ current.step = "cancel" /\ TasksOff
    /\ current' = [current EXCEPT !.step = "cleared"]
    /\ interruptedEvent' = TRUE
    /\ UNCHANGED <<textTask, audioTask, segments, finished, capturing, pushed, playing, syncVars>>

\* clear_buffer(), once the tasks are cancelled: nothing to do when nothing was pushed.
ClearBuffer ==
    /\ current.step = "cancel" /\ TasksOff
    /\ current' = [current EXCEPT !.step = "cleared"]
    /\ interruptedEvent' = (interruptedEvent \/ pushed.room)
    /\ UNCHANGED <<textTask, audioTask, segments, finished, capturing, pushed, playing, syncVars>>

\* Mutant: the playout is over when the buffer is cleared.
WaitForPlayoutNot ==
    /\ current.step \in {"playout", "cleared"}
    /\ current' = [current EXCEPT !.step = "idle"]
    /\ UNCHANGED <<textTask, audioTask, roomOutVars, syncVars>>

\* wait_for_playout(): every segment captured was reported as finished.
WaitForPlayout ==
    /\ current.step \in {"playout", "cleared"} /\ finished >= segments
    /\ current' = [current EXCEPT !.step = "idle"]
    /\ UNCHANGED <<textTask, audioTask, roomOutVars, syncVars>>

----------------------------------------------------------------------------
PlayoutNext ==
    \/ ReplyBegins \/ Forwarded \/ Interrupt \/ ClearBuffer \/ WaitForPlayout
    \/ CaptureText \/ TextEnds \/ CaptureFrame \/ FrameCaptured \/ AudioEnds \/ PlayedOut
    \/ Toggle
    \/ \E k \in DOMAIN impls : Emit(k) \/ ImplEnds(k)
    \/ \E n \in DOMAIN rotations : RotationBegins(n) \/ RotationEnds(n)

\* The LLM and the TTS end, the audio is played, and every task that can go on does.
PlayoutFairness ==
    /\ WF_playoutVars(Forwarded) /\ WF_playoutVars(ClearBuffer) /\ WF_playoutVars(WaitForPlayout)
    /\ WF_playoutVars(TextEnds) /\ WF_playoutVars(AudioEnds)
    /\ WF_playoutVars(FrameCaptured) /\ WF_playoutVars(PlayedOut)
    /\ WF_playoutVars(\E k \in DOMAIN impls : Emit(k))
    /\ WF_playoutVars(\E k \in DOMAIN impls : ImplEnds(k))
    /\ WF_playoutVars(\E n \in DOMAIN rotations : RotationBegins(n) \/ RotationEnds(n))

PlayoutSpec == PlayoutInit /\ [][PlayoutNext]_playoutVars /\ PlayoutFairness

----------------------------------------------------------------------------
(* Properties *)

\* A reply that is over owes no playout: its segment was reported, once, so the wait of the next
\* reply is for the next reply's segment (io.py:123).
NoPlayoutOwed == current.step = "idle" => finished = segments /\ ~playing

\* The interruption flag never outlives the reply it was set for: the next one would be cut at its
\* first frame (_output.py:87).
InterruptionIsOwn == interruptedEvent => current.step = "cleared" /\ playing

\* A segment of audio is open or plays while its counter is one ahead; the replies that forward
\* audio have one segment each, and open it when nothing plays.
SegmentsCounted ==
    /\ pushed.room <=> capturing.audio \/ playing
    /\ segments = finished + (IF pushed.room THEN 1 ELSE 0)
    /\ segments <= current.reply
    /\ capturing.audio => audioTask.step # "off"
    /\ audioTask.step = "source" => capturing.audio /\ audioTask.frames < MaxDeltas
    /\ audioTask.step # "off" => ~playing /\ (capturing.audio \/ segments < current.reply)
    /\ ~TasksOff => current.step \in {"forward", "cancel"}

PlayoutInv == PlayoutTypeOK /\ SegmentsCounted /\ NoPlayoutOwed /\ InterruptionIsOwn

\* What cannot last: a reply that does not end, however it was interrupted and whatever rotates, and
\* a segment played to its end whose transcript is not sent to its end, even when the words were
\* late ("make sure the whole transcript is sent").
ReplyPending ==
    \/ current.step # "idle"
    \/ \E k \in DOMAIN impls : impls[k].completed /\ impls[k].started /\ impls[k].sent # impls[k].text

=============================================================================
