------------------------------- MODULE Avatar -------------------------------
(***************************************************************************)
(* The audio of an agent played by an avatar worker: voice/avatar.  The    *)
(* agent writes frames to a stream per segment (_datastream_io.py) or to a *)
(* local queue (_queue_io.py); the runner (_runner.py) feeds a video       *)
(* generator and notifies the end of each playback; clear_buffer goes      *)
(* the other way around.  The generator is external: a queue which         *)
(* clear_buffer() empties.  Messages of one kind keep their order.         *)
(***************************************************************************)
EXTENDS Naturals, Sequences

CONSTANTS MaxAvatarReplies, MaxAvatarFrames     \* bounds

ASSUME AvatarAssumption == {MaxAvatarReplies, MaxAvatarFrames} \subseteq Nat

VARIABLES
    viaStream,          \* a data stream, or the local queue
    avatarReply,        \* [reply, step: idle, opening, streaming, playout, cleared; frames]
    undisturbed,        \* history: nobody interrupted a reply so far
    avatarSegments, avatarFinished,     \* the counters of the base class
    toRunner,           \* what was sent and not read: open, frame, end
    clears,             \* [sent: clear_buffer requests on their way, tasks: _handle_clear_buffer]
    notices,            \* playback notifications on their way
    reader,             \* none, reading, cleared: _current_reader and _current_reader_cleared
    generator,          \* the queue of the generator: frame, end
    audioPlaying,       \* _audio_playing
    notifying           \* _publish_video awaits its notification

agentSideVars == <<viaStream, avatarReply, undisturbed, avatarSegments, avatarFinished>>
runnerVars == <<reader, generator, audioPlaying, notifying>>
avatarVars == <<agentSideVars, toRunner, clears, notices, runnerVars>>

Items == {"open", "frame", "end"}

AvatarTypeOK ==
    /\ viaStream \in BOOLEAN /\ undisturbed \in BOOLEAN
    /\ audioPlaying \in BOOLEAN /\ notifying \in BOOLEAN
    /\ avatarReply \in [reply : 0..MaxAvatarReplies, frames : 0..MaxAvatarFrames,
                        step : {"idle", "opening", "streaming", "playout", "cleared"}]
    /\ avatarSegments \in 0..MaxAvatarReplies /\ avatarFinished \in 0..avatarSegments
    /\ toRunner \in Seq(Items) /\ generator \in Seq(Items \ {"open"})
    /\ clears \in [sent : 0..MaxAvatarReplies, tasks : 0..MaxAvatarReplies] /\ notices \in Nat
    /\ reader \in {"none", "reading", "cleared"}

AvatarInit ==
    /\ viaStream \in BOOLEAN
    /\ avatarReply = [reply |-> 0, step |-> "idle", frames |-> 0]
    /\ undisturbed = TRUE /\ avatarSegments = 0 /\ avatarFinished = 0
    /\ toRunner = <<>> /\ clears = [sent |-> 0, tasks |-> 0] /\ notices = 0
    /\ reader = "none" /\ generator = <<>> /\ audioPlaying = FALSE /\ notifying = FALSE

----------------------------------------------------------------------------
(* The agent *)

\* capture_frame() of the first frame: the segment is counted, then the stream is opened.
FirstFrame ==
    /\ avatarReply.step = "idle" /\ avatarReply.reply < MaxAvatarReplies
    /\ avatarReply' = [reply |-> avatarReply.reply + 1, frames |-> 0,
                       step |-> IF viaStream THEN "opening" ELSE "streaming"]
    /\ avatarSegments' = avatarSegments + 1
    /\ UNCHANGED <<viaStream, undisturbed, avatarFinished, toRunner, clears, notices, runnerVars>>

StreamOpened ==
    /\ avatarReply.step = "opening"
    /\ avatarReply' = [avatarReply EXCEPT !.step = "streaming"]
    /\ toRunner' = Append(toRunner, "open")
    /\ UNCHANGED <<viaStream, undisturbed, avatarSegments, avatarFinished, clears, notices, runnerVars>>

WriteFrame ==
    /\ avatarReply.step = "streaming" /\ avatarReply.frames < MaxAvatarFrames
    /\ avatarReply' = [avatarReply EXCEPT !.frames = @ + 1]
    /\ toRunner' = Append(toRunner, "frame")
    /\ UNCHANGED <<viaStream, undisturbed, avatarSegments, avatarFinished, clears, notices, runnerVars>>

\* Mutant: the end of the segment is not sent.
FlushSilently ==
    /\ avatarReply.step = "streaming" /\ avatarReply.frames > 0
    /\ avatarReply' = [avatarReply EXCEPT !.step = "playout"]
    /\ UNCHANGED <<toRunner, viaStream, undisturbed, avatarSegments, avatarFinished, clears, notices, runnerVars>>

\* flush(): the stream is closed, or the end of the segment queued.
AvatarFlush ==
    /\ avatarReply.step = "streaming" /\ avatarReply.frames > 0
    /\ avatarReply' = [avatarReply EXCEPT !.step = "playout"]
    /\ toRunner' = Append(toRunner, "end")
    /\ UNCHANGED <<viaStream, undisturbed, avatarSegments, avatarFinished, clears, notices, runnerVars>>

\* The reply is interrupted: its capture_frame() is cancelled, then flush() and clear_buffer().
\* The queue is emptied here, its end of segment included; a stream gets a request.
AvatarInterrupt ==
    /\ avatarReply.step \in {"opening", "streaming", "playout"}
    /\ avatarReply' = [avatarReply EXCEPT !.step = "cleared"]
    /\ toRunner' = IF ~viaStream THEN <<>>
                   ELSE IF avatarReply.step = "streaming" THEN Append(toRunner, "end") ELSE toRunner
    /\ clears' = IF viaStream THEN [clears EXCEPT !.sent = @ + 1] ELSE [clears EXCEPT !.tasks = @ + 1]
    /\ undisturbed' = FALSE
    /\ UNCHANGED <<viaStream, avatarSegments, avatarFinished, notices, runnerVars>>

\* wait_for_playout().
AvatarPlayoutOver ==
    /\ avatarReply.step \in {"playout", "cleared"} /\ avatarFinished >= avatarSegments
    /\ avatarReply' = [avatarReply EXCEPT !.step = "idle"]
    /\ UNCHANGED <<viaStream, undisturbed, avatarSegments, avatarFinished, toRunner, clears, notices, runnerVars>>

\* _handle_playback_finished and on_playback_finished(): a notification too many is ignored.  The
\* runner that awaits its answer then marks the audio as over.
NoticeArrives ==
    /\ notices > 0
    /\ notices' = notices - 1
    /\ avatarFinished' = IF avatarFinished < avatarSegments THEN avatarFinished + 1 ELSE avatarFinished
    /\ notifying' = FALSE
    /\ audioPlaying' = (audioPlaying /\ ~notifying)
    /\ UNCHANGED <<viaStream, undisturbed, avatarReply, avatarSegments, toRunner, clears, reader, generator>>

----------------------------------------------------------------------------
(* The runner *)

\* What is left of a cleared stream is skipped.
ReadFrame ==
    IF reader = "cleared" THEN UNCHANGED <<audioPlaying, generator, reader>>
    ELSE /\ audioPlaying' = TRUE
         /\ generator' = Append(generator, "frame")
         /\ UNCHANGED reader

\* _stream_impl (or the queue) and _read_audio.
Read ==
    /\ toRunner # <<>>
    /\ toRunner' = Tail(toRunner)
    /\ CASE Head(toRunner) = "open" -> reader' = "reading" /\ UNCHANGED <<generator, audioPlaying>>
         [] Head(toRunner) = "frame" -> ReadFrame
         [] Head(toRunner) = "end" -> /\ reader' = "none" /\ generator' = Append(generator, "end")
                                      /\ UNCHANGED audioPlaying
    /\ UNCHANGED <<agentSideVars, clears, notices, notifying>>

\* Mutant: the runner takes an empty queue for the end of the segment.
PublishUntilEmpty ==
    /\ generator # <<>> /\ ~notifying
    /\ generator' = Tail(generator)
    /\ notifying' = (Len(generator) = 1 /\ audioPlaying)
    /\ notices' = IF notifying' THEN notices + 1 ELSE notices
    /\ UNCHANGED <<agentSideVars, toRunner, clears, reader, audioPlaying>>

\* _publish_video: the end of a segment that played is notified, and the answer awaited.
Publish ==
    /\ generator # <<>> /\ ~notifying
    /\ generator' = Tail(generator)
    /\ notifying' = (Head(generator) = "end" /\ audioPlaying)
    /\ notices' = IF notifying' THEN notices + 1 ELSE notices
    /\ UNCHANGED <<agentSideVars, toRunner, clears, reader, audioPlaying>>

\* _handle_clear_buffer of the receiver: the stream that is read is marked, the runner told.
ClearArrives ==
    /\ clears.sent > 0
    /\ clears' = [sent |-> clears.sent - 1, tasks |-> clears.tasks + 1]
    /\ reader' = IF reader = "none" THEN "none" ELSE "cleared"
    /\ UNCHANGED <<agentSideVars, toRunner, notices, generator, audioPlaying, notifying>>

\* _handle_clear_buffer of the runner: only audio that plays is notified as interrupted.
HandleClear ==
    /\ clears.tasks > 0
    /\ clears' = [clears EXCEPT !.tasks = @ - 1]
    /\ generator' = <<>>
    /\ notices' = IF audioPlaying THEN notices + 1 ELSE notices
    /\ audioPlaying' = FALSE
    /\ UNCHANGED <<agentSideVars, toRunner, reader, notifying>>

----------------------------------------------------------------------------
AvatarNext ==
    \/ FirstFrame \/ StreamOpened \/ WriteFrame \/ AvatarFlush \/ AvatarInterrupt \/ AvatarPlayoutOver
    \/ NoticeArrives \/ Read \/ Publish \/ ClearArrives \/ HandleClear

\* Everything but the user: messages arrive, the runner reads, plays and handles requests.
AvatarFairness ==
    /\ WF_avatarVars(StreamOpened) /\ WF_avatarVars(WriteFrame) /\ WF_avatarVars(AvatarFlush)
    /\ WF_avatarVars(AvatarPlayoutOver) /\ WF_avatarVars(NoticeArrives)
    /\ WF_avatarVars(Read) /\ WF_avatarVars(Publish)
    /\ WF_avatarVars(ClearArrives) /\ WF_avatarVars(HandleClear)

AvatarSpec == AvatarInit /\ [][AvatarNext]_avatarVars /\ AvatarFairness

----------------------------------------------------------------------------
(* Properties *)

\* As long as nobody interrupts, a reply is over when all of it was played, and not before: no
\* notification is taken for that of another segment (_runner.py:107).
AvatarPlaysWhole ==
    undisturbed /\ avatarReply.step = "idle" => toRunner = <<>> /\ generator = <<>> /\ ~audioPlaying

\* A segment per reply, and a request to clear for one that is interrupted.
RequestsCounted ==
    /\ avatarSegments = avatarReply.reply
    /\ clears.sent + clears.tasks <= avatarReply.reply
    /\ avatarReply.step \notin {"idle", "cleared"} => clears.sent + clears.tasks < avatarReply.reply

HasFrame(queue) == \E i \in DOMAIN queue : queue[i] = "frame"
OnlyFrames(queue) == \A i \in DOMAIN queue : queue[i] # "end"
EndIsLast(queue) == queue # <<>> /\ \A i \in DOMAIN queue : queue[i] = "end" <=> i = Len(queue)

\* The end of the segment is on its way: behind every frame of the reply, that starts the audio.
EndOnItsWay ==
    /\ notices = 0 /\ ~notifying
    /\ \/ EndIsLast(toRunner) /\ OnlyFrames(generator)
       \/ toRunner = <<>> /\ EndIsLast(generator)
    /\ audioPlaying \/ HasFrame(toRunner)

EndNoticed == toRunner = <<>> /\ generator = <<>> /\ audioPlaying /\ notifying /\ notices = 1

NothingPlays == toRunner = <<>> /\ generator = <<>> /\ ~audioPlaying /\ ~notifying /\ notices = 0

\* Where the audio of a reply is, as long as nobody interrupts.
InItsPlace ==
    undisturbed =>
        /\ clears.sent = 0 /\ clears.tasks = 0 /\ reader # "cleared" /\ avatarReply.step # "cleared"
        /\ avatarReply.step = "idle" => NothingPlays /\ avatarFinished = avatarSegments
        /\ avatarReply.step = "opening" =>
              NothingPlays /\ avatarFinished + 1 = avatarSegments /\ avatarReply.frames = 0
        /\ avatarReply.step = "streaming" =>
              /\ notices = 0 /\ ~notifying /\ avatarFinished + 1 = avatarSegments
              /\ OnlyFrames(toRunner) /\ OnlyFrames(generator)
              /\ avatarReply.frames > 0 => audioPlaying \/ HasFrame(toRunner)
        /\ avatarReply.step = "playout" =>
              \/ (EndOnItsWay \/ EndNoticed) /\ avatarFinished + 1 = avatarSegments
              \/ NothingPlays /\ avatarFinished = avatarSegments

AvatarInv == AvatarTypeOK /\ RequestsCounted /\ InItsPlace /\ AvatarPlaysWhole

\* What cannot last: a reply that is played and not reported, unless one is interrupted (an interrupted
\* one is not reported at all, if it had not reached the runner); the answer to one notification
\* does not hide the next segment.
AvatarPending == undisturbed /\ avatarReply.step = "playout"

=============================================================================
