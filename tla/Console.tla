------------------------------ MODULE Console ------------------------------
(***************************************************************************)
(* The console of a session (voice/chat_cli.py): an audio output played by *)
(* the callback of a sound device, whose playout is known by a timer, and  *)
(* the keyboard, which switches between speaking and typing.  The replies  *)
(* use the output as agent_activity.py does; one at a time, as             *)
(* AgentActivity shows.  The counters are those of voice/io.py.            *)
(***************************************************************************)
EXTENDS Playout, Avatar, TextOutput

CONSTANTS
    MaxConsoleReplies,  \* replies said (a bound)
    MaxConsoleFrames    \* frames of a reply (a bound)

ASSUME ConsoleAssumption == MaxConsoleReplies \in Nat /\ MaxConsoleFrames \in Nat

VARIABLES
    cliMode,        \* _cli_mode: audio, text
    cliTask,        \* _input_cli_task: run, ended; closed: _main_task has closed the devices too
    speaker,        \* _output_stream is open, and the sink is the session's output.audio
    typed,          \* _text_input_buf is not empty
    asked,          \* a typed text waits for its reply
    cReply,         \* the reply that speaks: its number, step, frames, whether it has an output,
                    \* may not be interrupted (steady), is interrupted (cut)
    cSegments,      \* __playback_segments_count
    cFinished,      \* __playback_finished_count
    cCapturing,     \* __capturing of io.AudioOutput and _capturing of the sink
    cPushed,        \* _pushed_duration > 0
    cTimer,         \* the reply whose _dispatch_handle is pending (_flush_complete is not set), or 0
    cBuf,           \* _output_buf: the reply of each frame
    cleared         \* history: the replies whose clear_buffer() was called

consoleVars == <<cliMode, cliTask, speaker, typed, asked, cReply, cSegments, cFinished, cCapturing, cPushed,
                 cTimer, cBuf, cleared>>
keyVars == <<cliMode, cliTask, speaker, typed>>
sinkVars == <<cSegments, cFinished, cCapturing, cPushed, cTimer, cBuf, cleared>>

ConsoleTypeOK ==
    /\ cliMode \in {"audio", "text"} /\ cliTask \in {"run", "ended", "closed"}
    /\ speaker \in BOOLEAN /\ typed \in BOOLEAN /\ asked \in BOOLEAN /\ cPushed \in BOOLEAN
    /\ cReply \in [n : 0..MaxConsoleReplies, step : {"idle", "forward", "wait", "clear", "cleared"},
                   frames : 0..MaxConsoleFrames, out : BOOLEAN, steady : BOOLEAN, cut : BOOLEAN]
    /\ cSegments \in Nat /\ cFinished \in Nat
    /\ cCapturing \in [base : BOOLEAN, sink : BOOLEAN]
    /\ cTimer \in 0..MaxConsoleReplies
    /\ cBuf \in Seq(1..MaxConsoleReplies) /\ cleared \subseteq 1..MaxConsoleReplies

NoReply == [n |-> 0, step |-> "idle", frames |-> 0, out |-> FALSE, steady |-> FALSE, cut |-> FALSE]

\* _main_task up to its wait: microphone and speaker are on.
ConsoleInit ==
    /\ cliMode = "audio" /\ cliTask = "run" /\ speaker = TRUE /\ typed = FALSE /\ asked = FALSE
    /\ cReply = NoReply
    /\ cSegments = 0 /\ cFinished = 0 /\ cCapturing = [base |-> FALSE, sink |-> FALSE]
    /\ cPushed = FALSE /\ cTimer = 0 /\ cBuf = <<>> /\ cleared = {}

----------------------------------------------------------------------------
(* _AudioOutput *)

\* on_playback_finished(), which ignores what exceeds the segments captured.
CountFinished == cFinished' = IF cFinished < cSegments THEN cFinished + 1 ELSE cFinished

\* capture_frame().  The wait for _flush_complete never lasts (TimerIsOwn).
ConsoleCapture ==
    /\ cTimer = 0
    /\ cSegments' = IF cCapturing.base THEN cSegments ELSE cSegments + 1
    /\ cCapturing' = [base |-> TRUE, sink |-> TRUE]
    /\ cPushed' = TRUE /\ cBuf' = Append(cBuf, cReply.n)
    /\ UNCHANGED <<cFinished, cTimer, cleared>>

\* Mutant: the timer is started even if nothing was captured.
ConsoleFlushAlways ==
    /\ cCapturing' = [base |-> FALSE, sink |-> FALSE]
    /\ cTimer' = cReply.n
    /\ UNCHANGED <<cSegments, cFinished, cPushed, cBuf, cleared>>

\* flush(): a timer is started for what is left to play.
ConsoleFlush ==
    /\ cCapturing' = [base |-> FALSE, sink |-> FALSE]
    /\ cTimer' = IF cCapturing.sink THEN cReply.n ELSE cTimer
    /\ UNCHANGED <<cSegments, cFinished, cPushed, cBuf, cleared>>

\* Mutant: the timer of the segment goes on.
ConsoleClearKeepsTimer ==
    /\ cCapturing' = [cCapturing EXCEPT !.sink = FALSE]
    /\ cBuf' = <<>> /\ cleared' = cleared \cup {cReply.n}
    /\ IF cPushed THEN CountFinished /\ cPushed' = FALSE ELSE UNCHANGED <<cFinished, cPushed>>
    /\ UNCHANGED <<cSegments, cTimer>>

\* Mutant: the buffer is emptied only if the timer has not fired.
ConsoleClearIfPushed ==
    /\ cCapturing' = [cCapturing EXCEPT !.sink = FALSE]
    /\ cleared' = cleared \cup {cReply.n}
    /\ IF cPushed THEN CountFinished /\ cTimer' = 0 /\ cPushed' = FALSE /\ cBuf' = <<>>
       ELSE UNCHANGED <<cFinished, cTimer, cPushed, cBuf>>
    /\ UNCHANGED cSegments

\* Mutant: the interrupted segment is not reported.
ConsoleClearSilently ==
    /\ cCapturing' = [cCapturing EXCEPT !.sink = FALSE]
    /\ cBuf' = <<>> /\ cleared' = cleared \cup {cReply.n}
    /\ cPushed' = FALSE /\ cTimer' = 0
    /\ UNCHANGED <<cSegments, cFinished>>

\* clear_buffer(): what is buffered is dropped, and a segment not reported yet is.
ConsoleClear ==
    /\ cCapturing' = [cCapturing EXCEPT !.sink = FALSE]
    /\ cBuf' = <<>> /\ cleared' = cleared \cup {cReply.n}
    /\ IF cPushed THEN CountFinished /\ cTimer' = 0 /\ cPushed' = FALSE
       ELSE UNCHANGED <<cFinished, cTimer, cPushed>>
    /\ UNCHANGED cSegments

\* _dispatch_playback_finished(): by the clock, wherever the device is.
ConsoleTimer ==
    /\ cTimer # 0
    /\ CountFinished /\ cTimer' = 0 /\ cPushed' = FALSE
    /\ UNCHANGED <<cSegments, cCapturing, cBuf, cleared, keyVars, asked, cReply>>

\* _sd_output_callback, in the thread of the device: it takes what there is.
DevicePlays ==
    /\ speaker /\ cBuf # <<>>
    /\ cBuf' = Tail(cBuf)
    /\ UNCHANGED <<cSegments, cFinished, cCapturing, cPushed, cTimer, cleared, keyVars, asked, cReply>>

----------------------------------------------------------------------------
(* The replies (the uses of audio_output in agent_activity.py and generation.py) *)

\* A reply begins: the output is read once.
ConsoleReply ==
    /\ cReply.step = "idle" /\ cReply.n < MaxConsoleReplies
    /\ \E steady \in BOOLEAN :
          cReply' = [n |-> cReply.n + 1, step |-> "forward", frames |-> 0, out |-> speaker,
                     steady |-> steady, cut |-> FALSE]
    /\ asked' = FALSE
    /\ UNCHANGED <<keyVars, sinkVars>>

\* _audio_forwarding_task gets a frame of the TTS.
ReplyFrame ==
    /\ cReply.step = "forward" /\ cReply.out /\ cReply.frames < MaxConsoleFrames
    /\ ConsoleCapture
    /\ cReply' = [cReply EXCEPT !.frames = @ + 1]
    /\ UNCHANGED <<keyVars, asked>>

\* It ends: at the end of the audio, or cancelled because the speech was interrupted.
ReplyForwarded ==
    /\ cReply.step = "forward" \/ (cReply.step = "wait" /\ cReply.cut)
    /\ IF cReply.out /\ cReply.step = "forward" THEN ConsoleFlush ELSE UNCHANGED sinkVars
    /\ cReply' = [cReply EXCEPT !.step = IF cReply.cut THEN "clear" ELSE "wait"]
    /\ UNCHANGED <<keyVars, asked>>

\* wait_for_playout() returns.
ReplyPlayed ==
    /\ cReply.step = "cleared" \/ (cReply.step = "wait" /\ ~cReply.cut)
    /\ cReply.out => cFinished >= cSegments
    /\ cReply' = [cReply EXCEPT !.step = "idle"]
    /\ UNCHANGED <<keyVars, asked, sinkVars>>

\* The tasks of an interrupted reply are over: clear_buffer().
ReplyClears ==
    /\ cReply.step = "clear"
    /\ IF cReply.out THEN ConsoleClear ELSE UNCHANGED sinkVars
    /\ cReply' = [cReply EXCEPT !.step = "cleared"]
    /\ UNCHANGED <<keyVars, asked>>

\* interrupt() of the speech: a no-op once it is over or interrupted.
Cut == IF cReply.step \in {"forward", "wait"} THEN [cReply EXCEPT !.cut = TRUE] ELSE cReply

\* The user talks over the reply.
TalkedOver ==
    /\ cReply.step \in {"forward", "wait"} /\ ~cReply.steady /\ ~cReply.cut
    /\ cReply' = Cut
    /\ UNCHANGED <<keyVars, asked, sinkVars>>

----------------------------------------------------------------------------
(* The keyboard: _input_cli_task *)

\* Ctrl+B: the devices are closed for typing and opened again for speaking.
SwitchMode ==
    /\ cliTask = "run"
    /\ IF cliMode = "audio" THEN cliMode' = "text" /\ speaker' = FALSE /\ UNCHANGED typed
                            ELSE cliMode' = "audio" /\ speaker' = TRUE /\ typed' = FALSE
    /\ UNCHANGED <<cliTask, asked, cReply, sinkVars>>

\* The first character, or the backspace that takes the last one.
Type ==
    /\ cliTask = "run" /\ cliMode = "text"
    /\ typed' = ~typed
    /\ UNCHANGED <<cliMode, cliTask, speaker, asked, cReply, sinkVars>>

\* Return: interrupt(), which raises and ends the task if the speech does not allow it, then
\* generate_reply().
Enter ==
    /\ cliTask = "run" /\ cliMode = "text" /\ typed
    /\ typed' = FALSE
    /\ IF cReply.step # "idle" /\ cReply.steady
       THEN cliTask' = "ended" /\ UNCHANGED <<asked, cReply>>
       ELSE cReply' = Cut /\ asked' = TRUE /\ UNCHANGED cliTask
    /\ UNCHANGED <<cliMode, speaker, sinkVars>>

\* The input is closed: recv() raises.
StdinEnds ==
    /\ cliTask = "run"
    /\ cliTask' = "ended"
    /\ UNCHANGED <<cliMode, speaker, typed, asked, cReply, sinkVars>>

\* _main_task, once the input task is done.
ConsoleCloses ==
    /\ cliTask = "ended"
    /\ cliTask' = "closed" /\ speaker' = FALSE
    /\ UNCHANGED <<cliMode, typed, asked, cReply, sinkVars>>

----------------------------------------------------------------------------

ConsoleNext ==
    \/ ConsoleReply \/ ReplyFrame \/ ReplyForwarded \/ ReplyPlayed \/ ReplyClears \/ TalkedOver
    \/ ConsoleTimer \/ DevicePlays
    \/ SwitchMode \/ Type \/ Enter \/ StdinEnds \/ ConsoleCloses

\* The loop runs, the timer fires, the audio of a reply ends, and an asked reply is made.
ConsoleFairness ==
    /\ WF_consoleVars(ReplyForwarded) /\ WF_consoleVars(ReplyPlayed) /\ WF_consoleVars(ReplyClears)
    /\ WF_consoleVars(ConsoleTimer) /\ WF_consoleVars(ConsoleCloses)
    /\ WF_consoleVars(asked /\ ConsoleReply)

ConsoleSpec == ConsoleInit /\ [][ConsoleNext]_consoleVars /\ ConsoleFairness

\* An interrupted reply is not heard again: once its buffer was cleared, no frame of it is left,
\* nor comes later, although the device and the forwarding task go on meanwhile.
CutIsSilent == \A i \in DOMAIN cBuf : cBuf[i] \notin cleared

\* A pending timer is that of the reply that waits for it: none outlives its reply to end the
\* segment of the next, and no frame waits for it.
TimerIsOwn == cTimer # 0 => cTimer = cReply.n /\ cReply.step \in {"wait", "clear"}

\* Between two replies every segment is reported, played or interrupted, and none twice.
ConsoleCounts == cReply.step = "idle" => cFinished = cSegments

(* The inductive invariant *)

\* No frame is that of a reply to come, nor of one that was cleared.
ClearedBefore ==
    /\ cReply.step # "idle" => cReply.n > 0
    /\ \A i \in DOMAIN cBuf : cBuf[i] <= cReply.n
    /\ \A r \in cleared : r <= cReply.n
    /\ cReply.n \in cleared => cReply.step \in {"idle", "cleared"}

\* A segment is owed while its frames were pushed: its reply captures, or waits for its timer.
SegmentOwed ==
    /\ cCapturing.base <=> cCapturing.sink
    /\ cSegments = IF cPushed THEN cFinished + 1 ELSE cFinished
    /\ cCapturing.base => cReply.step = "forward" /\ cPushed
    /\ cPushed => cReply.out /\ (cCapturing.base \/ cTimer # 0)
    /\ cTimer # 0 => cPushed

ConsoleInv == ConsoleTypeOK /\ ClearedBefore /\ CutIsSilent /\ SegmentOwed /\ TimerIsOwn

\* What cannot last: a reply, whatever is interrupted, typed or switched; a text without one.
ConsolePending ==
    \/ cReply.step # "idle" \/ cliTask = "ended"
    \/ asked /\ cReply.n < MaxConsoleReplies

\* What is played and published belongs to its reply, in the room, on an avatar, as text and in the
\* console (io.py, synchronizer.py, avatar/, room_io/, chat_cli.py).
OutputSafe ==
    /\ PlayoutTypeOK /\ NoPlayoutOwed /\ InterruptionIsOwn
    /\ AvatarTypeOK /\ AvatarPlaysWhole /\ TextTypeOK /\ SegmentsDoNotMix
    /\ ConsoleTypeOK /\ CutIsSilent /\ TimerIsOwn /\ ConsoleCounts

=============================================================================
