-------------------------------- MODULE Vad --------------------------------
(***************************************************************************)
(* The detection of speech (VADStream of Silero): windows of audio are     *)
(* found to be speech or not, and starts and ends of speech are told with  *)
(* the audio from the buffer, while the options change.  Durations are     *)
(* counted in windows, which are numbered.                                 *)
(***************************************************************************)
EXTENDS Naturals, Sequences, SequencesExt, FiniteSetsExt

CONSTANTS MaxWindows,                       \* windows of audio (a bound)
          VadOptions,                       \* [speech, silence, padding, buffered], in windows
          MaxVadUpdates                     \* updates of the options (a bound)

ASSUME VadAssumption ==
    /\ MaxWindows \in Nat /\ MaxVadUpdates \in Nat
    /\ VadOptions \subseteq [speech : Nat \ {0}, silence : Nat \ {0}, padding : Nat, buffered : Nat]

VARIABLES
    vadOpts,
    vadWindow,      \* pub_current_sample: windows so far
    capacity,       \* len(_speech_buffer)
    speechBuffer,   \* its windows up to speech_buffer_index; 0 for what a resize cleared
    pubSpeaking,
    speechSpan, silenceSpan,    \* speech_threshold_duration, silence_threshold_duration
    vadEvents,      \* [type: start, end; at: the window; frames]
    vadRun,         \* runs, failed
    dropped,        \* a window was not copied
    vadUpdates, shrunk  \* updates, and whether one made the buffer smaller
vadVars == <<vadOpts, vadWindow, capacity, speechBuffer, pubSpeaking, speechSpan, silenceSpan, vadEvents, vadRun,
             dropped, vadUpdates, shrunk>>

VadTypeOK ==
    /\ vadOpts \in VadOptions /\ vadWindow \in 0..MaxWindows /\ capacity \in Nat
    /\ speechBuffer \in Seq(0..MaxWindows) /\ {pubSpeaking, dropped, shrunk} \subseteq BOOLEAN
    /\ {speechSpan, silenceSpan} \subseteq 0..MaxWindows /\ (speechSpan = 0 \/ silenceSpan = 0)
    /\ vadEvents \in Seq([type : {"start", "end"}, at : 1..MaxWindows, frames : Seq(0..MaxWindows)])
    /\ vadRun \in {"runs", "failed"} /\ vadUpdates \in 0..MaxVadUpdates

VadInit ==
    /\ vadOpts \in VadOptions /\ vadWindow = 0 /\ capacity = vadOpts.buffered + vadOpts.padding
    /\ speechBuffer = <<>> /\ pubSpeaking = FALSE /\ speechSpan = 0 /\ silenceSpan = 0 /\ vadEvents = <<>>
    /\ vadRun = "runs" /\ dropped = FALSE /\ vadUpdates = 0 /\ shrunk = FALSE

----------------------------------------------------------------------------
(* A window of audio *)

\* The window is copied, if there is room for it.
Copied == IF Len(speechBuffer) < capacity THEN Append(speechBuffer, vadWindow + 1) ELSE speechBuffer

\* The buffer cannot be read up to its index, nor moved, after it was made too small.
Torn == Len(Copied) > capacity

\* Mutant: the buffer is emptied.
CleanWriteCursor == <<>>

\* _reset_write_cursor(): what was copied last is the padding of the next speech.
ResetWriteCursor == SubSeq(Copied, Len(Copied) - vadOpts.padding + 1, Len(Copied))

Tells(type) == vadEvents' = Append(vadEvents, [type |-> type, at |-> vadWindow + 1, frames |-> Copied])

\* A window of speech: a speech that is long enough begins.
SpeechWindow ==
    /\ speechSpan' = speechSpan + 1 /\ silenceSpan' = 0 /\ speechBuffer' = Copied
    /\ IF ~pubSpeaking /\ speechSpan' >= vadOpts.speech
         THEN /\ pubSpeaking' = TRUE
              /\ IF Torn THEN vadRun' = "failed" /\ UNCHANGED vadEvents
                 ELSE Tells("start") /\ UNCHANGED vadRun
         ELSE UNCHANGED <<pubSpeaking, vadEvents, vadRun>>

\* A window of silence: what was heard of a speech that is not long enough is forgotten, and a speech ends
\* after a silence that is.
SilenceWindow ==
    /\ speechSpan' = 0 /\ silenceSpan' = silenceSpan + 1
    /\ LET ends == pubSpeaking /\ silenceSpan' >= vadOpts.silence
           resets == (~pubSpeaking \/ ends) /\ Len(Copied) > vadOpts.padding
           fails == Torn /\ (ends \/ (resets /\ vadOpts.padding > 0))
       IN /\ pubSpeaking' = (pubSpeaking /\ ~ends)
          /\ vadRun' = IF fails THEN "failed" ELSE "runs"
          /\ IF ends /\ ~fails THEN Tells("end") ELSE UNCHANGED vadEvents
          /\ speechBuffer' = IF resets /\ ~fails THEN ResetWriteCursor ELSE Copied

VadWindow ==
    /\ vadRun = "runs" /\ vadWindow < MaxWindows /\ vadWindow' = vadWindow + 1
    /\ dropped' = (dropped \/ Len(speechBuffer) >= capacity)
    /\ SpeechWindow \/ SilenceWindow
    /\ UNCHANGED <<vadOpts, capacity, vadUpdates, shrunk>>

\* update_options(): the buffer is made to fit, its index stays.
UpdateVadOptions(opts) ==
    /\ vadRun = "runs" /\ vadWindow > 0 /\ vadUpdates < MaxVadUpdates /\ opts # vadOpts
    /\ vadUpdates' = vadUpdates + 1 /\ vadOpts' = opts /\ capacity' = opts.buffered + opts.padding
    /\ speechBuffer' = [k \in DOMAIN speechBuffer |-> IF k <= capacity' THEN speechBuffer[k] ELSE 0]
    /\ shrunk' = (shrunk \/ capacity' < capacity)
    /\ UNCHANGED <<vadWindow, pubSpeaking, speechSpan, silenceSpan, vadEvents, vadRun, dropped>>

VadNext == VadWindow \/ \E opts \in VadOptions : UpdateVadOptions(opts)

VadSpec == VadInit /\ [][VadNext]_vadVars

----------------------------------------------------------------------------
(* Properties *)

Windows(a, b) == [i \in 1..(b + 1 - a) |-> a + i - 1]
Opening(k) == IF vadEvents[k].type = "start" THEN vadEvents[k] ELSE vadEvents[k - 1]
FirstHeard(event) == event.at + 1 - Min({event.at, vadOpts.padding + vadOpts.speech})

Rises(frames) == \A i, j \in DOMAIN frames : i < j => frames[i] < frames[j]

HeardAt(k) ==
    /\ vadEvents[k].type = IF k > 1 /\ vadEvents[k - 1].type = "start" THEN "end" ELSE "start"
    /\ vadUpdates = 0 => IsPrefix(Opening(k).frames, vadEvents[k].frames) /\ Rises(vadEvents[k].frames)
    /\ vadUpdates = 0 /\ ~dropped =>
          vadEvents[k].frames = Windows(FirstHeard(Opening(k)), vadEvents[k].at)

\* What is told is a start, then an end; with the audio of a start, an end has all that followed it, as far as
\* there was room for it, and no audio is out of order, over speeches that were broken off and truncated.
\* The audio of an undisturbed speech is whole: its padding, and everything up to the event.
SpeechIsHeard == \A k \in DOMAIN vadEvents : HeardAt(k)

\* The detection goes on, whatever the options are, unless the buffer was made smaller (vad.py:260).
VadGoesOn == vadRun = "failed" => shrunk

=============================================================================
