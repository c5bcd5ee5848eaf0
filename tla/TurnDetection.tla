---------------------------- MODULE TurnDetection ----------------------------
(***************************************************************************)
(* The end of the user's turn: voice/audio_recognition.py and the          *)
(* on_end_of_turn() of voice/agent_activity.py.  The words of the user are *)
(* numbered in the order in which the STT finalises them.                  *)
(***************************************************************************)
EXTENDS Naturals, Sequences

CONSTANTS MaxWords      \* the words the STT hears (a bound)

ASSUME TurnDetectionAssumption == MaxWords \in Nat

VARIABLES
    vad,                \* a VAD is there
    manual,             \* turn_detection is "manual": the hook runs, no reply is made
    speaking,           \* _speaking
    heardWords,         \* history: how many words were heard
    transcript,         \* _audio_transcript
    eou,                \* _end_of_turn_task: none, predict, sleep, blocked (its hook, and no reply),
                        \*   hook (on_end_of_turn() of the agent), raised
    newTranscript,      \* the transcript its hook was given
    floor,              \* the current speech: free, interruptible, blocked (it is not)
    turns,              \* history: the words of the turns taken, answered or skipped
    recognition         \* open, closed

turnVars == <<vad, manual, speaking, heardWords, transcript, eou, newTranscript, floor, turns, recognition>>

Words == Seq(1..MaxWords)

TurnTypeOK ==
    /\ {vad, manual, speaking} \subseteq BOOLEAN
    /\ heardWords \in 0..MaxWords
    /\ transcript \in Words /\ newTranscript \in Words /\ turns \in Words
    /\ eou \in {"none", "predict", "sleep", "blocked", "hook", "raised"}
    /\ floor \in {"free", "interruptible", "blocked"}
    /\ recognition \in {"open", "closed"}

TurnInit ==
    /\ vad \in BOOLEAN /\ manual \in BOOLEAN
    /\ speaking = FALSE /\ heardWords = 0 /\ transcript = <<>>
    /\ eou = "none" /\ newTranscript = <<>>
    /\ floor = "free" /\ turns = <<>> /\ recognition = "open"

----------------------------------------------------------------------------
(* Events *)

\* Mutant: the task that runs is kept.
RunEouDetectionOnce(words) ==
    eou' = IF words = <<>> \/ eou \notin {"none", "raised"} THEN eou ELSE "predict"

\* _run_eou_detection: nothing to do without a transcript; the task that runs is replaced.
RunEouDetection(words) == eou' = IF words = <<>> THEN eou ELSE "predict"

\* _on_stt_event, FINAL_TRANSCRIPT: late, it starts the detection itself.
FinalTranscript ==
    /\ recognition = "open" /\ heardWords < MaxWords
    /\ heardWords' = heardWords + 1
    /\ transcript' = Append(transcript, heardWords + 1)
    /\ IF speaking THEN UNCHANGED eou ELSE RunEouDetection(transcript')
    /\ UNCHANGED <<vad, manual, speaking, newTranscript, floor, turns, recognition>>

\* Mutant: the task is not cancelled.
StartOfSpeechKeepsTask ==
    /\ recognition = "open" /\ vad /\ ~speaking
    /\ speaking' = TRUE
    /\ UNCHANGED <<eou, vad, manual, heardWords, transcript, newTranscript, floor, turns, recognition>>

\* _on_vad_event, START_OF_SPEECH.
StartOfSpeech ==
    /\ recognition = "open" /\ vad /\ ~speaking
    /\ speaking' = TRUE /\ eou' = "none"
    /\ UNCHANGED <<vad, manual, heardWords, transcript, newTranscript, floor, turns, recognition>>

\* Mutant: the end of speech waits for a transcript to start the detection.
EndOfSpeechSilent ==
    /\ recognition = "open" /\ speaking
    /\ speaking' = FALSE
    /\ UNCHANGED <<eou, vad, manual, heardWords, transcript, newTranscript, floor, turns, recognition>>

\* END_OF_SPEECH.
EndOfSpeech ==
    /\ recognition = "open" /\ speaking
    /\ speaking' = FALSE
    /\ RunEouDetection(transcript)
    /\ UNCHANGED <<vad, manual, heardWords, transcript, newTranscript, floor, turns, recognition>>

\* The activity goes from one speech to another.
FloorChanges ==
    /\ recognition = "open"
    /\ floor' \in {"free", "interruptible", "blocked"} \ {floor}
    /\ UNCHANGED <<vad, manual, speaking, heardWords, transcript, eou, newTranscript, turns, recognition>>

----------------------------------------------------------------------------
(* _bounce_eou_task *)

\* The turn detector has answered, or there is none: the task sleeps for the endpointing delay.
Predicted ==
    /\ eou = "predict" /\ eou' = "sleep"
    /\ UNCHANGED <<vad, manual, speaking, heardWords, transcript, newTranscript, floor, turns, recognition>>

\* on_end_of_turn() up to the hook of the agent: a speech is interrupted if it may be.
EndOfTurn ==
    /\ eou = "sleep"
    /\ newTranscript' = transcript
    /\ eou' = IF manual \/ floor = "blocked" THEN "blocked" ELSE "hook"
    /\ floor' = IF ~manual /\ floor = "interruptible" THEN "free" ELSE floor
    /\ UNCHANGED <<vad, manual, speaking, heardWords, transcript, turns, recognition>>

\* The transcript is dropped as soon as on_end_of_turn() returns.
TurnTaken ==
    /\ turns' = turns \o newTranscript
    /\ transcript' = <<>>
    /\ eou' = "none" /\ newTranscript' = <<>>

\* The hook returns and no reply is made.
TurnSkipped ==
    /\ eou = "blocked" /\ TurnTaken
    /\ UNCHANGED <<vad, manual, speaking, heardWords, floor, recognition>>

\* The hook returns: a reply is asked for, and refused (the task dies) when a speech has begun
\* meanwhile.
ReplyAsked ==
    /\ eou = "hook"
    /\ \/ floor = "free" /\ TurnTaken
       \/ /\ floor # "free"
          /\ eou' = "raised" /\ newTranscript' = <<>>
          /\ UNCHANGED <<transcript, turns>>
    /\ UNCHANGED <<vad, manual, speaking, heardWords, floor, recognition>>

\* The activity drains: the turn is dropped with its words, before or after the hook.
TurnIgnored ==
    /\ eou = "hook" /\ TurnTaken
    /\ UNCHANGED <<vad, manual, speaking, heardWords, floor, recognition>>

\* aclose() of the recognition.
RecognitionClosed ==
    /\ recognition = "open"
    /\ recognition' = "closed" /\ eou' = "none"
    /\ UNCHANGED <<vad, manual, speaking, heardWords, transcript, newTranscript, floor, turns>>

TurnNext ==
    \/ FinalTranscript \/ StartOfSpeech \/ EndOfSpeech \/ FloorChanges
    \/ Predicted \/ EndOfTurn \/ TurnSkipped \/ ReplyAsked \/ TurnIgnored \/ RecognitionClosed

\* The detector answers, the sleep and the hooks end.
TurnFairness ==
    /\ WF_turnVars(Predicted) /\ WF_turnVars(EndOfTurn)
    /\ WF_turnVars(TurnSkipped) /\ WF_turnVars(ReplyAsked)

TurnSpec == TurnInit /\ [][TurnNext]_turnVars /\ TurnFairness

----------------------------------------------------------------------------
(* Properties *)

\* Every word heard is in one turn, or still in the transcript, in the order of speech: none is
\* lost or answered twice, whatever cancels the task while its hook runs.
WordsKept == turns \o transcript = [i \in 1..heardWords |-> i]

\* A turn never ends while the user speaks.
NoTurnWhileSpeaking == turns' # turns => ~speaking

\* The task of an end of turn has words, and nobody speaks; its hook has those of the transcript.
TaskHasWords ==
    /\ eou \notin {"none", "raised"} => ~speaking /\ transcript # <<>>
    /\ eou \in {"hook", "blocked"} => newTranscript = transcript

\* The inductive invariant.
TurnInv == TurnTypeOK /\ WordsKept /\ TaskHasWords

\* What cannot last: the words of a user who has stopped are taken as a turn, however late their
\* transcript, unless the reply was refused.
WordsPending == transcript # <<>> /\ recognition = "open" /\ ~speaking /\ eou # "raised"

=============================================================================
