----------------------------- MODULE TextOutput -----------------------------
(***************************************************************************)
(* A transcription output of the room (voice/room_io/_output.py): segments *)
(* of text, each published piece by piece and then as final by a flush     *)
(* task.  The agent's sink is captured to by one task at a time; the       *)
(* user's by one task per transcript (room_io.py:295), and its participant *)
(* may change.  A text is the number of the event that brought it.         *)
(***************************************************************************)
EXTENDS Naturals, Sequences

CONSTANTS MaxTexts, MaxLinks    \* texts captured, changes of the participant (bounds)

ASSUME TextOutputAssumption == MaxTexts \in Nat /\ MaxLinks \in Nat

VARIABLES
    ofUser,             \* the user's transcripts: tasks run at the same time
    legacy,             \* _ParticipantLegacyTranscriptionOutput: its flush takes the text with it
    captures,           \* the tasks that capture: [final, step: waits, publishes, done; id]
    segmentId,          \* _current_id
    segmentOpen,        \* _capturing
    latestText,         \* _pushed_text, or _latest_text
    flushTask,          \* [runs, id, text]
    links,              \* calls of set_participant()
    published           \* history: the pieces published, [id, text, final]

textVars == <<ofUser, legacy, captures, segmentId, segmentOpen, latestText, flushTask, links, published>>

Ids == 0..(MaxTexts + MaxLinks)
NoFlush == [runs |-> FALSE, id |-> 0, text |-> 0]

TextTypeOK ==
    /\ ofUser \in BOOLEAN /\ legacy \in BOOLEAN /\ segmentOpen \in BOOLEAN
    /\ captures \in Seq([final : BOOLEAN, step : {"waits", "publishes", "done"}, id : Ids])
    /\ segmentId \in Ids /\ latestText \in 0..MaxTexts /\ links \in 0..MaxLinks
    /\ flushTask \in [runs : BOOLEAN, id : Ids, text : 0..MaxTexts]
    /\ published \in Seq([id : Ids, text : 0..MaxTexts, final : BOOLEAN])

TextInit ==
    /\ ofUser \in BOOLEAN /\ legacy \in BOOLEAN
    /\ captures = <<>> /\ segmentId = 0 /\ segmentOpen = FALSE /\ latestText = 0
    /\ flushTask = NoFlush /\ links = 0 /\ published = <<>>

----------------------------------------------------------------------------
\* A text comes.  A final one, or the last of the agent's segment, is flushed once it is captured.
TextComes ==
    /\ Len(captures) < MaxTexts
    /\ ofUser \/ \A e \in DOMAIN captures : captures[e].step = "done"
    /\ \E final \in BOOLEAN :
          captures' = Append(captures, [final |-> final, step |-> "waits", id |-> 0])
    /\ UNCHANGED <<ofUser, legacy, segmentId, segmentOpen, latestText, flushTask, links, published>>

\* Mutant: a capture does not wait for the flush that runs.
CaptureAtOnce(e) ==
    /\ captures[e].step = "waits"
    /\ segmentId' = IF segmentOpen THEN segmentId ELSE segmentId + 1
    /\ segmentOpen' = TRUE /\ latestText' = e
    /\ captures' = [captures EXCEPT ![e] = [@ EXCEPT !.step = "publishes", !.id = segmentId']]
    /\ UNCHANGED <<ofUser, legacy, flushTask, links, published>>

\* capture_text(): after the flush that runs; the first text of a segment gets a new id.  Those that
\* waited go on in the order they came.
Capture(e) ==
    /\ captures[e].step = "waits" /\ ~flushTask.runs
    /\ \A f \in 1..(e - 1) : captures[f].step # "waits"
    /\ segmentId' = IF segmentOpen THEN segmentId ELSE segmentId + 1
    /\ segmentOpen' = TRUE /\ latestText' = e
    /\ captures' = [captures EXCEPT ![e] = [@ EXCEPT !.step = "publishes", !.id = segmentId']]
    /\ UNCHANGED <<ofUser, legacy, flushTask, links, published>>

\* flush(): a task of its own publishes the final text.
FlushSegment ==
    /\ segmentOpen' = FALSE
    /\ flushTask' = IF segmentOpen THEN [runs |-> TRUE, id |-> segmentId, text |-> latestText]
                    ELSE flushTask

\* Mutant: the text is published, and the segment of a final one stays open.
CapturedUnflushed(e) ==
    /\ captures[e].step = "publishes"
    /\ captures' = [captures EXCEPT ![e].step = "done"]
    /\ published' = Append(published, [id |-> captures[e].id, text |-> e, final |-> FALSE])
    /\ UNCHANGED <<ofUser, legacy, segmentId, segmentOpen, flushTask, latestText, links>>

\* The text is published; a final one flushes the segment.
Captured(e) ==
    /\ captures[e].step = "publishes"
    /\ captures' = [captures EXCEPT ![e].step = "done"]
    /\ published' = Append(published, [id |-> captures[e].id, text |-> e, final |-> FALSE])
    /\ IF captures[e].final THEN FlushSegment ELSE UNCHANGED <<segmentOpen, flushTask>>
    /\ UNCHANGED <<ofUser, legacy, segmentId, latestText, links>>

\* The final piece: the legacy one was given with the flush, the other is what its task finds.
LegacyFinal == [id |-> flushTask.id, text |-> flushTask.text, final |-> TRUE]
StreamFinal == [id |-> segmentId, text |-> latestText, final |-> TRUE]

\* The flush task.
Flushed ==
    /\ flushTask.runs
    /\ flushTask' = NoFlush
    /\ published' = Append(published, IF legacy THEN LegacyFinal ELSE StreamFinal)
    /\ UNCHANGED <<ofUser, legacy, captures, segmentId, segmentOpen, latestText, links>>

\* set_participant(): the segment is flushed, and the state reset at once.
LinkParticipant ==
    /\ ofUser /\ links < MaxLinks
    /\ links' = links + 1
    /\ FlushSegment
    /\ segmentId' = segmentId + 1 /\ latestText' = 0
    /\ UNCHANGED <<ofUser, legacy, captures, published>>

TextNext ==
    \/ TextComes \/ Flushed \/ LinkParticipant
    \/ \E e \in DOMAIN captures : Capture(e) \/ Captured(e)

TextFairness ==
    /\ WF_textVars(Flushed)
    /\ WF_textVars(\E e \in DOMAIN captures : Capture(e))
    /\ WF_textVars(\E e \in DOMAIN captures : Captured(e))

TextSpec == TextInit /\ [][TextNext]_textVars /\ TextFairness

----------------------------------------------------------------------------
(* Properties *)

\* The segments of the agent do not mix: nothing of a segment is published after something of a
\* later one, its final text comes last and once (_output.py:158).
SegmentsDoNotMix ==
    ~ofUser => \A i, j \in DOMAIN published : i < j =>
                  /\ published[i].id <= published[j].id
                  /\ published[i].id = published[j].id => ~published[i].final

(* The inductive invariant *)

\* The texts are captured in the order they came, and a segment begins with a text or a new participant.
CapturedInOrder ==
    /\ Len(captures) <= MaxTexts
    /\ \E m \in 0..Len(captures) :
          /\ \A e \in 1..Len(captures) : captures[e].step = "waits" <=> e > m
          /\ segmentId <= m + links

\* The agent's texts are captured one after the other; what is published is of the segment there is or of an
\* earlier one, and nothing of a segment is final as long as it is open or being flushed.
AgentInTurn ==
    ~ofUser =>
        /\ \A e \in 1..Len(captures) :
              /\ captures[e].step # "done" => e = Len(captures)
              /\ captures[e].step = "publishes" => captures[e].id = segmentId /\ segmentOpen /\ ~flushTask.runs
        /\ flushTask.runs => flushTask.id = segmentId /\ ~segmentOpen
        /\ \A i \in 1..Len(published) :
              /\ published[i].id <= segmentId
              /\ (segmentOpen \/ flushTask.runs) /\ published[i].id = segmentId => ~published[i].final

TextInv == TextTypeOK /\ CapturedInOrder /\ AgentInTurn /\ SegmentsDoNotMix

\* What cannot last: the last words of a user are final, and their segment is open, or its flush
\* goes on, however the tasks interleaved (room_io.py:302).
TextPending ==
    captures # <<>> /\ captures[Len(captures)].final /\ (segmentOpen \/ flushTask.runs)

=============================================================================
