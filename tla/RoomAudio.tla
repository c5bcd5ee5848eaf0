------------------------------ MODULE RoomAudio -------------------------------
(***************************************************************************)
(* The participant an agent listens to: the linked participant of          *)
(* voice/room_io/room_io.py and the stream of its track in                 *)
(* voice/room_io/_input.py.  The room comes and goes as it likes.          *)
(***************************************************************************)
EXTENDS TurnDetection

CONSTANTS
    Participants,
    NoParticipant,
    MaxTracks,          \* the tracks that are published (a bound)
    MaxForwarders       \* the forward tasks that have not ended yet (a bound)

ASSUME RoomInputAssumption == NoParticipant \notin Participants /\ {MaxTracks, MaxForwarders} \subseteq Nat

Tracks == 1..MaxTracks

VARIABLES
    connected,          \* the participants in the room
    trackOf,            \* the participant of each track, or NoParticipant before it is published
    subscribed,         \* the tracks that are there and subscribed
    roomStart,          \* RoomIO.start(): no, waiting, over
    linked,             \* RoomIO._participant_identity
    available,          \* _participant_available_fut: its participant, or NoParticipant
    startWaits,         \* start() waits for that very future, and not for one since replaced
    inputOf,            \* the input's _participant_identity
    stream,             \* the track of its _stream, or 0
    forwarders,         \* the _forward_task's, oldest first: their tracks; the head reads
    inputState          \* open, closing (aclose() waits for the forwarder), closed

roomVars == <<connected, trackOf, subscribed, roomStart, linked, available, startWaits, inputOf, stream,
              forwarders, inputState>>

RoomTypeOK ==
    /\ connected \subseteq Participants
    /\ trackOf \in [Tracks -> Participants \cup {NoParticipant}]
    /\ subscribed \subseteq Tracks
    /\ roomStart \in {"no", "waiting", "over"}
    /\ {linked, available, inputOf} \subseteq Participants \cup {NoParticipant}
    /\ startWaits \in BOOLEAN
    /\ stream \in Tracks \cup {0} /\ forwarders \in Seq(Tracks)
    /\ inputState \in {"open", "closing", "closed"}

RoomInit ==
    /\ connected = {} /\ trackOf = [t \in Tracks |-> NoParticipant] /\ subscribed = {}
    /\ roomStart = "no"
    /\ linked \in Participants \cup {NoParticipant}
    /\ available = NoParticipant /\ startWaits = TRUE
    /\ inputOf = NoParticipant /\ stream = 0 /\ forwarders = <<>> /\ inputState = "open"

inputVars == <<inputOf, stream, forwarders, inputState>>

----------------------------------------------------------------------------
(* _ParticipantInputStream *)

TracksOf(p) == {t \in subscribed : trackOf[t] = p}

\* _on_track_available: the stream is replaced; the new task cancels the one before it and waits
\* for its end, so that they end in order.
Open(t) == stream' = t /\ forwarders' = Append(forwarders, t)

\* Mutant: the tracks that are already there are not looked at.
ListenToLater(p) ==
    IF inputOf = p THEN UNCHANGED <<inputOf, stream, forwarders>>
    ELSE /\ inputOf' = p
         /\ stream' = IF p = NoParticipant THEN 0 ELSE stream
         /\ UNCHANGED forwarders

\* set_participant.  The stream of the participant before is kept when the new one has no track.
ListenTo(p) ==
    IF inputOf = p THEN UNCHANGED <<inputOf, stream, forwarders>>
    ELSE /\ inputOf' = p
         /\ IF TracksOf(p) # {} THEN \E t \in TracksOf(p) : Open(t)
            ELSE /\ stream' = IF p = NoParticipant THEN 0 ELSE stream
                 /\ UNCHANGED forwarders

\* A forward task ends: it was cancelled, being replaced, or its stream is closed or over.
ForwarderEnds ==
    /\ forwarders # <<>>
    /\ \/ Len(forwarders) > 1 \/ inputState # "open"
       \/ Head(forwarders) # stream \/ Head(forwarders) \notin subscribed
    /\ forwarders' = Tail(forwarders)
    /\ UNCHANGED <<connected, trackOf, subscribed, roomStart, linked, available, startWaits, inputOf,
                   stream, inputState>>

\* aclose() up to its wait.
CloseInput ==
    /\ inputState = "open" /\ roomStart = "over"
    /\ inputState' = "closing"
    /\ UNCHANGED <<connected, trackOf, subscribed, roomStart, linked, available, startWaits, inputOf, stream,
                   forwarders>>

InputClosed ==
    /\ inputState = "closing" /\ forwarders = <<>>
    /\ inputState' = "closed" /\ stream' = 0
    /\ UNCHANGED <<connected, trackOf, subscribed, roomStart, linked, available, startWaits, inputOf,
                   forwarders>>

----------------------------------------------------------------------------
(* RoomIO *)

\* start() up to its wait: those in the room are looked at first.
StartRoomIO ==
    /\ roomStart = "no"
    /\ roomStart' = "waiting"
    /\ available' \in IF linked = NoParticipant
                      THEN IF connected = {} THEN {NoParticipant} ELSE connected
                      ELSE IF linked \in connected THEN {linked} ELSE {NoParticipant}
    /\ UNCHANGED <<connected, trackOf, subscribed, linked, startWaits, inputVars>>

\* set_participant(p): the future is a new one if another participant was linked.
Link(p) ==
    /\ linked' = p
    /\ available' = IF linked \notin {NoParticipant, p}
                    THEN IF p \in connected THEN p ELSE NoParticipant
                    ELSE available
    /\ ListenTo(p)

\* start() goes on with the participant its future was given.
RoomIOStarted ==
    /\ roomStart = "waiting" /\ startWaits /\ available # NoParticipant
    /\ roomStart' = "over"
    /\ Link(available)
    /\ UNCHANGED <<connected, trackOf, subscribed, startWaits, inputState>>

\* set_participant() of the user, while start() waits or later.
SetParticipant(p) ==
    /\ roomStart # "no" /\ p # linked /\ Len(forwarders) < MaxForwarders
    /\ Link(p)
    /\ startWaits' = (startWaits /\ (roomStart = "over" \/ linked = NoParticipant))
    /\ UNCHANGED <<connected, trackOf, subscribed, roomStart, inputState>>

UnsetParticipant ==
    /\ roomStart = "over" /\ linked # NoParticipant
    /\ linked' = NoParticipant /\ available' = NoParticipant
    /\ ListenTo(NoParticipant)
    /\ UNCHANGED <<connected, trackOf, subscribed, roomStart, startWaits, inputState>>

----------------------------------------------------------------------------
(* The room *)

\* "participant_connected": _on_participant_connected.
Connects(p) ==
    /\ p \notin connected
    /\ connected' = connected \cup {p}
    /\ available' = IF /\ roomStart # "no" /\ available = NoParticipant
                       /\ linked \in {NoParticipant, p}
                    THEN p ELSE available
    /\ UNCHANGED <<trackOf, subscribed, roomStart, linked, startWaits, inputVars>>

Disconnects(p) ==
    /\ p \in connected
    /\ connected' = connected \ {p} /\ subscribed' = subscribed \ TracksOf(p)
    /\ UNCHANGED <<trackOf, roomStart, linked, available, startWaits, inputVars>>

\* "track_subscribed": _on_track_available (one microphone for each participant).
Publishes(p, t) ==
    /\ p \in connected /\ TracksOf(p) = {} /\ trackOf[t] = NoParticipant
    /\ Len(forwarders) < MaxForwarders
    /\ \A u \in 1..(t - 1) : trackOf[u] # NoParticipant
    /\ trackOf' = [trackOf EXCEPT ![t] = p] /\ subscribed' = subscribed \cup {t}
    /\ IF inputOf = p /\ inputState # "closed" THEN Open(t) ELSE UNCHANGED <<stream, forwarders>>
    /\ UNCHANGED <<connected, roomStart, linked, available, startWaits, inputOf, inputState>>

RoomNext ==
    \/ StartRoomIO \/ RoomIOStarted \/ UnsetParticipant
    \/ ForwarderEnds \/ CloseInput \/ InputClosed
    \/ \E p \in Participants : SetParticipant(p) \/ Connects(p) \/ Disconnects(p)
    \/ \E p \in Participants, t \in Tracks : Publishes(p, t)

\* The tasks of the loop end.
RoomFairness ==
    WF_roomVars(RoomIOStarted) /\ WF_roomVars(ForwarderEnds) /\ WF_roomVars(InputClosed)

RoomSpec == RoomInit /\ [][RoomNext]_roomVars /\ RoomFairness

----------------------------------------------------------------------------
(* Properties *)

\* What cannot last: the participant the session is linked to has a track, and the agent hears
\* another, or nothing, whoever came first, the participant, its track or set_participant().
LinkedUnheard ==
    /\ roomStart = "over" /\ inputState = "open"
    /\ linked # NoParticipant /\ TracksOf(linked) # {}
    /\ forwarders = <<>> \/ Head(forwarders) \notin TracksOf(linked)

----------------------------------------------------------------------------
(***************************************************************************)
(* The sounds behind the agent's voice (voice/background_audio.py): the    *)
(* track and its republication, the play tasks and their handles.  The     *)
(* mixer is the SDK's: it plays a stream to its end.                       *)
(***************************************************************************)

CONSTANTS
    Plays,              \* the calls of play() (a bound)
    MaxReconnects       \* how often the room reconnects (a bound)

ASSUME BackgroundAudioAssumption == Plays \subseteq Nat \ {0} /\ MaxReconnects \in Nat

VARIABLES
    bg,                 \* no, publishing (start() has the lock), started, closing, closed
    publication,        \* _publication is set
    republish,          \* _republish_task: none, lock (waits for it), publishing
    reconnects,
    play,               \* each play task: none, run, stopping, ended
    handleDone,         \* the handles that are done
    thinkingHandle,     \* _thinking_handle, 0 if none
    lateHandles         \* the sounds started once aclose() has cancelled the others

bgVars == <<bg, publication, republish, reconnects, play, handleDone, thinkingHandle, lateHandles>>

BgTypeOK ==
    /\ bg \in {"no", "publishing", "started", "closing", "closed"}
    /\ publication \in BOOLEAN /\ republish \in {"none", "lock", "publishing"}
    /\ play \in [Plays -> {"none", "run", "stopping", "ended"}]
    /\ {handleDone, lateHandles} \subseteq SUBSET Plays
    /\ thinkingHandle \in Plays \cup {0}

BgInit ==
    /\ bg = "no" /\ publication = FALSE /\ republish = "none" /\ reconnects = 0
    /\ play = [i \in Plays |-> "none"] /\ handleDone = {} /\ lateHandles = {}
    /\ thinkingHandle = 0

BgStart ==
    /\ bg = "no" /\ bg' = "publishing"
    /\ UNCHANGED <<publication, republish, reconnects, play, handleDone, thinkingHandle, lateHandles>>

\* The track is published: the mixer task runs.
BgStarted ==
    /\ bg = "publishing" /\ bg' = "started" /\ publication' = TRUE
    /\ UNCHANGED <<republish, reconnects, play, handleDone, thinkingHandle, lateHandles>>

\* _on_reconnected: the publication is forgotten, a task that republishes it replaced
\* (even while aclose() runs: the track is then published once it is over).
Reconnected ==
    /\ bg \in {"started", "closing"} /\ reconnects < MaxReconnects
    /\ reconnects' = reconnects + 1 /\ publication' = FALSE /\ republish' = "lock"
    /\ UNCHANGED <<bg, play, handleDone, thinkingHandle, lateHandles>>

\* _republish_track_task has the lock.
RepublishBegins ==
    /\ republish = "lock" /\ bg \in {"started", "closed"}
    /\ republish' = IF publication THEN "none" ELSE "publishing"
    /\ UNCHANGED <<bg, publication, reconnects, play, handleDone, thinkingHandle, lateHandles>>

Republished ==
    /\ republish = "publishing"
    /\ republish' = "none" /\ publication' = TRUE
    /\ UNCHANGED <<bg, reconnects, play, handleDone, thinkingHandle, lateHandles>>

----------------------------------------------------------------------------
(* The sounds *)

\* play(), of the user or of a thinking agent: a list of sounds may choose none.
Play(i) ==
    /\ play[i] = "none" /\ bg \notin {"no", "publishing"} /\ \A j \in Plays : j < i => play[j] # "none"
    /\ \/ play' = [play EXCEPT ![i] = "run"] /\ UNCHANGED handleDone
       \/ play' = [play EXCEPT ![i] = "ended"] /\ handleDone' = handleDone \cup {i}
    /\ lateHandles' = IF bg = "started" THEN lateHandles ELSE lateHandles \cup {i}
    /\ UNCHANGED <<bg, publication, republish, reconnects>>

UserPlays(i) == Play(i) /\ UNCHANGED thinkingHandle

\* _agent_state_changed: one sound at a time while the agent thinks.
AgentThinks(i) ==
    /\ bg # "closed"
    /\ thinkingHandle = 0 \/ thinkingHandle \in handleDone
    /\ Play(i) /\ thinkingHandle' = i

\* PlayHandle.stop(): its task wakes up.
Stopped(i) ==
    /\ i \notin handleDone
    /\ handleDone' = handleDone \cup {i} /\ play' = [play EXCEPT ![i] = "stopping"]

StopsThinking ==
    /\ bg # "closed" /\ thinkingHandle # 0 /\ Stopped(thinkingHandle)
    /\ UNCHANGED <<bg, publication, republish, reconnects, thinkingHandle, lateHandles>>

UserStops(i) ==
    /\ play[i] = "run" /\ Stopped(i)
    /\ UNCHANGED <<bg, publication, republish, reconnects, thinkingHandle, lateHandles>>

\* The sound is played to its end (the mixer no longer runs once closed).
SoundEnds(i) ==
    /\ play[i] = "run" /\ bg = "started"
    /\ handleDone' = handleDone \cup {i} /\ play' = [play EXCEPT ![i] = "stopping"]
    /\ UNCHANGED <<bg, publication, republish, reconnects, thinkingHandle, lateHandles>>

PlayTaskEnds(i) ==
    /\ play[i] = "stopping"
    /\ play' = [play EXCEPT ![i] = "ended"]
    /\ UNCHANGED <<bg, publication, republish, reconnects, handleDone, thinkingHandle, lateHandles>>

\* Mutant: the tasks are cancelled, their handles left.
BgCloseKeepsHandles ==
    /\ bg = "started" /\ bg' = "closing"
    /\ republish' = "none"
    /\ play' = [i \in Plays |-> IF play[i] = "none" THEN "none" ELSE "ended"]
    /\ UNCHANGED <<publication, reconnects, handleDone, thinkingHandle, lateHandles>>

\* aclose(): the play tasks are cancelled, which marks their handles, and the republication.
BgClose ==
    /\ bg = "started" /\ bg' = "closing"
    /\ republish' = "none"
    /\ play' = [i \in Plays |-> IF play[i] = "run" THEN "stopping" ELSE play[i]]
    /\ handleDone' = {i \in Plays : play[i] # "none"}
    /\ UNCHANGED <<publication, reconnects, thinkingHandle, lateHandles>>

BgClosed ==
    /\ bg = "closing" /\ \A i \in Plays \ lateHandles : play[i] \in {"none", "ended"}
    /\ bg' = "closed" /\ publication' = FALSE
    /\ UNCHANGED <<republish, reconnects, play, handleDone, thinkingHandle, lateHandles>>

BgNext ==
    \/ BgStart \/ BgStarted \/ Reconnected \/ RepublishBegins \/ Republished
    \/ StopsThinking \/ BgClose \/ BgClosed
    \/ \E i \in Plays : UserPlays(i) \/ AgentThinks(i) \/ UserStops(i) \/ SoundEnds(i) \/ PlayTaskEnds(i)

\* The tasks run, the publications return.  A sound may be a loop.
BgFairness ==
    /\ WF_bgVars(RepublishBegins) /\ WF_bgVars(Republished) /\ WF_bgVars(BgClosed)
    /\ \A i \in Plays : WF_bgVars(PlayTaskEnds(i))

BgSpec == BgInit /\ [][BgNext]_bgVars /\ BgFairness

----------------------------------------------------------------------------
(* Properties *)

\* What cannot last: aclose() returns, and a closed player leaves nobody waiting for a sound,
\* unless play() was called while it closed or later (its sound has no mixer); one that is open
\* is published again after a reconnection.
BackgroundPending ==
    \/ bg = "closing"
    \/ bg = "closed" /\ ~({i \in Plays : play[i] # "none"} \subseteq handleDone \cup lateHandles)
    \/ bg = "started" /\ ~publication

\* What the user says is heard and taken, once (audio_recognition.py, room_io/).
TurnSafe == TurnTypeOK /\ RoomTypeOK /\ BgTypeOK /\ WordsKept

===============================================================================
