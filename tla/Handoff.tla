------------------------------ MODULE Handoff ------------------------------
(***************************************************************************)
(* A session and the agents that succeed one another in it: start() and    *)
(* update_agent() of voice/agent_session.py, with start(), drain() and     *)
(* aclose() of the activities of voice/agent_activity.py and the hooks of  *)
(* voice/agent.py.  An agent is used once, so that it names its activity.  *)
(* AgentActivity models how an activity plays its speeches; here they are  *)
(* played in any order, one at a time.                                     *)
(***************************************************************************)
EXTENDS Naturals, Sequences, FiniteSets, SequencesExt

CONSTANTS
    Agents,
    NoAgent,
    RealtimeAgents,     \* those with a realtime model: their start() waits for its session
    Speeches            \* the calls of say() (a bound)

ASSUME HandoffAssumption == NoAgent \notin Agents /\ RealtimeAgents \subseteq Agents

VARIABLES
    agent,              \* session._agent
    sessionStart,       \* session.start(): no, room (RoomIO starts), activity, over (_started)
    active,             \* session._activity
    nextActive,         \* session._next_activity
    updates,            \* the update tasks that wait for _activity_lock
    handing,            \* the update that holds it: no, drain, start
    activity,           \* each activity: none, created, starting, running, draining, closed
    enter,              \* the task of each on_enter(): none, run, ended
    exit,               \* the task of each on_exit(): none, run, waiting (for a speech), ended
    speech,             \* each speech: none, queued, playing, done, refused (say() raised)
    speechOf,           \* its activity
    awaitedBy           \* the agent whose on_exit() waits for the speech

handoffVars == <<agent, sessionStart, active, nextActive, updates, handing, activity, enter, exit,
                 speech, speechOf, awaitedBy>>
sessionVars == <<agent, sessionStart, active, nextActive, updates, handing>>
speechVars == <<speech, speechOf, awaitedBy>>

HandoffTypeOK ==
    /\ {agent, active, nextActive} \subseteq Agents \cup {NoAgent}
    /\ sessionStart \in {"no", "room", "activity", "over"}
    /\ updates \in Seq(Agents) /\ IsInjective(updates)
    /\ handing \in {"no", "drain", "start"}
    /\ activity \in [Agents -> {"none", "created", "starting", "running", "draining", "closed"}]
    /\ enter \in [Agents -> {"none", "run", "ended"}]
    /\ exit \in [Agents -> {"none", "run", "waiting", "ended"}]
    /\ speech \in [Speeches -> {"none", "queued", "playing", "done", "refused"}]
    /\ {speechOf, awaitedBy} \subseteq [Speeches -> Agents \cup {NoAgent}]

HandoffInit ==
    /\ agent = NoAgent /\ sessionStart = "no"
    /\ active = NoAgent /\ nextActive = NoAgent
    /\ updates = <<>> /\ handing = "no"
    /\ activity = [a \in Agents |-> "none"]
    /\ enter = [a \in Agents |-> "none"] /\ exit = [a \in Agents |-> "none"]
    /\ speech = [s \in Speeches |-> "none"]
    /\ speechOf = [s \in Speeches |-> NoAgent] /\ awaitedBy = [s \in Speeches |-> NoAgent]

Unused(a) == a # agent /\ activity[a] = "none" /\ a \notin ToSet(updates)

----------------------------------------------------------------------------
(* session.start() *)

SessionStart(a) ==
    /\ sessionStart = "no"
    /\ agent' = a /\ sessionStart' = "room"
    /\ UNCHANGED <<active, nextActive, updates, handing, activity, enter, exit, speechVars>>

\* The room is joined: the first activity is made in the same task.
RoomJoined ==
    /\ sessionStart = "room"
    /\ sessionStart' = "activity" /\ updates' = Append(updates, agent)
    /\ UNCHANGED <<agent, active, nextActive, handing, activity, enter, exit, speechVars>>

\* Mutant: start() gives the hooks of its agent a turn before _started is set.
StartedLate(acts, a) ==
    /\ activity' = [acts EXCEPT ![a] = "running"]
    /\ enter' = [enter EXCEPT ![a] = "run"]
    /\ handing' = "no"
    /\ sessionStart' \in {sessionStart, "over"}

\* The end of _update_activity_task; nothing is awaited before _started is set.
Started(acts, a) ==
    /\ activity' = [acts EXCEPT ![a] = "running"]
    /\ enter' = [enter EXCEPT ![a] = "run"]
    /\ handing' = "no"
    /\ sessionStart' = "over"

----------------------------------------------------------------------------
(* _update_activity_task *)

\* update_agent(), by the user or a hook or a tool of an agent.  (While start() waits for the
\* realtime session of its agent, an update would change _agent and nothing else.)
UpdateAgent(a) ==
    /\ Unused(a)
    /\ sessionStart \in {"room", "over"} \/ \E b \in Agents : enter[b] # "none"
    /\ agent' = a
    /\ updates' = IF sessionStart = "over" THEN Append(updates, a) ELSE updates
    /\ UNCHANGED <<sessionStart, active, nextActive, handing, activity, enter, exit, speechVars>>

\* AgentActivity.start(): at once, or when the realtime session has been updated.
StartActivity(acts, a) ==
    IF a \in RealtimeAgents
    THEN /\ activity' = [acts EXCEPT ![a] = "starting"] /\ handing' = "start"
         /\ UNCHANGED <<enter, sessionStart>>
    ELSE Started(acts, a)

\* The lock is taken by the first that waits.  An activity there is drained: its on_exit() is
\* started, and its main task told.
BeginHandoff ==
    /\ handing = "no" /\ updates # <<>>
    /\ updates' = Tail(updates)
    /\ LET a == Head(updates)
       IN  IF active = NoAgent
           THEN active' = a /\ StartActivity(activity, a) /\ UNCHANGED <<nextActive, exit>>
           ELSE /\ nextActive' = a /\ handing' = "drain"
                /\ activity' = [activity EXCEPT ![a] = "created", ![active] = "draining"]
                /\ exit' = [exit EXCEPT ![active] = "run"]
                /\ UNCHANGED <<active, enter, sessionStart>>
    /\ UNCHANGED <<agent, speechVars>>

\* Mutant: the activity does not wait for on_exit().
TasksOverButExit(a) ==
    /\ enter[a] = "ended"
    /\ \A s \in Speeches : speechOf[s] = a => speech[s] = "done"

\* Every task of the activity has ended (AgentActivity's main task breaks).
TasksOver(a) ==
    /\ enter[a] = "ended" /\ exit[a] = "ended"
    /\ \A s \in Speeches : speechOf[s] = a => speech[s] = "done"

\* drain() returns, the old activity is closed, the next one takes its place and starts.
Switch ==
    /\ handing = "drain" /\ TasksOver(active)
    /\ active' = nextActive /\ nextActive' = NoAgent
    /\ StartActivity([activity EXCEPT ![active] = "closed"], nextActive)
    /\ UNCHANGED <<agent, updates, exit, speechVars>>

\* The updates of the realtime session return, or fail, which is logged.
RealtimeStarted ==
    /\ handing = "start" /\ Started(activity, active)
    /\ UNCHANGED <<agent, active, nextActive, updates, exit, speechVars>>

----------------------------------------------------------------------------
(* The hooks and say() *)

Draining(a) == activity[a] \in {"draining", "closed"}

\* The activity session.say() speaks with; NoAgent: it raises.
SayTo == IF active # NoAgent /\ Draining(active) THEN nextActive ELSE active

\* say(), by anybody (a reply asked for an activity not started yet is not modelled: its
\* llm_node() raises); an on_exit() may wait for its own speech.
Say(s) ==
    /\ speech[s] = "none" /\ agent # NoAgent
    /\ speech' = [speech EXCEPT ![s] = IF SayTo = NoAgent THEN "refused" ELSE "queued"]
    /\ speechOf' = [speechOf EXCEPT ![s] = SayTo]
    /\ \/ UNCHANGED <<awaitedBy, exit>>
       \/ \E a \in Agents : /\ exit[a] = "run" /\ SayTo # NoAgent
                            /\ exit' = [exit EXCEPT ![a] = "waiting"]
                            /\ awaitedBy' = [awaitedBy EXCEPT ![s] = a]
    /\ UNCHANGED <<sessionVars, activity, enter>>

\* Mutant: what is queued when an activity is drained stays queued.
PlaySpeechUnlessDraining(s) ==
    /\ speech[s] = "queued" /\ activity[speechOf[s]] = "running"
    /\ \A t \in Speeches : speechOf[t] = speechOf[s] => speech[t] # "playing"
    /\ speech' = [speech EXCEPT ![s] = "playing"]
    /\ UNCHANGED <<sessionVars, activity, enter, exit, speechOf, awaitedBy>>

\* The main task of the activity, which runs once that is started.
PlaySpeech(s) ==
    /\ speech[s] = "queued" /\ activity[speechOf[s]] \in {"running", "draining"}
    /\ \A t \in Speeches : speechOf[t] = speechOf[s] => speech[t] # "playing"
    /\ speech' = [speech EXCEPT ![s] = "playing"]
    /\ UNCHANGED <<sessionVars, activity, enter, exit, speechOf, awaitedBy>>

SpeechPlayed(s) ==
    /\ speech[s] = "playing"
    /\ speech' = [speech EXCEPT ![s] = "done"]
    /\ exit' = [a \in Agents |-> IF awaitedBy[s] = a THEN "run" ELSE exit[a]]
    /\ UNCHANGED <<sessionVars, activity, enter, speechOf, awaitedBy>>

EnterEnds(a) ==
    /\ enter[a] = "run"
    /\ enter' = [enter EXCEPT ![a] = "ended"]
    /\ UNCHANGED <<sessionVars, activity, exit, speechVars>>

ExitEnds(a) ==
    /\ exit[a] = "run"
    /\ exit' = [exit EXCEPT ![a] = "ended"]
    /\ UNCHANGED <<sessionVars, activity, enter, speechVars>>

HandoffNext ==
    \/ RoomJoined \/ BeginHandoff \/ Switch \/ RealtimeStarted
    \/ \E a \in Agents : SessionStart(a) \/ UpdateAgent(a) \/ EnterEnds(a) \/ ExitEnds(a)
    \/ \E s \in Speeches : Say(s) \/ PlaySpeech(s) \/ SpeechPlayed(s)

\* The tasks run what is ready, a hook ends unless it waits, a speech is played to its end.
HandoffFairness ==
    /\ WF_handoffVars(BeginHandoff) /\ WF_handoffVars(Switch) /\ WF_handoffVars(RealtimeStarted)
    /\ \A a \in Agents : WF_handoffVars(EnterEnds(a)) /\ WF_handoffVars(ExitEnds(a))
    /\ \A s \in Speeches : SF_handoffVars(PlaySpeech(s)) /\ WF_handoffVars(SpeechPlayed(s))

HandoffSpec == HandoffInit /\ [][HandoffNext]_handoffVars /\ HandoffFairness

----------------------------------------------------------------------------
(* Properties *)

\* With no handoff under way, the activity that runs is the one of the session's agent, however
\* many updates came, from the first on_enter() on.
AgentIsActive ==
    handing = "no" /\ updates = <<>> /\ active # NoAgent => active = agent

\* The agents do not overlap: only one activity can speak, and what is closed has nothing left
\* to say, nor hooks at work.
OneAgentAtATime ==
    /\ Cardinality({a \in Agents : activity[a] \in {"starting", "running", "draining"}}) <= 1
    /\ \A a \in Agents : activity[a] = "closed" => TasksOver(a) /\ exit[a] = "ended"

\* The agents take over from each other as they should (agent_session.py, agent_activity.py).
HandoffSafe == HandoffTypeOK /\ AgentIsActive /\ OneAgentAtATime

(* The inductive invariant *)

\* Where the handoff is tells where the activities are: those of other agents are closed, or not made.
ActivitiesInOrder ==
    /\ nextActive # NoAgent <=> handing = "drain"
    /\ active = NoAgent => handing = "no"
    /\ active # NoAgent =>
           activity[active] = [no |-> "running", drain |-> "draining", start |-> "starting"][handing]
    /\ nextActive # NoAgent => nextActive # active /\ activity[nextActive] = "created"
    /\ \A a \in Agents \ {active, nextActive} : activity[a] \in {"none", "closed"}
    /\ \A a \in ToSet(updates) : activity[a] = "none"

\* The last update that was asked for is the agent of the session; while start() is on its way there
\* is no other.
LatestIsAgent ==
    /\ agent = NoAgent <=> sessionStart = "no"
    /\ sessionStart \in {"no", "room"} => updates = <<>> /\ active = NoAgent
    /\ sessionStart = "over" => active # NoAgent
    /\ sessionStart # "over" => \A a \in Agents : enter[a] = "none"
    /\ sessionStart \in {"activity", "over"} =>
           agent = IF updates # <<>> THEN Last(updates)
                   ELSE IF handing = "drain" THEN nextActive ELSE active

\* An on_exit() waits for one speech at a time, and only once its activity is drained.
HooksInOrder ==
    /\ \A a \in Agents : activity[a] \notin {"draining", "closed"} => exit[a] = "none"
    /\ \A s \in Speeches :
        /\ speech[s] \in {"none", "refused"} => speechOf[s] = NoAgent /\ awaitedBy[s] = NoAgent
        /\ speech[s] \in {"queued", "playing"} => speechOf[s] # NoAgent
        /\ speech[s] \in {"queued", "playing"} /\ awaitedBy[s] # NoAgent
              => exit[awaitedBy[s]] = "waiting"
    /\ \A s, t \in {u \in Speeches : speech[u] \in {"queued", "playing"} /\ awaitedBy[u] # NoAgent} :
           awaitedBy[s] = awaitedBy[t] => s = t

ClosedIsOver == \A a \in Agents : activity[a] = "closed" => TasksOver(a)

HandoffInv ==
    HandoffTypeOK /\ ActivitiesInOrder /\ LatestIsAgent /\ HooksInOrder /\ ClosedIsOver

\* on_exit() waits for a speech that say() gave to the next activity, which waits for on_exit().
ExitStuck == \E s \in Speeches : speech[s] = "queued" /\ awaitedBy[s] # NoAgent
                                 /\ speechOf[s] = nextActive

\* What cannot last: every update is carried out, unless an on_exit() is stuck; so is every
\* say() that does not raise: AgentIsActive says with what effect.
HandoffPending ==
    /\ ~ExitStuck
    /\ updates # <<>> \/ handing # "no" \/ \E s \in Speeches : speech[s] = "queued"

=============================================================================
