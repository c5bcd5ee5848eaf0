---------------------------- MODULE Session_proofs ----------------------------
(***************************************************************************)
(* Proofs about the parts of a session, for any number of agents, speeches *)
(* and participants, and for any sequence of words and sounds.             *)
(***************************************************************************)
EXTENDS Handoff, RoomAudio, ReplyNodes, RealtimeSession, TextToSpeech, SequenceLemmas

(* Handoff *)

LEMMA HandoffInitInv == HandoffAssumption /\ HandoffInit => HandoffInv
<1> SUFFICES ASSUME HandoffAssumption, HandoffInit PROVE HandoffInv OBVIOUS
<1> USE DEF HandoffInit
<1>1. <<>> \in Seq(Agents) /\ IsInjective(<<>>) /\ ToSet(<<>>) = {}
  BY EmptySeq DEF IsInjective, ToSet
<1>2. HandoffTypeOK
  BY <1>1 DEF HandoffTypeOK
<1>3. ActivitiesInOrder /\ LatestIsAgent /\ HooksInOrder /\ ClosedIsOver
  BY <1>1 DEF HandoffAssumption, ActivitiesInOrder, LatestIsAgent, HooksInOrder, ClosedIsOver
<1> QED BY <1>2, <1>3 DEF HandoffInv

\* The session has its agent, and no activity yet.
LEMMA SessionStartKeeps ==
    ASSUME HandoffAssumption, HandoffInv, NEW a \in Agents, SessionStart(a)
    PROVE  HandoffInv'
<1> USE DEF SessionStart, sessionVars, speechVars, HandoffAssumption
<1>1. HandoffTypeOK'
  BY DEF HandoffInv, HandoffTypeOK, ActivitiesInOrder
<1>2. ActivitiesInOrder'
  BY DEF HandoffInv, HandoffTypeOK, ActivitiesInOrder, LatestIsAgent
<1>3. LatestIsAgent'
  BY DEF HandoffInv, HandoffTypeOK, ActivitiesInOrder, LatestIsAgent
<1>4. HooksInOrder'
  BY DEF HandoffInv, HandoffTypeOK, ActivitiesInOrder, LatestIsAgent, HooksInOrder
<1>5. ClosedIsOver'
  BY DEF HandoffInv, HandoffTypeOK, ActivitiesInOrder, LatestIsAgent, HooksInOrder, ClosedIsOver, TasksOver
<1> QED BY <1>1, <1>2, <1>3, <1>4, <1>5 DEF HandoffInv

\* The only update is for the agent of the session.
LEMMA RoomJoinedKeeps ==
    ASSUME HandoffAssumption, HandoffInv, RoomJoined
    PROVE  HandoffInv'
<1> USE DEF RoomJoined, sessionVars, speechVars, HandoffAssumption
<1>a. agent \in Agents /\ updates = <<>> /\ ToSet(updates) = {} /\ activity[agent] = "none"
  BY DEF HandoffInv, HandoffTypeOK, LatestIsAgent, ActivitiesInOrder, ClosedIsOver, TasksOver, ToSet
<1>0. /\ Append(updates, agent) \in Seq(Agents) /\ IsInjective(Append(updates, agent))
      /\ ToSet(Append(updates, agent)) = ToSet(updates) \cup {agent}
      /\ Append(updates, agent) # <<>> /\ Last(Append(updates, agent)) = agent
  <2>1. updates \in Seq(Agents) /\ IsInjective(updates) /\ agent \notin ToSet(updates) /\ agent \in Agents
    BY <1>a DEF HandoffInv, HandoffTypeOK
  <2> QED BY <2>1, AppendElements, LastElement
<1>1. HandoffTypeOK'
  BY <1>0, <1>a DEF HandoffInv, HandoffTypeOK, ActivitiesInOrder
<1>2. ActivitiesInOrder'
  BY <1>0, <1>a DEF HandoffInv, HandoffTypeOK, ActivitiesInOrder, LatestIsAgent
<1>3. LatestIsAgent'
  BY <1>0, <1>a DEF HandoffInv, HandoffTypeOK, ActivitiesInOrder, LatestIsAgent
<1>4. HooksInOrder'
  BY <1>0, <1>a DEF HandoffInv, HandoffTypeOK, ActivitiesInOrder, LatestIsAgent, HooksInOrder
<1>5. ClosedIsOver'
  BY <1>0, <1>a DEF HandoffInv, HandoffTypeOK, ActivitiesInOrder, LatestIsAgent, HooksInOrder, ClosedIsOver, TasksOver
<1> QED BY <1>1, <1>2, <1>3, <1>4, <1>5 DEF HandoffInv

\* The update for the new agent is the last.
LEMMA UpdateAgentKeeps ==
    ASSUME HandoffAssumption, HandoffInv, NEW a \in Agents, UpdateAgent(a)
    PROVE  HandoffInv'
<1> USE DEF UpdateAgent, Unused, sessionVars, speechVars, HandoffAssumption
<1>0. /\ Append(updates, a) \in Seq(Agents) /\ IsInjective(Append(updates, a))
      /\ ToSet(Append(updates, a)) = ToSet(updates) \cup {a}
      /\ Append(updates, a) # <<>> /\ Last(Append(updates, a)) = a
  BY AppendElements, LastElement DEF HandoffInv, HandoffTypeOK, LatestIsAgent, ActivitiesInOrder, ToSet, Unused
<1>1. HandoffTypeOK'
  BY <1>0 DEF HandoffInv, HandoffTypeOK, ActivitiesInOrder
<1>2. ActivitiesInOrder'
  BY <1>0 DEF HandoffInv, HandoffTypeOK, ActivitiesInOrder, LatestIsAgent
<1>3. LatestIsAgent'
  BY <1>0 DEF HandoffInv, HandoffTypeOK, ActivitiesInOrder, LatestIsAgent
<1>4. HooksInOrder'
  BY <1>0 DEF HandoffInv, HandoffTypeOK, ActivitiesInOrder, LatestIsAgent, HooksInOrder
<1>5. ClosedIsOver'
  BY <1>0 DEF HandoffInv, HandoffTypeOK, ActivitiesInOrder, LatestIsAgent, HooksInOrder, ClosedIsOver, TasksOver
<1> QED BY <1>1, <1>2, <1>3, <1>4, <1>5 DEF HandoffInv

\* The first update that waits is begun: the activity there is drained first.
LEMMA BeginHandoffKeeps ==
    ASSUME HandoffAssumption, HandoffInv, BeginHandoff
    PROVE  HandoffInv'
<1> DEFINE a == Head(updates)
<1> USE DEF HandoffAssumption, sessionVars, speechVars
<1>0. /\ a \in Agents /\ a \in ToSet(updates)
      /\ Tail(updates) \in Seq(Agents) /\ IsInjective(Tail(updates))
      /\ ToSet(updates) = ToSet(Tail(updates)) \cup {a}
      /\ a \notin ToSet(Tail(updates))
      /\ Last(updates) = IF Tail(updates) = <<>> THEN a ELSE Last(Tail(updates))
      /\ updates # <<>> /\ activity[a] = "none" /\ ToSet(updates) \subseteq Agents
  BY TailElements, LastElement, ElementsType DEF HandoffInv, HandoffTypeOK, BeginHandoff, ActivitiesInOrder
<1>1. /\ handing = "no" /\ updates' = Tail(updates)
      /\ UNCHANGED <<agent, speechVars>>
  BY DEF BeginHandoff
<1>2. CASE active = NoAgent
  <2>1. \/ /\ activity' = [activity EXCEPT ![a] = "starting"] /\ handing' = "start"
           /\ UNCHANGED <<enter, sessionStart>>
        \/ /\ activity' = [activity EXCEPT ![a] = "running"] /\ handing' = "no"
           /\ enter' = [enter EXCEPT ![a] = "run"] /\ sessionStart' = "over"
    BY <1>2 DEF BeginHandoff, StartActivity, Started
  <2>2. active' = a /\ UNCHANGED <<nextActive, exit>> /\ nextActive = NoAgent
        /\ sessionStart = "activity"
    BY <1>0, <1>1, <1>2 DEF BeginHandoff, HandoffInv, HandoffTypeOK, ActivitiesInOrder, LatestIsAgent
  <2> HIDE DEF a
  <2>3. HandoffTypeOK'
    <3>1. /\ activity' \in [Agents -> {"none", "created", "starting", "running", "draining", "closed"}]
          /\ enter' \in [Agents -> {"none", "run", "ended"}]
      <4>1. /\ activity \in [Agents -> {"none", "created", "starting", "running", "draining", "closed"}]
            /\ enter \in [Agents -> {"none", "run", "ended"}] /\ a \in Agents
        BY <1>0 DEF HandoffInv, HandoffTypeOK
      <4>2. \/ /\ activity' = [activity EXCEPT ![a] = "starting"] /\ enter' = enter
            \/ /\ activity' = [activity EXCEPT ![a] = "running"] /\ enter' = [enter EXCEPT ![a] = "run"]
        BY <2>1
      <4> QED BY ONLY <4>1, <4>2
    <3>2. /\ {agent, active, nextActive}' \subseteq Agents \cup {NoAgent}
          /\ sessionStart' \in {"no", "room", "activity", "over"} /\ handing' \in {"no", "drain", "start"}
      BY <1>0, <1>1, <2>1, <2>2 DEF HandoffInv, HandoffTypeOK
    <3> QED BY <1>0, <1>1, <2>2, <3>1, <3>2 DEF HandoffInv, HandoffTypeOK
  <2>4. ActivitiesInOrder'
    <3>1. ASSUME NEW x \in ToSet(updates') PROVE activity'[x] = "none"
      <4>1. x \in Agents /\ x # a /\ x # active /\ activity[x] = "none"
        <5>1. x \in ToSet(Tail(updates))
          BY <1>1, <3>1
        <5>2. x \in ToSet(updates) /\ x \in Agents /\ x # a
          BY <1>0, <5>1
        <5> QED BY <5>2, <1>2, <2>2 DEF HandoffInv, ActivitiesInOrder
      <4> QED BY <1>0, <1>1, <1>2, <2>1, <2>2, <4>1 DEF HandoffInv, HandoffTypeOK
    <3>2. ASSUME NEW x \in Agents \ {active', nextActive'} PROVE activity'[x] \in {"none", "closed"}
      BY <1>0, <1>1, <1>2, <2>1, <2>2 DEF HandoffInv, HandoffTypeOK, ActivitiesInOrder
    <3>3. /\ activity'[active'] = [no |-> "running", drain |-> "draining", start |-> "starting"][handing']
          /\ nextActive' # NoAgent => nextActive' # active' /\ activity'[nextActive'] = "created"
      BY <1>0, <1>1, <1>2, <2>1, <2>2 DEF HandoffInv, HandoffTypeOK
    <3> QED BY <1>0, <1>1, <1>2, <2>1, <2>2, <3>1, <3>2, <3>3 DEF ActivitiesInOrder
  <2>5. LatestIsAgent'
    BY <1>0, <1>1, <1>2, <2>1, <2>2 DEF HandoffInv, HandoffTypeOK, LatestIsAgent
  <2>6. HooksInOrder'
    <3>1. UNCHANGED <<exit, speech, speechOf, awaitedBy>>
      BY <1>1, <2>2 DEF speechVars
    <3>2. ASSUME NEW x \in Agents, activity'[x] \notin {"draining", "closed"} PROVE exit'[x] = "none"
      <4>1. activity[x] \notin {"draining", "closed"}
        BY <1>0, <2>1, <3>2 DEF HandoffInv, HandoffTypeOK
      <4> QED BY <3>1, <4>1 DEF HandoffInv, HooksInOrder
    <3> QED BY <3>1, <3>2 DEF HandoffInv, HooksInOrder
  <2>7. ClosedIsOver'
    BY <1>0, <1>1, <2>1, <2>2 DEF HandoffInv, HandoffTypeOK, ClosedIsOver, TasksOver
  <2> QED BY <2>3, <2>4, <2>5, <2>6, <2>7 DEF HandoffInv
<1>3. CASE active # NoAgent
  <2>1. /\ nextActive' = a /\ handing' = "drain"
        /\ activity' = [activity EXCEPT ![a] = "created", ![active] = "draining"]
        /\ exit' = [exit EXCEPT ![active] = "run"]
        /\ UNCHANGED <<active, enter, sessionStart>>
    BY <1>3 DEF BeginHandoff
  <2>2. /\ a # active /\ activity[active] = "running" /\ exit[active] = "none"
        /\ nextActive = NoAgent /\ sessionStart \notin {"no", "room"} /\ active \in Agents
    BY <1>0, <1>1, <1>3 DEF HandoffInv, HandoffTypeOK, ActivitiesInOrder, HooksInOrder, LatestIsAgent
  <2> HIDE DEF a
  <2>3. HandoffTypeOK'
    BY <1>0, <1>1, <2>1, <2>2 DEF HandoffInv, HandoffTypeOK
  <2>4. ActivitiesInOrder'
    <3>1. ASSUME NEW x \in ToSet(updates') PROVE activity'[x] = "none"
      <4>1. x \in Agents /\ x # a /\ x # active /\ activity[x] = "none"
        <5>1. x \in ToSet(Tail(updates))
          BY <1>1, <3>1
        <5>2. x \in ToSet(updates) /\ x \in Agents /\ x # a
          BY <1>0, <5>1
        <5> QED BY <5>2, <2>2 DEF HandoffInv, ActivitiesInOrder
      <4> QED BY <1>0, <1>1, <2>1, <2>2, <4>1 DEF HandoffInv, HandoffTypeOK
    <3>2. ASSUME NEW x \in Agents \ {active', nextActive'} PROVE activity'[x] \in {"none", "closed"}
      BY <1>0, <1>1, <2>1, <2>2 DEF HandoffInv, HandoffTypeOK, ActivitiesInOrder
    <3>3. /\ activity'[active'] = [no |-> "running", drain |-> "draining", start |-> "starting"][handing']
          /\ nextActive' # NoAgent => nextActive' # active' /\ activity'[nextActive'] = "created"
      BY <1>0, <1>1, <2>1, <2>2 DEF HandoffInv, HandoffTypeOK
    <3> QED BY <1>0, <1>1, <2>1, <2>2, <3>1, <3>2, <3>3 DEF ActivitiesInOrder
  <2>5. LatestIsAgent'
    BY <1>0, <1>1, <2>1, <2>2 DEF HandoffInv, HandoffTypeOK, LatestIsAgent
  <2>6. HooksInOrder'
    <3>1. \A s \in Speeches : speech[s] \in {"queued", "playing"} => awaitedBy[s] # active
      BY <2>2 DEF HandoffInv, HooksInOrder
    <3>2. \A b \in Agents : activity'[b] \notin {"draining", "closed"} => exit'[b] = "none"
      BY <1>0, <2>1, <2>2 DEF HandoffInv, HandoffTypeOK, HooksInOrder
    <3>3. \A s \in Speeches : speech[s] \in {"queued", "playing"} /\ awaitedBy[s] # NoAgent
              => exit'[awaitedBy[s]] = "waiting"
      BY <2>1, <3>1 DEF HandoffInv, HandoffTypeOK, HooksInOrder
    <3> QED BY <1>1, <3>2, <3>3 DEF HandoffInv, HooksInOrder
  <2>7. ClosedIsOver'
    BY <1>0, <1>1, <2>1, <2>2 DEF HandoffInv, HandoffTypeOK, ClosedIsOver, TasksOver
  <2> QED BY <2>3, <2>4, <2>5, <2>6, <2>7 DEF HandoffInv
<1> QED BY <1>2, <1>3

\* The activity that is closed has nothing left to do, and the next takes its place.
LEMMA SwitchKeeps ==
    ASSUME HandoffAssumption, HandoffInv, Switch
    PROVE  HandoffInv'
<1> USE DEF HandoffAssumption, sessionVars, speechVars
<1>1. /\ handing = "drain" /\ TasksOver(active) /\ active' = nextActive /\ nextActive' = NoAgent
      /\ UNCHANGED <<agent, updates, exit, speechVars>>
  BY DEF Switch
<1>2. \/ /\ activity' = [activity EXCEPT ![active] = "closed", ![nextActive] = "starting"]
         /\ handing' = "start" /\ UNCHANGED <<enter, sessionStart>>
      \/ /\ activity' = [activity EXCEPT ![active] = "closed", ![nextActive] = "running"]
         /\ handing' = "no" /\ enter' = [enter EXCEPT ![nextActive] = "run"] /\ sessionStart' = "over"
  BY DEF Switch, StartActivity, Started
<1>3. /\ nextActive \in Agents /\ active \in Agents /\ active # nextActive
      /\ activity[active] = "draining" /\ activity[nextActive] = "created"
      /\ exit[nextActive] = "none"
  BY <1>1 DEF HandoffInv, HandoffTypeOK, ActivitiesInOrder, HooksInOrder
<1>4. HandoffTypeOK'
  BY <1>1, <1>2, <1>3 DEF HandoffInv, HandoffTypeOK
<1>5. ActivitiesInOrder'
  <2>1. \A a \in Agents \ {active', nextActive'} : activity'[a] \in {"none", "closed"}
    BY <1>1, <1>2, <1>3 DEF HandoffInv, HandoffTypeOK, ActivitiesInOrder
  <2>2. \A a \in ToSet(updates') : a \in Agents /\ a \notin {active, nextActive} /\ activity'[a] = "none"
    BY <1>1, <1>2, <1>3, ElementsType DEF HandoffInv, HandoffTypeOK, ActivitiesInOrder
  <2> QED BY <1>1, <1>2, <1>3, <2>1, <2>2 DEF HandoffInv, HandoffTypeOK, ActivitiesInOrder
<1>6. LatestIsAgent'
  BY <1>1, <1>2, <1>3 DEF HandoffInv, HandoffTypeOK, LatestIsAgent
<1>7. HooksInOrder'
  BY <1>1, <1>2, <1>3 DEF HandoffInv, HandoffTypeOK, HooksInOrder
<1>8. ClosedIsOver'
  BY <1>1, <1>2, <1>3 DEF HandoffInv, HandoffTypeOK, ClosedIsOver, TasksOver
<1> QED BY <1>4, <1>5, <1>6, <1>7, <1>8 DEF HandoffInv

\* The activity runs.
LEMMA RealtimeStartedKeeps ==
    ASSUME HandoffAssumption, HandoffInv, RealtimeStarted
    PROVE  HandoffInv'
<1> USE DEF RealtimeStarted, Started, sessionVars, speechVars, HandoffAssumption
<1>1. HandoffTypeOK'
  BY DEF HandoffInv, HandoffTypeOK, ActivitiesInOrder
<1>2. ActivitiesInOrder'
  BY DEF HandoffInv, HandoffTypeOK, ActivitiesInOrder, LatestIsAgent
<1>3. LatestIsAgent'
  BY DEF HandoffInv, HandoffTypeOK, ActivitiesInOrder, LatestIsAgent
<1>4. HooksInOrder'
  BY DEF HandoffInv, HandoffTypeOK, ActivitiesInOrder, LatestIsAgent, HooksInOrder
<1>5. ClosedIsOver'
  BY DEF HandoffInv, HandoffTypeOK, ActivitiesInOrder, LatestIsAgent, HooksInOrder, ClosedIsOver, TasksOver
<1> QED BY <1>1, <1>2, <1>3, <1>4, <1>5 DEF HandoffInv

\* A speech goes to an activity that is not closed, nor draining.
LEMMA SayKeeps ==
    ASSUME HandoffAssumption, HandoffInv, NEW s \in Speeches, Say(s)
    PROVE  HandoffInv'
<1> USE DEF Say, SayTo, Draining, sessionVars, speechVars, HandoffAssumption
<1>1. HandoffTypeOK'
  <2>1. SayTo \in Agents \cup {NoAgent}
    BY DEF HandoffInv, HandoffTypeOK
  <2>2. /\ speech' \in [Speeches -> {"none", "queued", "playing", "done", "refused"}]
        /\ speechOf' \in [Speeches -> Agents \cup {NoAgent}]
    <3> HIDE DEF SayTo
    <3> QED BY <2>1 DEF HandoffInv, HandoffTypeOK
  <2>3. /\ exit' \in [Agents -> {"none", "run", "waiting", "ended"}]
        /\ awaitedBy' \in [Speeches -> Agents \cup {NoAgent}]
    <3> HIDE DEF SayTo
    <3> QED BY DEF HandoffInv, HandoffTypeOK
  <2>4. UNCHANGED <<agent, active, nextActive, sessionStart, updates, handing, activity, enter>>
    OBVIOUS
  <2> HIDE DEF Say
  <2> QED BY <2>2, <2>3, <2>4 DEF HandoffInv, HandoffTypeOK
<1>2. ActivitiesInOrder'
  BY DEF HandoffInv, HandoffTypeOK, ActivitiesInOrder, LatestIsAgent
<1>3. LatestIsAgent'
  BY DEF HandoffInv, HandoffTypeOK, ActivitiesInOrder, LatestIsAgent
<1>4. HooksInOrder'
  BY DEF HandoffInv, HandoffTypeOK, ActivitiesInOrder, LatestIsAgent, HooksInOrder
<1>5. ClosedIsOver'
  BY DEF HandoffInv, HandoffTypeOK, ActivitiesInOrder, LatestIsAgent, HooksInOrder, ClosedIsOver, TasksOver
<1> QED BY <1>1, <1>2, <1>3, <1>4, <1>5 DEF HandoffInv

\* A speech that is played was queued.
LEMMA PlaySpeechKeeps ==
    ASSUME HandoffAssumption, HandoffInv, NEW s \in Speeches, PlaySpeech(s)
    PROVE  HandoffInv'
<1> USE DEF PlaySpeech, sessionVars, speechVars, HandoffAssumption
<1>1. HandoffTypeOK'
  BY DEF HandoffInv, HandoffTypeOK, ActivitiesInOrder
<1>2. ActivitiesInOrder'
  BY DEF HandoffInv, HandoffTypeOK, ActivitiesInOrder, LatestIsAgent
<1>3. LatestIsAgent'
  BY DEF HandoffInv, HandoffTypeOK, ActivitiesInOrder, LatestIsAgent
<1>4. HooksInOrder'
  BY DEF HandoffInv, HandoffTypeOK, ActivitiesInOrder, LatestIsAgent, HooksInOrder
<1>5. ClosedIsOver'
  BY DEF HandoffInv, HandoffTypeOK, ActivitiesInOrder, LatestIsAgent, HooksInOrder, ClosedIsOver, TasksOver
<1> QED BY <1>1, <1>2, <1>3, <1>4, <1>5 DEF HandoffInv

\* The on_exit() that waits for the speech goes on: its activity is not closed.
LEMMA SpeechPlayedKeeps ==
    ASSUME HandoffAssumption, HandoffInv, NEW s \in Speeches, SpeechPlayed(s)
    PROVE  HandoffInv'
<1> USE DEF SpeechPlayed, sessionVars, speechVars, HandoffAssumption
<1>1. HandoffTypeOK'
  BY DEF HandoffInv, HandoffTypeOK, ActivitiesInOrder
<1>2. ActivitiesInOrder'
  BY DEF HandoffInv, HandoffTypeOK, ActivitiesInOrder, LatestIsAgent
<1>3. LatestIsAgent'
  BY DEF HandoffInv, HandoffTypeOK, ActivitiesInOrder, LatestIsAgent
<1>4. HooksInOrder'
  BY DEF HandoffInv, HandoffTypeOK, ActivitiesInOrder, LatestIsAgent, HooksInOrder
<1>5. ClosedIsOver'
  BY DEF HandoffInv, HandoffTypeOK, ActivitiesInOrder, LatestIsAgent, HooksInOrder, ClosedIsOver, TasksOver
<1> QED BY <1>1, <1>2, <1>3, <1>4, <1>5 DEF HandoffInv

\* A closed activity has no on_enter() at work.
LEMMA EnterEndsKeeps ==
    ASSUME HandoffAssumption, HandoffInv, NEW a \in Agents, EnterEnds(a)
    PROVE  HandoffInv'
<1> USE DEF EnterEnds, sessionVars, speechVars, HandoffAssumption
<1>1. HandoffTypeOK'
  BY DEF HandoffInv, HandoffTypeOK, ActivitiesInOrder
<1>2. ActivitiesInOrder'
  BY DEF HandoffInv, HandoffTypeOK, ActivitiesInOrder, LatestIsAgent
<1>3. LatestIsAgent'
  BY DEF HandoffInv, HandoffTypeOK, ActivitiesInOrder, LatestIsAgent
<1>4. HooksInOrder'
  BY DEF HandoffInv, HandoffTypeOK, ActivitiesInOrder, LatestIsAgent, HooksInOrder
<1>5. ClosedIsOver'
  BY DEF HandoffInv, HandoffTypeOK, ActivitiesInOrder, LatestIsAgent, HooksInOrder, ClosedIsOver, TasksOver
<1> QED BY <1>1, <1>2, <1>3, <1>4, <1>5 DEF HandoffInv

\* An on_exit() ends that waits for nothing.
LEMMA ExitEndsKeeps ==
    ASSUME HandoffAssumption, HandoffInv, NEW a \in Agents, ExitEnds(a)
    PROVE  HandoffInv'
<1> USE DEF ExitEnds, sessionVars, speechVars, HandoffAssumption
<1>1. HandoffTypeOK'
  BY DEF HandoffInv, HandoffTypeOK, ActivitiesInOrder
<1>2. ActivitiesInOrder'
  BY DEF HandoffInv, HandoffTypeOK, ActivitiesInOrder, LatestIsAgent
<1>3. LatestIsAgent'
  BY DEF HandoffInv, HandoffTypeOK, ActivitiesInOrder, LatestIsAgent
<1>4. HooksInOrder'
  BY DEF HandoffInv, HandoffTypeOK, ActivitiesInOrder, LatestIsAgent, HooksInOrder
<1>5. ClosedIsOver'
  BY DEF HandoffInv, HandoffTypeOK, ActivitiesInOrder, LatestIsAgent, HooksInOrder, ClosedIsOver, TasksOver
<1> QED BY <1>1, <1>2, <1>3, <1>4, <1>5 DEF HandoffInv

\* Every step keeps the invariant.
LEMMA HandoffNextInv == HandoffAssumption /\ HandoffInv /\ [HandoffNext]_handoffVars => HandoffInv'
<1> SUFFICES ASSUME HandoffAssumption, HandoffInv, [HandoffNext]_handoffVars PROVE HandoffInv' OBVIOUS
<1>1. CASE RoomJoined \/ BeginHandoff \/ Switch \/ RealtimeStarted
  BY <1>1, RoomJoinedKeeps, BeginHandoffKeeps, SwitchKeeps, RealtimeStartedKeeps
<1>2. ASSUME NEW a \in Agents, SessionStart(a) \/ UpdateAgent(a) \/ EnterEnds(a) \/ ExitEnds(a)
      PROVE  HandoffInv'
  BY <1>2, SessionStartKeeps, UpdateAgentKeeps, EnterEndsKeeps, ExitEndsKeeps
<1>3. ASSUME NEW s \in Speeches, Say(s) \/ PlaySpeech(s) \/ SpeechPlayed(s) PROVE HandoffInv'
  BY <1>3, SayKeeps, PlaySpeechKeeps, SpeechPlayedKeeps
<1>4. CASE UNCHANGED handoffVars
  <2> USE <1>4 DEF handoffVars, HandoffInv
  <2>1. HandoffTypeOK' /\ ActivitiesInOrder' /\ LatestIsAgent'
    BY DEF HandoffTypeOK, ActivitiesInOrder, LatestIsAgent
  <2>2. HooksInOrder' /\ ClosedIsOver'
    BY DEF HooksInOrder, ClosedIsOver, TasksOver
  <2> QED BY <2>1, <2>2
<1> QED BY <1>1, <1>2, <1>3, <1>4 DEF HandoffNext

\* The invariant says what is promised.
LEMMA HandoffInvSafe == HandoffAssumption /\ HandoffInv => HandoffSafe
<1> SUFFICES ASSUME HandoffAssumption, HandoffInv PROVE HandoffSafe OBVIOUS
<1> USE DEF HandoffInv, HandoffAssumption
<1>1. AgentIsActive
  BY DEF HandoffTypeOK, LatestIsAgent, AgentIsActive
<1>2. {a \in Agents : activity[a] \in {"starting", "running", "draining"}} \subseteq {active}
  BY DEF HandoffTypeOK, ActivitiesInOrder
<1>3. Cardinality({a \in Agents : activity[a] \in {"starting", "running", "draining"}}) <= 1
  <2>1. IsFiniteSet({active}) /\ Cardinality({active}) = 1
    BY FS_Singleton
  <2> QED BY <1>2, <2>1, FS_Subset
<1> QED BY <1>1, <1>3 DEF HandoffSafe, OneAgentAtATime, ClosedIsOver, TasksOver

\* With no handoff under way the activity that runs is the one of the session's agent, however many
\* updates came and whatever hooks called for them; no two activities overlap, and one that is closed
\* has no speech left to say and no hook at work (agent_session.py:294-378, agent_activity.py:265-368).
THEOREM AgentsTakeTurns == HandoffSpec => []HandoffSafe
<1> USE HandoffAssumption
<1>1. HandoffSpec => []HandoffInv
  BY HandoffInitInv, HandoffNextInv, PTL DEF HandoffSpec
<1> QED BY <1>1, HandoffInvSafe, PTL

----------------------------------------------------------------------------
(* TurnDetection *)

CountTo(n) == [i \in 1..n |-> i]

\* A word more, at the end of those counted so far.
LEMMA CountedAppend ==
    ASSUME NEW n \in Nat, NEW W, NEW s \in Seq(W), NEW t \in Seq(W), n + 1 \in W,
           s \o t = CountTo(n)
    PROVE  s \o Append(t, n + 1) = CountTo(n + 1)
<1>1. s \o Append(t, n + 1) = Append(CountTo(n), n + 1)
  BY AppendConcat
<1>2. CountTo(n) \in Seq(W)
  BY ConcatProperties
<1>3. DOMAIN CountTo(n) = 1..n /\ \A i \in 1..n : CountTo(n)[i] = i
  BY DEF CountTo
<1> DEFINE v == Append(CountTo(n), n + 1)
<1>4. v \in Seq(W) /\ Len(v) = n + 1 /\ v[n + 1] = n + 1 /\ \A i \in 1..n : v[i] = i
  BY <1>2, <1>3, LenProperties, AppendProperties
<1> HIDE DEF v
<1>5. DOMAIN v = 1..(n + 1) /\ v = [i \in DOMAIN v |-> v[i]] /\ \A i \in 1..(n + 1) : v[i] = i
  BY <1>4, LenProperties
<1>6. v = CountTo(n + 1)
  BY <1>5 DEF CountTo
<1> QED BY <1>1, <1>6 DEF v

LEMMA TurnInitInv == TurnDetectionAssumption /\ TurnInit => TurnInv
<1> SUFFICES ASSUME TurnDetectionAssumption, TurnInit PROVE TurnInv OBVIOUS
<1>1. <<>> \in Words /\ <<>> \o <<>> = <<>> /\ [i \in 1..0 |-> i] = <<>>
  BY EmptySeq DEF Words
<1>2. TurnTypeOK
  <2>1. transcript \in Words /\ newTranscript \in Words /\ turns \in Words
    BY <1>1 DEF TurnInit
  <2>2. heardWords \in 0..MaxWords /\ vad \in BOOLEAN /\ manual \in BOOLEAN /\ speaking \in BOOLEAN
    <3>1. heardWords = 0 /\ speaking = FALSE /\ vad \in BOOLEAN /\ manual \in BOOLEAN
      BY DEF TurnInit
    <3>2. heardWords \in 0..MaxWords
      BY <3>1 DEF TurnDetectionAssumption
    <3> QED BY <3>1, <3>2, Zenon
  <2>3. eou = "none" /\ floor = "free" /\ recognition = "open"
    BY DEF TurnInit
  <2> QED BY <2>1, <2>2, <2>3 DEF TurnTypeOK
<1>3. WordsKept /\ TaskHasWords
  BY <1>1 DEF TurnInit, WordsKept, TaskHasWords
<1> QED BY <1>2, <1>3 DEF TurnInv

\* A word is heard: the task that had the words before it is replaced.
LEMMA FinalTranscriptKeeps ==
    ASSUME TurnDetectionAssumption, TurnInv, FinalTranscript
    PROVE  TurnInv'
<1>1. /\ heardWords \in Nat /\ heardWords + 1 \in 1..MaxWords /\ heardWords' = heardWords + 1
      /\ transcript \in Words /\ turns \in Words /\ turns' = turns
      /\ transcript' = Append(transcript, heardWords + 1)
  BY DEF FinalTranscript, TurnInv, TurnTypeOK, TurnDetectionAssumption
<1>2. transcript' \in Words /\ transcript' # <<>>
  BY <1>1, AppendProperties DEF Words
<1>3. WordsKept'
  <2>1. turns \o transcript = CountTo(heardWords)
    BY DEF TurnInv, WordsKept, CountTo
  <2>2. turns \o Append(transcript, heardWords + 1) = CountTo(heardWords + 1)
    BY <1>1, <2>1, CountedAppend DEF Words
  <2> QED BY <1>1, <2>2 DEF WordsKept, CountTo
<1>4. TurnTypeOK'
  BY <1>1, <1>2 DEF FinalTranscript, RunEouDetection, TurnInv, TurnTypeOK
<1>5. TaskHasWords'
  BY <1>2 DEF FinalTranscript, RunEouDetection, TurnInv, TaskHasWords
<1> QED BY <1>3, <1>4, <1>5 DEF TurnInv

\* Speech begins or ends: no hook works meanwhile.
LEMMA SpeakingKeeps ==
    ASSUME TurnInv, StartOfSpeech \/ EndOfSpeech
    PROVE  TurnInv'
<1> USE DEF StartOfSpeech, EndOfSpeech, RunEouDetection, TurnInv
<1>1. TurnTypeOK'
  BY DEF TurnTypeOK
<1>2. WordsKept' /\ TaskHasWords'
  BY DEF WordsKept, TaskHasWords
<1> QED BY <1>1, <1>2

\* The steps of the task up to its hook, and what leaves it alone.
LEMMA TaskStepKeeps ==
    ASSUME TurnInv, FloorChanges \/ Predicted \/ EndOfTurn \/ RecognitionClosed
    PROVE  TurnInv'
<1> USE DEF FloorChanges, Predicted, EndOfTurn, RecognitionClosed, TurnInv
<1>1. TurnTypeOK'
  BY DEF TurnTypeOK
<1>2. WordsKept' /\ TaskHasWords'
  BY DEF WordsKept, TaskHasWords
<1> QED BY <1>1, <1>2

\* A hook has returned and its words are those of the transcript: the turn has them all.
LEMMA TurnTakenKeeps ==
    ASSUME TurnInv, eou \in {"hook", "blocked"}, TurnTaken,
           UNCHANGED <<vad, manual, speaking, heardWords, floor, recognition>>
    PROVE  TurnInv'
<1>1. newTranscript = transcript /\ transcript \in Words /\ turns \in Words
  BY DEF TurnInv, TurnTypeOK, TaskHasWords
<1>2. turns' \in Words /\ turns' \o <<>> = turns \o transcript /\ <<>> \in Words
  BY <1>1, ConcatProperties, ConcatEmptySeq, EmptySeq DEF TurnTaken, Words
<1>3. TurnTypeOK'
  BY <1>2 DEF TurnInv, TurnTypeOK, TurnTaken
<1>4. WordsKept' /\ TaskHasWords'
  BY <1>2 DEF TurnInv, WordsKept, TaskHasWords, TurnTaken
<1> QED BY <1>3, <1>4 DEF TurnInv

\* A hook returns: its turn is answered, skipped or ignored, or its reply is refused.
LEMMA HookEndsKeeps ==
    ASSUME TurnInv, TurnSkipped \/ ReplyAsked \/ TurnIgnored
    PROVE  TurnInv'
<1>1. CASE eou' = "raised"
  <2>1. <<>> \in Words
    BY EmptySeq DEF Words
  <2>2. TurnTypeOK'
    BY <1>1, <2>1 DEF TurnSkipped, ReplyAsked, TurnIgnored, TurnTaken, TurnInv, TurnTypeOK
  <2>3. WordsKept' /\ TaskHasWords'
    BY <1>1 DEF TurnSkipped, ReplyAsked, TurnIgnored, TurnTaken, TurnInv, WordsKept, TaskHasWords
  <2> QED BY <2>2, <2>3 DEF TurnInv
<1>2. CASE eou' # "raised"
  <2>1. /\ eou \in {"hook", "blocked"} /\ TurnTaken
        /\ UNCHANGED <<vad, manual, speaking, heardWords, floor, recognition>>
    BY <1>2 DEF TurnSkipped, ReplyAsked, TurnIgnored
  <2> QED BY <2>1, TurnTakenKeeps
<1> QED BY <1>1, <1>2

LEMMA TurnNextInv == TurnDetectionAssumption /\ TurnInv /\ [TurnNext]_turnVars => TurnInv'
<1> SUFFICES ASSUME TurnDetectionAssumption, TurnInv, [TurnNext]_turnVars PROVE TurnInv' OBVIOUS
<1>1. CASE TurnNext
  BY <1>1, FinalTranscriptKeeps, SpeakingKeeps, TaskStepKeeps, HookEndsKeeps DEF TurnNext
<1>2. CASE UNCHANGED turnVars
  BY <1>2 DEF turnVars, TurnInv, TurnTypeOK, WordsKept, TaskHasWords
<1> QED BY <1>1, <1>2

\* A turn never ends while the user speaks: what starts to speak cancels the task, its hook included
\* (audio_recognition.py).
THEOREM NoTurnInterrupts == TurnSpec => [][NoTurnWhileSpeaking]_turnVars
<1> USE TurnDetectionAssumption
<1>1. TurnInv /\ [TurnNext]_turnVars => [NoTurnWhileSpeaking]_turnVars
  <2> SUFFICES ASSUME TurnInv, TurnNext, turns' # turns PROVE ~speaking
    BY DEF turnVars, NoTurnWhileSpeaking
  <2>1. eou \in {"hook", "blocked"}
    BY DEF TurnNext, FinalTranscript, StartOfSpeech, EndOfSpeech, FloorChanges, Predicted, EndOfTurn,
           TurnSkipped, ReplyAsked, TurnIgnored, RecognitionClosed
  <2> QED BY <2>1 DEF TurnInv, TaskHasWords
<1> QED BY <1>1, TurnInitInv, TurnNextInv, PTL DEF TurnSpec

----------------------------------------------------------------------------
(* RoomAudio *)

LEMMA RoomInitType == RoomInputAssumption /\ RoomInit => RoomTypeOK
<1> SUFFICES ASSUME RoomInputAssumption, RoomInit PROVE RoomTypeOK OBVIOUS
<1>1. <<>> \in Seq(Tracks)
  BY EmptySeq
<1> QED BY <1>1 DEF RoomInit, RoomTypeOK

\* The input listens to whoever it is told.
LEMMA ListenToType ==
    ASSUME RoomTypeOK, NEW p \in Participants \cup {NoParticipant}, ListenTo(p)
    PROVE  inputOf' \in Participants \cup {NoParticipant} /\ stream' \in Tracks \cup {0}
           /\ forwarders' \in Seq(Tracks)
<1>1. CASE TracksOf(p) # {} /\ inputOf # p
  <2>1. PICK t \in TracksOf(p) : Open(t) /\ inputOf' = p
    BY <1>1 DEF ListenTo
  <2>2. t \in Tracks
    BY DEF TracksOf, RoomTypeOK
  <2> QED BY <2>1, <2>2, AppendProperties DEF Open, RoomTypeOK
<1>2. CASE ~(TracksOf(p) # {} /\ inputOf # p)
  BY <1>2 DEF ListenTo, RoomTypeOK
<1> QED BY <1>1, <1>2

\* The link to a participant.
LEMMA LinkType ==
    ASSUME RoomTypeOK, NEW p \in Participants, Link(p)
    PROVE  {linked', available', inputOf'} \subseteq Participants \cup {NoParticipant}
           /\ stream' \in Tracks \cup {0} /\ forwarders' \in Seq(Tracks)
<1>1. ListenTo(p)
  BY DEF Link
<1>2. {linked', available'} \subseteq Participants \cup {NoParticipant}
  BY DEF Link, RoomTypeOK
<1> QED BY <1>1, <1>2, ListenToType

LEMMA RoomNextType == RoomInputAssumption /\ RoomTypeOK /\ [RoomNext]_roomVars => RoomTypeOK'
<1> SUFFICES ASSUME RoomInputAssumption, RoomTypeOK, [RoomNext]_roomVars PROVE RoomTypeOK' OBVIOUS
<1>1. CASE StartRoomIO
  BY <1>1 DEF StartRoomIO, inputVars, RoomTypeOK
<1>2. CASE RoomIOStarted
  <2>1. available \in Participants
    BY <1>2 DEF RoomIOStarted, RoomTypeOK
  <2> QED BY <1>2, <2>1, LinkType DEF RoomIOStarted, RoomTypeOK
<1>3. CASE UnsetParticipant
  <2>1. ListenTo(NoParticipant)
    BY <1>3 DEF UnsetParticipant
  <2> QED BY <1>3, <2>1, ListenToType DEF UnsetParticipant, RoomTypeOK
<1>4. CASE ForwarderEnds
  <2>1. forwarders' \in Seq(Tracks)
    BY <1>4, HeadTailProperties DEF ForwarderEnds, RoomTypeOK
  <2> QED BY <1>4, <2>1 DEF ForwarderEnds, RoomTypeOK
<1>5. CASE CloseInput \/ InputClosed
  BY <1>5 DEF CloseInput, InputClosed, RoomTypeOK
<1>6. ASSUME NEW p \in Participants, SetParticipant(p) PROVE RoomTypeOK'
  <2>1. startWaits' \in BOOLEAN /\ Link(p)
    BY <1>6 DEF SetParticipant, RoomTypeOK
  <2> QED BY <1>6, <2>1, LinkType DEF SetParticipant, RoomTypeOK
<1>7. ASSUME NEW p \in Participants, Connects(p) \/ Disconnects(p) PROVE RoomTypeOK'
  BY <1>7 DEF Connects, Disconnects, inputVars, RoomTypeOK
<1>8. ASSUME NEW p \in Participants, NEW t \in Tracks, Publishes(p, t) PROVE RoomTypeOK'
  <2>1. stream' \in Tracks \cup {0} /\ forwarders' \in Seq(Tracks)
    <3>1. Append(forwarders, t) \in Seq(Tracks)
      BY AppendProperties DEF RoomTypeOK
    <3>2. \/ stream' = t /\ forwarders' = Append(forwarders, t)
          \/ UNCHANGED <<stream, forwarders>>
      BY <1>8 DEF Publishes, Open
    <3> QED BY <3>1, <3>2 DEF RoomTypeOK
  <2>2. trackOf' \in [Tracks -> Participants \cup {NoParticipant}] /\ subscribed' \subseteq Tracks
    <3>1. trackOf' = [trackOf EXCEPT ![t] = p] /\ subscribed' = subscribed \cup {t}
      BY <1>8 DEF Publishes
    <3> QED BY <3>1 DEF RoomTypeOK
  <2>3. UNCHANGED <<connected, roomStart, linked, available, startWaits, inputOf, inputState>>
    BY <1>8 DEF Publishes
  <2> QED BY <2>1, <2>2, <2>3 DEF RoomTypeOK
<1>9. CASE UNCHANGED roomVars
  BY <1>9 DEF roomVars, RoomTypeOK
<1> QED BY <1>1, <1>2, <1>3, <1>4, <1>5, <1>6, <1>7, <1>8, <1>9 DEF RoomNext

LEMMA BgInitType == BackgroundAudioAssumption /\ BgInit => BgTypeOK
BY DEF BgInit, BgTypeOK

LEMMA BgNextType == BackgroundAudioAssumption /\ BgTypeOK /\ [BgNext]_bgVars => BgTypeOK'
<1> SUFFICES ASSUME BackgroundAudioAssumption, BgTypeOK, [BgNext]_bgVars PROVE BgTypeOK' OBVIOUS
<1>1. CASE BgStart \/ BgStarted \/ Reconnected \/ RepublishBegins \/ Republished \/ BgClosed
  BY <1>1 DEF BgStart, BgStarted, Reconnected, RepublishBegins, Republished, BgClosed, BgTypeOK
<1>2. CASE StopsThinking
  <2>1. thinkingHandle \in Plays
    BY <1>2 DEF StopsThinking, BgTypeOK
  <2> QED BY <1>2, <2>1 DEF StopsThinking, Stopped, BgTypeOK
<1>3. CASE BgClose
  BY <1>3 DEF BgClose, BgTypeOK
<1>4. ASSUME NEW i \in Plays, UserPlays(i) \/ AgentThinks(i) PROVE BgTypeOK'
  BY <1>4 DEF UserPlays, AgentThinks, Play, BgTypeOK
<1>5. ASSUME NEW i \in Plays, UserStops(i) \/ SoundEnds(i) \/ PlayTaskEnds(i) PROVE BgTypeOK'
  BY <1>5 DEF UserStops, Stopped, SoundEnds, PlayTaskEnds, BgTypeOK
<1>6. CASE UNCHANGED bgVars
  BY <1>6 DEF bgVars, BgTypeOK
<1> QED BY <1>1, <1>2, <1>3, <1>4, <1>5, <1>6 DEF BgNext

\* Every word heard is in one turn or still in the transcript, in the order of speech, whatever cancels
\* the task of the end of turn while its hook runs (audio_recognition.py, agent_activity.py), whoever
\* comes and goes in the room meanwhile (room_io/) and whatever is played behind (background_audio.py).
THEOREM WordsTakenOnce == TurnSpec /\ RoomSpec /\ BgSpec => []TurnSafe
<1> USE TurnDetectionAssumption, RoomInputAssumption, BackgroundAudioAssumption
<1>1. TurnSpec => []TurnInv
  BY TurnInitInv, TurnNextInv, PTL DEF TurnSpec
<1>2. RoomSpec => []RoomTypeOK
  BY RoomInitType, RoomNextType, PTL DEF RoomSpec
<1>3. BgSpec => []BgTypeOK
  BY BgInitType, BgNextType, PTL DEF BgSpec
<1>4. TurnInv /\ RoomTypeOK /\ BgTypeOK => TurnSafe
  BY DEF TurnInv, TurnSafe
<1> QED BY <1>1, <1>2, <1>3, <1>4, PTL

-----------------------------------------------------------------------------
(* Reply nodes *)

LEMMA NodesInitInv == ReplyNodesAssumption /\ ReplyNodesInit => NodesInv
<1> SUFFICES ASSUME ReplyNodesAssumption, ReplyNodesInit PROVE NodesInv OBVIOUS
<1>1. words \in 0 .. MaxReplyWords /\ ttsGiven \in 0 .. words /\ frames \in 0 .. ttsGiven
      /\ shown \in 0 .. words /\ captured \in 0 .. frames /\ message \in 0 .. MaxReplyWords
  BY DEF ReplyNodesInit, ReplyNodesAssumption
<1>2. running \subseteq {"llm", "input", "tts", "text", "audio"}
  BY DEF ReplyNodesInit
<1>3. flushes \in [{"text", "audio"} -> 0 .. 1] /\ failures \subseteq {"llm", "tts"}
  BY DEF ReplyNodesInit
<1>4. ReplyNodesTypeOK
  BY <1>1, <1>2, <1>3 DEF ReplyNodesInit, ReplyNodesTypeOK
<1> QED BY <1>4 DEF ReplyNodesInit, NodesInv, TasksOfSteps, FlushesTell, EachTookAll, Uncut

LEMMA NodesNextInv ==
    ASSUME ReplyNodesAssumption, NodesInv, [ReplyNodesNext]_nodesVars PROVE NodesInv'
<1> USE DEF NodesInv, TasksOfSteps, FlushesTell, EachTookAll, Uncut, Runs, TaskOver,
            replyState, ttsSide, outSide, ReplyNodesAssumption
<1>1. CASE LLMSays BY <1>1 DEF LLMSays, ReplyNodesTypeOK
<1>2. CASE LLMAnswered BY <1>2 DEF LLMAnswered, ReplyNodesTypeOK
<1>3. CASE LLMBreaks BY <1>3 DEF LLMBreaks, ReplyNodesTypeOK
<1>4. CASE TTSForwards BY <1>4 DEF TTSForwards, ReplyNodesTypeOK
<1>5. CASE TTSInputEnds BY <1>5 DEF TTSInputEnds, TextChEnds, ReplyNodesTypeOK
<1>6. CASE TTSSpeaks BY <1>6 DEF TTSSpeaks, ReplyNodesTypeOK
<1>7. CASE TTSDone BY <1>7 DEF TTSDone, ReplyNodesTypeOK
<1>8. CASE TTSBreaks BY <1>8 DEF TTSBreaks, ReplyNodesTypeOK
<1>9. CASE TextForwards BY <1>9 DEF TextForwards, ReplyNodesTypeOK
<1>10. CASE AudioForwards BY <1>10 DEF AudioForwards, ReplyNodesTypeOK
<1>11. CASE TextForwarded BY <1>11 DEF TextForwarded, TextChEnds, ForwardingEnds, ReplyNodesTypeOK
<1>12. CASE AudioForwarded BY <1>12 DEF AudioForwarded, ForwardingEnds, ReplyNodesTypeOK
<1>13. CASE PlayBegins BY <1>13 DEF PlayBegins, ReplyNodesTypeOK
<1>14. CASE StopSpeech BY <1>14 DEF StopSpeech, ReplyNodesTypeOK
<1>15. CASE TasksForwarded BY <1>15 DEF TasksForwarded, TasksAwaited, ReplyNodesTypeOK
<1>16. CASE PlayedOutWhole BY <1>16 DEF PlayedOutWhole, ReplyNodesTypeOK
<1>17. CASE StoppedEarly BY <1>17 DEF StoppedEarly, ReplyNodesTypeOK
<1>18. CASE StoppedPlaying BY <1>18 DEF StoppedPlaying, ForwardingEnds, TruncateMessage, ReplyNodesTypeOK
<1>19. CASE UNCHANGED nodesVars BY <1>19 DEF nodesVars, ReplyNodesTypeOK
<1> QED
  BY <1>1, <1>2, <1>3, <1>4, <1>5, <1>6, <1>7, <1>8, <1>9, <1>10, <1>11, <1>12, <1>13, <1>14, <1>15,
     <1>16, <1>17, <1>18, <1>19 DEF ReplyNodesNext, NodeSteps

LEMMA RtInitInv == RealtimeReplyAssumption /\ RealtimeReplyInit => RtInv
<1> SUFFICES ASSUME RealtimeReplyAssumption, RealtimeReplyInit PROVE RtInv OBVIOUS
<1>1. rtSaid \in [count : 0 .. 2, words : 0 .. MaxSaid, frames : 0 .. MaxSaid, open : BOOLEAN]
  BY DEF RealtimeReplyInit, RealtimeReplyAssumption
<1>2. rtFlushes \in [{"text", "audio"} -> 0 .. 1]
  BY DEF RealtimeReplyInit
<1>3. /\ rtRead \in 0 .. rtSaid.count /\ rtShown \in 0 .. rtSaid.words
      /\ rtCaptured \in 0 .. rtSaid.frames
  BY DEF RealtimeReplyInit
<1>4. RealtimeReplyTypeOK
  BY <1>1, <1>2, <1>3 DEF RealtimeReplyInit, RealtimeReplyTypeOK
<1> QED
  BY <1>1, <1>4 DEF RealtimeReplyInit, RtInv, SaidInMessages, ReadingInStep, RtFlushesTell, RtEachTookAll, RtUncut

LEMMA RtNextInv ==
    ASSUME RealtimeReplyAssumption, RtInv, [RealtimeReplyNext]_rtReplyVars PROVE RtInv'
<1> USE DEF RtInv, SaidInMessages, ReadingInStep, RtFlushesTell, RtEachTookAll, RtUncut, rtOutVars,
            rtReadVars, rtServerVars, RealtimeReplyAssumption
<1>1. CASE RtMessageBegins
  <2>1. RealtimeReplyTypeOK'
    <3>1. /\ rtSaid' \in [count : 0 .. 2, words : 0 .. MaxSaid, frames : 0 .. MaxSaid, open : BOOLEAN]
          /\ rtSaid'.count = rtSaid.count + 1 /\ rtSaid'.words = rtSaid.words /\ rtSaid'.frames = rtSaid.frames
      <4> DEFINE isFirst == rtSaid.count = 0
      <4>1. rtSaid' = [rtSaid EXCEPT !.count = @ + 1, !.open = isFirst] /\ rtSaid.count < 2
        BY <1>1 DEF RtMessageBegins
      <4>2. isFirst \in BOOLEAN
        BY Zenon
      <4> HIDE DEF isFirst
      <4>3. rtSaid \in [count : 0 .. 2, words : 0 .. MaxSaid, frames : 0 .. MaxSaid, open : BOOLEAN]
        BY DEF RealtimeReplyTypeOK
      <4>4. rtSaid.count + 1 \in 0 .. 2
        BY <4>1, <4>3
      <4>5. rtSaid' = [count |-> rtSaid.count + 1, words |-> rtSaid.words, frames |-> rtSaid.frames, open |-> isFirst]
        BY <4>1, <4>3
      <4> QED BY <4>2, <4>3, <4>4, <4>5
    <3>2. rtRead \in 0 .. rtSaid'.count
      BY <3>1 DEF RealtimeReplyTypeOK
    <3> QED BY <1>1, <3>1, <3>2 DEF RtMessageBegins, RealtimeReplyTypeOK
  <2>2. (SaidInMessages /\ ReadingInStep /\ RtFlushesTell)'
    BY <1>1 DEF RtMessageBegins, RealtimeReplyTypeOK
  <2>3. RtEachTookAll'
    BY <1>1 DEF RtMessageBegins, RealtimeReplyTypeOK
  <2> QED BY <2>1, <2>2, <2>3
<1>2. CASE RtMessageGrows BY <1>2 DEF RtMessageGrows, RealtimeReplyTypeOK
<1>3. CASE RtMessageEnds BY <1>3 DEF RtMessageEnds, RealtimeReplyTypeOK
<1>4. CASE \E how \in {"done", "lost"} : RtServerEnds(how)
  <2>1. RealtimeReplyTypeOK'
    BY <1>4 DEF RtServerEnds, RealtimeReplyTypeOK
  <2>2. (SaidInMessages /\ ReadingInStep /\ RtFlushesTell)'
    BY <1>4 DEF RtServerEnds, RealtimeReplyTypeOK
  <2>3. RtEachTookAll'
    BY <1>4 DEF RtServerEnds, RealtimeReplyTypeOK
  <2> QED BY <2>1, <2>2, <2>3
<1>5. CASE RtReadsMessage
  <2>1. RealtimeReplyTypeOK'
    <3>1. rtRead' \in 0 .. rtSaid.count
      BY <1>5 DEF RtReadsMessage, RealtimeReplyTypeOK
    <3>2. rtForwards' \subseteq {"text", "audio"} /\ rtReader' \in {"none", "reads", "gathers", "done"}
      BY <1>5 DEF RtReadsMessage, RealtimeReplyTypeOK
    <3> QED BY <1>5, <3>1, <3>2 DEF RtReadsMessage, RealtimeReplyTypeOK
  <2>2. (SaidInMessages /\ ReadingInStep /\ RtFlushesTell)'
    BY <1>5 DEF RtReadsMessage, RealtimeReplyTypeOK
  <2>3. RtEachTookAll'
    BY <1>5 DEF RtReadsMessage, RealtimeReplyTypeOK
  <2> QED BY <2>1, <2>2, <2>3
<1>6. CASE RtReadsEnd BY <1>6 DEF RtReadsEnd, RealtimeReplyTypeOK
<1>7. CASE RtForwardsText BY <1>7 DEF RtForwardsText, RealtimeReplyTypeOK
<1>8. CASE RtForwardsAudio BY <1>8 DEF RtForwardsAudio, RealtimeReplyTypeOK
<1>9. CASE RtForwarded
  <2>1. RealtimeReplyTypeOK'
    <3>1. rtFlushes' \in [{"text", "audio"} -> 0 .. 1] /\ rtForwards' \subseteq {"text", "audio"}
      <4>1. CASE "text" \in rtForwards /\ RtForwardsEnd({"text"})
        BY <4>1 DEF RtForwardsEnd, RealtimeReplyTypeOK
      <4>2. CASE "audio" \in rtForwards /\ RtForwardsEnd({"audio"})
        BY <4>2 DEF RtForwardsEnd, RealtimeReplyTypeOK
      <4> QED BY <1>9, <4>1, <4>2 DEF RtForwarded
    <3> QED BY <1>9, <3>1 DEF RtForwarded, RealtimeReplyTypeOK
  <2>2. (SaidInMessages /\ ReadingInStep /\ RtFlushesTell)'
    BY <1>9 DEF RtForwarded, RtForwardsEnd, RealtimeReplyTypeOK
  <2>3. RtEachTookAll'
    BY <1>9 DEF RtForwarded, RtForwardsEnd, RealtimeReplyTypeOK
  <2> QED BY <2>1, <2>2, <2>3
<1>10. CASE RtAudioBreaks BY <1>10 DEF RtAudioBreaks, RtForwardsEnd, RealtimeReplyTypeOK
<1>11. CASE RtGathered BY <1>11 DEF RtGathered, RtReaderOver, RtForwardsEnd, RealtimeReplyTypeOK
<1>12. CASE RtInterrupted BY <1>12 DEF RtInterrupted, RealtimeReplyTypeOK
<1>13. CASE RtAuthorized BY <1>13 DEF RtAuthorized, RealtimeReplyTypeOK
<1>14. CASE RtAllForwarded BY <1>14 DEF RtAllForwarded, RealtimeReplyTypeOK
<1>15. CASE RtPlayedOut
  <2>1. RealtimeReplyTypeOK'
    BY <1>15 DEF RtPlayedOut, RtEnds, RealtimeReplyTypeOK
  <2>2. (SaidInMessages /\ ReadingInStep /\ RtFlushesTell)'
    BY <1>15 DEF RtPlayedOut, RtEnds, RealtimeReplyTypeOK
  <2>3. RtEachTookAll'
    <3>1. /\ rtRead = 0 => rtRecorded' = <<>>
          /\ rtRead # 0 => rtRecorded' = <<[words |-> rtShown, interrupted |-> FALSE]>>
      BY <1>15 DEF RtPlayedOut, RtEnds
    <3> QED BY <1>15, <3>1 DEF RtPlayedOut, RealtimeReplyTypeOK
  <2> QED BY <2>1, <2>2, <2>3
<1>16. CASE RtStoppedPlaying
  <2>1. RealtimeReplyTypeOK'
    BY <1>16 DEF RtStoppedPlaying, RtReaderOver, RtForwardsEnd, RtEnds, RealtimeReplyTypeOK
  <2>2. (SaidInMessages /\ ReadingInStep /\ RtFlushesTell)'
    BY <1>16 DEF RtStoppedPlaying, RtReaderOver, RtForwardsEnd, RtEnds, RealtimeReplyTypeOK
  <2>3. RtEachTookAll'
    BY <1>16 DEF RtStoppedPlaying, RtReaderOver, RtForwardsEnd, RtEnds, RealtimeReplyTypeOK
  <2> QED BY <2>1, <2>2, <2>3
<1>17. CASE UNCHANGED rtReplyVars BY <1>17 DEF rtReplyVars, RealtimeReplyTypeOK
<1> QED
  BY <1>1, <1>2, <1>3, <1>4, <1>5, <1>6, <1>7, <1>8, <1>9, <1>10, <1>11, <1>12, <1>13, <1>14, <1>15,
     <1>16, <1>17 DEF RealtimeReplyNext, RtTaskSteps

\* A reply is said, shown and recorded whole and each of its outputs flushed once, for any number of words
\* and frames, whichever of its tasks ends first, breaks or is cancelled (generation.py:46-248,
\* agent_activity.py:821-975, 1102-1233).
THEOREM RepliesAreWhole == ReplyNodesSpec /\ RealtimeReplySpec => []ReplySafe
<1> USE ReplyNodesAssumption, RealtimeReplyAssumption
<1>1. ReplyNodesSpec => []NodesInv
  BY NodesInitInv, NodesNextInv, PTL DEF ReplyNodesSpec
<1>2. RealtimeReplySpec => []RtInv
  BY RtInitInv, RtNextInv, PTL DEF RealtimeReplySpec
<1>3. NodesInv => ReplyNodesTypeOK /\ ReplySaysAll /\ FlushedOnce
  <2> SUFFICES ASSUME NodesInv PROVE ReplySaysAll /\ FlushedOnce
    BY DEF NodesInv
  <2> USE DEF NodesInv, ReplyNodesTypeOK, TasksOfSteps, FlushesTell, EachTookAll, Uncut
  <2>1. ReplySaysAll
    BY DEF ReplySaysAll
  <2>2. FlushedOnce
    <3> SUFFICES ASSUME step = "over", ~stopped \/ flushes["text"] + flushes["audio"] > 0
                 PROVE  flushes = [text |-> 1, audio |-> IF hasAudio THEN 1 ELSE 0]
      BY DEF FlushedOnce
    <3>1. flushes["text"] = 1 /\ flushes["audio"] = IF hasAudio THEN 1 ELSE 0
      OBVIOUS
    <3> QED BY <3>1
  <2> QED BY <2>1, <2>2
<1>4. RtInv => RealtimeReplyTypeOK /\ GenerationSaysAll /\ NothingGoesOn
  <2> SUFFICES ASSUME RtInv PROVE GenerationSaysAll /\ NothingGoesOn
    BY DEF RtInv
  <2> USE DEF RtInv, RealtimeReplyTypeOK, SaidInMessages, ReadingInStep, RtFlushesTell, RtEachTookAll, RtUncut
  <2>1. GenerationSaysAll
    BY DEF GenerationSaysAll
  <2>2. NothingGoesOn
    BY DEF NothingGoesOn
  <2> QED BY <2>1, <2>2
<1> QED BY <1>1, <1>2, <1>3, <1>4, PTL DEF ReplySafe

(* The realtime session *)

Generations == [request : 0..MaxReplyRequests, told : {"no", "reply", "event"}, open : BOOLEAN,
                item : {"none", "open", "closed"}, text : 0..MaxItemDeltas, calls : 0..1]
RealtimeEvents == [what : {"created"}, request : 0..MaxReplyRequests]
                  \cup [what : {"added", "delta", "message", "call", "done", "error"}]
Responses == [busy : BOOLEAN, item : {"none", "message", "done"},
              said : Seq([text : 0..MaxItemDeltas, calls : 0..1])]

\* A view is what the readers of the current generation have, of n generations; Seen is that of now, and
\* After(v, e) what the event e makes of v.
Views == [n : Nat, cur : Nat, item : {"none", "open", "closed"}, text : 0..MaxItemDeltas, calls : 0..1]

Over(n) == [n |-> n, cur |-> 0, item |-> "none", text |-> 0, calls |-> 0]

Seen == IF currentGeneration = 0 THEN Over(Len(generations))
        ELSE [n |-> Len(generations), cur |-> currentGeneration, item |-> generations[currentGeneration].item,
              text |-> generations[currentGeneration].text, calls |-> generations[currentGeneration].calls]

After(v, e) ==
    IF e.what = "created" THEN [Over(v.n + 1) EXCEPT !.cur = v.n + 1]
    ELSE IF e.what = "done" THEN Over(v.n)
    ELSE IF v.cur = 0 \/ e.what = "error" THEN v
    ELSE IF e.what = "added" THEN [v EXCEPT !.item = "open"]
    ELSE IF e.what = "delta" THEN (IF v.item = "open" THEN [v EXCEPT !.text = @ + 1] ELSE v)
    ELSE IF e.what = "message" THEN [v EXCEPT !.item = "closed"]
    ELSE [v EXCEPT !.calls = 1]

\* It is all of the response g, which is over.
IsWhole(g, text, calls) ==
    /\ text = response.said[g].text /\ calls = response.said[g].calls
    /\ response.busy => g < Len(response.said)

\* The view of who heard everything the server said.
AtServer(v) ==
    /\ v.n = Len(response.said)
    /\ ~response.busy => v.cur = 0
    /\ response.busy =>
          /\ v.cur = v.n /\ v.n > 0
          /\ v.text = response.said[v.n].text /\ v.calls = response.said[v.n].calls
          /\ response.item = "none" => v.calls = 0
          /\ response.item = "message" => v.item = "open"

\* The views p lead from the session to the server, by the events on their way; a response that one of
\* them ends is then whole.
InTransit(p) ==
    /\ p \in Seq(Views) /\ Len(p) = Len(serverEvents) + 1
    /\ p[1] = Seen /\ AtServer(p[Len(p)])
    /\ \A k \in 1..Len(p) : p[k].cur <= p[k].n /\ p[k].n <= Len(response.said)
    /\ \A k \in 1..Len(serverEvents) :
          /\ p[k + 1] = After(p[k], serverEvents[k])
          /\ serverEvents[k].what = "done" /\ p[k].cur # 0 => IsWhole(p[k].cur, p[k].text, p[k].calls)

OnItsWay == \E p \in Seq(Views) : InTransit(p)

RealtimeStateOK ==
    /\ RealtimeTypeOK /\ AnswerIsNoNewSpeech
    /\ generations \in Seq(Generations) /\ serverEvents \in Seq(RealtimeEvents) /\ response \in Responses

OverAreWhole ==
    /\ Len(generations) <= Len(response.said)
    /\ currentGeneration # 0 => generations[currentGeneration].open
    /\ \A g \in 1..Len(generations) :
          ~generations[g].open => /\ generations[g].item # "open"
                                  /\ IsWhole(g, generations[g].text, generations[g].calls)

RealtimeInv ==
    /\ RealtimeStateOK /\ OverAreWhole
    /\ rtConn = "open" => OnItsWay

LEMMA RealtimeInitInv == RealtimeAssumption /\ RealtimeInit => RealtimeInv
<1> SUFFICES ASSUME RealtimeAssumption, RealtimeInit PROVE RealtimeInv OBVIOUS
<1> USE DEF RealtimeAssumption, RealtimeInit
<1>1. /\ generations = <<>> /\ currentGeneration = 0 /\ Len(generations) = 0 /\ DOMAIN generations = {}
      /\ serverEvents = <<>> /\ Len(serverEvents) = 0 /\ response.said = <<>> /\ Len(response.said) = 0
      /\ MaxReplyRequests \in Nat
  OBVIOUS
<1>2. RealtimeTypeOK /\ AnswerIsNoNewSpeech
  <2>1. reply \in [ReplyRequests -> {"none", "waits", "told", "timed_out"}] /\ commands \in Seq(0..MaxReplyRequests)
    BY EmptySeq
  <2>2. rtConn = "open" /\ commandsClosed = FALSE /\ response.busy = FALSE /\ response.item = "none"
    OBVIOUS
  <2> HIDE DEF RealtimeInit, RealtimeAssumption
  <2>3. \A g \in DOMAIN generations : FALSE
    BY <1>1
  <2>4. currentGeneration \in 0..Len(generations)
    BY <1>1
  <2> QED BY <2>1, <2>2, <2>3, <2>4 DEF RealtimeTypeOK, AnswerIsNoNewSpeech
<1>3. generations \in Seq(Generations) /\ serverEvents \in Seq(RealtimeEvents) /\ response \in Responses
  BY <1>1, EmptySeq DEF Responses
<1>4. OverAreWhole
  BY <1>1 DEF OverAreWhole
<1>5. \E p \in Seq(Views) : InTransit(p)
  <2> DEFINE p == <<Over(0)>>
  <2>1. Over(0) \in Views BY <1>1 DEF Over, Views
  <2>2. p \in Seq(Views) /\ Len(p) = 1 /\ p[1] = Over(0) BY <2>1
  <2>3. Seen = Over(0) BY <1>1 DEF Seen
  <2> HIDE DEF p
  <2>4. AtServer(Over(0)) /\ Over(0).cur <= Over(0).n /\ Over(0).n <= Len(response.said)
    BY <1>1 DEF AtServer, Over
  <2>5. InTransit(p)
    BY <2>2, <2>3, <2>4, <1>1 DEF InTransit
  <2> QED BY <2>2, <2>5
<1> QED BY <1>2, <1>3, <1>4, <1>5 DEF RealtimeInv, RealtimeStateOK, OnItsWay

\* What a view becomes is a view.
LEMMA AfterType ==
    ASSUME RealtimeAssumption, NEW v \in Views, NEW e \in RealtimeEvents, v.text < MaxItemDeltas \/ e.what # "delta"
    PROVE  /\ After(v, e) \in Views /\ v.n <= After(v, e).n
           /\ e.what # "created" => After(v, e).n = v.n /\ After(v, e).cur \in {0, v.cur}
           /\ e.what = "created" => After(v, e).n = v.n + 1 /\ After(v, e).cur = v.n + 1
BY DEF Views, After, Over, RealtimeEvents, RealtimeAssumption

\* The session takes an event: the rest of the views leads from there.
LEMMA EventTaken ==
    ASSUME RealtimeInv, OnItsWay, serverEvents # <<>>, serverEvents' = Tail(serverEvents),
           Seen' = After(Seen, Head(serverEvents)), response' = response
    PROVE  /\ OnItsWay' /\ Seen' \in Views /\ Seen'.n <= Len(response.said)
           /\ Head(serverEvents).what = "done" /\ currentGeneration # 0 =>
                 IsWhole(currentGeneration, Seen.text, Seen.calls)
<1>0. PICK p \in Seq(Views) : InTransit(p)
  BY DEF OnItsWay
<1>1. /\ Len(serverEvents) \in Nat /\ Len(serverEvents) > 0 /\ Head(serverEvents) = serverEvents[1]
      /\ serverEvents' \in Seq(RealtimeEvents) /\ Len(serverEvents') = Len(serverEvents) - 1
      /\ \A i \in 1..(Len(serverEvents) - 1) : serverEvents'[i] = serverEvents[i + 1]
  BY LenProperties, HeadTailProperties, EmptySeq DEF RealtimeInv, RealtimeStateOK
<1>2. /\ p \in Seq(Views) /\ Len(p) = Len(serverEvents) + 1 /\ p # <<>>
  BY <1>0, <1>1 DEF InTransit
<1>3. /\ Tail(p) \in Seq(Views) /\ Len(Tail(p)) = Len(serverEvents)
      /\ \A i \in 1..Len(serverEvents) : Tail(p)[i] = p[i + 1]
  BY <1>1, <1>2, HeadTailProperties
<1>4. p[2] = Seen' /\ p[2] \in Views /\ p[2].n <= Len(response.said) /\ Tail(p)[1] = p[2]
  BY <1>1, <1>2, <1>3, <1>0, ElementOfSeq DEF InTransit
<1>5. \A v : AtServer(v) <=> AtServer(v)'
  BY DEF AtServer
<1>6. \A g, t, c : IsWhole(g, t, c) <=> IsWhole(g, t, c)'
  BY DEF IsWhole
<1>7. AtServer(Tail(p)[Len(Tail(p))])'
  BY <1>1, <1>2, <1>3, <1>5, <1>0 DEF InTransit
<1>8. \A k \in 1..Len(Tail(p)) : Tail(p)[k].cur <= Tail(p)[k].n /\ Tail(p)[k].n <= Len(response.said')
  BY <1>0, <1>1, <1>2, <1>3 DEF InTransit
<1>9. \A k \in 1..Len(serverEvents') :
          /\ Tail(p)[k + 1] = After(Tail(p)[k], serverEvents'[k])
          /\ serverEvents'[k].what = "done" /\ Tail(p)[k].cur # 0 =>
                IsWhole(Tail(p)[k].cur, Tail(p)[k].text, Tail(p)[k].calls)'
  <2> TAKE k \in 1..Len(serverEvents')
  <2>1. k + 1 \in 1..Len(serverEvents) /\ k \in 1..(Len(serverEvents) - 1) /\ k \in 1..Len(serverEvents)
    BY <1>1
  <2>2. Tail(p)[k] = p[k + 1] /\ Tail(p)[k + 1] = p[(k + 1) + 1] /\ serverEvents'[k] = serverEvents[k + 1]
    BY <2>1, <1>1, <1>3
  <2> QED BY <2>1, <2>2, <1>6, <1>0 DEF InTransit
<1>10. InTransit(Tail(p))'
  BY <1>1, <1>3, <1>4, <1>7, <1>8, <1>9 DEF InTransit
<1>11. Head(serverEvents).what = "done" /\ currentGeneration # 0 => IsWhole(currentGeneration, Seen.text, Seen.calls)
  BY <1>0, <1>1 DEF InTransit, Seen
<1>12. OnItsWay'
  BY <1>3, <1>10 DEF OnItsWay
<1> QED BY <1>4, <1>11, <1>12

\* The server says an event: one more view.
LEMMA EventSaid ==
    ASSUME RealtimeAssumption, RealtimeInv, NEW p, InTransit(p), NEW e \in RealtimeEvents,
           serverEvents' = Append(serverEvents, e),
           NEW v, v = p[Len(p)], After(v, e) \in Views, After(v, e).cur <= After(v, e).n,
           UNCHANGED <<generations, currentGeneration>>,
           Len(response.said) <= Len(response'.said), response' \in Responses,
           AtServer(After(v, e))',
           \A g \in 1..Len(response.said) : \A t, c : IsWhole(g, t, c) => IsWhole(g, t, c)',
           e.what = "done" /\ v.cur # 0 => IsWhole(v.cur, v.text, v.calls)'
    PROVE  OnItsWay'
<1> DEFINE q == Append(p, After(v, e))
<1>1. /\ serverEvents \in Seq(RealtimeEvents) /\ Len(serverEvents) \in Nat
      /\ Len(serverEvents') = Len(serverEvents) + 1
      /\ \A i \in 1..Len(serverEvents) : serverEvents'[i] = serverEvents[i]
      /\ serverEvents'[Len(serverEvents) + 1] = e
  BY LenProperties, AppendProperties DEF RealtimeInv, RealtimeStateOK
<1>2. /\ p \in Seq(Views) /\ Len(p) = Len(serverEvents) + 1
  BY DEF InTransit
<1>3. /\ q \in Seq(Views) /\ Len(q) = Len(p) + 1 /\ \A i \in 1..Len(p) : q[i] = p[i]
      /\ q[Len(p) + 1] = After(v, e)
  BY <1>2, AppendProperties
<1> HIDE DEF q
<1>4. Seen' = Seen
  BY DEF Seen
<1>5. q[1] = Seen' /\ AtServer(q[Len(q)])'
  BY <1>1, <1>2, <1>3, <1>4 DEF InTransit
<1>6. \A k \in 1..Len(q) : q[k].cur <= q[k].n /\ q[k].n <= Len(response.said')
  <2> TAKE k \in 1..Len(q)
  <2>1. CASE k = Len(q)
    <3>1. q[k] = After(v, e) BY <2>1, <1>2, <1>3
    <3>2. After(v, e).n = Len(response'.said) /\ After(v, e).n \in Nat
      BY DEF AtServer, Views
    <3> QED BY <3>1, <3>2
  <2>2. CASE k # Len(q)
    <3>1. k \in 1..Len(p) /\ q[k] = p[k] /\ p[k] \in Views
      BY <2>2, <1>1, <1>2, <1>3, ElementOfSeq
    <3>2. Len(response.said) \in Nat /\ Len(response'.said) \in Nat
      BY LenProperties DEF RealtimeInv, RealtimeStateOK, Responses
    <3>3. p[k].cur <= p[k].n /\ p[k].n <= Len(response.said) /\ p[k].n \in Nat
      BY <3>1 DEF InTransit, Views
    <3> QED BY <3>1, <3>2, <3>3
  <2> QED BY <2>1, <2>2
<1>7. \A k \in 1..Len(serverEvents') :
          /\ q[k + 1] = After(q[k], serverEvents'[k])
          /\ serverEvents'[k].what = "done" /\ q[k].cur # 0 => IsWhole(q[k].cur, q[k].text, q[k].calls)'
  <2> TAKE k \in 1..Len(serverEvents')
  <2>1. CASE k = Len(serverEvents) + 1
    BY <2>1, <1>1, <1>2, <1>3
  <2>2. CASE k # Len(serverEvents) + 1
    <3>1. k \in 1..Len(serverEvents) /\ k \in 1..Len(p) /\ k + 1 \in 1..Len(p)
      BY <2>2, <1>1, <1>2
    <3>2. q[k] = p[k] /\ q[k + 1] = p[k + 1] /\ serverEvents'[k] = serverEvents[k] /\ p[k] \in Views
      BY <3>1, <1>1, <1>2, <1>3, ElementOfSeq
    <3>3. p[k].cur # 0 => p[k].cur \in 1..Len(response.said)
      <4>1. Len(response.said) \in Nat BY LenProperties DEF RealtimeInv, RealtimeStateOK, Responses
      <4>2. p[k].cur <= p[k].n /\ p[k].n <= Len(response.said) /\ p[k].n \in Nat /\ p[k].cur \in Nat
        BY <3>1, <3>2 DEF InTransit, Views
      <4> QED BY <4>1, <4>2
    <3> QED BY <3>1, <3>2, <3>3 DEF InTransit
  <2> QED BY <2>1, <2>2, <1>1
<1>8. InTransit(q)'
  BY <1>1, <1>2, <1>3, <1>5, <1>6, <1>7 DEF InTransit
<1> QED BY <1>3, <1>8 DEF OnItsWay

\* What a step keeps that changes neither the generations nor what is on its way.
LEMMA ClientKeeps ==
    ASSUME RealtimeInv, RealtimeTypeOK', UNCHANGED <<generations, currentGeneration, serverEvents, response>>,
           rtConn' = rtConn
    PROVE  RealtimeInv'
<1>1. RealtimeStateOK'
  BY DEF RealtimeInv, RealtimeStateOK, AnswerIsNoNewSpeech
<1>2. OverAreWhole'
  BY DEF RealtimeInv, OverAreWhole, IsWhole
<1>3. ASSUME NEW p, InTransit(p) PROVE InTransit(p)'
  <2>1. Seen' = Seen /\ \A v : AtServer(v) <=> AtServer(v)'
    BY DEF Seen, AtServer
  <2>2. \A g, t, c : IsWhole(g, t, c) <=> IsWhole(g, t, c)'
    BY DEF IsWhole
  <2> QED BY <1>3, <2>1, <2>2 DEF InTransit
<1>4. OnItsWay => OnItsWay'
  BY <1>3 DEF OnItsWay
<1> QED BY <1>1, <1>2, <1>4 DEF RealtimeInv

LEMMA SendEventType ==
    ASSUME RealtimeTypeOK, NEW c \in 0..MaxReplyRequests, SendEvent(c)
    PROVE  commands' \in Seq(0..MaxReplyRequests)
BY AppendProperties DEF RealtimeTypeOK, SendEvent

\* The steps of the callers.
LEMMA CallerKeeps ==
    ASSUME RealtimeAssumption, RealtimeInv,
           \/ \E r \in ReplyRequests : GenerateReply(r) \/ GenerateReplyTimesOut(r)
           \/ InterruptResponse \/ CloseCommands
    PROVE  RealtimeInv'
<1>0. RealtimeTypeOK /\ MaxReplyRequests \in Nat
  BY DEF RealtimeInv, RealtimeStateOK, RealtimeAssumption
<1>1. ASSUME NEW r \in ReplyRequests, GenerateReply(r) PROVE RealtimeInv'
  <2>1. commands' \in Seq(0..MaxReplyRequests)
    BY <1>0, <1>1, SendEventType DEF GenerateReply, ReplyRequests
  <2>2. RealtimeTypeOK'
    BY <1>0, <1>1, <2>1 DEF GenerateReply, RealtimeTypeOK
  <2> QED BY <1>1, <2>2, ClientKeeps DEF GenerateReply
<1>2. ASSUME NEW r \in ReplyRequests, GenerateReplyTimesOut(r) PROVE RealtimeInv'
  <2>2. RealtimeTypeOK'
    BY <1>0, <1>2 DEF GenerateReplyTimesOut, RealtimeTypeOK
  <2> QED BY <1>2, <2>2, ClientKeeps DEF GenerateReplyTimesOut
<1>3. CASE InterruptResponse
  <2>1. commands' \in Seq(0..MaxReplyRequests)
    BY <1>0, <1>3, SendEventType DEF InterruptResponse
  <2>2. RealtimeTypeOK'
    BY <1>0, <1>3, <2>1 DEF InterruptResponse, RealtimeTypeOK
  <2> QED BY <1>3, <2>2, ClientKeeps DEF InterruptResponse
<1>4. CASE CloseCommands
  <2>2. RealtimeTypeOK'
    BY <1>0, <1>4 DEF CloseCommands, RealtimeTypeOK
  <2> QED BY <1>4, <2>2, ClientKeeps DEF CloseCommands
<1> QED BY <1>1, <1>2, <1>3, <1>4

\* Without a connection nothing is on its way.
LEMMA ConnectionEndKeeps ==
    ASSUME RealtimeInv, CloseConnection \/ ConnectionLost
    PROVE  RealtimeInv'
<1> USE DEF CloseConnection, ConnectionLost
<1>1. /\ rtConn' \in {"closed", "lost"} /\ serverEvents' = <<>>
      /\ UNCHANGED <<commands, commandsClosed, reply, generations, currentGeneration, response>>
  OBVIOUS
<1> HIDE DEF CloseConnection, ConnectionLost
<1>2. RealtimeTypeOK' /\ AnswerIsNoNewSpeech'
  BY <1>1 DEF RealtimeInv, RealtimeStateOK, RealtimeTypeOK, AnswerIsNoNewSpeech
<1>3. RealtimeStateOK'
  BY <1>1, <1>2, EmptySeq DEF RealtimeInv, RealtimeStateOK
<1>4. OverAreWhole'
  BY <1>1 DEF RealtimeInv, OverAreWhole, IsWhole
<1> QED BY <1>1, <1>3, <1>4 DEF RealtimeInv

\* The session takes an event.
LEMMA ReceiveKeeps ==
    ASSUME RealtimeAssumption, RealtimeInv, Receive
    PROVE  RealtimeInv'
<1> DEFINE e == Head(serverEvents)
           cur == currentGeneration
           g == generations[cur]
<1>1. /\ RealtimeTypeOK /\ AnswerIsNoNewSpeech /\ generations \in Seq(Generations)
      /\ serverEvents \in Seq(RealtimeEvents) /\ response \in Responses /\ OverAreWhole
      /\ MaxReplyRequests \in Nat /\ MaxItemDeltas \in Nat
  BY DEF RealtimeInv, RealtimeStateOK, RealtimeAssumption
<1>2. /\ rtConn = "open" /\ serverEvents # <<>> /\ serverEvents' = Tail(serverEvents)
      /\ UNCHANGED <<rtConn, commands, commandsClosed, response>>
  BY DEF Receive
<1>3. e \in RealtimeEvents /\ serverEvents' \in Seq(RealtimeEvents)
  BY <1>1, <1>2, HeadTailProperties
<1>4. OnItsWay
  BY <1>2 DEF RealtimeInv
<1>5. /\ Len(generations) \in Nat /\ DOMAIN generations = 1..Len(generations)
      /\ cur \in 0..Len(generations) /\ (cur # 0 => g \in Generations /\ g.open)
      /\ \A k \in 1..Len(generations) : generations[k] \in Generations
      /\ Len(response.said) \in Nat
  BY <1>1, LenProperties, ElementOfSeq DEF RealtimeTypeOK, OverAreWhole, Responses
<1>t. ASSUME Seen' = After(Seen, e)
      PROVE  /\ OnItsWay' /\ Seen' \in Views /\ Seen'.n <= Len(response.said)
             /\ e.what = "done" /\ cur # 0 => IsWhole(cur, Seen.text, Seen.calls)
  <2>1. response' = response
    BY <1>2
  <2> QED BY <1>2, <1>4, <1>t, <2>1, EventTaken
<1> HIDE DEF e
<1>q. ASSUME Seen' = After(Seen, e), RealtimeTypeOK', AnswerIsNoNewSpeech', generations' \in Seq(Generations),
             OverAreWhole'
      PROVE  RealtimeInv'
  <2>1. RealtimeStateOK'
    BY <1>q, <1>1, <1>2, <1>3 DEF RealtimeStateOK
  <2>2. OnItsWay'
    BY <1>q, <1>t
  <2> QED BY <1>q, <2>1, <2>2 DEF RealtimeInv
\* Nothing changes: an error, or an event of no generation.
<1>6. CASE UNCHANGED <<generations, currentGeneration, reply>> /\ Seen' = After(Seen, e)
  <2>1. RealtimeTypeOK'
    BY <1>1, <1>2, <1>6 DEF RealtimeTypeOK
  <2>2. AnswerIsNoNewSpeech' /\ OverAreWhole' /\ generations' \in Seq(Generations)
    BY <1>1, <1>2, <1>6 DEF AnswerIsNoNewSpeech, OverAreWhole, IsWhole
  <2> QED BY <1>6, <1>q, <2>1, <2>2
\* The current generation changes to its value in h, which is as much over as it was.
<1>7. ASSUME NEW h, UNCHANGED <<currentGeneration, reply>>, cur # 0, Seen' = After(Seen, e),
             generations' = [generations EXCEPT ![cur] = h],
             h = [request |-> g.request, told |-> g.told, open |-> g.open, item |-> Seen'.item,
                  text |-> Seen'.text, calls |-> Seen'.calls]
      PROVE  RealtimeInv'
  <2>1. h \in Generations /\ h.open /\ (h.request # 0 => h.told # "event")
    BY <1>1, <1>5, <1>7, <1>t DEF Views, Generations, AnswerIsNoNewSpeech
  <2>2. /\ generations' \in Seq(Generations) /\ Len(generations') = Len(generations)
        /\ DOMAIN generations' = 1..Len(generations)
        /\ \A k \in 1..Len(generations) : generations'[k] = IF k = cur THEN h ELSE generations[k]
    BY <1>1, <1>5, <1>7, <2>1, ExceptSeq, LenProperties
  <2>3. RealtimeTypeOK'
    BY <1>1, <1>2, <1>5, <1>7, <2>1, <2>2 DEF RealtimeTypeOK, Generations
  <2>4. AnswerIsNoNewSpeech'
    BY <1>1, <1>5, <2>1, <2>2 DEF AnswerIsNoNewSpeech
  <2>5. OverAreWhole'
    BY <1>1, <1>2, <1>5, <1>7, <2>1, <2>2 DEF OverAreWhole, IsWhole
  <2> QED BY <1>7, <1>q, <2>2, <2>3, <2>4, <2>5
<1>8. CASE e.what = "created"
  <2> DEFINE r == e.request
             h == [request |-> r, told |-> ToldTo(r), open |-> TRUE, item |-> "none", text |-> 0, calls |-> 0]
  <2>1. /\ r \in 0..MaxReplyRequests /\ generations' = Append(generations, h)
        /\ currentGeneration' = Len(generations')
        /\ reply' = IF ToldTo(r) = "reply" THEN [reply EXCEPT ![r] = "told"] ELSE reply
    BY <1>3, <1>8 DEF Receive, HandleCreated, RealtimeEvents, e
  <2>2. h \in Generations /\ (h.request # 0 => h.told # "event")
    BY <1>1, <2>1 DEF Generations, ToldTo
  <2> HIDE DEF h
  <2>3. /\ generations' \in Seq(Generations) /\ Len(generations') = Len(generations) + 1
        /\ DOMAIN generations' = 1..(Len(generations) + 1)
        /\ \A k \in 1..Len(generations) : generations'[k] = generations[k]
        /\ generations'[Len(generations) + 1] = h
    BY <1>1, <2>1, <2>2, AppendProperties, LenProperties
  <2>4. Seen' = After(Seen, e)
    <3>1. Seen.n = Len(generations)
      BY DEF Seen, Over
    <3>2. currentGeneration' = Len(generations) + 1 /\ currentGeneration' # 0
      BY <1>5, <2>1, <2>3
    <3> QED BY <1>8, <2>3, <3>1, <3>2 DEF Seen, After, Over, h
  <2>5. reply' \in [ReplyRequests -> {"none", "waits", "told", "timed_out"}]
    BY <1>1, <2>1 DEF RealtimeTypeOK
  <2>6. RealtimeTypeOK'
    <3>1. \A k \in DOMAIN generations' : generations'[k] \in Generations
      BY <2>3, ElementOfSeq
    <3>2. currentGeneration' \in 0..Len(generations')
      BY <1>5, <2>1, <2>3
    <3> QED BY <1>1, <1>2, <2>5, <3>1, <3>2 DEF RealtimeTypeOK, Generations
  <2>7. AnswerIsNoNewSpeech'
    BY <1>1, <1>5, <2>2, <2>3 DEF AnswerIsNoNewSpeech
  <2>8. OverAreWhole'
    <3>1. Len(generations') <= Len(response'.said)
      BY <1>2, <1>5, <1>t, <2>3, <2>4 DEF Seen, Over
    <3>2. h.open
      BY DEF h
    <3> QED BY <1>1, <1>2, <1>5, <2>1, <2>3, <3>1, <3>2 DEF OverAreWhole, IsWhole
  <2> QED BY <1>q, <2>3, <2>4, <2>6, <2>7, <2>8
<1>9. CASE e.what = "done" /\ cur # 0
  <2> DEFINE item == IF g.item = "open" THEN "closed" ELSE g.item
             h == [g EXCEPT !.open = FALSE, !.item = item]
  <2>1. generations' = [generations EXCEPT ![cur] = h] /\ currentGeneration' = 0 /\ reply' = reply
    BY <1>9 DEF Receive, HandleDone, e
  <2>2. h \in Generations /\ (h.request # 0 => h.told # "event")
        /\ h.item # "open" /\ h.text = g.text /\ h.calls = g.calls
    <3>1. g \in Generations /\ cur \in DOMAIN generations
      BY <1>5, <1>9
    <3>2. g.request # 0 => g.told # "event"
      BY <1>1, <3>1 DEF AnswerIsNoNewSpeech
    <3>3. item \in {"none", "open", "closed"} /\ item # "open"
      BY <3>1 DEF Generations
    <3> HIDE DEF item
    <3>4. h \in Generations /\ h.request = g.request /\ h.told = g.told /\ h.item = item
          /\ h.text = g.text /\ h.calls = g.calls
      BY <3>1, <3>3 DEF Generations
    <3> QED BY <3>2, <3>3, <3>4
  <2> HIDE DEF h
  <2>3. /\ generations' \in Seq(Generations) /\ Len(generations') = Len(generations)
        /\ DOMAIN generations' = 1..Len(generations)
        /\ \A k \in 1..Len(generations) : generations'[k] = IF k = cur THEN h ELSE generations[k]
    <3>1. cur \in 1..Len(generations) BY <1>5, <1>9
    <3> QED BY <1>1, <1>5, <3>1, <2>1, <2>2, ExceptSeq, LenProperties
  <2>4. Seen' = After(Seen, e)
    BY <1>9, <2>1, <2>3 DEF Seen, After, Over
  <2>5. IsWhole(cur, g.text, g.calls)
    BY <1>9, <1>t, <2>4 DEF Seen
  <2>6. RealtimeTypeOK'
    BY <1>1, <1>2, <1>5, <2>1, <2>2, <2>3 DEF RealtimeTypeOK, Generations
  <2>7. AnswerIsNoNewSpeech'
    BY <1>1, <1>5, <2>2, <2>3 DEF AnswerIsNoNewSpeech
  <2>8. OverAreWhole'
    BY <1>1, <1>2, <1>5, <2>1, <2>2, <2>3, <2>5 DEF OverAreWhole, IsWhole
  <2> QED BY <1>q, <2>3, <2>4, <2>6, <2>7, <2>8
<1>10. CASE e.what \in {"added", "delta", "message", "call"} /\ cur # 0
  <2> DEFINE h == [request |-> g.request, told |-> g.told, open |-> g.open, item |-> After(Seen, e).item,
                   text |-> After(Seen, e).text, calls |-> After(Seen, e).calls]
  <2>1. g \in Generations /\ cur \in 1..Len(generations)
    BY <1>5, <1>10
  <2>2. Seen = [n |-> Len(generations), cur |-> cur, item |-> g.item, text |-> g.text, calls |-> g.calls]
    BY <1>10 DEF Seen
  <2>3. generations' = [generations EXCEPT ![cur] = h] /\ UNCHANGED <<currentGeneration, reply>>
    <3>1. CASE e.what = "added"
      <4>1. Changed([g EXCEPT !.item = "open"])
        BY <3>1 DEF Receive, e
      <4>2. [g EXCEPT !.item = "open"] = h
        BY <3>1, <2>1, <2>2, <1>10 DEF Generations, After
      <4> QED BY <4>1, <4>2, <1>10 DEF Changed
    <3>2. CASE e.what = "delta"
      <4>1. Changed(IF g.item = "open" THEN [g EXCEPT !.text = @ + 1] ELSE g)
        BY <3>2 DEF Receive, Delta, e
      <4>2. (IF g.item = "open" THEN [g EXCEPT !.text = @ + 1] ELSE g) = h
        BY <3>2, <2>1, <2>2, <1>10 DEF Generations, After
      <4> QED BY <4>1, <4>2, <1>10 DEF Changed
    <3>3. CASE e.what = "message"
      <4>1. Changed([g EXCEPT !.item = "closed"])
        BY <3>3 DEF Receive, HandleItemDone, e
      <4>2. [g EXCEPT !.item = "closed"] = h
        BY <3>3, <2>1, <2>2, <1>10 DEF Generations, After
      <4> QED BY <4>1, <4>2, <1>10 DEF Changed
    <3>4. CASE e.what = "call"
      <4>1. Changed([g EXCEPT !.calls = 1])
        BY <3>4 DEF Receive, HandleItemDone, e
      <4>2. [g EXCEPT !.calls = 1] = h
        BY <3>4, <2>1, <2>2, <1>10 DEF Generations, After
      <4> QED BY <4>1, <4>2, <1>10 DEF Changed
    <3> QED BY <3>1, <3>2, <3>3, <3>4, <1>10
  <2>4. generations'[cur] = h /\ Len(generations') = Len(generations)
    BY <1>1, <2>1, <2>3, LenProperties
  <2>5. Seen' = After(Seen, e)
    BY <1>10, <2>2, <2>3, <2>4 DEF Seen, After
  <2>6. h = [request |-> g.request, told |-> g.told, open |-> g.open, item |-> Seen'.item,
             text |-> Seen'.text, calls |-> Seen'.calls]
    BY <2>5
  <2> HIDE DEF h
  <2> QED BY <1>7, <1>10, <2>3, <2>5, <2>6
<1>11. CASE e.what \in {"added", "delta", "message", "call", "done"} /\ cur = 0
  <2>1. UNCHANGED <<generations, currentGeneration, reply>>
    BY <1>11 DEF Receive, Changed, Delta, HandleItemDone, HandleDone, e
  <2>2. Seen' = After(Seen, e)
    BY <1>11, <2>1 DEF Seen, After, Over
  <2> QED BY <1>6, <2>1, <2>2
<1>12. CASE e.what = "error"
  <2>1. UNCHANGED <<generations, currentGeneration, reply>>
    BY <1>12 DEF Receive, e
  <2>2. Seen' = After(Seen, e)
    BY <1>12, <2>1 DEF Seen, After, Over
  <2> QED BY <1>6, <2>1, <2>2
<1> QED BY <1>3, <1>8, <1>9, <1>10, <1>11, <1>12 DEF RealtimeEvents

\* The server says an event, and what it keeps of its responses tells what the readers will have of it.
LEMMA ServerSaysMore ==
    ASSUME RealtimeAssumption, RealtimeInv, rtConn = "open", NEW e \in RealtimeEvents, Says(e),
           UNCHANGED <<rtConn, commandsClosed, reply, generations, currentGeneration>>,
           commands' \in Seq(0..MaxReplyRequests), response' \in Responses,
           Len(response.said) <= Len(response'.said),
           \A g \in 1..Len(response.said) :
               (response.busy => g < Len(response.said)) =>
                   response'.said[g] = response.said[g] /\ (response'.busy => g < Len(response'.said)),
           \A v \in Views : AtServer(v) => /\ After(v, e) \in Views /\ After(v, e).cur <= After(v, e).n
                                           /\ AtServer(After(v, e))',
           e.what = "done" => ~response'.busy /\ response'.said = response.said
    PROVE  RealtimeInv'
<1>1. PICK p \in Seq(Views) : InTransit(p)
  BY DEF RealtimeInv, OnItsWay
<1> DEFINE v == p[Len(p)]
<1>2. v \in Views /\ AtServer(v)
  <2>1. Len(p) \in Nat /\ Len(p) = Len(serverEvents) + 1 /\ Len(serverEvents) \in Nat
    BY <1>1, LenProperties DEF InTransit, RealtimeInv, RealtimeStateOK
  <2>2. Len(p) \in 1..Len(p)
    BY <2>1
  <2> QED BY <1>1, <2>2, ElementOfSeq DEF InTransit
<1>3. /\ After(v, e) \in Views /\ After(v, e).cur <= After(v, e).n /\ AtServer(After(v, e))'
  BY <1>2
<1>4. serverEvents' = Append(serverEvents, e) /\ serverEvents' \in Seq(RealtimeEvents)
  BY AppendProperties DEF Says, RealtimeInv, RealtimeStateOK
<1>5. \A g \in 1..Len(response.said) : \A t, c : IsWhole(g, t, c) => IsWhole(g, t, c)'
  BY DEF IsWhole
<1>6. e.what = "done" /\ v.cur # 0 => IsWhole(v.cur, v.text, v.calls)'
  BY <1>2 DEF AtServer, IsWhole
<1> HIDE DEF v
<1>7. OnItsWay'
  <2>1. Len(response.said) <= Len(response'.said) /\ response' \in Responses
    OBVIOUS
  <2>2. UNCHANGED <<generations, currentGeneration>>
    OBVIOUS
  <2> QED BY <1>1, <1>3, <1>4, <1>5, <1>6, <2>1, <2>2, EventSaid DEF v
<1>8. RealtimeStateOK'
  <2>1. RealtimeTypeOK'
    BY DEF RealtimeInv, RealtimeStateOK, RealtimeTypeOK, Responses
  <2> QED BY <1>4, <2>1 DEF RealtimeInv, RealtimeStateOK, AnswerIsNoNewSpeech
<1>9. OverAreWhole'
  <2>1. Len(generations) \in Nat /\ Len(response.said) \in Nat /\ Len(response'.said) \in Nat
    BY LenProperties DEF RealtimeInv, RealtimeStateOK, Responses
  <2>2. 1..Len(generations) \subseteq 1..Len(response.said)
    BY <2>1 DEF RealtimeInv, OverAreWhole
  <2>3. \A g \in 1..Len(generations) : ~generations[g].open =>
            /\ generations[g].item # "open"
            /\ IsWhole(g, generations[g].text, generations[g].calls)'
    BY <1>5, <2>2 DEF RealtimeInv, OverAreWhole
  <2> QED BY <2>1, <2>3 DEF RealtimeInv, OverAreWhole, IsWhole
<1> QED BY <1>7, <1>8, <1>9 DEF RealtimeInv

LEMMA ResponseFacts ==
    ASSUME RealtimeAssumption, RealtimeInv
    PROVE  /\ response \in Responses /\ Len(response.said) \in Nat /\ response.busy \in BOOLEAN
           /\ response.item \in {"none", "message", "done"}
           /\ response.said \in Seq([text : 0..MaxItemDeltas, calls : 0..1])
           /\ \A g \in 1..Len(response.said) : response.said[g] \in [text : 0..MaxItemDeltas, calls : 0..1]
           /\ commands \in Seq(0..MaxReplyRequests) /\ MaxItemDeltas \in Nat
BY LenProperties, ElementOfSeq DEF RealtimeInv, RealtimeStateOK, RealtimeTypeOK, Responses, RealtimeAssumption

LEMMA ResponseEndsKeeps ==
    ASSUME RealtimeAssumption, RealtimeInv, rtConn = "open", response.busy, ResponseEnds,
           commands' \in Seq(0..MaxReplyRequests),
           UNCHANGED <<rtConn, commandsClosed, reply, generations, currentGeneration>>
    PROVE  RealtimeInv'
<1> DEFINE e == [what |-> "done"]
<1>1. e \in RealtimeEvents /\ Says(e)
  BY DEF RealtimeEvents, ResponseEnds
<1>2. /\ response' \in Responses /\ ~response'.busy /\ response'.said = response.said
      /\ Len(response.said) <= Len(response'.said)
  <2>1. response' = [response EXCEPT !.busy = FALSE]
    BY DEF ResponseEnds
  <2>2. response' \in Responses
    BY <2>1, ResponseFacts DEF Responses
  <2>3. response'.busy = FALSE /\ response'.said = response.said
    BY <2>1, ResponseFacts DEF Responses
  <2> QED BY <2>2, <2>3, ResponseFacts
<1>3. ASSUME NEW v \in Views, AtServer(v)
      PROVE  After(v, e) \in Views /\ After(v, e).cur <= After(v, e).n /\ AtServer(After(v, e))'
  <2>1. After(v, e) = Over(v.n)
    BY DEF After
  <2> QED BY <1>2, <1>3, <2>1, ResponseFacts DEF Views, Over, AtServer
<1>4. e.what = "done"
  OBVIOUS
<1> HIDE DEF e
<1> QED BY <1>1, <1>2, <1>3, <1>4, ServerSaysMore

LEMMA ServerErrorKeeps ==
    ASSUME RealtimeAssumption, RealtimeInv, rtConn = "open", Says([what |-> "error"]),
           commands' \in Seq(0..MaxReplyRequests),
           UNCHANGED <<rtConn, commandsClosed, reply, generations, currentGeneration, response>>
    PROVE  RealtimeInv'
<1> DEFINE e == [what |-> "error"]
<1>1. e \in RealtimeEvents /\ Says(e) /\ e.what # "done"
  BY DEF RealtimeEvents
<1>2. response' \in Responses /\ response' = response /\ Len(response.said) <= Len(response'.said)
  BY ResponseFacts
<1>3. ASSUME NEW v \in Views, AtServer(v)
      PROVE  After(v, e) \in Views /\ After(v, e).cur <= After(v, e).n /\ AtServer(After(v, e))'
  BY <1>2, <1>3, ResponseFacts DEF Views, After, AtServer
<1> HIDE DEF e
<1> QED BY <1>1, <1>2, <1>3, ServerSaysMore

LEMMA ResponseBeginsKeeps ==
    ASSUME RealtimeAssumption, RealtimeInv, rtConn = "open", ~response.busy, NEW r \in 0..MaxReplyRequests,
           ResponseBegins(r), commands' \in Seq(0..MaxReplyRequests),
           UNCHANGED <<rtConn, commandsClosed, reply, generations, currentGeneration>>
    PROVE  RealtimeInv'
<1> DEFINE b == [what |-> "created", request |-> r]
           d == [what |-> "done"]
           nothing == [text |-> 0, calls |-> 0]
           n == Len(response.said)
<1>1. CASE response' = [response EXCEPT !.busy = TRUE, !.item = "none", !.said = Append(@, nothing)] /\ Says(b)
  <2>1. b \in RealtimeEvents /\ b.what = "created"
    BY DEF RealtimeEvents
  <2>2. nothing \in [text : 0..MaxItemDeltas, calls : 0..1]
    BY ResponseFacts
  <2>3. response'.said = Append(response.said, nothing) /\ response'.busy /\ response'.item = "none"
    BY <1>1, ResponseFacts DEF Responses
  <2>4. /\ response'.said \in Seq([text : 0..MaxItemDeltas, calls : 0..1]) /\ Len(response'.said) = n + 1
        /\ \A g \in 1..n : response'.said[g] = response.said[g]
        /\ response'.said[n + 1] = nothing
    BY <2>2, <2>3, ResponseFacts, AppendProperties
  <2>5. response' \in Responses
    <3> DEFINE s == Append(response.said, nothing)
    <3>1. s \in Seq([text : 0..MaxItemDeltas, calls : 0..1])
      BY <2>3, <2>4
    <3>2. response' = [response EXCEPT !.busy = TRUE, !.item = "none", !.said = s]
      BY <1>1
    <3> HIDE DEF s
    <3> QED BY <3>1, <3>2, ResponseFacts DEF Responses
  <2>6. ASSUME NEW v \in Views, AtServer(v)
        PROVE  After(v, b) \in Views /\ After(v, b).cur <= After(v, b).n /\ AtServer(After(v, b))'
    <3>1. v.n = n /\ After(v, b) = [Over(n + 1) EXCEPT !.cur = n + 1]
      BY <2>1, <2>6 DEF After, AtServer
    <3>2. After(v, b) = [n |-> n + 1, cur |-> n + 1, item |-> "none", text |-> 0, calls |-> 0]
      BY <3>1 DEF Over
    <3> HIDE DEF b
    <3> QED BY <2>3, <2>4, <3>2, ResponseFacts DEF Views, AtServer
  <2>7. \A g \in 1..Len(response.said) : response'.said[g] = response.said[g] /\ g < Len(response'.said)
    BY <2>4, ResponseFacts
  <2>8. Len(response.said) <= Len(response'.said) /\ Says(b)
    BY <1>1, <2>4, ResponseFacts
  <2> HIDE DEF b
  <2> QED BY <2>1, <2>5, <2>6, <2>7, <2>8, ServerSaysMore
<1>2. CASE Says(d) /\ UNCHANGED response
  <2>1. d \in RealtimeEvents /\ d.what = "done"
    BY DEF RealtimeEvents
  <2>2. response' \in Responses /\ response' = response /\ Len(response.said) <= Len(response'.said)
    BY <1>2, ResponseFacts
  <2>3. ASSUME NEW v \in Views, AtServer(v)
        PROVE  After(v, d) \in Views /\ After(v, d).cur <= After(v, d).n /\ AtServer(After(v, d))'
    <3>1. After(v, d) = Over(v.n)
      BY <2>1 DEF After
    <3> QED BY <2>2, <2>3, <3>1, ResponseFacts DEF Views, Over, AtServer
  <2> HIDE DEF d
  <2> QED BY <1>2, <2>1, <2>2, <2>3, ServerSaysMore
<1> QED BY <1>1, <1>2 DEF ResponseBegins

\* What the server adds to its response.
LEMMA SaidMore ==
    ASSUME RealtimeAssumption, RealtimeInv, NEW m \in {"message", "done"},
           Len(response.said) > 0,
           NEW field \in {"text", "calls"}, field = "text" => response.said[Len(response.said)].text < MaxItemDeltas,
           field = "calls" => response.said[Len(response.said)].calls = 0,
           response' = [Said(field) EXCEPT !.item = m]
    PROVE  /\ response' \in Responses /\ response'.busy = response.busy /\ response'.item = m
           /\ Len(response'.said) = Len(response.said)
           /\ \A g \in 1..Len(response.said) : g < Len(response.said) => response'.said[g] = response.said[g]
           /\ response'.said[Len(response.said)] = [response.said[Len(response.said)] EXCEPT ![field] = @ + 1]
<1> DEFINE n == Len(response.said)
           more == [response.said[n] EXCEPT ![field] = @ + 1]
           s == [response.said EXCEPT ![n] = more]
<1>1. n \in 1..n /\ response.said[n] \in [text : 0..MaxItemDeltas, calls : 0..1] /\ MaxItemDeltas \in Nat
  BY ResponseFacts
<1>2. more \in [text : 0..MaxItemDeltas, calls : 0..1]
  BY <1>1
<1>3. /\ s \in Seq([text : 0..MaxItemDeltas, calls : 0..1]) /\ Len(s) = n
      /\ \A g \in 1..n : s[g] = IF g = n THEN more ELSE response.said[g]
  BY <1>1, <1>2, ResponseFacts, ExceptSeq, LenProperties
<1>4. response' = [response EXCEPT !.said = s, !.item = m]
  BY <1>1, ResponseFacts DEF Said, Responses
<1> HIDE DEF s, more
<1>5. response' \in Responses /\ response'.busy = response.busy /\ response'.item = m /\ response'.said = s
  BY <1>3, <1>4, ResponseFacts DEF Responses
<1>6. response'.said[n] = more /\ Len(response'.said) = n
  BY <1>1, <1>3, <1>5
<1>7. \A g \in 1..n : g < n => response'.said[g] = response.said[g]
  <2>1. n \in Nat
    BY ResponseFacts
  <2> HIDE DEF n
  <2> QED BY <2>1, <1>3, <1>5
<1> QED BY <1>5, <1>6, <1>7 DEF more

LEMMA ServerSpeaksKeeps ==
    ASSUME RealtimeAssumption, RealtimeInv, ServerSpeaks
    PROVE  RealtimeInv'
<1> DEFINE n == Len(response.said)
           Event(w) == [what |-> w]
<1>1. /\ rtConn = "open" /\ response.busy /\ commands' \in Seq(0..MaxReplyRequests)
      /\ UNCHANGED <<rtConn, commandsClosed, reply, generations, currentGeneration>>
  BY ResponseFacts DEF ServerSpeaks, clientVars
<1>2. n \in Nat /\ n > 0 /\ response.said[n] \in [text : 0..MaxItemDeltas, calls : 0..1]
  <2>1. OnItsWay
    BY <1>1 DEF RealtimeInv
  <2>2. PICK p \in Seq(Views) : InTransit(p)
    BY <2>1 DEF OnItsWay
  <2>3. n > 0
    BY <1>1, <2>2 DEF InTransit, AtServer
  <2> QED BY <2>3, ResponseFacts
<1>3. CASE response.item = "none" /\ Says([what |-> "added"]) /\ response' = [response EXCEPT !.item = "message"]
  <2> DEFINE e == [what |-> "added"]
  <2>1. e \in RealtimeEvents /\ e.what = "added"
    BY DEF RealtimeEvents
  <2>2. /\ response' \in Responses /\ response'.busy = response.busy /\ response'.said = response.said
        /\ response'.item = "message"
    BY <1>3, ResponseFacts DEF Responses
  <2>3. ASSUME NEW v \in Views, AtServer(v)
        PROVE  After(v, e) \in Views /\ After(v, e).cur <= After(v, e).n /\ AtServer(After(v, e))'
    <3>1. v.cur # 0 /\ v.cur = v.n /\ v.n = n /\ v.text = response.said[n].text /\ v.calls = response.said[n].calls
      BY <1>1, <1>2, <2>3 DEF AtServer
    <3>2. After(v, e) = [v EXCEPT !.item = "open"]
      BY <2>1, <3>1 DEF After
    <3> QED BY <1>1, <1>2, <2>2, <3>1, <3>2 DEF Views, AtServer
  <2> HIDE DEF e
  <2> QED BY <1>1, <1>2, <1>3, <2>1, <2>2, <2>3, ServerSaysMore DEF e
<1>4. CASE response.item = "none" /\ Says([what |-> "call"]) /\ response' = [Said("calls") EXCEPT !.item = "done"]
  <2> DEFINE e == [what |-> "call"]
  <2>1. e \in RealtimeEvents /\ e.what = "call"
    BY DEF RealtimeEvents
  <2>2. response.said[n].calls = 0
    <3>1. PICK p \in Seq(Views) : InTransit(p)
      BY <1>1 DEF RealtimeInv, OnItsWay
    <3> QED BY <3>1, <1>1, <1>4 DEF InTransit, AtServer
  <2>3. /\ response' \in Responses /\ response'.busy = response.busy /\ response'.item = "done"
        /\ Len(response'.said) = n /\ \A g \in 1..n : g < n => response'.said[g] = response.said[g]
        /\ response'.said[n] = [response.said[n] EXCEPT !["calls"] = @ + 1]
    BY <1>2, <1>4, <2>2, SaidMore
  <2>4. ASSUME NEW v \in Views, AtServer(v)
        PROVE  After(v, e) \in Views /\ After(v, e).cur <= After(v, e).n /\ AtServer(After(v, e))'
    <3>1. v.cur # 0 /\ v.cur = v.n /\ v.n = n /\ v.text = response.said[n].text
      BY <1>1, <1>2, <2>4 DEF AtServer
    <3>2. After(v, e) = [v EXCEPT !.calls = 1]
      BY <2>1, <3>1 DEF After
    <3>3. response'.said[n].text = response.said[n].text /\ response'.said[n].calls = 1
      BY <1>2, <2>2, <2>3
    <3>4. /\ After(v, e) \in Views /\ After(v, e).cur = n /\ After(v, e).n = n /\ After(v, e).item = v.item
          /\ After(v, e).text = v.text /\ After(v, e).calls = 1
      BY <3>1, <3>2 DEF Views
    <3> HIDE DEF e
    <3> QED BY <1>1, <1>2, <2>3, <3>1, <3>3, <3>4 DEF AtServer
  <2> HIDE DEF e
  <2>5. Says(e) /\ Len(response.said) <= Len(response'.said)
    BY <1>2, <1>4, <2>3 DEF e
  <2>6. \A g \in 1..n : (response.busy => g < n) => response'.said[g] = response.said[g] /\ g < Len(response'.said)
    BY <1>1, <2>3
  <2> QED BY <1>1, <2>1, <2>3, <2>4, <2>5, <2>6, ServerSaysMore
<1>5. CASE /\ response.item = "message" /\ response.said[n].text < MaxItemDeltas
           /\ Says([what |-> "delta"]) /\ response' = Said("text")
  <2> DEFINE e == [what |-> "delta"]
  <2>1. e \in RealtimeEvents /\ e.what = "delta"
    BY DEF RealtimeEvents
  <2>2. response' = [Said("text") EXCEPT !.item = "message"]
    <3>1. n \in DOMAIN response.said
      BY <1>2, ResponseFacts, LenProperties
    <3>2. Said("text").item = response.item /\ DOMAIN Said("text") = DOMAIN response /\ "item" \in DOMAIN response
      BY ResponseFacts DEF Said, Responses
    <3> QED BY <1>5, <3>2, ResponseFacts DEF Said, Responses
  <2>3. /\ response' \in Responses /\ response'.busy = response.busy /\ response'.item = "message"
        /\ Len(response'.said) = n /\ \A g \in 1..n : g < n => response'.said[g] = response.said[g]
        /\ response'.said[n] = [response.said[n] EXCEPT !["text"] = @ + 1]
    BY <1>2, <1>5, <2>2, SaidMore
  <2>4. ASSUME NEW v \in Views, AtServer(v)
        PROVE  After(v, e) \in Views /\ After(v, e).cur <= After(v, e).n /\ AtServer(After(v, e))'
    <3>1. v.cur # 0 /\ v.cur = v.n /\ v.n = n /\ v.text = response.said[n].text
          /\ v.calls = response.said[n].calls /\ v.item = "open"
      BY <1>1, <1>2, <1>5, <2>4 DEF AtServer
    <3>2. After(v, e) = [v EXCEPT !.text = @ + 1]
      BY <2>1, <3>1 DEF After
    <3>3. response'.said[n].text = response.said[n].text + 1 /\ response'.said[n].calls = response.said[n].calls
      BY <1>2, <2>3
    <3>4. v.text + 1 \in 0..MaxItemDeltas
      BY <1>2, <1>5, <3>1, ResponseFacts
    <3>5. /\ After(v, e) \in Views /\ After(v, e).cur = n /\ After(v, e).n = n /\ After(v, e).item = v.item
          /\ After(v, e).text = v.text + 1 /\ After(v, e).calls = v.calls
      BY <3>1, <3>2, <3>4 DEF Views
    <3> HIDE DEF e
    <3> QED BY <1>1, <1>2, <2>3, <3>1, <3>3, <3>5 DEF AtServer
  <2> HIDE DEF e
  <2> QED BY <1>1, <1>2, <1>5, <2>1, <2>3, <2>4, ServerSaysMore DEF e
<1>6. CASE /\ response.item = "message" /\ Says([what |-> "message"])
           /\ response' = [response EXCEPT !.item = "done"]
  <2> DEFINE e == [what |-> "message"]
  <2>1. e \in RealtimeEvents /\ e.what = "message"
    BY DEF RealtimeEvents
  <2>2. /\ response' \in Responses /\ response'.busy = response.busy /\ response'.said = response.said
        /\ response'.item = "done"
    BY <1>6, ResponseFacts DEF Responses
  <2>3. ASSUME NEW v \in Views, AtServer(v)
        PROVE  After(v, e) \in Views /\ After(v, e).cur <= After(v, e).n /\ AtServer(After(v, e))'
    <3>1. v.cur # 0 /\ v.cur = v.n /\ v.n = n /\ v.text = response.said[n].text /\ v.calls = response.said[n].calls
      BY <1>1, <1>2, <2>3 DEF AtServer
    <3>2. After(v, e) = [v EXCEPT !.item = "closed"]
      BY <2>1, <3>1 DEF After
    <3> QED BY <1>1, <1>2, <2>2, <3>1, <3>2 DEF Views, AtServer
  <2> HIDE DEF e
  <2>4. Says(e) /\ Len(response.said) <= Len(response'.said)
    BY <1>2, <1>6, <2>2 DEF e
  <2> QED BY <1>1, <1>2, <2>1, <2>2, <2>3, <2>4, ServerSaysMore
<1> QED BY <1>3, <1>4, <1>5, <1>6 DEF ServerSpeaks

LEMMA SendCommandKeeps ==
    ASSUME RealtimeAssumption, RealtimeInv, SendCommand
    PROVE  RealtimeInv'
<1> DEFINE c == Head(commands)
<1>1. /\ rtConn = "open" /\ commands # <<>> /\ commands' = Tail(commands)
      /\ UNCHANGED <<rtConn, commandsClosed, reply, generations, currentGeneration>>
      /\ IF c = 0 /\ response.busy THEN ResponseEnds
         ELSE IF c = 0 \/ response.busy THEN Says([what |-> "error"]) /\ UNCHANGED response
         ELSE ResponseBegins(c)
  BY DEF SendCommand
<1>2. c \in 0..MaxReplyRequests /\ commands' \in Seq(0..MaxReplyRequests)
  BY <1>1, ResponseFacts, HeadTailProperties
<1> HIDE DEF c
<1>3. CASE c = 0 /\ response.busy
  BY <1>1, <1>2, <1>3, ResponseEndsKeeps
<1>4. CASE (c # 0 /\ response.busy) \/ (c = 0 /\ ~response.busy)
  BY <1>1, <1>2, <1>4, ServerErrorKeeps
<1>5. CASE c # 0 /\ ~response.busy
  BY <1>1, <1>2, <1>5, ResponseBeginsKeeps
<1> QED BY <1>3, <1>4, <1>5

LEMMA ServerKeeps ==
    ASSUME RealtimeAssumption, RealtimeInv, OwnResponse \/ ResponseDone
    PROVE  RealtimeInv'
<1>1. commands \in Seq(0..MaxReplyRequests) /\ 0 \in 0..MaxReplyRequests
  BY ResponseFacts DEF RealtimeAssumption
<1>2. CASE OwnResponse
  BY <1>1, <1>2, ResponseBeginsKeeps DEF OwnResponse, clientVars
<1>3. CASE ResponseDone
  BY <1>1, <1>3, ResponseEndsKeeps DEF ResponseDone, clientVars
<1> QED BY <1>2, <1>3

LEMMA RealtimeStepKeeps == RealtimeAssumption /\ RealtimeInv /\ [RealtimeNext]_realtimeVars => RealtimeInv'
<1> SUFFICES ASSUME RealtimeAssumption, RealtimeInv, [RealtimeNext]_realtimeVars PROVE RealtimeInv'
  OBVIOUS
<1>1. CASE UNCHANGED realtimeVars
  <2>1. UNCHANGED <<rtConn, commands, commandsClosed, reply, generations, currentGeneration, serverEvents, response>>
    BY <1>1 DEF realtimeVars, clientVars
  <2>2. RealtimeTypeOK'
    BY <2>1 DEF RealtimeInv, RealtimeStateOK, RealtimeTypeOK
  <2> QED BY <2>1, <2>2, ClientKeeps
<1>2. CASE \/ \E r \in ReplyRequests : GenerateReply(r) \/ GenerateReplyTimesOut(r)
           \/ InterruptResponse \/ CloseCommands
  BY <1>2, CallerKeeps
<1>3. CASE Receive
  BY <1>3, ReceiveKeeps
<1>4. CASE CloseConnection \/ ConnectionLost
  BY <1>4, ConnectionEndKeeps
<1>5. CASE SendCommand
  BY <1>5, SendCommandKeeps
<1>6. CASE ServerSpeaks
  BY <1>6, ServerSpeaksKeeps
<1>7. CASE OwnResponse \/ ResponseDone
  BY <1>7, ServerKeeps
<1> QED BY <1>1, <1>2, <1>3, <1>4, <1>5, <1>6, <1>7 DEF RealtimeNext

\* A generation of the realtime model is given to its readers whole, and nothing of another one with it,
\* however its response was interrupted, timed out or cut; who asked for a reply is the one who is told of
\* it, or nobody is (realtime_model.py: _handle_response_created to _handle_response_done).
THEOREM GenerationsAreWhole == RealtimeSpec => []RealtimeSafe
<1>1. RealtimeInv => RealtimeSafe
  BY LenProperties DEF RealtimeInv, RealtimeStateOK, OverAreWhole, IsWhole, RealtimeSafe, GenerationIsWhole
<1> QED BY <1>1, RealtimeInitInv, RealtimeStepKeeps, RealtimeAssumption, PTL DEF RealtimeSpec

(* The chunked syntheses *)

\* A frame that was said.
Answered == [piece : Pieces, final : BOOLEAN]

\* The pieces that reached the emitter.
HeardPieces == IF held = 0 THEN Len(spoken) ELSE Len(spoken) + 1

\* The pieces are, in order, said, held back, decoded and to be decoded; none is lost but where the answer breaks off.
PiecesInOrder ==
    /\ \A k \in 1..Len(spoken) : spoken[k].piece = k
    /\ held # 0 => held = Len(spoken) + 1
    /\ \A k \in 1..Len(decoder.output) : decoder.output[k] = HeardPieces + k
    /\ \A k \in 1..Len(decoder.input) : decoder.input[k] = HeardPieces + Len(decoder.output) + k
    /\ answer.state \in {"unsent", "refused", "other"} => answer.sent = 0
    /\ answer.state # "broken" => HeardPieces + Len(decoder.output) + Len(decoder.input) = answer.sent

\* A frame is final once nothing more is read, and the last one is then.
LastIsFinal ==
    /\ \A k \in 1..Len(spoken) : spoken[k].final => k = Len(spoken) /\ synthesis # "runs"
    /\ synthesis = "runs" /\ spoken # <<>> => held # 0
    /\ synthesis = "returned" => /\ held = 0
                                 /\ spoken # <<>> /\ chunkDialect \notin Unmarked => spoken[Len(spoken)].final

\* Samples are emitted as they come; the synthesis ends with the answer.
RawStages ==
    chunkDialect \in Raw =>
        /\ decoder.input = <<>> /\ decoder.output = <<>> /\ ~decoder.started /\ ~decoder.closed
        /\ synthesis = "runs" <=> answer.state \in {"unsent", "comes"}
        /\ synthesis = "returned" => answer.state = "whole"

\* The feeder, the decoder and its reader end one after the other.
DecodedStages ==
    chunkDialect \notin Raw =>
        /\ decoder.ended <=> feeder \in {"ended", "failed"}
        /\ feeder = "feeds" <=> answer.state = "comes"
        /\ feeder = "ended" <=> answer.state = "whole"
        /\ answer.state = "broken" => feeder = "failed"
        /\ feeder = "failed" => \/ answer.state = "broken" /\ chunkDialect # "google"
                                \/ answer.state = "refused" /\ chunkDialect \in {"openai", "playai"}
        /\ decoder.closed => decoder.ended /\ decoder.input = <<>>
        /\ synthesis = "returned" =>
               \/ answer.state = "other" /\ chunkDialect \in Looking
               \/ /\ decoder.closed /\ decoder.output = <<>>
                  /\ chunkDialect = "aws" => feeder # "failed"

ChunkInv == ChunkedSpeechTypeOK /\ PiecesInOrder /\ LastIsFinal /\ RawStages /\ DecodedStages

LEMMA ChunkTypes ==
    ASSUME ChunkedSpeechTypeOK
    PROVE  /\ spoken \in Seq(Answered) /\ Len(spoken) \in Nat /\ DOMAIN spoken = 1..Len(spoken)
           /\ decoder.input \in Seq(Pieces) /\ Len(decoder.input) \in Nat
           /\ decoder.output \in Seq(Pieces) /\ Len(decoder.output) \in Nat
           /\ held \in 0..MaxPieces /\ HeardPieces \in Nat /\ MaxPieces \in Nat
           /\ answer.sent \in 0..MaxPieces /\ Pieces \subseteq Nat
           /\ {decoder.ended, decoder.started, decoder.closed} \subseteq BOOLEAN
           /\ spoken = <<>> <=> Len(spoken) = 0
           /\ decoder.input = <<>> <=> Len(decoder.input) = 0
           /\ decoder.output = <<>> <=> Len(decoder.output) = 0
<1>1. spoken \in Seq(Answered) /\ decoder.input \in Seq(Pieces) /\ decoder.output \in Seq(Pieces)
      /\ held \in 0..MaxPieces /\ answer.sent \in 0..MaxPieces
      /\ {decoder.ended, decoder.started, decoder.closed} \subseteq BOOLEAN
  BY DEF ChunkedSpeechTypeOK, Answered
<1>2. MaxPieces \in Nat /\ Pieces \subseteq Nat
  BY ChunkedSpeechAssumption DEF Pieces
<1>3. Len(spoken) \in Nat /\ DOMAIN spoken = 1..Len(spoken) /\ (spoken = <<>> <=> Len(spoken) = 0)
  BY <1>1, LenProperties, EmptySeq
<1>4. Len(decoder.input) \in Nat /\ (decoder.input = <<>> <=> Len(decoder.input) = 0)
  BY <1>1, LenProperties, EmptySeq
<1>5. Len(decoder.output) \in Nat /\ (decoder.output = <<>> <=> Len(decoder.output) = 0)
  BY <1>1, LenProperties, EmptySeq
<1>6. HeardPieces \in Nat
  BY <1>3 DEF HeardPieces
<1> QED BY <1>1, <1>2, <1>3, <1>4, <1>5, <1>6

\* What is emitted is the frame that was held back, if there is one.
LEMMA EmitsHeld ==
    ASSUME ChunkedSpeechTypeOK, PiecesInOrder, NEW final \in BOOLEAN, spoken' = EmitHeld(final)
    PROVE  /\ spoken' \in Seq(Answered) /\ Len(spoken') = HeardPieces
           /\ \A k \in 1..Len(spoken') : spoken'[k].piece = k
           /\ \A k \in 1..Len(spoken) : k \in 1..Len(spoken') /\ spoken'[k] = spoken[k]
           /\ held = 0 => spoken' = spoken
           /\ held # 0 => /\ Len(spoken') = Len(spoken) + 1 /\ spoken'[Len(spoken')].final = final
                          /\ \A k \in 1..Len(spoken') : k \in 1..Len(spoken) \/ k = Len(spoken')
<1>t. /\ spoken \in Seq(Answered) /\ Len(spoken) \in Nat /\ held \in 0..MaxPieces /\ MaxPieces \in Nat
  BY ChunkTypes
<1>p. /\ \A k \in 1..Len(spoken) : spoken[k].piece = k
      /\ held # 0 => held = Len(spoken) + 1
  BY DEF PiecesInOrder
<1>1. CASE held = 0
  BY <1>1, <1>t, <1>p DEF EmitHeld, HeardPieces
<1>2. CASE held # 0
  <2> DEFINE e == [piece |-> held, final |-> final]
  <2>1. spoken' = Append(spoken, e)
    BY <1>2 DEF EmitHeld
  <2>2. e \in Answered /\ e.piece = Len(spoken) + 1 /\ e.final = final
    BY <1>2, <1>t, <1>p DEF Answered, Pieces
  <2> HIDE DEF e
  <2>3. /\ spoken' \in Seq(Answered) /\ Len(spoken') = Len(spoken) + 1
        /\ \A k \in 1..Len(spoken) : spoken'[k] = spoken[k]
        /\ spoken'[Len(spoken) + 1] = e
    BY <2>1, <2>2, <1>t, AppendProperties
  <2>4. Len(spoken') = HeardPieces
    BY <2>3, <1>2 DEF HeardPieces
  <2>5. \A k \in 1..Len(spoken) : k \in 1..Len(spoken') /\ spoken'[k] = spoken[k]
    BY <2>3, <1>t
  <2>6. \A k \in 1..Len(spoken') : k \in 1..Len(spoken) \/ k = Len(spoken')
    BY <2>3, <1>t
  <2>7. \A k \in 1..Len(spoken') : spoken'[k].piece = k
    BY <2>2, <2>3, <2>5, <2>6, <1>p
  <2>8. spoken'[Len(spoken')].final = final
    BY <2>2, <2>3
  <2> QED BY <1>2, <2>3, <2>4, <2>5, <2>6, <2>7, <2>8
<1> QED BY <1>1, <1>2

\* A piece that is pushed takes the place of the one that was held back, which is said.
LEMMA PushesNext ==
    ASSUME ChunkedSpeechTypeOK, PiecesInOrder, LastIsFinal, synthesis = "runs", UNCHANGED synthesis,
           NEW piece \in Pieces, piece = HeardPieces + 1, Push(piece)
    PROVE  /\ spoken' \in Seq(Answered) /\ held' \in 0..MaxPieces
           /\ \A k \in 1..Len(spoken') : spoken'[k].piece = k
           /\ held' # 0 /\ held' = Len(spoken') + 1 /\ HeardPieces' = HeardPieces + 1
           /\ LastIsFinal'
<1>t. /\ spoken \in Seq(Answered) /\ Len(spoken) \in Nat /\ held \in 0..MaxPieces /\ MaxPieces \in Nat
      /\ HeardPieces \in Nat
  BY ChunkTypes
<1>1. spoken' = EmitHeld(FALSE) /\ held' = piece
  BY DEF Push
<1>2. /\ spoken' \in Seq(Answered) /\ Len(spoken') = HeardPieces
      /\ \A k \in 1..Len(spoken') : spoken'[k].piece = k
      /\ \A k \in 1..Len(spoken) : k \in 1..Len(spoken') /\ spoken'[k] = spoken[k]
      /\ held = 0 => spoken' = spoken
      /\ held # 0 => /\ Len(spoken') = Len(spoken) + 1 /\ spoken'[Len(spoken')].final = FALSE
                     /\ \A k \in 1..Len(spoken') : k \in 1..Len(spoken) \/ k = Len(spoken')
  BY <1>1, EmitsHeld
<1>a. piece \in 1..MaxPieces
  BY DEF Pieces
<1>b. piece \in 0..MaxPieces /\ piece # 0
  BY <1>a, <1>t
<1>c. Len(spoken') = HeardPieces
  BY <1>2
<1>3. held' \in 0..MaxPieces /\ held' # 0 /\ held' = Len(spoken') + 1
  BY <1>1, <1>b, <1>c
<1>4. HeardPieces' = HeardPieces + 1
  BY <1>2, <1>3 DEF HeardPieces
<1>5. \A k \in 1..Len(spoken) : ~spoken[k].final
  BY DEF LastIsFinal
<1>6. \A k \in 1..Len(spoken') : spoken'[k].final => k = Len(spoken') /\ synthesis' # "runs"
  BY <1>2, <1>5
<1> QED BY <1>2, <1>3, <1>4, <1>6 DEF LastIsFinal

\* The end of what is read: what is held back is said.
LEMMA FlushesLast ==
    ASSUME ChunkedSpeechTypeOK, PiecesInOrder, LastIsFinal, synthesis = "runs", synthesis' # "runs",
           UNCHANGED chunkDialect, FlushHeld
    PROVE  /\ spoken' \in Seq(Answered) /\ held' \in 0..MaxPieces
           /\ \A k \in 1..Len(spoken') : spoken'[k].piece = k
           /\ held' = 0 /\ HeardPieces' = HeardPieces /\ LastIsFinal'
<1>t. /\ spoken \in Seq(Answered) /\ Len(spoken) \in Nat /\ held \in 0..MaxPieces /\ MaxPieces \in Nat
      /\ HeardPieces \in Nat /\ (spoken = <<>> <=> Len(spoken) = 0)
  BY ChunkTypes
<1> DEFINE marked == chunkDialect \notin Unmarked
<1>1. spoken' = EmitHeld(marked) /\ held' = 0 /\ marked \in BOOLEAN /\ marked' = marked
  BY DEF FlushHeld
<1> HIDE DEF marked
<1>2. /\ spoken' \in Seq(Answered) /\ Len(spoken') = HeardPieces
      /\ \A k \in 1..Len(spoken') : spoken'[k].piece = k
      /\ \A k \in 1..Len(spoken) : k \in 1..Len(spoken') /\ spoken'[k] = spoken[k]
      /\ held = 0 => spoken' = spoken
      /\ held # 0 => /\ Len(spoken') = Len(spoken) + 1 /\ spoken'[Len(spoken')].final = marked
                     /\ \A k \in 1..Len(spoken') : k \in 1..Len(spoken) \/ k = Len(spoken')
  BY <1>1, EmitsHeld
<1>3. held' \in 0..MaxPieces /\ held' = 0 /\ HeardPieces' = HeardPieces
  BY <1>1, <1>2, <1>t DEF HeardPieces
<1>4. \A k \in 1..Len(spoken) : ~spoken[k].final
  BY DEF LastIsFinal
<1>5. \A k \in 1..Len(spoken') : spoken'[k].final => k = Len(spoken') /\ synthesis' # "runs"
  BY <1>2, <1>4
<1>6. ASSUME spoken' # <<>>, marked PROVE spoken'[Len(spoken')].final
  <2>1. held # 0
    BY <1>6, <1>2 DEF LastIsFinal
  <2> QED BY <2>1, <1>2, <1>6
<1>7. LastIsFinal'
  BY <1>3, <1>5, <1>6, <1>1 DEF LastIsFinal, marked
<1> QED BY <1>2, <1>3, <1>7

LEMMA ChunkInit == ChunkedSpeechInit => ChunkInv
<1> SUFFICES ASSUME ChunkedSpeechInit PROVE ChunkInv OBVIOUS
<1>1. /\ chunkDialect \in ChunkDialects /\ answer = [state |-> "unsent", sent |-> 0] /\ feeder = "none"
      /\ decoder = [input |-> <<>>, ended |-> FALSE, started |-> FALSE, output |-> <<>>, closed |-> FALSE]
      /\ held = 0 /\ spoken = <<>> /\ synthesis = "runs"
  BY DEF ChunkedSpeechInit
<1>2. /\ MaxPieces \in Nat /\ <<>> \in Seq(Pieces) /\ <<>> \in Seq([piece : Pieces, final : BOOLEAN])
      /\ Len(<<>>) = 0 /\ 0 \in 0..MaxPieces
  BY ChunkedSpeechAssumption
<1>3. ChunkedSpeechTypeOK
  BY <1>1, <1>2 DEF ChunkedSpeechTypeOK
<1>4. PiecesInOrder
  BY <1>1, <1>2 DEF PiecesInOrder, HeardPieces
<1>5. LastIsFinal /\ RawStages /\ DecodedStages
  BY <1>1 DEF LastIsFinal, RawStages, DecodedStages
<1> QED BY <1>3, <1>4, <1>5 DEF ChunkInv

\* The request touches no piece.
LEMMA RequestsKeepsChunks == ASSUME ChunkInv, Requests PROVE ChunkInv'
<1> USE DEF ChunkInv
<1>g. /\ answer.state = "unsent" /\ synthesis = "runs" /\ UNCHANGED <<chunkDialect, held, spoken>>
  BY DEF Requests
<1>t. /\ answer \in [state : {"unsent", "comes", "whole", "broken", "refused", "other"}, sent : 0..MaxPieces]
      /\ decoder \in [input : Seq(Pieces), ended : BOOLEAN, started : BOOLEAN, output : Seq(Pieces), closed : BOOLEAN]
  BY DEF ChunkedSpeechTypeOK
<1>s. /\ chunkDialect \notin Raw => ~decoder.closed /\ feeder = "none"
      /\ answer.state # "broken"
  BY <1>g, <1>t DEF DecodedStages, ChunkedSpeechTypeOK
<1>1. ASSUME NEW st \in {"refused", "other", "comes"}, answer' = [answer EXCEPT !.state = st],
             decoder'.input = decoder.input, decoder'.output = decoder.output
      PROVE  /\ PiecesInOrder' /\ answer'.state = st /\ answer'.sent = answer.sent
             /\ answer' \in [state : {"unsent", "comes", "whole", "broken", "refused", "other"}, sent : 0..MaxPieces]
  <2>1. /\ answer'.state = st /\ answer'.sent = answer.sent /\ HeardPieces' = HeardPieces
        /\ answer' \in [state : {"unsent", "comes", "whole", "broken", "refused", "other"}, sent : 0..MaxPieces]
    BY <1>1, <1>t, <1>g DEF HeardPieces
  <2> QED BY <2>1, <1>1, <1>s, <1>g DEF PiecesInOrder
<1>2. CASE RequestRefused
  <2>1. /\ answer' = [answer EXCEPT !.state = "refused"]
        /\ decoder'.input = decoder.input /\ decoder'.output = decoder.output
        /\ decoder'.closed = decoder.closed /\ decoder'.started = decoder.started
        /\ decoder' \in [input : Seq(Pieces), ended : BOOLEAN, started : BOOLEAN, output : Seq(Pieces), closed : BOOLEAN]
    BY <1>2, <1>t DEF RequestRefused, DecoderEndInput
  <2>2. /\ PiecesInOrder' /\ answer'.state = "refused"
        /\ answer' \in [state : {"unsent", "comes", "whole", "broken", "refused", "other"}, sent : 0..MaxPieces]
    BY <2>1, <1>1
  <2>3. CASE chunkDialect \in {"openai", "playai"}
    <3>1. feeder' = "failed" /\ decoder'.ended /\ UNCHANGED synthesis
      BY <1>2, <2>3, <1>t DEF RequestRefused, DecoderEndInput
    <3>2. ChunkedSpeechTypeOK'
      BY <2>1, <2>2, <3>1, <1>g DEF ChunkedSpeechTypeOK
    <3>3. LastIsFinal'
      BY <3>1, <1>g DEF LastIsFinal
    <3>4. RawStages' /\ DecodedStages'
      BY <2>1, <2>2, <2>3, <3>1, <1>g, <1>s DEF RawStages, DecodedStages, Raw
    <3> QED BY <2>2, <3>2, <3>3, <3>4
  <2>4. CASE chunkDialect \notin {"openai", "playai"}
    <3>1. synthesis' = "failed" /\ UNCHANGED <<feeder, decoder>>
      BY <1>2, <2>4 DEF RequestRefused
    <3>2. ChunkedSpeechTypeOK'
      BY <2>2, <3>1, <1>g DEF ChunkedSpeechTypeOK
    <3>3. LastIsFinal'
      BY <3>1, <1>g DEF LastIsFinal
    <3>4. RawStages' /\ DecodedStages'
      BY <2>2, <3>1, <1>g, <1>s DEF RawStages, DecodedStages
    <3> QED BY <2>2, <3>2, <3>3, <3>4
  <2> QED BY <2>3, <2>4
<1>3. CASE OtherAnswer
  <2>1. /\ chunkDialect \in Looking /\ answer' = [answer EXCEPT !.state = "other"]
        /\ synthesis' = "returned" /\ UNCHANGED <<feeder, decoder>>
    BY <1>3 DEF OtherAnswer
  <2>2. /\ PiecesInOrder' /\ answer'.state = "other"
        /\ answer' \in [state : {"unsent", "comes", "whole", "broken", "refused", "other"}, sent : 0..MaxPieces]
    BY <2>1, <1>1
  <2>3. ChunkedSpeechTypeOK'
    BY <2>1, <2>2, <1>g DEF ChunkedSpeechTypeOK
  <2>4. held = 0 /\ spoken = <<>>
    <3>1. HeardPieces + Len(decoder.output) + Len(decoder.input) = answer.sent
      BY <1>s DEF PiecesInOrder
    <3>2. answer.sent = 0
      BY <1>g DEF PiecesInOrder
    <3>3. HeardPieces \in Nat /\ Len(decoder.output) \in Nat /\ Len(decoder.input) \in Nat
          /\ Len(spoken) \in Nat /\ (spoken = <<>> <=> Len(spoken) = 0)
      BY ChunkTypes
    <3>a. \A a, b, c \in Nat : a + b + c = 0 => a = 0
      OBVIOUS
    <3>4. HeardPieces = 0
      BY <3>1, <3>2, <3>3, <3>a
    <3> QED BY <3>3, <3>4 DEF HeardPieces
  <2>5. LastIsFinal'
    BY <2>1, <2>4, <1>g, EmptySeq DEF LastIsFinal
  <2>6. RawStages' /\ DecodedStages'
    BY <2>1, <2>2, <1>g, <1>s DEF RawStages, DecodedStages, Looking, Raw
  <2> QED BY <2>2, <2>3, <2>5, <2>6
<1>4. CASE AnswerBegins
  <2>1. /\ answer' = [answer EXCEPT !.state = "comes"]
        /\ feeder' = IF chunkDialect \in Raw THEN "none" ELSE "feeds"
        /\ UNCHANGED <<decoder, synthesis>>
    BY <1>4 DEF AnswerBegins
  <2>2. /\ PiecesInOrder' /\ answer'.state = "comes"
        /\ answer' \in [state : {"unsent", "comes", "whole", "broken", "refused", "other"}, sent : 0..MaxPieces]
    BY <2>1, <1>1
  <2>3. ChunkedSpeechTypeOK'
    BY <2>1, <2>2, <1>g DEF ChunkedSpeechTypeOK
  <2>4. LastIsFinal'
    BY <2>1, <1>g DEF LastIsFinal
  <2>5. RawStages' /\ DecodedStages'
    BY <2>1, <2>2, <1>g, <1>s DEF RawStages, DecodedStages
  <2> QED BY <2>2, <2>3, <2>4, <2>5
<1> QED BY <1>2, <1>3, <1>4 DEF Requests


\* What is decoded or to be decoded keeps its place when a piece is heard or only said.
LEMMA PieceComesKeepsChunks == ASSUME ChunkInv, PieceComes PROVE ChunkInv'
<1> USE DEF ChunkInv
<1>g. /\ answer.state = "comes" /\ answer.sent < MaxPieces
      /\ answer' = [answer EXCEPT !.sent = @ + 1] /\ Receives(answer.sent + 1)
      /\ UNCHANGED <<chunkDialect, feeder, synthesis>>
  BY DEF PieceComes
<1>t. /\ answer \in [state : {"unsent", "comes", "whole", "broken", "refused", "other"}, sent : 0..MaxPieces]
      /\ decoder \in [input : Seq(Pieces), ended : BOOLEAN, started : BOOLEAN, output : Seq(Pieces), closed : BOOLEAN]
  BY DEF ChunkedSpeechTypeOK
<1>n. /\ HeardPieces \in Nat /\ Len(decoder.output) \in Nat /\ Len(decoder.input) \in Nat
      /\ MaxPieces \in Nat /\ answer.sent \in 0..MaxPieces /\ answer.sent \in Nat
  BY ChunkTypes
<1>a. /\ answer'.state = "comes" /\ answer'.sent = answer.sent + 1
      /\ answer' \in [state : {"unsent", "comes", "whole", "broken", "refused", "other"}, sent : 0..MaxPieces]
      /\ answer.sent + 1 \in 1..MaxPieces
  <2>1. answer.sent + 1 \in 0..MaxPieces /\ answer.sent + 1 \in 1..MaxPieces
    BY <1>g, <1>n
  <2> QED BY <1>g, <1>t, <2>1
<1>b. answer.sent + 1 \in Pieces
  BY <1>a DEF Pieces
<1>c. HeardPieces + Len(decoder.output) + Len(decoder.input) = answer.sent
  BY <1>g DEF PiecesInOrder
<1>1. CASE chunkDialect \in Raw
  <2>1. Push(answer.sent + 1) /\ UNCHANGED decoder
    BY <1>1, <1>g DEF Receives
  <2>2. synthesis = "runs" /\ decoder.input = <<>> /\ decoder.output = <<>>
    BY <1>1, <1>g DEF RawStages
  <2>3. Len(decoder.input) = 0 /\ Len(decoder.output) = 0
    BY <2>2, ChunkTypes
  <2>4. answer.sent + 1 = HeardPieces + 1
    BY <2>3, <1>c, <1>n
  <2>5. /\ spoken' \in Seq(Answered) /\ held' \in 0..MaxPieces
        /\ \A k \in 1..Len(spoken') : spoken'[k].piece = k
        /\ held' # 0 /\ held' = Len(spoken') + 1 /\ HeardPieces' = HeardPieces + 1
        /\ LastIsFinal'
    BY <2>1, <2>2, <2>4, <1>b, <1>g, PushesNext
  <2>6. HeardPieces' + Len(decoder'.output) + Len(decoder'.input) = answer'.sent
    <3>1. \A a, b, c \in Nat : (a + 1) + b + c = (a + b + c) + 1
      OBVIOUS
    <3>2. HeardPieces' \in Nat /\ HeardPieces' = HeardPieces + 1 /\ answer'.sent = answer.sent + 1
      BY <2>5, <1>a, <1>n
    <3>3. HeardPieces' + Len(decoder.output) + Len(decoder.input) = answer.sent + 1
      <4>1. (HeardPieces + 1) + Len(decoder.output) + Len(decoder.input)
              = (HeardPieces + Len(decoder.output) + Len(decoder.input)) + 1
        <5> PICK a \in Nat, b \in Nat, c \in Nat :
               a = HeardPieces /\ b = Len(decoder.output) /\ c = Len(decoder.input)
          BY <1>n
        <5>1. (a + 1) + b + c = (a + b + c) + 1
          BY ONLY <3>1
        <5> QED BY <5>1
      <4> QED BY <4>1, <3>2, <1>c
    <3> QED BY <3>2, <3>3, <2>1
  <2>7. PiecesInOrder'
    BY <2>5, <2>6, <2>3, <2>1, <1>a DEF PiecesInOrder
  <2>8. ChunkedSpeechTypeOK'
    BY <2>1, <2>5, <1>a, <1>g DEF ChunkedSpeechTypeOK, Answered
  <2>9. RawStages' /\ DecodedStages'
    BY <2>1, <1>1, <1>a, <1>g DEF RawStages, DecodedStages
  <2> QED BY <2>5, <2>7, <2>8, <2>9
<1>2. CASE chunkDialect \notin Raw
  <2>1. DecoderPush(answer.sent + 1) /\ UNCHANGED <<held, spoken>>
    BY <1>2, <1>g DEF Receives
  <2> DEFINE d == Append(decoder.input, answer.sent + 1)
  <2>2. /\ decoder'.input = d /\ decoder'.output = decoder.output /\ decoder'.started = TRUE
        /\ decoder'.ended = decoder.ended /\ decoder'.closed = decoder.closed
    BY <2>1, <1>t DEF DecoderPush
  <2>3. /\ d \in Seq(Pieces) /\ Len(d) = Len(decoder.input) + 1
        /\ \A k \in 1..Len(decoder.input) : d[k] = decoder.input[k]
        /\ d[Len(decoder.input) + 1] = answer.sent + 1
    BY <1>b, <1>t, AppendProperties
  <2>4. decoder' \in [input : Seq(Pieces), ended : BOOLEAN, started : BOOLEAN, output : Seq(Pieces), closed : BOOLEAN]
    BY <2>1, <2>3, <1>t DEF DecoderPush
  <2> HIDE DEF d
  <2>5. HeardPieces' = HeardPieces
    BY <2>1 DEF HeardPieces
  <2>6. HeardPieces' + Len(decoder'.output) + Len(decoder'.input) = answer'.sent
    <3>1. Len(d) = Len(decoder.input) + 1
      BY <2>3
    <3>a. \A a, b, c \in Nat : a + b + (c + 1) = (a + b + c) + 1
      OBVIOUS
    <3>b. HeardPieces + Len(decoder.output) + (Len(decoder.input) + 1)
            = (HeardPieces + Len(decoder.output) + Len(decoder.input)) + 1
      BY <3>a, <1>n
    <3>2. HeardPieces + Len(decoder.output) + Len(d) = answer.sent + 1
      BY <3>1, <3>b, <1>c
    <3> QED BY <3>2, <2>2, <2>5, <1>a
  <2>7. ASSUME NEW k \in 1..Len(d) PROVE d[k] = HeardPieces + Len(decoder.output) + k
    <3>1. k \in 1..Len(decoder.input) \/ k = Len(decoder.input) + 1
      BY <2>3, <1>n
    <3>2. CASE k \in 1..Len(decoder.input)
      BY <3>2, <2>3 DEF PiecesInOrder
    <3>3. CASE k = Len(decoder.input) + 1
      <4>1. d[k] = answer.sent + 1
        BY <3>3, <2>3
      <4>a. \A a, b, c \in Nat : a + b + (c + 1) = (a + b + c) + 1
        OBVIOUS
      <4>b. HeardPieces + Len(decoder.output) + (Len(decoder.input) + 1)
              = (HeardPieces + Len(decoder.output) + Len(decoder.input)) + 1
        BY <4>a, <1>n
      <4>2. answer.sent + 1 = HeardPieces + Len(decoder.output) + (Len(decoder.input) + 1)
        BY <4>b, <1>c
      <4> QED BY <4>1, <4>2, <3>3
    <3> QED BY <3>1, <3>2, <3>3
  <2>8. PiecesInOrder'
    <3>1. \A k \in 1..Len(decoder'.input) : decoder'.input[k] = HeardPieces' + Len(decoder'.output) + k
      BY <2>7, <2>2, <2>5
    <3>2. \A k \in 1..Len(decoder'.output) : decoder'.output[k] = HeardPieces' + k
      BY <2>2, <2>5 DEF PiecesInOrder
    <3>3. /\ \A k \in 1..Len(spoken') : spoken'[k].piece = k
          /\ held' # 0 => held' = Len(spoken') + 1
      BY <2>1 DEF PiecesInOrder
    <3> QED BY <3>1, <3>2, <3>3, <2>6, <1>a DEF PiecesInOrder
  <2>9. ChunkedSpeechTypeOK'
    BY <2>1, <2>4, <1>a, <1>g DEF ChunkedSpeechTypeOK
  <2>10. LastIsFinal'
    BY <2>1, <1>g DEF LastIsFinal
  <2>11. RawStages' /\ DecodedStages'
    BY <2>2, <1>2, <1>a, <1>g DEF RawStages, DecodedStages
  <2> QED BY <2>8, <2>9, <2>10, <2>11
<1> QED BY <1>1, <1>2

\* The thread of the decoder keeps the order.
LEMMA DecodesKeepsChunks == ASSUME ChunkInv, DecodesFrame PROVE ChunkInv'
<1> USE DEF ChunkInv
<1>g. /\ decoder.started /\ decoder.input # <<>>
      /\ decoder' = [decoder EXCEPT !.input = Tail(@), !.output = Append(@, Head(decoder.input))]
      /\ UNCHANGED <<chunkDialect, answer, feeder, held, spoken, synthesis>>
  BY DEF DecodesFrame
<1>t. /\ decoder \in [input : Seq(Pieces), ended : BOOLEAN, started : BOOLEAN, output : Seq(Pieces), closed : BOOLEAN]
      /\ decoder.input \in Seq(Pieces) /\ decoder.output \in Seq(Pieces)
  BY DEF ChunkedSpeechTypeOK
<1>n. HeardPieces \in Nat /\ Len(decoder.output) \in Nat /\ Len(decoder.input) \in Nat
  BY ChunkTypes
<1> DEFINE i == Tail(decoder.input)
           h == Head(decoder.input)
           o == Append(decoder.output, h)
<1>1. /\ decoder'.input = i /\ decoder'.output = o /\ decoder'.started = decoder.started
      /\ decoder'.ended = decoder.ended /\ decoder'.closed = decoder.closed
  BY <1>g, <1>t
<1>2. /\ i \in Seq(Pieces) /\ h \in Pieces /\ Len(i) = Len(decoder.input) - 1 /\ Len(decoder.input) # 0
      /\ h = decoder.input[1] /\ \A k \in 1..Len(i) : i[k] = decoder.input[k + 1]
  BY <1>g, <1>t, HeadTailProperties, EmptySeq
<1> HIDE DEF h
<1>3. /\ o \in Seq(Pieces) /\ Len(o) = Len(decoder.output) + 1
      /\ \A k \in 1..Len(decoder.output) : o[k] = decoder.output[k]
      /\ o[Len(decoder.output) + 1] = h
  BY <1>2, <1>t, AppendProperties
<1>4. decoder' \in [input : Seq(Pieces), ended : BOOLEAN, started : BOOLEAN, output : Seq(Pieces), closed : BOOLEAN]
  BY <1>g, <1>2, <1>3, <1>t DEF h
<1> HIDE DEF i, o
<1>5. HeardPieces' = HeardPieces
  BY <1>g DEF HeardPieces
<1>6. Len(o) + Len(i) = Len(decoder.output) + Len(decoder.input)
  <2>1. Len(o) = Len(decoder.output) + 1 /\ Len(i) = Len(decoder.input) - 1
    BY <1>2, <1>3
  <2>2. \A a, b \in Nat : b # 0 => (a + 1) + (b - 1) = a + b
    OBVIOUS
  <2>3. Len(decoder.input) # 0
    BY <1>2
  <2>4. (Len(decoder.output) + 1) + (Len(decoder.input) - 1) = Len(decoder.output) + Len(decoder.input)
    BY <2>2, <2>3, <1>n
  <2> QED BY <2>1, <2>4
<1>7. HeardPieces + Len(o) + Len(i) = HeardPieces + Len(decoder.output) + Len(decoder.input)
  <2>1. Len(o) \in Nat /\ Len(i) \in Nat
    BY <1>2, <1>3, LenProperties
  <2>2. \A a, b, c \in Nat : a + b + c = a + (b + c)
    OBVIOUS
  <2>3. /\ HeardPieces + Len(o) + Len(i) = HeardPieces + (Len(o) + Len(i))
        /\ HeardPieces + Len(decoder.output) + Len(decoder.input) = HeardPieces + (Len(decoder.output) + Len(decoder.input))
    <3> PICK a \in Nat, b \in Nat, c \in Nat, d \in Nat, e \in Nat :
           /\ a = HeardPieces /\ b = Len(decoder.output) /\ c = Len(decoder.input)
           /\ d = Len(o) /\ e = Len(i)
      BY <2>1, <1>n
    <3>1. a + d + e = a + (d + e) /\ a + b + c = a + (b + c)
      BY ONLY <2>2
    <3> QED BY <3>1
  <2> QED BY <2>3, <1>6
<1>8. ASSUME NEW k \in 1..Len(o) PROVE o[k] = HeardPieces + k
  <2>1. k \in 1..Len(decoder.output) \/ k = Len(decoder.output) + 1
    BY <1>3, <1>n
  <2>2. CASE k \in 1..Len(decoder.output)
    BY <2>2, <1>3 DEF PiecesInOrder
  <2>3. CASE k = Len(decoder.output) + 1
    <3>1. 1 \in 1..Len(decoder.input)
      BY <1>2, <1>n
    <3>2. decoder.input[1] = HeardPieces + Len(decoder.output) + 1
      BY <3>1 DEF PiecesInOrder
    <3>3. o[k] = HeardPieces + Len(decoder.output) + 1
      BY <3>2, <2>3, <1>2, <1>3
    <3> QED BY <3>3, <2>3, <1>n
  <2> QED BY <2>1, <2>2, <2>3
<1>9. ASSUME NEW k \in 1..Len(i) PROVE i[k] = HeardPieces + Len(o) + k
  <2>1. k + 1 \in 1..Len(decoder.input) /\ k \in Nat
    BY <1>2, <1>n
  <2>2. i[k] = HeardPieces + Len(decoder.output) + (k + 1)
    BY <2>1, <1>2 DEF PiecesInOrder
  <2>3. Len(o) = Len(decoder.output) + 1
    BY <1>3
  <2>4. \A a, b, c \in Nat : a + b + (c + 1) = a + (b + 1) + c
    OBVIOUS
  <2>5. HeardPieces + Len(decoder.output) + (k + 1) = HeardPieces + (Len(decoder.output) + 1) + k
    BY <2>1, <2>4, <1>n
  <2> QED BY <2>2, <2>3, <2>5
<1>10. PiecesInOrder'
  <2>1. \A k \in 1..Len(decoder'.input) : decoder'.input[k] = HeardPieces' + Len(decoder'.output) + k
    BY <1>9, <1>1, <1>5
  <2>2. \A k \in 1..Len(decoder'.output) : decoder'.output[k] = HeardPieces' + k
    BY <1>8, <1>1, <1>5
  <2>3. /\ \A k \in 1..Len(spoken') : spoken'[k].piece = k
        /\ held' # 0 => held' = Len(spoken') + 1
        /\ answer'.state \in {"unsent", "refused", "other"} => answer'.sent = 0
    BY <1>g DEF PiecesInOrder
  <2>4. answer'.state # "broken" => HeardPieces' + Len(decoder'.output) + Len(decoder'.input) = answer'.sent
    BY <1>7, <1>1, <1>5, <1>g DEF PiecesInOrder
  <2> QED BY <2>1, <2>2, <2>3, <2>4 DEF PiecesInOrder
<1>11. ChunkedSpeechTypeOK'
  BY <1>g, <1>4 DEF ChunkedSpeechTypeOK
<1>12. LastIsFinal'
  BY <1>g DEF LastIsFinal
<1>13. chunkDialect \notin Raw
  BY <1>g DEF RawStages
<1>14. ~decoder.closed
  BY <1>g, <1>13 DEF DecodedStages
<1>15. RawStages' /\ DecodedStages'
  <2>1. synthesis = "returned" => answer.state = "other" /\ chunkDialect \in Looking
    BY <1>13, <1>14 DEF DecodedStages
  <2> QED BY <1>1, <1>13, <1>14, <1>g, <2>1 DEF RawStages, DecodedStages
<1> QED BY <1>10, <1>11, <1>12, <1>15


LEMMA ClosesKeepsChunks == ASSUME ChunkInv, DecoderCloses \/ DecoderFails PROVE ChunkInv'
<1> USE DEF ChunkInv
<1>g. /\ decoder.ended /\ UNCHANGED <<chunkDialect, answer, feeder, held, spoken, synthesis>>
      /\ decoder.started
  BY DEF DecoderCloses, DecoderFails
<1>t. /\ decoder \in [input : Seq(Pieces), ended : BOOLEAN, started : BOOLEAN, output : Seq(Pieces), closed : BOOLEAN]
      /\ <<>> \in Seq(Pieces) /\ Len(<<>>) = 0
  BY DEF ChunkedSpeechTypeOK
<1>1. /\ decoder'.closed /\ decoder'.input = <<>> /\ decoder'.output = decoder.output
      /\ decoder'.ended = decoder.ended /\ decoder'.started = decoder.started
      /\ decoder' \in [input : Seq(Pieces), ended : BOOLEAN, started : BOOLEAN, output : Seq(Pieces), closed : BOOLEAN]
      /\ decoder.input = <<>> \/ answer.state = "broken"
  <2>1. CASE DecoderCloses
    BY <2>1, <1>t DEF DecoderCloses
  <2>2. CASE DecoderFails
    BY <2>2, <1>t DEF DecoderFails
  <2> QED BY <2>1, <2>2
<1>2. HeardPieces' = HeardPieces
  BY <1>g DEF HeardPieces
<1>3. PiecesInOrder'
  <2>1. \A k \in 1..Len(decoder'.input) : decoder'.input[k] = HeardPieces' + Len(decoder'.output) + k
    BY <1>1, <1>t
  <2>2. \A k \in 1..Len(decoder'.output) : decoder'.output[k] = HeardPieces' + k
    BY <1>1, <1>2 DEF PiecesInOrder
  <2>3. /\ \A k \in 1..Len(spoken') : spoken'[k].piece = k
        /\ held' # 0 => held' = Len(spoken') + 1
        /\ answer'.state \in {"unsent", "refused", "other"} => answer'.sent = 0
    BY <1>g DEF PiecesInOrder
  <2>4. answer'.state # "broken" => HeardPieces' + Len(decoder'.output) + Len(decoder'.input) = answer'.sent
    BY <1>1, <1>2, <1>g DEF PiecesInOrder
  <2> QED BY <2>1, <2>2, <2>3, <2>4 DEF PiecesInOrder
<1>4. ChunkedSpeechTypeOK'
  BY <1>g, <1>1 DEF ChunkedSpeechTypeOK
<1>5. LastIsFinal'
  BY <1>g DEF LastIsFinal
<1>6. chunkDialect \notin Raw
  BY <1>g DEF RawStages
<1>7. RawStages' /\ DecodedStages'
  <2>1. synthesis = "returned" => \/ answer.state = "other" /\ chunkDialect \in Looking
                                  \/ decoder.output = <<>> /\ (chunkDialect = "aws" => feeder # "failed")
    BY <1>6 DEF DecodedStages
  <2>2. feeder \in {"ended", "failed"}
    BY <1>6, <1>g DEF DecodedStages
  <2> QED BY <1>1, <1>6, <1>g, <2>1, <2>2 DEF RawStages, DecodedStages
<1> QED BY <1>3, <1>4, <1>5, <1>7

LEMMA ReadsKeepsChunks == ASSUME ChunkInv, ReadsFrame PROVE ChunkInv'
<1> USE DEF ChunkInv
<1> DEFINE h == Head(decoder.output)
           o == Tail(decoder.output)
<1>g. /\ synthesis = "runs" /\ decoder.output # <<>> /\ decoder' = [decoder EXCEPT !.output = Tail(@)] /\ Push(h)
      /\ UNCHANGED <<chunkDialect, answer, feeder, synthesis>>
  BY DEF ReadsFrame
<1>t. /\ decoder \in [input : Seq(Pieces), ended : BOOLEAN, started : BOOLEAN, output : Seq(Pieces), closed : BOOLEAN]
      /\ decoder.output \in Seq(Pieces)
  BY DEF ChunkedSpeechTypeOK
<1>n. HeardPieces \in Nat /\ Len(decoder.output) \in Nat /\ Len(decoder.input) \in Nat
  BY ChunkTypes
<1>1. /\ decoder'.output = o /\ decoder'.input = decoder.input /\ decoder'.started = decoder.started
      /\ decoder'.ended = decoder.ended /\ decoder'.closed = decoder.closed
  BY <1>g, <1>t
<1>2. /\ o \in Seq(Pieces) /\ h \in Pieces /\ Len(o) = Len(decoder.output) - 1 /\ Len(decoder.output) # 0
      /\ h = decoder.output[1] /\ \A k \in 1..Len(o) : o[k] = decoder.output[k + 1]
  BY <1>g, <1>t, HeadTailProperties, EmptySeq
<1>3. decoder' \in [input : Seq(Pieces), ended : BOOLEAN, started : BOOLEAN, output : Seq(Pieces), closed : BOOLEAN]
  BY <1>g, <1>2, <1>t
<1> HIDE DEF h, o
<1>4. h = HeardPieces + 1
  <2>1. 1 \in 1..Len(decoder.output)
    BY <1>2, <1>n
  <2> QED BY <2>1, <1>2 DEF PiecesInOrder
<1>5. /\ spoken' \in Seq(Answered) /\ held' \in 0..MaxPieces
      /\ \A k \in 1..Len(spoken') : spoken'[k].piece = k
      /\ held' # 0 /\ held' = Len(spoken') + 1 /\ HeardPieces' = HeardPieces + 1
      /\ LastIsFinal'
  BY <1>2, <1>4, <1>g, PushesNext
<1>6. Len(o) \in Nat /\ Len(decoder.output) = Len(o) + 1
  <2>1. \A a \in Nat : a # 0 => a = (a - 1) + 1
    OBVIOUS
  <2> QED BY <2>1, <1>2, <1>n, LenProperties
<1>7. HeardPieces' + Len(o) = HeardPieces + Len(decoder.output)
  <2>1. \A a, b \in Nat : (a + 1) + b = a + (b + 1)
    OBVIOUS
  <2>2. HeardPieces' = HeardPieces + 1
    BY <1>5
  <2> QED BY <2>1, <2>2, <1>6, <1>n
<1>8. PiecesInOrder'
  <2>1. \A k \in 1..Len(decoder'.input) : decoder'.input[k] = HeardPieces' + Len(decoder'.output) + k
    BY <1>7, <1>1 DEF PiecesInOrder
  <2>2. \A k \in 1..Len(decoder'.output) : decoder'.output[k] = HeardPieces' + k
    <3> SUFFICES ASSUME NEW k \in 1..Len(o) PROVE o[k] = HeardPieces' + k
      BY <1>1
    <3>1. k + 1 \in 1..Len(decoder.output) /\ k \in Nat
      BY <1>6
    <3>2. o[k] = HeardPieces + (k + 1)
      BY <3>1, <1>2 DEF PiecesInOrder
    <3>3. \A a, b \in Nat : a + (b + 1) = (a + 1) + b
      OBVIOUS
    <3> QED BY <3>1, <3>2, <3>3, <1>5, <1>n
  <2>3. /\ \A k \in 1..Len(spoken') : spoken'[k].piece = k
        /\ held' # 0 => held' = Len(spoken') + 1
        /\ answer'.state \in {"unsent", "refused", "other"} => answer'.sent = 0
    BY <1>g, <1>5 DEF PiecesInOrder
  <2>4. answer'.state # "broken" => HeardPieces' + Len(decoder'.output) + Len(decoder'.input) = answer'.sent
    BY <1>1, <1>7, <1>g DEF PiecesInOrder
  <2> QED BY <2>1, <2>2, <2>3, <2>4 DEF PiecesInOrder
<1>9. ChunkedSpeechTypeOK'
  BY <1>g, <1>3, <1>5 DEF ChunkedSpeechTypeOK, Answered
<1>10. chunkDialect \notin Raw
  BY <1>g DEF RawStages
<1>11. RawStages' /\ DecodedStages'
  BY <1>1, <1>10, <1>g DEF RawStages, DecodedStages
<1> QED BY <1>5, <1>8, <1>9, <1>11

\* The end of what is read: the rest is said, and nothing is left to be decoded.
LEMMA FlushKeepsOrder ==
    ASSUME ChunkedSpeechTypeOK, PiecesInOrder, LastIsFinal, synthesis = "runs", synthesis' # "runs",
           UNCHANGED chunkDialect, FlushHeld, answer'.sent = answer.sent,
           answer'.state = answer.state \/ answer.state \notin {"unsent", "refused", "other", "broken"},
           answer'.state \in {answer.state, "whole", "broken"},
           decoder'.input = decoder.input, decoder'.output = decoder.output
    PROVE  /\ PiecesInOrder' /\ LastIsFinal' /\ held' = 0
           /\ spoken' \in Seq(Answered) /\ held' \in 0..MaxPieces
<1>1. /\ spoken' \in Seq(Answered) /\ held' \in 0..MaxPieces
      /\ \A k \in 1..Len(spoken') : spoken'[k].piece = k
      /\ held' = 0 /\ HeardPieces' = HeardPieces /\ LastIsFinal'
  BY FlushesLast
<1>2. \A k \in 1..Len(decoder'.input) : decoder'.input[k] = HeardPieces' + Len(decoder'.output) + k
  BY <1>1 DEF PiecesInOrder
<1>3. \A k \in 1..Len(decoder'.output) : decoder'.output[k] = HeardPieces' + k
  BY <1>1 DEF PiecesInOrder
<1>4. answer'.state # "broken" => HeardPieces' + Len(decoder'.output) + Len(decoder'.input) = answer'.sent
  BY <1>1 DEF PiecesInOrder
<1>5. answer'.state \in {"unsent", "refused", "other"} => answer'.sent = 0
  BY DEF PiecesInOrder
<1> QED BY <1>1, <1>2, <1>3, <1>4, <1>5 DEF PiecesInOrder

LEMMA ReadsEndKeepsChunks == ASSUME ChunkInv, ReadsEnd PROVE ChunkInv'
<1> USE DEF ChunkInv
<1>g. /\ synthesis = "runs" /\ decoder.output = <<>> /\ decoder.closed /\ FlushHeld
      /\ UNCHANGED <<chunkDialect, answer, feeder, decoder>>
  BY DEF ReadsEnd
<1>1. /\ synthesis' \in {"returned", "failed"}
      /\ synthesis' = "returned" /\ chunkDialect = "aws" => feeder # "failed"
  <2>1. chunkDialect \notin Raw /\ chunkDialect \in ChunkDialects
    BY <1>g DEF RawStages, ChunkedSpeechTypeOK
  <2>2. chunkDialect \in {"elevenlabs", "rime", "groq", "openai", "playai", "aws", "google"}
    BY <2>1, ChunkedSpeechAssumption DEF Raw
  <2> QED BY <2>2 DEF ReadsEnd, AwsReadsEnd, ElevenLabsReadsEnd, RimeReadsEnd, GroqReadsEnd, OpenAIReadsEnd,
                      PlayAIReadsEnd, GoogleReadsEnd
<1>2. /\ PiecesInOrder' /\ LastIsFinal' /\ held' = 0
      /\ spoken' \in Seq(Answered) /\ held' \in 0..MaxPieces
  BY <1>1, <1>g, FlushKeepsOrder
<1>3. ChunkedSpeechTypeOK'
  BY <1>1, <1>2, <1>g DEF ChunkedSpeechTypeOK, Answered
<1>4. RawStages' /\ DecodedStages'
  <2>1. chunkDialect \notin Raw
    BY <1>g DEF RawStages
  <2> QED BY <1>1, <1>g, <2>1 DEF RawStages, DecodedStages
<1> QED BY <1>2, <1>3, <1>4

\* Samples: the rest is said, as whole or, by azure, before the error; the others end their decoder.
LEMMA AnswerKeepsChunks == ASSUME ChunkInv, AnswerEnds \/ AnswerBreaks PROVE ChunkInv'
<1> USE DEF ChunkInv
<1>t. /\ answer \in [state : {"unsent", "comes", "whole", "broken", "refused", "other"}, sent : 0..MaxPieces]
      /\ decoder \in [input : Seq(Pieces), ended : BOOLEAN, started : BOOLEAN, output : Seq(Pieces), closed : BOOLEAN]
      /\ chunkDialect \in ChunkDialects
  BY DEF ChunkedSpeechTypeOK
<1>g. PICK st \in {"whole", "broken"} :
        /\ answer.state = "comes" /\ answer' = [answer EXCEPT !.state = st] /\ UNCHANGED chunkDialect
        /\ \/ /\ chunkDialect \in Raw /\ UNCHANGED <<feeder, decoder>>
              /\ \/ st = "whole" /\ FlushHeld /\ synthesis' = "returned"
                 \/ st = "broken" /\ synthesis' = "failed" /\ (FlushHeld \/ UNCHANGED <<held, spoken>>)
           \/ /\ chunkDialect \notin Raw /\ DecoderEndInput /\ UNCHANGED <<held, spoken, synthesis>>
              /\ \/ st = "whole" /\ feeder' = "ended"
                 \/ st = "broken" /\ feeder' = "failed" /\ chunkDialect # "google"
  <2>1. CASE AnswerEnds
    BY <2>1, ChunkedSpeechAssumption, <1>t DEF AnswerEnds, CartesiaEnds, NeuphonicEnds, DeepgramEnds, AzureEnds, FeederEnds, Raw
  <2>2. CASE AnswerBreaks
    BY <2>2, ChunkedSpeechAssumption, <1>t DEF AnswerBreaks, AzureBreaks, RawBreaks, FeederBreaks, Raw
  <2> QED BY <2>1, <2>2
<1>a. /\ answer'.state = st /\ answer'.sent = answer.sent
      /\ answer' \in [state : {"unsent", "comes", "whole", "broken", "refused", "other"}, sent : 0..MaxPieces]
  BY <1>g, <1>t
<1>1. CASE chunkDialect \in Raw
  <2>1. synthesis = "runs" /\ synthesis' \in {"returned", "failed"} /\ UNCHANGED <<feeder, decoder>>
        /\ (synthesis' = "returned" <=> st = "whole")
    BY <1>1, <1>g DEF RawStages
  <2>2. RawStages' /\ DecodedStages'
    BY <1>1, <1>g, <1>a, <2>1 DEF RawStages, DecodedStages
  <2>3. CASE FlushHeld
    <3>1. /\ PiecesInOrder' /\ LastIsFinal' /\ held' = 0
          /\ spoken' \in Seq(Answered) /\ held' \in 0..MaxPieces
      BY <2>1, <2>3, <1>g, <1>a, FlushKeepsOrder
    <3>2. ChunkedSpeechTypeOK'
      BY <2>1, <3>1, <1>a, <1>g DEF ChunkedSpeechTypeOK, Answered
    <3> QED BY <3>1, <3>2, <2>2
  <2>4. CASE st = "broken" /\ UNCHANGED <<held, spoken>> /\ synthesis' = "failed"
    <3>1. HeardPieces' = HeardPieces
      BY <2>4 DEF HeardPieces
    <3>2. PiecesInOrder'
      BY <2>1, <2>4, <3>1, <1>a DEF PiecesInOrder
    <3>3. LastIsFinal'
      BY <2>1, <2>4 DEF LastIsFinal
    <3>4. ChunkedSpeechTypeOK'
      BY <2>1, <2>4, <1>a, <1>g DEF ChunkedSpeechTypeOK
    <3> QED BY <3>2, <3>3, <3>4, <2>2
  <2> QED BY <1>1, <1>g, <2>3, <2>4
<1>2. CASE chunkDialect \notin Raw
  <2>1. /\ DecoderEndInput /\ UNCHANGED <<held, spoken, synthesis>>
        /\ \/ st = "whole" /\ feeder' = "ended"
           \/ st = "broken" /\ feeder' = "failed" /\ chunkDialect # "google"
    BY <1>2, <1>g
  <2>2. /\ decoder'.input = decoder.input /\ decoder'.output = decoder.output /\ decoder'.ended
        /\ decoder'.closed = decoder.closed
        /\ decoder' \in [input : Seq(Pieces), ended : BOOLEAN, started : BOOLEAN, output : Seq(Pieces), closed : BOOLEAN]
    BY <2>1, <1>t DEF DecoderEndInput
  <2>3. HeardPieces' = HeardPieces
    BY <2>1 DEF HeardPieces
  <2>4. PiecesInOrder'
    BY <2>1, <2>2, <2>3, <1>a, <1>g DEF PiecesInOrder
  <2>5. LastIsFinal'
    BY <2>1, <1>g DEF LastIsFinal
  <2>6. ChunkedSpeechTypeOK'
    BY <2>1, <2>2, <1>a, <1>g DEF ChunkedSpeechTypeOK
  <2>7. ~decoder.closed /\ synthesis # "returned"
    BY <1>2, <1>g DEF DecodedStages
  <2>8. RawStages' /\ DecodedStages'
    BY <1>2, <1>g, <1>a, <2>1, <2>2, <2>7 DEF RawStages, DecodedStages
  <2> QED BY <2>4, <2>5, <2>6, <2>8
<1> QED BY <1>1, <1>2

LEMMA ChunkNext == ChunkInv /\ [ChunkedSpeechNext]_chunkVars => ChunkInv'
<1>1. ASSUME ChunkInv, UNCHANGED chunkVars PROVE ChunkInv'
  BY <1>1 DEF chunkVars, ChunkInv, ChunkedSpeechTypeOK, PiecesInOrder, HeardPieces, LastIsFinal, RawStages, DecodedStages
<1> QED BY <1>1, RequestsKeepsChunks, PieceComesKeepsChunks, AnswerKeepsChunks, DecodesKeepsChunks, ClosesKeepsChunks,
           ReadsKeepsChunks, ReadsEndKeepsChunks DEF ChunkedSpeechNext

\* What the invariant says of a synthesis that returned.
LEMMA ChunkInvReturns == ChunkInv => ChunkedSpeechTypeOK /\ ReturnsWholeAnswer
<1> SUFFICES ASSUME ChunkInv PROVE ReturnsWholeAnswer
  BY DEF ChunkInv
<1> USE DEF ChunkInv
<1>t. /\ spoken \in Seq(Answered) /\ Len(spoken) \in Nat /\ DOMAIN spoken = 1..Len(spoken)
      /\ spoken = <<>> <=> Len(spoken) = 0
      /\ Len(decoder.output) \in Nat /\ Len(decoder.input) \in Nat
      /\ decoder.input = <<>> <=> Len(decoder.input) = 0
      /\ decoder.output = <<>> <=> Len(decoder.output) = 0
  BY ChunkTypes
<1>1. \A k \in DOMAIN spoken : spoken[k].piece = k /\ (spoken[k].final => k = Len(spoken))
  BY <1>t DEF PiecesInOrder, LastIsFinal
<1>2. ASSUME synthesis = "returned"
      PROVE  /\ answer.state = "whole" => Len(spoken) = answer.sent
             /\ spoken # <<>> /\ chunkDialect \notin Unmarked => spoken[Len(spoken)].final
             /\ chunkDialect \in Raw \cup {"aws", "google"} => answer.state = "whole"
  <2>1. held = 0 /\ (spoken # <<>> /\ chunkDialect \notin Unmarked => spoken[Len(spoken)].final)
    BY <1>2 DEF LastIsFinal
  <2>2. HeardPieces = Len(spoken)
    BY <2>1 DEF HeardPieces
  <2>3. chunkDialect \in Raw \cup {"aws", "google"} => answer.state = "whole"
    BY <1>2 DEF RawStages, DecodedStages, Looking, ChunkedSpeechTypeOK
  <2>4. ASSUME answer.state = "whole" PROVE decoder.input = <<>> /\ decoder.output = <<>>
    BY <1>2, <2>4 DEF RawStages, DecodedStages
  <2>5. ASSUME answer.state = "whole" PROVE Len(spoken) = answer.sent
    <3>1. HeardPieces + Len(decoder.output) + Len(decoder.input) = answer.sent
      BY <2>5 DEF PiecesInOrder
    <3>2. Len(decoder.output) = 0 /\ Len(decoder.input) = 0
      BY <2>4, <2>5, <1>t
    <3>3. \A a \in Nat : a + 0 + 0 = a
      OBVIOUS
    <3> QED BY <3>1, <3>2, <3>3, <2>2, <1>t
  <2> QED BY <2>1, <2>3, <2>5
<1> QED BY <1>1, <1>2 DEF ReturnsWholeAnswer

(* The synthesis sockets *)

Below(S, T) == \A x \in S, y \in T : x < y

\* The words of a sequence, between its zeros, ascend.
Ascends(s) == \A j, k \in 1..Len(s) : j < k /\ s[j] # 0 /\ s[k] # 0 => s[j] < s[k]

\* Where a word may be: said, or held back by the emitter; sent to the server; in a word stream that is said or to
\* be said; in the input.
OutWords == {audioOut[k].word : k \in 1..Len(audioOut)}
HeardWords == OutWords \cup ({emitterFrame} \ {0})
OnWire == ToSet(ttsWire) \ {0}
LiveSegments == {s \in 1..Len(segments) : s > taken \/ s = saying}
ComingWords == UNION {ToSet(segments[s].words) : s \in LiveSegments}
WaitingWords == ToSet(script.queue) \ {0}
TakenWords == HeardWords \cup OnWire \cup ComingWords

\* The words of the word streams ascend, in each and from one to the next.
LiveInOrder ==
    /\ \A s \in LiveSegments : Ascends(segments[s].words)
    /\ \A s, t \in LiveSegments : s < t => Below(ToSet(segments[s].words), ToSet(segments[t].words))

\* What is further on precedes what comes after it; the input holds the words after those that were taken.
FlowInOrder ==
    /\ \A j, k \in 1..Len(audioOut) : j < k => audioOut[j].word < audioOut[k].word
    /\ emitterFrame # 0 => Below(OutWords, {emitterFrame})
    /\ Ascends(ttsWire) /\ Below(HeardWords, OnWire)
    /\ LiveInOrder
    /\ Below(HeardWords \cup OnWire, ComingWords)
    /\ TakenWords \subseteq 1..WordsTaken
    /\ Ascends(script.queue)
    /\ WordsTaken \in 0..script.pushed /\ WaitingWords = (WordsTaken + 1)..script.pushed

\* The first words, one after the other.
Consecutive == /\ \A k \in 1..Len(audioOut) : audioOut[k].word = k
               /\ emitterFrame # 0 => emitterFrame = Len(audioOut) + 1

\* Without trouble no word is lost, and those that were heard are the first.
NoneLost ==
    ~trouble => /\ TakenWords = 1..WordsTaken
                /\ Consecutive

\* The word stream that is written is the last, that which is said the last one that was taken.
SegmentsInOrder ==
    /\ writing # 0 => writing = Len(segments) /\ writing \in LiveSegments /\ ~segments[writing].ended
    /\ saying # 0 => saying = taken
    /\ ttsSender = "waits" => /\ ttsDialect = "elevenlabs" /\ saying # 0
                              /\ segments[saying].words = <<>> /\ segments[saying].ended
    /\ textOver => script.closed /\ script.queue = <<>> /\ writing = 0
    /\ ttsSender = "done" => textOver /\ saying = 0 /\ taken = Len(segments)
    /\ ttsDialect = "neuphonic" => segments = <<>>
    /\ script.closed /\ script.queue # <<>> => script.queue[Len(script.queue)] = 0
    /\ script.closed /\ writing # 0 /\ ttsDialect # "cartesia" => script.queue # <<>>

\* The frames that are final, and what is held back when nothing is read any more.
FramesEnd ==
    /\ ttsDialect # "elevenlabs" /\ ttsUpdates = 0 =>
           \A k \in 1..Len(audioOut) : audioOut[k].final => k = Len(audioOut) /\ ttsReader = "done"
    /\ ~trouble => /\ emitterFrame = 0 /\ audioOut # <<>> => audioOut[Len(audioOut)].final
                   /\ ttsReader = "done" => emitterFrame = 0

\* How a run ends: with trouble, it fails or is stuck.
RunsEnd ==
    /\ trouble /\ ttsDialect = "elevenlabs" =>
           ttsRun = "failed" \/ (ttsRun = "runs" /\ ttsReader = "stuck" /\ ttsSender = "waits")
    /\ trouble /\ ttsDialect \in {"cartesia", "neuphonic"} => ttsRun = "failed"
    /\ ttsReader = "stuck" => ttsDialect = "elevenlabs"
    /\ ttsRun = "returned" /\ ~trouble => /\ ttsSender = "done" \/ ttsDialect = "playai"
                                          /\ ttsReader = "done" \/ ttsDialect = "elevenlabs"

\* Elevenlabs says one segment after the other, each to its end.
SegmentBySegment ==
    ttsDialect = "elevenlabs" =>
        /\ saying = 0 => ttsWire = <<>> /\ emitterFrame = 0
        /\ ttsReader # "done"
        /\ \A k \in 1..Len(ttsWire) : ttsWire[k] = 0 => k = Len(ttsWire) /\ ttsSender = "waits"

\* The last packet of cartesia and of playai follows all words.
LastPacket ==
    ttsDialect \in {"cartesia", "playai"} =>
        /\ \A k \in 1..Len(ttsWire) : ttsWire[k] = 0 => k = Len(ttsWire) /\ ttsSender = "done"
        /\ ttsReader = "done" /\ ~trouble => ttsSender = "done" /\ ttsWire = <<>>

\* The end of the first segment was sent.
FirstSent == IF ttsDialect = "neuphonic" THEN script.first # 0 ELSE taken > 1 \/ (taken = 1 /\ saying = 0)

\* No zero is before the k-th element of s.
NoneBefore(s, k) == \A j \in 1..Len(s) : j < k => s[j] # 0

\* The words before the first zero of s, if they are read, and they alone, precede the one numbered f.
CutAt(s, f, read) == \A k \in 1..Len(s) : s[k] # 0 => (s[k] < f <=> read /\ NoneBefore(s, k))

\* Deepgram and neuphonic: what is heard is of the first segment, whose words precede the first flush that ended one.
FirstSegmentOnly ==
    ttsDialect \in {"deepgram", "neuphonic"} /\ ~trouble =>
        /\ ttsReader = "reads" => (FirstSent <=> 0 \in ToSet(ttsWire))
        /\ ttsReader = "done" => FirstSent \/ (ttsDialect = "deepgram" /\ ttsSender = "done" /\ segments = <<>>)
        /\ FirstSent => script.first # 0
        /\ ttsDialect = "deepgram" =>
               /\ script.first = 0 => /\ Len(segments) <= 1
                                      /\ segments # <<>> => writing = 1
               /\ script.first # 0 => writing # 1 /\ segments # <<>>
               /\ taken = 0 => ttsWire = <<>> /\ audioOut = <<>> /\ emitterFrame = 0
        /\ script.first # 0 =>
               /\ script.first \in 1..(WordsTaken + 1)
               /\ \A w \in HeardWords : w < script.first
               /\ CutAt(ttsWire, script.first, ttsReader = "reads")
               /\ \A s \in LiveSegments : \A w \in ToSet(segments[s].words) : w < script.first <=> s = 1

\* What every step of a synthesis keeps, whatever the provider.
TtsInv ==
    /\ TtsSocketsTypeOK /\ FlowInOrder /\ NoneLost /\ SegmentsInOrder /\ FramesEnd /\ RunsEnd
    /\ SegmentBySegment /\ LastPacket /\ FirstSegmentOnly

LEMMA AscendsAppend ==
    ASSUME NEW N \in Nat, NEW s \in Seq(0..N), NEW e \in 0..N, Ascends(s), Below(ToSet(s) \ {0}, {e} \ {0})
    PROVE  /\ Append(s, e) \in Seq(0..N) /\ Ascends(Append(s, e))
           /\ ToSet(Append(s, e)) = ToSet(s) \cup {e}
           /\ ToSet(Append(s, e)) \ {0} = (ToSet(s) \ {0}) \cup ({e} \ {0})
<1>1. /\ Append(s, e) \in Seq(0..N) /\ Len(s) \in Nat
      /\ 1..Len(Append(s, e)) = 1..Len(s) \cup {Len(s) + 1} /\ Len(s) + 1 \notin 1..Len(s)
      /\ \A k \in 1..Len(s) : Append(s, e)[k] = s[k] /\ k < Len(s) + 1
      /\ Append(s, e)[Len(s) + 1] = e
  BY AppendAt
<1>2. ToSet(Append(s, e)) = ToSet(s) \cup {e}
  BY AppendElements
<1>3. \A k \in 1..Len(s) : s[k] \in ToSet(s)
  BY ElementsType
<1>4. ASSUME NEW j \in 1..Len(Append(s, e)), NEW k \in 1..Len(Append(s, e)), j < k,
             Append(s, e)[j] # 0, Append(s, e)[k] # 0
      PROVE  Append(s, e)[j] < Append(s, e)[k]
  <2>1. CASE k \in 1..Len(s)
    <3>1. j \in 1..Len(s)
      BY <1>1, <1>4, <2>1
    <3> QED BY <3>1, <2>1, <1>1, <1>4 DEF Ascends
  <2>2. CASE k = Len(s) + 1
    <3>1. j \in 1..Len(s)
      BY <1>1, <1>4, <2>2
    <3> QED BY <3>1, <2>2, <1>1, <1>3, <1>4 DEF Below
  <2> QED BY <1>1, <2>1, <2>2
<1> QED BY <1>1, <1>2, <1>4 DEF Ascends

LEMMA AscendsTail ==
    ASSUME NEW N \in Nat, NEW s \in Seq(0..N), s # <<>>, Ascends(s)
    PROVE  /\ Tail(s) \in Seq(0..N) /\ Ascends(Tail(s)) /\ Head(s) \in 0..N
           /\ ToSet(s) = ToSet(Tail(s)) \cup {Head(s)}
           /\ ToSet(s) \ {0} = (ToSet(Tail(s)) \ {0}) \cup ({Head(s)} \ {0})
           /\ Below({Head(s)} \ {0}, ToSet(Tail(s)) \ {0})
<1>1. /\ Tail(s) \in Seq(0..N) /\ Head(s) = s[1] /\ Head(s) \in 0..N /\ 1 \in 1..Len(s) /\ Len(s) \in Nat
      /\ \A k \in 1..Len(Tail(s)) : /\ Tail(s)[k] = s[k + 1] /\ k + 1 \in 1..Len(s) /\ k + 1 # 1
                                    /\ \A i \in 1..Len(Tail(s)) : (i # k => i + 1 # k + 1) /\ (i < k <=> i + 1 < k + 1)
  BY TailAt
<1>2. ToSet(s) = ToSet(Tail(s)) \cup {Head(s)}
  BY TailElements
<1>3. Ascends(Tail(s))
  BY <1>1 DEF Ascends
<1>4. ToSet(Tail(s)) = {Tail(s)[k] : k \in 1..Len(Tail(s))}
  BY <1>1, LenProperties DEF ToSet
<1>5. \A k \in 1..Len(s) : k # 1 => 1 < k
  OBVIOUS
<1>6. Below({Head(s)} \ {0}, ToSet(Tail(s)) \ {0})
  BY <1>1, <1>4, <1>5 DEF Ascends, Below
<1> QED BY <1>1, <1>2, <1>3, <1>6

\* Which number the words that are left follow.
LEMMA TakenIs ==
    ASSUME NEW p \in Nat, NEW n \in 0..p, NEW Q, Q = (n + 1)..p
    PROVE  (CHOOSE m \in 0..p : Q = (m + 1)..p) = n
<1>1. ASSUME NEW m \in 0..p, Q = (m + 1)..p PROVE m = n
  <2>1. CASE m < n
    <3>1. m + 1 \in (m + 1)..p /\ m + 1 \notin (n + 1)..p
      BY <2>1
    <3> QED BY <3>1, <1>1
  <2>2. CASE n < m
    <3>1. n + 1 \in (n + 1)..p /\ n + 1 \notin (m + 1)..p
      BY <2>2
    <3> QED BY <3>1, <1>1
  <2> QED BY <2>1, <2>2
<1>2. \E m \in 0..p : Q = (m + 1)..p
  OBVIOUS
<1> DEFINE c == CHOOSE m \in 0..p : Q = (m + 1)..p
<1>3. c \in 0..p /\ Q = (c + 1)..p
  BY <1>2
<1> QED BY <1>1, <1>3

LEMMA WordsTakenIs ==
    ASSUME script'.pushed \in Nat, NEW n \in 0..script'.pushed, WaitingWords' = (n + 1)..script'.pushed
    PROVE  WordsTaken' = n
<1> PICK q : q = WaitingWords' OBVIOUS
<1> PICK p : p = script'.pushed OBVIOUS
<1>1. (CHOOSE m \in 0..p : q = (m + 1)..p) = n
  BY TakenIs
<1> QED BY <1>1 DEF WordsTaken, WaitingWords, ToSet

\* The cut after Append() and Tail().
LEMMA CutAppend ==
    ASSUME NEW N \in Nat, NEW s \in Seq(0..N), NEW e \in 0..N, NEW f, NEW read, CutAt(s, f, read),
           e # 0 => (e < f <=> read /\ 0 \notin ToSet(s))
    PROVE  CutAt(Append(s, e), f, read)
<1>1. /\ Append(s, e) \in Seq(0..N) /\ Len(s) \in Nat
      /\ 1..Len(Append(s, e)) = 1..Len(s) \cup {Len(s) + 1} /\ Len(s) + 1 \notin 1..Len(s)
      /\ \A k \in 1..Len(s) : Append(s, e)[k] = s[k] /\ k < Len(s) + 1
      /\ Append(s, e)[Len(s) + 1] = e
  BY AppendAt
<1>2. ToSet(s) = {s[k] : k \in 1..Len(s)}
  BY LenProperties DEF ToSet
<1>3. ASSUME NEW k \in 1..Len(s) PROVE NoneBefore(Append(s, e), k) <=> NoneBefore(s, k)
  <2>1. \A j \in 1..Len(Append(s, e)) : j < k => j \in 1..Len(s)
    BY <1>1
  <2> QED BY <2>1, <1>1 DEF NoneBefore
<1>4. NoneBefore(Append(s, e), Len(s) + 1) <=> 0 \notin ToSet(s)
  <2>1. \A j \in 1..Len(Append(s, e)) : j < Len(s) + 1 <=> j \in 1..Len(s)
    BY <1>1
  <2> QED BY <2>1, <1>1, <1>2 DEF NoneBefore
<1> SUFFICES ASSUME NEW k \in 1..Len(Append(s, e)), Append(s, e)[k] # 0
             PROVE  Append(s, e)[k] < f <=> read /\ NoneBefore(Append(s, e), k)
  BY DEF CutAt
<1>5. CASE k \in 1..Len(s)
  BY <1>5, <1>1, <1>3 DEF CutAt
<1>6. CASE k = Len(s) + 1
  BY <1>6, <1>1, <1>4
<1> QED BY <1>1, <1>5, <1>6

LEMMA CutTail ==
    ASSUME NEW N \in Nat, NEW s \in Seq(0..N), s # <<>>, NEW f, NEW read, CutAt(s, f, read)
    PROVE  /\ Head(s) # 0 => CutAt(Tail(s), f, read) /\ (Head(s) < f <=> read)
           /\ Head(s) = 0 => CutAt(Tail(s), f, FALSE)
<1>1. /\ Tail(s) \in Seq(0..N) /\ Head(s) = s[1] /\ Head(s) \in 0..N /\ 1 \in 1..Len(s) /\ Len(s) \in Nat
      /\ \A k \in 1..Len(Tail(s)) : /\ Tail(s)[k] = s[k + 1] /\ k + 1 \in 1..Len(s) /\ k + 1 # 1
                                    /\ \A i \in 1..Len(Tail(s)) : (i # k => i + 1 # k + 1) /\ (i < k <=> i + 1 < k + 1)
  BY TailAt
<1>2. Len(Tail(s)) = Len(s) - 1
  BY HeadTailProperties
<1>3. \A j \in 1..Len(s) : j # 1 => j - 1 \in 1..Len(Tail(s)) /\ (j - 1) + 1 = j /\ 1 < j
  BY <1>1, <1>2
<1>4. NoneBefore(s, 1)
  BY DEF NoneBefore
<1>5. ASSUME NEW k \in 1..Len(Tail(s)) PROVE NoneBefore(s, k + 1) <=> Head(s) # 0 /\ NoneBefore(Tail(s), k)
  <2>1. 1 < k + 1
    BY <1>1, <1>3
  <2>2. ASSUME NoneBefore(s, k + 1), NEW j \in 1..Len(Tail(s)), j < k PROVE Tail(s)[j] # 0
    BY <2>2, <1>1 DEF NoneBefore
  <2>3. ASSUME NoneBefore(s, k + 1) PROVE Head(s) # 0
    BY <2>1, <2>3, <1>1 DEF NoneBefore
  <2>4. ASSUME Head(s) # 0, NoneBefore(Tail(s), k), NEW j \in 1..Len(s), j < k + 1 PROVE s[j] # 0
    <3>1. CASE j = 1
      BY <3>1, <2>4, <1>1
    <3>2. CASE j # 1
      <4>1. j - 1 \in 1..Len(Tail(s)) /\ j - 1 < k /\ Tail(s)[j - 1] = s[j]
        BY <3>2, <2>4, <1>1, <1>3
      <4> QED BY <4>1, <2>4 DEF NoneBefore
    <3> QED BY <3>1, <3>2
  <2> QED BY <2>2, <2>3, <2>4 DEF NoneBefore
<1>6. ASSUME Head(s) # 0 PROVE Head(s) < f <=> read
  BY <1>6, <1>1, <1>4 DEF CutAt
<1>7. ASSUME Head(s) # 0 PROVE CutAt(Tail(s), f, read)
  BY <1>7, <1>1, <1>5 DEF CutAt
<1>8. ASSUME Head(s) = 0 PROVE CutAt(Tail(s), f, FALSE)
  BY <1>8, <1>1, <1>5 DEF CutAt
<1> QED BY <1>6, <1>7, <1>8

LEMMA TtsTypes ==
    ASSUME TtsSocketsTypeOK
    PROVE  /\ MaxWordsSaid \in Nat
           /\ script.queue \in Seq(0..MaxWordsSaid) /\ script.pushed \in 0..MaxWordsSaid /\ script.closed \in BOOLEAN
           /\ script.first \in 0..(MaxWordsSaid + 1)
           /\ segments \in Seq([words : Seq(ScriptWords), ended : BOOLEAN]) /\ Len(segments) \in Nat
           /\ DOMAIN segments = 1..Len(segments)
           /\ \A s \in 1..Len(segments) : /\ segments[s] \in [words : Seq(ScriptWords), ended : BOOLEAN]
                                          /\ segments[s].words \in Seq(ScriptWords)
                                          /\ segments[s].words \in Seq(0..MaxWordsSaid)
                                          /\ ToSet(segments[s].words) \subseteq ScriptWords
           /\ writing \in 0..Len(segments) /\ saying \in 0..taken /\ taken \in 0..Len(segments)
           /\ writing \in Nat /\ saying \in Nat /\ taken \in Nat
           /\ ttsWire \in Seq(0..MaxWordsSaid) /\ Len(ttsWire) \in Nat /\ ToSet(ttsWire) \subseteq 0..MaxWordsSaid
           /\ ToSet(ttsWire) = {ttsWire[k] : k \in 1..Len(ttsWire)}
           /\ emitterFrame \in 0..MaxWordsSaid
           /\ audioOut \in Seq([word : ScriptWords, final : BOOLEAN]) /\ Len(audioOut) \in Nat
           /\ DOMAIN audioOut = 1..Len(audioOut)
           /\ \A k \in 1..Len(audioOut) : audioOut[k].word \in ScriptWords
           /\ OutWords \subseteq ScriptWords /\ HeardWords \subseteq ScriptWords /\ OnWire \subseteq ScriptWords
           /\ ComingWords \subseteq ScriptWords /\ WaitingWords \subseteq ScriptWords
           /\ ScriptWords \subseteq Nat /\ 0 \notin ScriptWords
<1>1. MaxWordsSaid \in Nat
  BY TtsSocketsAssumption
<1>2. /\ script.queue \in Seq(0..MaxWordsSaid) /\ script.pushed \in 0..MaxWordsSaid /\ script.closed \in BOOLEAN
      /\ script.first \in 0..(MaxWordsSaid + 1)
      /\ segments \in Seq([words : Seq(ScriptWords), ended : BOOLEAN])
      /\ writing \in 0..Len(segments) /\ saying \in 0..taken /\ taken \in 0..Len(segments)
      /\ ttsWire \in Seq(0..MaxWordsSaid) /\ emitterFrame \in 0..MaxWordsSaid
      /\ audioOut \in Seq([word : ScriptWords, final : BOOLEAN])
  BY DEF TtsSocketsTypeOK
<1>3. ScriptWords \subseteq Nat /\ 0 \notin ScriptWords /\ ScriptWords = (0..MaxWordsSaid) \ {0}
      /\ ScriptWords \subseteq 0..MaxWordsSaid
  BY <1>1 DEF ScriptWords
<1>4. /\ Len(segments) \in Nat /\ DOMAIN segments = 1..Len(segments)
      /\ \A s \in 1..Len(segments) : segments[s] \in [words : Seq(ScriptWords), ended : BOOLEAN]
  BY <1>2, ElementsType
<1>5. /\ Len(audioOut) \in Nat /\ DOMAIN audioOut = 1..Len(audioOut)
      /\ \A k \in 1..Len(audioOut) : audioOut[k] \in [word : ScriptWords, final : BOOLEAN]
  BY <1>2, ElementsType
<1>6. Len(ttsWire) \in Nat /\ DOMAIN ttsWire = 1..Len(ttsWire) /\ ToSet(ttsWire) \subseteq 0..MaxWordsSaid
  BY <1>2, ElementsType
<1>7. ToSet(script.queue) \subseteq 0..MaxWordsSaid
  BY <1>2, ElementsType
<1>8. ASSUME NEW s \in 1..Len(segments)
      PROVE  /\ segments[s].words \in Seq(ScriptWords) /\ segments[s].words \in Seq(0..MaxWordsSaid)
             /\ ToSet(segments[s].words) \subseteq ScriptWords
  <2>1. segments[s].words \in Seq(ScriptWords)
    BY <1>4
  <2>2. ToSet(segments[s].words) \subseteq ScriptWords
    BY <2>1, ElementsType
  <2>3. segments[s].words \in Seq(0..MaxWordsSaid)
    <3> DEFINE n == Len(segments[s].words)
    <3>1. n \in Nat /\ segments[s].words \in [1..n -> ScriptWords]
      BY <2>1, LenProperties
    <3>2. segments[s].words \in [1..n -> 0..MaxWordsSaid]
      BY <3>1, <1>3
    <3> QED BY <3>1, <3>2, SeqDef
  <2> QED BY <2>1, <2>2, <2>3
<1>9. \A k \in 1..Len(audioOut) : audioOut[k].word \in ScriptWords
  BY <1>5
<1>10. ToSet(ttsWire) = {ttsWire[k] : k \in 1..Len(ttsWire)}
  BY <1>6 DEF ToSet
<1>11. OutWords \subseteq ScriptWords /\ HeardWords \subseteq ScriptWords
  BY <1>9, <1>2, <1>3 DEF OutWords, HeardWords
<1>12. OnWire \subseteq ScriptWords /\ WaitingWords \subseteq ScriptWords
  BY <1>6, <1>7, <1>3 DEF OnWire, WaitingWords
<1>13. ComingWords \subseteq ScriptWords
  BY <1>8 DEF ComingWords, LiveSegments
<1>14. saying \in Nat /\ taken \in Nat /\ writing \in Nat
  BY <1>2, <1>4
<1> QED BY <1>1, <1>2, <1>3, <1>4, <1>5, <1>6, <1>8, <1>9, <1>10, <1>11, <1>12, <1>13, <1>14

\* What is emitted is the frame that was held back, if there is one.
LEMMA EmitsFrame ==
    ASSUME TtsSocketsTypeOK, FlowInOrder, NEW final \in BOOLEAN, audioOut' = Emitted(final)
    PROVE  /\ audioOut' \in Seq([word : ScriptWords, final : BOOLEAN]) /\ OutWords' = HeardWords
           /\ \A j, k \in 1..Len(audioOut') : j < k => audioOut'[j].word < audioOut'[k].word
           /\ emitterFrame = 0 => audioOut' = audioOut
           /\ emitterFrame # 0 =>
                  /\ Len(audioOut') = Len(audioOut) + 1 /\ 1..Len(audioOut') = 1..Len(audioOut) \cup {Len(audioOut')}
                  /\ \A k \in 1..Len(audioOut) : audioOut'[k] = audioOut[k]
                  /\ audioOut'[Len(audioOut')].word = emitterFrame /\ audioOut'[Len(audioOut')].final = final
<1>t. /\ audioOut \in Seq([word : ScriptWords, final : BOOLEAN]) /\ emitterFrame \in 0..MaxWordsSaid
      /\ 0 \notin ScriptWords /\ MaxWordsSaid \in Nat
  BY TtsTypes
<1>2. CASE emitterFrame = 0
  <2>1. audioOut' = audioOut
    BY <1>2 DEF Emitted
  <2>2. OutWords' = OutWords /\ HeardWords = OutWords
    BY <2>1, <1>2 DEF OutWords, HeardWords
  <2> QED BY <1>2, <1>t, <2>1, <2>2 DEF FlowInOrder
<1>3. CASE emitterFrame # 0
  <2> DEFINE e == [word |-> emitterFrame, final |-> final]
  <2>1. audioOut' = Append(audioOut, e)
    BY <1>3 DEF Emitted
  <2>2. e \in [word : ScriptWords, final : BOOLEAN] /\ e.word = emitterFrame /\ e.final = final
    BY <1>3, <1>t DEF ScriptWords
  <2> HIDE DEF e
  <2>3. /\ audioOut' \in Seq([word : ScriptWords, final : BOOLEAN]) /\ Len(audioOut) \in Nat
        /\ 1..Len(audioOut') = 1..Len(audioOut) \cup {Len(audioOut) + 1} /\ Len(audioOut) + 1 \notin 1..Len(audioOut)
        /\ \A k \in 1..Len(audioOut) : audioOut'[k] = audioOut[k] /\ k < Len(audioOut) + 1
        /\ audioOut'[Len(audioOut) + 1] = e
    BY <2>1, <2>2, <1>t, AppendAt
  <2>4. Len(audioOut') = Len(audioOut) + 1
    BY <2>1, <2>2, <1>t, AppendProperties
  <2>5. OutWords' = OutWords \cup {emitterFrame}
    <3>1. OutWords' = {audioOut'[k].word : k \in 1..Len(audioOut) \cup {Len(audioOut) + 1}}
      BY <2>3 DEF OutWords
    <3> QED BY <3>1, <2>2, <2>3 DEF OutWords
  <2>6. OutWords' = HeardWords
    BY <2>5, <1>3 DEF HeardWords
  <2>7. \A k \in 1..Len(audioOut) : audioOut[k].word < emitterFrame
    BY <1>3 DEF FlowInOrder, Below, OutWords
  <2>8. ASSUME NEW j \in 1..Len(audioOut'), NEW k \in 1..Len(audioOut'), j < k
        PROVE  audioOut'[j].word < audioOut'[k].word
    <3>1. CASE k \in 1..Len(audioOut)
      <4>1. j \in 1..Len(audioOut)
        BY <2>3, <2>8, <3>1
      <4> QED BY <4>1, <3>1, <2>3, <2>8 DEF FlowInOrder
    <3>2. CASE k = Len(audioOut) + 1
      <4>1. j \in 1..Len(audioOut)
        BY <2>3, <2>8, <3>2
      <4> QED BY <4>1, <3>2, <2>2, <2>3, <2>7
    <3> QED BY <2>3, <3>1, <3>2
  <2> QED BY <1>3, <2>2, <2>3, <2>4, <2>6, <2>8
<1> QED BY <1>2, <1>3

\* A word that is heard takes the place of the one the emitter held back, which is said.
LEMMA HearsWord ==
    ASSUME TtsSocketsTypeOK, FlowInOrder, NEW w \in ScriptWords, EmitterPush(w), Below(HeardWords, {w})
    PROVE  /\ audioOut' \in Seq([word : ScriptWords, final : BOOLEAN]) /\ emitterFrame' = w
           /\ HeardWords' = HeardWords \cup {w} /\ Below(OutWords', {emitterFrame'})
           /\ \A j, k \in 1..Len(audioOut') : j < k => audioOut'[j].word < audioOut'[k].word
           /\ (\A k \in 1..Len(audioOut) : ~audioOut[k].final) => \A k \in 1..Len(audioOut') : ~audioOut'[k].final
           /\ Consecutive /\ w = Len(audioOut) + (IF emitterFrame = 0 THEN 0 ELSE 1) + 1 => Consecutive'
<1>t. 0 \notin ScriptWords /\ Len(audioOut) \in Nat
  BY TtsTypes
<1>1. audioOut' = Emitted(FALSE) /\ emitterFrame' = w /\ w # 0
  BY <1>t DEF EmitterPush
<1>2. /\ audioOut' \in Seq([word : ScriptWords, final : BOOLEAN]) /\ OutWords' = HeardWords
      /\ \A j, k \in 1..Len(audioOut') : j < k => audioOut'[j].word < audioOut'[k].word
      /\ emitterFrame = 0 => audioOut' = audioOut
      /\ emitterFrame # 0 =>
             /\ Len(audioOut') = Len(audioOut) + 1 /\ 1..Len(audioOut') = 1..Len(audioOut) \cup {Len(audioOut')}
             /\ \A k \in 1..Len(audioOut) : audioOut'[k] = audioOut[k]
             /\ audioOut'[Len(audioOut')].word = emitterFrame /\ audioOut'[Len(audioOut')].final = FALSE
  BY <1>1, EmitsFrame
<1>3. HeardWords' = HeardWords \cup {w} /\ Below(OutWords', {emitterFrame'})
  BY <1>1, <1>2 DEF HeardWords
<1>4. (\A k \in 1..Len(audioOut) : ~audioOut[k].final) => \A k \in 1..Len(audioOut') : ~audioOut'[k].final
  BY <1>2
<1>5. ASSUME Consecutive, w = Len(audioOut) + (IF emitterFrame = 0 THEN 0 ELSE 1) + 1 PROVE Consecutive'
  <2>1. CASE emitterFrame = 0
    <3>1. audioOut' = audioOut /\ emitterFrame' = w
      BY <2>1, <1>1, <1>2
    <3>2. w = Len(audioOut) + 1
      <4>1. w = Len(audioOut) + 0 + 1
        BY <2>1, <1>5
      <4> QED BY <4>1, <1>t
    <3> QED BY <3>1, <3>2, <1>5 DEF Consecutive
  <2>2. CASE emitterFrame # 0
    <3>1. w = Len(audioOut') + 1
      BY <2>2, <1>2, <1>5, <1>t
    <3>2. \A k \in 1..Len(audioOut') : audioOut'[k].word = k
      BY <2>2, <1>2, <1>5 DEF Consecutive
    <3> QED BY <3>1, <3>2, <1>1 DEF Consecutive
  <2> QED BY <2>1, <2>2
<1> QED BY <1>1, <1>2, <1>3, <1>4, <1>5

\* At the end of what is heard, what was held back is said, as the last of its segment.
LEMMA FlushesFrame ==
    ASSUME TtsSocketsTypeOK, FlowInOrder, EmitterFlush
    PROVE  /\ audioOut' \in Seq([word : ScriptWords, final : BOOLEAN]) /\ emitterFrame' = 0
           /\ HeardWords' = HeardWords
           /\ \A j, k \in 1..Len(audioOut') : j < k => audioOut'[j].word < audioOut'[k].word
           /\ (\A k \in 1..Len(audioOut) : ~audioOut[k].final) =>
                  \A k \in 1..Len(audioOut') : audioOut'[k].final => k = Len(audioOut')
           /\ (emitterFrame = 0 /\ audioOut # <<>> => audioOut[Len(audioOut)].final) =>
                  (audioOut' # <<>> => audioOut'[Len(audioOut')].final)
           /\ Consecutive => Consecutive'
<1>t. 0 \notin ScriptWords /\ Len(audioOut) \in Nat
  BY TtsTypes
<1>1. audioOut' = Emitted(TRUE) /\ emitterFrame' = 0
  BY <1>t DEF EmitterFlush
<1>2. /\ audioOut' \in Seq([word : ScriptWords, final : BOOLEAN]) /\ OutWords' = HeardWords
      /\ \A j, k \in 1..Len(audioOut') : j < k => audioOut'[j].word < audioOut'[k].word
      /\ emitterFrame = 0 => audioOut' = audioOut
      /\ emitterFrame # 0 =>
             /\ Len(audioOut') = Len(audioOut) + 1 /\ 1..Len(audioOut') = 1..Len(audioOut) \cup {Len(audioOut')}
             /\ \A k \in 1..Len(audioOut) : audioOut'[k] = audioOut[k]
             /\ audioOut'[Len(audioOut')].word = emitterFrame /\ audioOut'[Len(audioOut')].final = TRUE
  BY <1>1, EmitsFrame
<1>3. HeardWords' = HeardWords
  BY <1>1, <1>2 DEF HeardWords
<1>4. (\A k \in 1..Len(audioOut) : ~audioOut[k].final) =>
          \A k \in 1..Len(audioOut') : audioOut'[k].final => k = Len(audioOut')
  BY <1>2
<1>5. (emitterFrame = 0 /\ audioOut # <<>> => audioOut[Len(audioOut)].final) =>
          (audioOut' # <<>> => audioOut'[Len(audioOut')].final)
  BY <1>2
<1>6. ASSUME Consecutive PROVE Consecutive'
  <2>1. CASE emitterFrame = 0
    BY <2>1, <1>1, <1>2, <1>6 DEF Consecutive
  <2>2. CASE emitterFrame # 0
    BY <2>2, <1>1, <1>2, <1>6 DEF Consecutive
  <2> QED BY <2>1, <2>2
<1> QED BY <1>1, <1>2, <1>3, <1>4, <1>5, <1>6

\* A word stream that is taken, ended or forgotten keeps the order of the others.
LEMMA FewerLive ==
    ASSUME LiveInOrder, LiveSegments' \subseteq LiveSegments,
           \A s \in LiveSegments' : segments'[s].words = segments[s].words
    PROVE  /\ LiveInOrder' /\ ComingWords' \subseteq ComingWords
           /\ (\A s \in LiveSegments \ LiveSegments' : segments[s].words = <<>>) => ComingWords' = ComingWords
<1>1. LiveInOrder'
  BY DEF LiveInOrder
<1>2. ComingWords' \subseteq ComingWords
  BY DEF ComingWords
<1>3. ASSUME \A s \in LiveSegments \ LiveSegments' : segments[s].words = <<>> PROVE ComingWords \subseteq ComingWords'
  <2> SUFFICES ASSUME NEW w \in ComingWords PROVE w \in ComingWords' OBVIOUS
  <2> PICK s \in LiveSegments : w \in ToSet(segments[s].words)
    BY DEF ComingWords
  <2>1. ToSet(<<>>) = {}
    BY DEF ToSet
  <2>2. s \in LiveSegments'
    BY <2>1, <1>3
  <2> QED BY <2>2 DEF ComingWords
<1> QED BY <1>1, <1>2, <1>3

\* A word is written to the last word stream, or begins one.
LEMMA WritesWord ==
    ASSUME TtsSocketsTypeOK, LiveInOrder, SegmentsInOrder, NEW w \in ScriptWords, Writes(w), Below(ComingWords, {w}),
           UNCHANGED <<taken, saying>>
    PROVE  /\ segments' \in Seq([words : Seq(ScriptWords), ended : BOOLEAN]) /\ Len(segments') \in Nat
           /\ LiveInOrder' /\ ComingWords' = ComingWords \cup {w} /\ LiveSegments' = LiveSegments \cup {writing'}
           /\ writing' = Len(segments') /\ writing' # 0 /\ writing' \in LiveSegments' /\ ~segments'[writing'].ended
           /\ writing # 0 => writing' = writing /\ Len(segments') = Len(segments)
           /\ writing = 0 => Len(segments') = Len(segments) + 1
           /\ \A s \in 1..Len(segments) : s \in 1..Len(segments') /\ (s # writing' => segments'[s] = segments[s])
           /\ ToSet(segments'[writing'].words) \subseteq ComingWords'
           /\ ToSet(segments'[writing'].words) =
                  (IF writing = 0 THEN {} ELSE ToSet(segments[writing].words)) \cup {w}
<1>t. /\ segments \in Seq([words : Seq(ScriptWords), ended : BOOLEAN]) /\ Len(segments) \in Nat
      /\ MaxWordsSaid \in Nat /\ DOMAIN segments = 1..Len(segments)
      /\ \A s \in 1..Len(segments) : /\ segments[s] \in [words : Seq(ScriptWords), ended : BOOLEAN]
                                     /\ segments[s].words \in Seq(ScriptWords)
                                     /\ segments[s].words \in Seq(0..MaxWordsSaid)
      /\ writing \in 0..Len(segments) /\ taken \in 0..Len(segments) /\ saying \in 0..taken
      /\ ScriptWords \subseteq Nat /\ 0 \notin ScriptWords
  BY TtsTypes
<1>w. w \in 0..MaxWordsSaid /\ w # 0 /\ MaxWordsSaid \in Nat
  BY <1>t DEF ScriptWords
<1>a. \A x \in Seq(0..MaxWordsSaid) : Ascends(x) /\ Below(ToSet(x) \ {0}, {w} \ {0}) =>
          Ascends(Append(x, w)) /\ ToSet(Append(x, w)) = ToSet(x) \cup {w}
  BY ONLY <1>w, AscendsAppend
<1>1. CASE writing # 0
  <2> DEFINE v == segments[writing].words
             a == Append(v, w)
  <2>1. /\ segments' = [segments EXCEPT ![writing].words = Append(@, w)] /\ writing' = Len(segments')
        /\ writing \in 1..Len(segments)
    BY <1>1, <1>t DEF Writes
  <2>2. writing = Len(segments) /\ writing \in LiveSegments /\ ~segments[writing].ended
    BY <1>1 DEF SegmentsInOrder
  <2>3. ToSet(v) \subseteq ComingWords
    BY <2>2 DEF ComingWords
  <2>4. Ascends(v) /\ v \in Seq(0..MaxWordsSaid) /\ v \in Seq(ScriptWords)
    BY <2>1, <2>2, <1>t DEF LiveInOrder
  <2>5. Below(ToSet(v) \ {0}, {w} \ {0})
    BY <2>3 DEF Below
  <2>6. a \in Seq(ScriptWords) /\ Ascends(a) /\ ToSet(a) = ToSet(v) \cup {w}
    <3> HIDE DEF v
    <3>0. MaxWordsSaid \in Nat /\ w \in 0..MaxWordsSaid /\ v \in Seq(0..MaxWordsSaid) /\ Ascends(v)
      BY <2>4, <1>w, <1>t
    <3>1. Ascends(Append(v, w)) /\ ToSet(Append(v, w)) = ToSet(v) \cup {w}
      BY <3>0, <2>5, <1>a
    <3> QED BY <3>1, <2>4, AppendProperties
  <2> HIDE DEF a
  <2>7. /\ segments' \in Seq([words : Seq(ScriptWords), ended : BOOLEAN]) /\ Len(segments') = Len(segments)
        /\ segments'[writing].words = a /\ segments'[writing].ended = segments[writing].ended
        /\ \A s \in 1..Len(segments) : s # writing => segments'[s] = segments[s]
    <3> DEFINE g == [segments[writing] EXCEPT !.words = a]
    <3>1. segments' = [segments EXCEPT ![writing] = g]
      BY <2>1, <1>t DEF a, v
    <3>2. g \in [words : Seq(ScriptWords), ended : BOOLEAN] /\ g.words = a /\ g.ended = segments[writing].ended
      BY <2>1, <2>6, <1>t
    <3> HIDE DEF g
    <3>3. segments' \in Seq([words : Seq(ScriptWords), ended : BOOLEAN]) /\ Len(segments') = Len(segments)
      BY <3>1, <3>2, <2>1, <1>t, ExceptSeq
    <3> QED BY <3>1, <3>2, <3>3, <2>1, <1>t
  <2>8. writing' = writing
    BY <2>1, <2>2, <2>7
  <2>9. LiveSegments' = LiveSegments
    BY <2>7 DEF LiveSegments
  <2>a. LiveSegments \subseteq 1..Len(segments) /\ \A s \in LiveSegments : s <= writing
    BY <2>2, <1>t DEF LiveSegments
  <2>10. ComingWords' = ComingWords \cup {w}
    <3>1. ASSUME NEW x \in ComingWords' PROVE x \in ComingWords \cup {w}
      <4> PICK s \in LiveSegments : x \in ToSet(segments'[s].words)
        BY <2>9, <3>1 DEF ComingWords
      <4>1. CASE s = writing
        BY <4>1, <2>3, <2>6, <2>7
      <4>2. CASE s # writing
        BY <4>2, <2>7, <2>a DEF ComingWords
      <4> QED BY <4>1, <4>2
    <3>2. ASSUME NEW x \in ComingWords PROVE x \in ComingWords'
      <4> PICK s \in LiveSegments : x \in ToSet(segments[s].words)
        BY <3>2 DEF ComingWords
      <4>1. x \in ToSet(segments'[s].words)
        BY <2>6, <2>7, <2>a
      <4> QED BY <4>1, <2>9 DEF ComingWords
    <3>3. w \in ComingWords'
      BY <2>2, <2>6, <2>7, <2>9 DEF ComingWords
    <3> QED BY <3>1, <3>2, <3>3
  <2>11. LiveInOrder'
    <3>1. \A s \in LiveSegments' : Ascends(segments'[s].words)
      BY <2>6, <2>7, <2>9, <2>a DEF LiveInOrder
    <3>2. ASSUME NEW s \in LiveSegments, NEW u \in LiveSegments, s < u
          PROVE  Below(ToSet(segments'[s].words), ToSet(segments'[u].words))
      <4>1. s # writing /\ segments'[s].words = segments[s].words
        BY <3>2, <2>a, <2>7, <1>t
      <4>2. Below(ToSet(segments[s].words), ToSet(segments[u].words)) /\ ToSet(segments[s].words) \subseteq ComingWords
        BY <3>2 DEF LiveInOrder, ComingWords
      <4>3. CASE u # writing
        BY <4>1, <4>2, <4>3, <2>7, <2>a
      <4>4. CASE u = writing
        <5>1. ToSet(segments'[u].words) = ToSet(segments[u].words) \cup {w}
          BY <4>4, <2>6, <2>7
        <5> QED BY <5>1, <4>1, <4>2 DEF Below
      <4> QED BY <4>3, <4>4
    <3> QED BY <3>1, <3>2, <2>9 DEF LiveInOrder
  <2>12. ToSet(segments'[writing'].words) \subseteq ComingWords'
    BY <2>2, <2>8, <2>9 DEF ComingWords
  <2>13. /\ writing' = Len(segments') /\ writing' # 0 /\ writing' \in LiveSegments' /\ ~segments'[writing'].ended
         /\ LiveSegments' = LiveSegments \cup {writing'} /\ Len(segments') = Len(segments)
    BY <1>1, <2>1, <2>2, <2>7, <2>8, <2>9
  <2>14. \A s \in 1..Len(segments) : s \in 1..Len(segments') /\ (s # writing' => segments'[s] = segments[s])
    BY <2>7, <2>8
  <2>15. ToSet(segments'[writing'].words) = ToSet(segments[writing].words) \cup {w}
    BY <2>6, <2>7, <2>8
  <2> QED BY <1>1, <1>t, <2>7, <2>8, <2>10, <2>11, <2>12, <2>13, <2>14, <2>15
<1>2. CASE writing = 0
  <2> DEFINE g == [words |-> <<w>>, ended |-> FALSE]
             n == Len(segments) + 1
  <2>1. segments' = Append(segments, g) /\ writing' = Len(segments')
    BY <1>2 DEF Writes
  <2>2. <<w>> \in Seq(ScriptWords) /\ Len(<<w>>) = 1 /\ ToSet(<<w>>) = {w} /\ Ascends(<<w>>)
    BY DEF ToSet, Ascends
  <2>3. g \in [words : Seq(ScriptWords), ended : BOOLEAN] /\ g.words = <<w>> /\ g.ended = FALSE
    BY <2>2
  <2> HIDE DEF g
  <2>4. /\ segments' \in Seq([words : Seq(ScriptWords), ended : BOOLEAN])
        /\ 1..Len(segments') = 1..Len(segments) \cup {n} /\ n \notin 1..Len(segments)
        /\ \A k \in 1..Len(segments) : segments'[k] = segments[k] /\ k < n
        /\ segments'[n] = g
    BY <2>1, <2>3, <1>t, AppendAt
  <2>5. Len(segments') = n
    BY <2>1, <2>3, <1>t, AppendProperties
  <2>6. LiveSegments' = LiveSegments \cup {n}
    <3>1. n > taken
      BY <1>t
    <3>2. LiveSegments' = {s \in 1..Len(segments) \cup {n} : s > taken \/ s = saying}
      BY <2>4 DEF LiveSegments
    <3> QED BY <3>1, <3>2 DEF LiveSegments
  <2>a. LiveSegments \subseteq 1..Len(segments)
    BY DEF LiveSegments
  <2>7. ComingWords' = ComingWords \cup {w}
    <3>1. ASSUME NEW x \in ComingWords' PROVE x \in ComingWords \cup {w}
      <4> PICK s \in LiveSegments \cup {n} : x \in ToSet(segments'[s].words)
        BY <2>6, <3>1 DEF ComingWords
      <4>1. CASE s = n
        BY <4>1, <2>2, <2>3, <2>4
      <4>2. CASE s \in LiveSegments
        BY <4>2, <2>4, <2>a DEF ComingWords
      <4> QED BY <4>1, <4>2
    <3>2. ASSUME NEW x \in ComingWords PROVE x \in ComingWords'
      <4> PICK s \in LiveSegments : x \in ToSet(segments[s].words)
        BY <3>2 DEF ComingWords
      <4>1. x \in ToSet(segments'[s].words)
        BY <2>4, <2>a
      <4> QED BY <4>1, <2>6 DEF ComingWords
    <3>3. w \in ComingWords'
      BY <2>2, <2>3, <2>4, <2>6 DEF ComingWords
    <3> QED BY <3>1, <3>2, <3>3
  <2>8. LiveInOrder'
    <3>1. \A s \in LiveSegments' : Ascends(segments'[s].words)
      BY <2>2, <2>3, <2>4, <2>6, <2>a DEF LiveInOrder
    <3>2. ASSUME NEW s \in LiveSegments', NEW u \in LiveSegments', s < u
          PROVE  Below(ToSet(segments'[s].words), ToSet(segments'[u].words))
      <4>1. s # n /\ s \in LiveSegments /\ segments'[s].words = segments[s].words
        <5>1. n \in Nat
          BY <1>t
        <5>2. u = n \/ (u \in 1..Len(segments) /\ u < n)
          BY <2>4, <2>6, <2>a
        <5>3. s # n
          BY <3>2, <5>1, <5>2
        <5>4. s \in LiveSegments
          BY <2>6, <5>3
        <5> QED BY <2>4, <2>a, <5>3, <5>4
      <4>2. ToSet(segments[s].words) \subseteq ComingWords
        BY <4>1 DEF ComingWords
      <4>3. CASE u \in LiveSegments
        BY <4>1, <4>3, <3>2, <2>4, <2>a DEF LiveInOrder
      <4>4. CASE u = n
        <5>1. ToSet(segments'[u].words) = {w}
          BY <4>4, <2>2, <2>3, <2>4
        <5> QED BY <5>1, <4>1, <4>2 DEF Below
      <4> QED BY <4>3, <4>4, <2>6
    <3> QED BY <3>1, <3>2 DEF LiveInOrder
  <2>9. n # 0 /\ n \in Nat
    BY <1>t
  <2> QED BY <1>2, <1>t, <2>1, <2>2, <2>3, <2>4, <2>5, <2>6, <2>7, <2>8, <2>9
<1> QED BY <1>1, <1>2

\* The first word of the word stream that is said precedes the others.
LEMMA TakesFirstWord ==
    ASSUME TtsSocketsTypeOK, LiveInOrder, SegmentsInOrder, saying # 0, segments[saying].words # <<>>,
           segments' = [segments EXCEPT ![saying].words = Tail(@)], UNCHANGED <<taken, saying>>
    PROVE  /\ segments' \in Seq([words : Seq(ScriptWords), ended : BOOLEAN]) /\ Len(segments') = Len(segments)
           /\ LiveInOrder' /\ LiveSegments' = LiveSegments /\ saying \in LiveSegments
           /\ Head(segments[saying].words) \in ScriptWords
           /\ ComingWords = ComingWords' \cup {Head(segments[saying].words)}
           /\ Below({Head(segments[saying].words)}, ComingWords')
           /\ Head(segments[saying].words) \in ToSet(segments[saying].words)
           /\ \A s \in 1..Len(segments) : /\ ToSet(segments'[s].words) \subseteq ToSet(segments[s].words)
                                          /\ segments'[s].ended = segments[s].ended
<1>t. /\ segments \in Seq([words : Seq(ScriptWords), ended : BOOLEAN]) /\ Len(segments) \in Nat
      /\ MaxWordsSaid \in Nat /\ DOMAIN segments = 1..Len(segments)
      /\ \A s \in 1..Len(segments) : /\ segments[s] \in [words : Seq(ScriptWords), ended : BOOLEAN]
                                     /\ segments[s].words \in Seq(ScriptWords)
                                     /\ segments[s].words \in Seq(0..MaxWordsSaid)
                                     /\ ToSet(segments[s].words) \subseteq ScriptWords
      /\ taken \in 0..Len(segments) /\ saying \in 0..taken
      /\ ScriptWords \subseteq Nat /\ 0 \notin ScriptWords
  BY TtsTypes
<1> DEFINE v == segments[saying].words
           h == Head(v)
           a == Tail(v)
           g == [segments[saying] EXCEPT !.words = a]
<1>1. saying \in 1..Len(segments) /\ saying \in LiveSegments /\ saying = taken
  BY <1>t DEF LiveSegments, SegmentsInOrder
<1>2. v \in Seq(ScriptWords) /\ v \in Seq(0..MaxWordsSaid) /\ v # <<>> /\ Ascends(v)
  BY <1>1, <1>t DEF LiveInOrder
<1>3. segments' = [segments EXCEPT ![saying] = g]
  BY <1>1, <1>t
<1> HIDE DEF v
<1>4. /\ a \in Seq(ScriptWords) /\ Ascends(a) /\ h \in ScriptWords /\ h \in ToSet(v) /\ ToSet(v) = ToSet(a) \cup {h}
      /\ Below({h} \ {0}, ToSet(a) \ {0})
  BY <1>2, <1>t, AscendsTail, TailElements
<1>5. g \in [words : Seq(ScriptWords), ended : BOOLEAN] /\ g.words = a /\ g.ended = segments[saying].ended
  BY <1>1, <1>4, <1>t
<1> HIDE DEF g, h, a
<1>6. segments' \in Seq([words : Seq(ScriptWords), ended : BOOLEAN]) /\ Len(segments') = Len(segments)
  <2>1. /\ segments \in Seq([words : Seq(ScriptWords), ended : BOOLEAN]) /\ saying \in 1..Len(segments)
        /\ g \in [words : Seq(ScriptWords), ended : BOOLEAN]
    BY <1>1, <1>5, <1>t
  <2>2. /\ [segments EXCEPT ![saying] = g] \in Seq([words : Seq(ScriptWords), ended : BOOLEAN])
        /\ Len([segments EXCEPT ![saying] = g]) = Len(segments)
    BY <2>1, ExceptSeq
  <2> QED BY <1>3, <2>2
<1>7. /\ segments'[saying].words = a /\ segments'[saying].ended = segments[saying].ended
      /\ \A s \in 1..Len(segments) : s # saying => segments'[s] = segments[s]
  BY <1>3, <1>5, <1>1, <1>t
<1>8. LiveSegments' = LiveSegments /\ LiveSegments \subseteq 1..Len(segments)
  BY <1>6 DEF LiveSegments
<1>9. \A s \in 1..Len(segments) : /\ ToSet(segments'[s].words) \subseteq ToSet(segments[s].words)
                                  /\ segments'[s].ended = segments[s].ended
  BY <1>4, <1>7 DEF v
<1>10. LiveInOrder'
  <2>1. \A s \in LiveSegments' : Ascends(segments'[s].words)
    BY <1>4, <1>7, <1>8 DEF LiveInOrder
  <2>2. ASSUME NEW s \in LiveSegments, NEW u \in LiveSegments, s < u
        PROVE  Below(ToSet(segments'[s].words), ToSet(segments'[u].words))
    <3>1. Below(ToSet(segments[s].words), ToSet(segments[u].words))
      BY <2>2 DEF LiveInOrder
    <3> QED BY <3>1, <1>8, <1>9 DEF Below
  <2> QED BY <2>1, <2>2, <1>8 DEF LiveInOrder
<1>11. ComingWords = ComingWords' \cup {h}
  <2>1. ASSUME NEW x \in ComingWords PROVE x \in ComingWords' \cup {h}
    <3> PICK s \in LiveSegments : x \in ToSet(segments[s].words)
      BY <2>1 DEF ComingWords
    <3>1. CASE s = saying
      BY <3>1, <1>4, <1>7, <1>8 DEF ComingWords, v
    <3>2. CASE s # saying
      BY <3>2, <1>7, <1>8 DEF ComingWords
    <3> QED BY <3>1, <3>2
  <2>2. ASSUME NEW x \in ComingWords' PROVE x \in ComingWords
    BY <2>2, <1>8, <1>9 DEF ComingWords
  <2>3. h \in ComingWords
    BY <1>1, <1>4 DEF ComingWords, v
  <2> QED BY <2>1, <2>2, <2>3
<1>12. Below({h}, ComingWords')
  <2> SUFFICES ASSUME NEW x \in ComingWords' PROVE h < x
    BY DEF Below
  <2> PICK s \in LiveSegments : x \in ToSet(segments'[s].words)
    BY <1>8 DEF ComingWords
  <2>1. CASE s = saying
    <3>1. x \in ToSet(a) /\ x # 0 /\ h # 0
      BY <2>1, <1>1, <1>4, <1>7, <1>9, <1>t
    <3> QED BY <3>1, <1>4 DEF Below
  <2>2. CASE s # saying
    <3>1. s > taken
      BY <2>2 DEF LiveSegments
    <3>2. saying < s
      BY <3>1, <1>1, <1>8, <1>t
    <3>3. Below(ToSet(segments[saying].words), ToSet(segments[s].words))
      BY <3>2, <1>1 DEF LiveInOrder
    <3>4. x \in ToSet(segments[s].words)
      BY <1>8, <1>9
    <3> QED BY <3>3, <3>4, <1>4 DEF Below, v
  <2> QED BY <2>1, <2>2
<1> QED BY <1>1, <1>4, <1>6, <1>8, <1>9, <1>10, <1>11, <1>12 DEF h, v

\* The word stream that is written ends, if there is one.
LEMMA EndsWriting ==
    ASSUME TtsSocketsTypeOK,
           segments' = IF writing = 0 THEN segments ELSE [segments EXCEPT ![writing].ended = TRUE]
    PROVE  /\ segments' \in Seq([words : Seq(ScriptWords), ended : BOOLEAN]) /\ Len(segments') = Len(segments)
           /\ \A s \in 1..Len(segments) : /\ segments'[s].words = segments[s].words
                                          /\ s # writing => segments'[s] = segments[s]
                                          /\ segments[s].ended => segments'[s].ended
           /\ writing # 0 => segments'[writing].ended
<1>t. /\ segments \in Seq([words : Seq(ScriptWords), ended : BOOLEAN]) /\ Len(segments) \in Nat
      /\ DOMAIN segments = 1..Len(segments) /\ writing \in 0..Len(segments)
      /\ \A s \in 1..Len(segments) : segments[s] \in [words : Seq(ScriptWords), ended : BOOLEAN]
  BY TtsTypes
<1>1. CASE writing = 0
  BY <1>1, <1>t
<1>2. CASE writing # 0
  <2> DEFINE g == [segments[writing] EXCEPT !.ended = TRUE]
  <2>1. writing \in 1..Len(segments)
    BY <1>2, <1>t
  <2>3. segments' = [segments EXCEPT ![writing] = g]
    BY <1>2
  <2>4. g \in [words : Seq(ScriptWords), ended : BOOLEAN] /\ g.words = segments[writing].words /\ g.ended
    BY <2>1, <1>t
  <2> HIDE DEF g
  <2>5. segments \in Seq([words : Seq(ScriptWords), ended : BOOLEAN])
    BY <1>t
  <2>6. /\ [segments EXCEPT ![writing] = g] \in Seq([words : Seq(ScriptWords), ended : BOOLEAN])
        /\ Len([segments EXCEPT ![writing] = g]) = Len(segments)
    BY <2>1, <2>4, <2>5, ExceptSeq
  <2>7. segments'[writing] = g /\ \A s \in 1..Len(segments) : s # writing => segments'[s] = segments[s]
    BY <2>1, <2>3, <1>t
  <2> QED BY <1>2, <2>3, <2>4, <2>6, <2>7
<1> QED BY <1>1, <1>2

LEMMA SameAudio ==
    ASSUME UNCHANGED <<audioOut, emitterFrame>>
    PROVE  OutWords' = OutWords /\ HeardWords' = HeardWords /\ (Consecutive => Consecutive')
BY DEF OutWords, HeardWords, Consecutive

LEMMA SameScript ==
    ASSUME UNCHANGED script
    PROVE  WordsTaken' = WordsTaken /\ WaitingWords' = WaitingWords
BY DEF WordsTaken, WaitingWords

LEMMA SameSegments ==
    ASSUME UNCHANGED <<segments, taken, saying>>
    PROVE  LiveSegments' = LiveSegments /\ ComingWords' = ComingWords /\ (LiveInOrder => LiveInOrder')
BY DEF LiveSegments, ComingWords, LiveInOrder

LEMMA TtsInitInv == TtsSocketsInit => TtsInv
<1> SUFFICES ASSUME TtsSocketsInit PROVE TtsInv OBVIOUS
<1>1. /\ ttsDialect \in TtsDialects
      /\ script = [queue |-> <<>>, pushed |-> 0, flushes |-> 0, closed |-> FALSE, first |-> 0]
      /\ segments = <<>> /\ writing = 0 /\ saying = 0 /\ taken = 0 /\ textOver = FALSE
      /\ ttsSender = "sends" /\ ttsWire = <<>> /\ ttsReader = "reads" /\ emitterFrame = 0 /\ audioOut = <<>>
      /\ ttsRun = "runs" /\ trouble = FALSE /\ ttsUpdates = 0
  BY DEF TtsSocketsInit
<1>2. /\ MaxWordsSaid \in Nat /\ 0 \in 0..MaxWordsSaid /\ 0 \in 0..(MaxWordsSaid + 1) /\ Len(<<>>) = 0 /\ 0 \in 0..0
      /\ 1..0 = {} /\ ToSet(<<>>) = {}
  BY TtsSocketsAssumption DEF ToSet
<1>3. TtsSocketsTypeOK
  <2>1. /\ <<>> \in Seq(0..MaxWordsSaid) /\ <<>> \in Seq([word : ScriptWords, final : BOOLEAN])
        /\ <<>> \in Seq([words : Seq(ScriptWords), ended : BOOLEAN])
    OBVIOUS
  <2>2. script \in [queue : Seq(0..MaxWordsSaid), pushed : 0..MaxWordsSaid, flushes : Nat, closed : BOOLEAN,
                    first : 0..MaxWordsSaid + 1]
    BY <2>1, <1>1, <1>2
  <2>3. writing \in 0..Len(segments) /\ saying \in 0..taken /\ taken \in 0..Len(segments)
    BY <1>1, <1>2
  <2> QED BY <2>1, <2>2, <2>3, <1>1, <1>2 DEF TtsSocketsTypeOK
<1>4. OutWords = {} /\ HeardWords = {} /\ OnWire = {} /\ LiveSegments = {} /\ ComingWords = {} /\ WaitingWords = {}
  BY <1>1, <1>2 DEF OutWords, HeardWords, OnWire, LiveSegments, ComingWords, WaitingWords
<1>5. WordsTaken = 0
  <2>1. (CHOOSE m \in 0..0 : {} = (m + 1)..0) = 0
    BY TakenIs
  <2> QED BY <2>1, <1>1, <1>4 DEF WordsTaken, WaitingWords, ToSet
<1>6. FlowInOrder /\ NoneLost
  BY <1>1, <1>2, <1>4, <1>5 DEF FlowInOrder, NoneLost, TakenWords, LiveInOrder, Below, Ascends, Consecutive
<1>7. SegmentsInOrder /\ FramesEnd /\ RunsEnd /\ SegmentBySegment /\ LastPacket
  BY <1>1, <1>2 DEF SegmentsInOrder, FramesEnd, RunsEnd, SegmentBySegment, LastPacket
<1>8. FirstSegmentOnly
  BY <1>1, <1>2 DEF FirstSegmentOnly, FirstSent
<1> QED BY <1>3, <1>6, <1>7, <1>8 DEF TtsInv

\* The flow when neither the input nor the word streams move.
LEMMA SameFlow ==
    ASSUME TtsInv, UNCHANGED <<script, segments, taken, saying, audioOut, emitterFrame>>,
           Ascends(ttsWire'), OnWire' = OnWire, trouble => trouble'
    PROVE  FlowInOrder' /\ NoneLost'
<1>1. OutWords' = OutWords /\ HeardWords' = HeardWords /\ (Consecutive => Consecutive')
  BY SameAudio
<1>2. WordsTaken' = WordsTaken /\ WaitingWords' = WaitingWords
  BY SameScript
<1>3. LiveSegments' = LiveSegments /\ ComingWords' = ComingWords /\ (LiveInOrder => LiveInOrder')
  BY SameSegments
<1>4. TakenWords' = TakenWords
  BY <1>1, <1>3 DEF TakenWords
<1>5. FlowInOrder /\ NoneLost
  BY DEF TtsInv
<1>6. FlowInOrder'
  BY <1>1, <1>2, <1>3, <1>4, <1>5 DEF FlowInOrder
<1> QED BY <1>1, <1>2, <1>4, <1>5, <1>6 DEF NoneLost

LEMMA RunReturnsKeepsTts == ASSUME TtsInv, TtsRunReturns PROVE TtsInv'
<1>g. /\ ttsRun = "runs" /\ ttsRun' = "returned"
      /\ ttsSender = "done" \/ ttsDialect = "playai"
      /\ ttsReader = "done" \/ ttsDialect = "elevenlabs"
      /\ UNCHANGED <<ttsDialect, script, segments, writing, saying, taken, textOver, ttsSender, ttsWire, ttsReader,
                     emitterFrame, audioOut, trouble, ttsUpdates>>
  BY DEF TtsRunReturns
<1>i. /\ TtsSocketsTypeOK /\ FlowInOrder /\ NoneLost /\ SegmentsInOrder /\ FramesEnd /\ RunsEnd
      /\ SegmentBySegment /\ LastPacket /\ FirstSegmentOnly
  BY DEF TtsInv
<1>1. TtsSocketsTypeOK'
  BY <1>g, <1>i DEF TtsSocketsTypeOK
<1>2. FlowInOrder' /\ NoneLost'
  BY <1>g, <1>i, SameFlow DEF FlowInOrder, OnWire
<1>3. SegmentsInOrder' /\ FramesEnd' /\ SegmentBySegment' /\ LastPacket'
  BY <1>g, <1>i DEF SegmentsInOrder, FramesEnd, SegmentBySegment, LastPacket, LiveSegments
<1>4. RunsEnd'
  BY <1>g, <1>i DEF RunsEnd
<1>5. FirstSegmentOnly'
  BY <1>g, <1>i, SameScript, SameSegments, SameAudio DEF FirstSegmentOnly, FirstSent
<1> QED BY <1>1, <1>2, <1>3, <1>4, <1>5 DEF TtsInv

LEMMA SendsEndKeepsTts == ASSUME TtsInv, SendsEnd PROVE TtsInv'
<1>g. /\ ttsRun = "runs" /\ ttsSender = "sends" /\ textOver /\ saying = 0 /\ taken = Len(segments)
      /\ ttsSender' = "done"
      /\ ttsWire' = IF ttsDialect \in {"cartesia", "playai"} THEN Append(ttsWire, 0) ELSE ttsWire
      /\ UNCHANGED <<ttsDialect, script, segments, writing, saying, taken, textOver, ttsReader, emitterFrame,
                     audioOut, ttsRun, trouble, ttsUpdates>>
  BY DEF SendsEnd
<1>i. /\ TtsSocketsTypeOK /\ FlowInOrder /\ NoneLost /\ SegmentsInOrder /\ FramesEnd /\ RunsEnd
      /\ SegmentBySegment /\ LastPacket /\ FirstSegmentOnly
  BY DEF TtsInv
<1>t. MaxWordsSaid \in Nat /\ ttsWire \in Seq(0..MaxWordsSaid) /\ 0 \in 0..MaxWordsSaid
  BY <1>i, TtsTypes
<1>w. ttsWire' \in Seq(0..MaxWordsSaid) /\ Ascends(ttsWire') /\ OnWire' = OnWire
  <2>1. Ascends(ttsWire)
    BY <1>i DEF FlowInOrder
  <2>2. Below(ToSet(ttsWire) \ {0}, {0} \ {0})
    BY DEF Below
  <2>3. /\ Append(ttsWire, 0) \in Seq(0..MaxWordsSaid) /\ Ascends(Append(ttsWire, 0))
        /\ ToSet(Append(ttsWire, 0)) \ {0} = (ToSet(ttsWire) \ {0}) \cup ({0} \ {0})
    BY <2>1, <2>2, <1>t, AscendsAppend
  <2> QED BY <2>1, <2>3, <1>t, <1>g DEF OnWire
<1>1. TtsSocketsTypeOK'
  BY <1>g, <1>i, <1>w DEF TtsSocketsTypeOK
<1>2. FlowInOrder' /\ NoneLost'
  BY <1>g, <1>i, <1>w, SameFlow
<1>3. SegmentsInOrder' /\ FramesEnd' /\ SegmentBySegment'
  BY <1>g, <1>i DEF SegmentsInOrder, FramesEnd, SegmentBySegment, LiveSegments
<1>4. RunsEnd'
  BY <1>g, <1>i DEF RunsEnd
<1>5. LastPacket'
  <2> SUFFICES ASSUME ttsDialect \in {"cartesia", "playai"}
               PROVE  /\ \A k \in 1..Len(ttsWire') : ttsWire'[k] = 0 => k = Len(ttsWire') /\ ttsSender' = "done"
                      /\ ttsReader' = "done" /\ ~trouble' => ttsSender' = "done" /\ ttsWire' = <<>>
    BY <1>g DEF LastPacket
  <2>1. \A k \in 1..Len(ttsWire) : ttsWire[k] # 0
    BY <1>g, <1>i DEF LastPacket
  <2>2. ~(ttsReader = "done" /\ ~trouble)
    BY <1>g, <1>i DEF LastPacket
  <2>3. /\ 1..Len(ttsWire') = 1..Len(ttsWire) \cup {Len(ttsWire) + 1}
        /\ \A k \in 1..Len(ttsWire) : ttsWire'[k] = ttsWire[k]
    BY <1>g, <1>t, AppendAt
  <2>4. Len(ttsWire') = Len(ttsWire) + 1
    BY <1>g, <1>t, AppendProperties
  <2> QED BY <2>1, <2>2, <2>3, <2>4, <1>g
<1>6. FirstSegmentOnly'
  BY <1>g, <1>i, SameScript, SameSegments, SameAudio DEF FirstSegmentOnly, FirstSent
<1> QED BY <1>1, <1>2, <1>3, <1>4, <1>5, <1>6 DEF TtsInv

LEMMA TakesSegmentKeepsTts == ASSUME TtsInv, TakesSegment PROVE TtsInv'
<1>g. /\ ttsRun = "runs" /\ ttsSender = "sends" /\ saying = 0 /\ taken < Len(segments)
      /\ taken' = taken + 1 /\ saying' = taken + 1
      /\ UNCHANGED <<ttsDialect, script, segments, writing, textOver, ttsSender, ttsWire, ttsReader, emitterFrame,
                     audioOut, ttsRun, trouble, ttsUpdates>>
  BY DEF TakesSegment
<1>i. /\ TtsSocketsTypeOK /\ FlowInOrder /\ NoneLost /\ SegmentsInOrder /\ FramesEnd /\ RunsEnd
      /\ SegmentBySegment /\ LastPacket /\ FirstSegmentOnly
  BY DEF TtsInv
<1>t. taken \in Nat /\ Len(segments) \in Nat
  BY <1>i, TtsTypes
<1>a. /\ OutWords' = OutWords /\ HeardWords' = HeardWords /\ (Consecutive => Consecutive')
      /\ WordsTaken' = WordsTaken /\ WaitingWords' = WaitingWords /\ OnWire' = OnWire
  BY <1>g, SameAudio, SameScript DEF OnWire
<1>l. LiveSegments' = LiveSegments
  BY <1>g, <1>t DEF LiveSegments
<1>c. ComingWords' = ComingWords /\ (LiveInOrder => LiveInOrder')
  BY <1>g, <1>l DEF ComingWords, LiveInOrder
<1>1. TtsSocketsTypeOK'
  <2>1. taken + 1 \in 0..Len(segments) /\ taken + 1 \in 0..(taken + 1)
    BY <1>g, <1>t
  <2> QED BY <2>1, <1>g, <1>i DEF TtsSocketsTypeOK
<1>2. FlowInOrder' /\ NoneLost'
  <2>1. TakenWords' = TakenWords
    BY <1>a, <1>c DEF TakenWords
  <2> QED BY <2>1, <1>a, <1>c, <1>g, <1>i DEF FlowInOrder, NoneLost
<1>3. SegmentsInOrder'
  BY <1>g, <1>i, <1>l, <1>t, EmptySeq DEF SegmentsInOrder
<1>4. FramesEnd' /\ RunsEnd' /\ LastPacket'
  BY <1>g, <1>i DEF FramesEnd, RunsEnd, LastPacket
<1>5. SegmentBySegment'
  BY <1>g, <1>i, <1>t DEF SegmentBySegment
<1>6. FirstSegmentOnly'
  <2>1. segments # <<>> /\ taken' # 0
    BY <1>g, <1>t, EmptySeq
  <2>2. ttsDialect # "neuphonic"
    BY <2>1, <1>i DEF SegmentsInOrder
  <2>3. FirstSent' <=> FirstSent
    <3>1. taken + 1 > 1 \/ (taken + 1 = 1 /\ taken + 1 = 0) <=> taken > 1 \/ taken = 1
      BY <1>t
    <3> QED BY <3>1, <2>2, <1>g DEF FirstSent
  <2> QED BY <2>1, <2>2, <2>3, <1>a, <1>l, <1>g, <1>i DEF FirstSegmentOnly
<1> QED BY <1>1, <1>2, <1>3, <1>4, <1>5, <1>6 DEF TtsInv

LEMMA ReconnectsKeepsTts == ASSUME TtsInv, DeepgramReconnects PROVE TtsInv'
<1>g. /\ ttsDialect = "deepgram" /\ ttsRun = "runs"
      /\ ttsUpdates' = ttsUpdates + 1 /\ trouble' = TRUE
      /\ writing' = 0 /\ saying' = 0 /\ ttsSender' = "sends" /\ ttsWire' = <<>> /\ ttsReader' = "reads"
      /\ emitterFrame' = 0
      /\ UNCHANGED <<ttsDialect, script, segments, taken, textOver, audioOut, ttsRun>>
  BY DEF DeepgramReconnects
<1>i. /\ TtsSocketsTypeOK /\ FlowInOrder /\ NoneLost /\ SegmentsInOrder /\ FramesEnd /\ RunsEnd
      /\ SegmentBySegment /\ LastPacket /\ FirstSegmentOnly
  BY DEF TtsInv
<1>t. /\ taken \in Nat /\ Len(segments) \in Nat /\ MaxWordsSaid \in Nat /\ <<>> \in Seq(0..MaxWordsSaid) /\ Len(<<>>) = 0
      /\ ToSet(<<>>) = {}
  BY <1>i, TtsTypes DEF ToSet
<1>a. /\ OutWords' = OutWords /\ HeardWords' \subseteq HeardWords
      /\ WordsTaken' = WordsTaken /\ WaitingWords' = WaitingWords /\ OnWire' = {}
  BY <1>g, <1>t, SameScript DEF OnWire, OutWords, HeardWords
<1>l. LiveSegments' \subseteq LiveSegments
  BY <1>g, <1>t DEF LiveSegments
<1>c. ComingWords' \subseteq ComingWords /\ LiveInOrder'
  BY <1>g, <1>l, <1>i, FewerLive DEF FlowInOrder
<1>1. TtsSocketsTypeOK'
  <2>1. 0 \in 0..Len(segments) /\ 0 \in 0..taken /\ 0 \in 0..MaxWordsSaid /\ ttsUpdates + 1 \in Nat
    BY <1>t, <1>i DEF TtsSocketsTypeOK
  <2> QED BY <2>1, <1>g, <1>i, <1>t DEF TtsSocketsTypeOK
<1>2. FlowInOrder'
  <2>1. TakenWords' \subseteq TakenWords
    BY <1>a, <1>c DEF TakenWords
  <2>2. Below(HeardWords', OnWire') /\ Ascends(ttsWire')
    BY <1>a, <1>g, <1>t DEF Below, Ascends
  <2>3. Below(HeardWords' \cup OnWire', ComingWords')
    BY <1>a, <1>c, <1>i DEF Below, FlowInOrder
  <2> QED BY <2>1, <2>2, <2>3, <1>a, <1>c, <1>g, <1>i DEF FlowInOrder
<1>3. NoneLost' /\ FirstSegmentOnly'
  BY <1>g DEF NoneLost, FirstSegmentOnly
<1>4. SegmentsInOrder'
  BY <1>g, <1>i DEF SegmentsInOrder
<1>5. RunsEnd' /\ SegmentBySegment' /\ LastPacket'
  BY <1>g DEF RunsEnd, SegmentBySegment, LastPacket
<1>6. FramesEnd'
  <2>1. ttsUpdates + 1 # 0
    BY <1>i DEF TtsSocketsTypeOK
  <2> QED BY <2>1, <1>g DEF FramesEnd
<1> QED BY <1>1, <1>2, <1>3, <1>4, <1>5, <1>6 DEF TtsInv

\* The end of the input ends the word stream that is written.
LEMMA InputOverKeepsTts == ASSUME TtsInv, InputOver PROVE TtsInv'
<1>g. /\ ttsRun = "runs" /\ script.closed /\ script.queue = <<>> /\ ~textOver
      /\ textOver' = TRUE /\ writing' = 0
      /\ segments' = IF writing = 0 THEN segments ELSE [segments EXCEPT ![writing].ended = TRUE]
      /\ UNCHANGED <<ttsDialect, script, saying, taken, ttsSender, ttsWire, ttsReader, emitterFrame, audioOut,
                     ttsRun, trouble, ttsUpdates>>
  BY DEF InputOver
<1>i. /\ TtsSocketsTypeOK /\ FlowInOrder /\ NoneLost /\ SegmentsInOrder /\ FramesEnd /\ RunsEnd
      /\ SegmentBySegment /\ LastPacket /\ FirstSegmentOnly
  BY DEF TtsInv
<1>s. /\ segments' \in Seq([words : Seq(ScriptWords), ended : BOOLEAN]) /\ Len(segments') = Len(segments)
      /\ \A s \in 1..Len(segments) : /\ segments'[s].words = segments[s].words
                                     /\ s # writing => segments'[s] = segments[s]
                                     /\ segments[s].ended => segments'[s].ended
  BY <1>g, <1>i, EndsWriting
<1>a. /\ OutWords' = OutWords /\ HeardWords' = HeardWords /\ (Consecutive => Consecutive')
      /\ WordsTaken' = WordsTaken /\ WaitingWords' = WaitingWords /\ OnWire' = OnWire
  BY <1>g, SameAudio, SameScript DEF OnWire
<1>l. LiveSegments' = LiveSegments /\ LiveSegments \subseteq 1..Len(segments)
  BY <1>g, <1>s DEF LiveSegments
<1>c. ComingWords' = ComingWords /\ LiveInOrder'
  BY <1>g, <1>l, <1>s, <1>i, FewerLive DEF FlowInOrder
<1>1. TtsSocketsTypeOK'
  <2>1. 0 \in 0..Len(segments)
    BY <1>i, TtsTypes
  <2> QED BY <2>1, <1>g, <1>i, <1>s DEF TtsSocketsTypeOK
<1>2. FlowInOrder' /\ NoneLost'
  <2>1. TakenWords' = TakenWords
    BY <1>a, <1>c DEF TakenWords
  <2> QED BY <2>1, <1>a, <1>c, <1>g, <1>i DEF FlowInOrder, NoneLost
<1>3. SegmentsInOrder'
  <2>1. saying # 0 => saying \in 1..Len(segments)
    BY <1>i, TtsTypes
  <2>2. ttsDialect = "neuphonic" => segments' = <<>>
    BY <1>g, <1>i, EmptySeq DEF SegmentsInOrder
  <2> QED BY <2>1, <2>2, <1>g, <1>i, <1>s DEF SegmentsInOrder
<1>4. FramesEnd' /\ RunsEnd' /\ SegmentBySegment' /\ LastPacket'
  BY <1>g, <1>i DEF FramesEnd, RunsEnd, SegmentBySegment, LastPacket
<1>5. FirstSegmentOnly'
  <2>1. ASSUME ttsDialect = "deepgram" PROVE writing = 0 /\ segments' = segments
    BY <2>1, <1>g, <1>i DEF SegmentsInOrder
  <2>2. ASSUME ttsDialect = "neuphonic" PROVE segments' = segments
    BY <2>2, <1>g, <1>i, TtsTypes, EmptySeq DEF SegmentsInOrder
  <2> QED BY <2>1, <2>2, <1>a, <1>l, <1>g, <1>i DEF FirstSegmentOnly, FirstSent
<1> QED BY <1>1, <1>2, <1>3, <1>4, <1>5 DEF TtsInv

\* A server that closes moves no word; the decoder of playai is ended.
LEMMA ClosesKeepsTts == ASSUME TtsInv, TtsServerCloses PROVE TtsInv'
<1>g. /\ ttsRun = "runs" /\ ttsReader = "reads"
      /\ trouble' = (trouble \/ ~(ttsDialect = "deepgram" /\ ttsSender = "done" /\ ttsWire = <<>>))
      /\ UNCHANGED <<ttsDialect, script, segments, writing, saying, taken, textOver, ttsSender, ttsWire, ttsUpdates>>
  BY DEF TtsServerCloses
<1>i. /\ TtsSocketsTypeOK /\ FlowInOrder /\ NoneLost /\ SegmentsInOrder /\ FramesEnd /\ RunsEnd
      /\ SegmentBySegment /\ LastPacket /\ FirstSegmentOnly
  BY DEF TtsInv
<1>d. /\ ttsDialect \in {"elevenlabs", "cartesia", "deepgram", "neuphonic", "playai"}
      /\ trouble \in BOOLEAN /\ trouble' \in BOOLEAN
  BY <1>g, <1>i, TtsSocketsAssumption DEF TtsSocketsTypeOK
<1>e. \/ ttsDialect = "elevenlabs" /\ ElevenLabsLosesServer
      \/ ttsDialect \in {"cartesia", "neuphonic"} /\ ttsRun' = "failed" /\ UNCHANGED <<ttsReader, audioOut, emitterFrame>>
      \/ ttsDialect = "deepgram" /\ DeepgramLosesServer
      \/ ttsDialect = "playai" /\ ttsReader' = "done" /\ EmitterFlush /\ UNCHANGED ttsRun
  BY <1>d DEF TtsServerCloses, CartesiaLosesServer, NeuphonicLosesServer, PlayAILosesServer
<1>b. /\ ttsReader' \in {"reads", "done", "stuck"} /\ ttsRun' \in {"runs", "returned", "failed"}
      /\ EmitterFlush \/ UNCHANGED <<audioOut, emitterFrame>>
  BY <1>g, <1>e DEF ElevenLabsLosesServer, DeepgramLosesServer
<1>f. /\ audioOut' \in Seq([word : ScriptWords, final : BOOLEAN]) /\ emitterFrame' \in 0..MaxWordsSaid
      /\ HeardWords' = HeardWords /\ (Consecutive => Consecutive')
      /\ \A j, k \in 1..Len(audioOut') : j < k => audioOut'[j].word < audioOut'[k].word
      /\ emitterFrame' # 0 => Below(OutWords', {emitterFrame'})
  <2>1. CASE EmitterFlush
    <3>1. 0 \in 0..MaxWordsSaid
      BY <1>i, TtsTypes
    <3> QED BY <2>1, <3>1, <1>i, FlushesFrame
  <2>2. CASE UNCHANGED <<audioOut, emitterFrame>>
    <3>1. /\ \A j, k \in 1..Len(audioOut) : j < k => audioOut[j].word < audioOut[k].word
          /\ emitterFrame # 0 => Below(OutWords, {emitterFrame})
      BY <1>i DEF FlowInOrder
    <3> QED BY <2>2, <3>1, <1>i, SameAudio DEF TtsSocketsTypeOK
  <2> QED BY <1>b, <2>1, <2>2
<1>a. /\ WordsTaken' = WordsTaken /\ WaitingWords' = WaitingWords /\ OnWire' = OnWire
      /\ LiveSegments' = LiveSegments /\ ComingWords' = ComingWords /\ (LiveInOrder => LiveInOrder')
  BY <1>g, SameScript, SameSegments DEF OnWire
<1>1. TtsSocketsTypeOK'
  BY <1>g, <1>i, <1>b, <1>d, <1>f DEF TtsSocketsTypeOK
<1>2. FlowInOrder' /\ NoneLost'
  <2>1. TakenWords' = TakenWords
    BY <1>a, <1>f DEF TakenWords
  <2> QED BY <2>1, <1>a, <1>f, <1>g, <1>i DEF FlowInOrder, NoneLost
<1>3. SegmentsInOrder'
  BY <1>g, <1>i, <1>a DEF SegmentsInOrder
<1>4. SegmentBySegment' /\ LastPacket'
  <2>1. ASSUME ttsDialect = "elevenlabs" PROVE ttsReader' # "done" /\ UNCHANGED emitterFrame
    BY <2>1, <1>e, <1>g DEF ElevenLabsLosesServer
  <2>2. ASSUME ttsDialect \in {"cartesia", "playai"} PROVE trouble'
    BY <2>2, <1>g
  <2> QED BY <2>1, <2>2, <1>g, <1>i DEF SegmentBySegment, LastPacket
<1>5. RunsEnd'
  <2>1. CASE ttsDialect = "elevenlabs"
    <3>1. ttsRun' = "failed" \/ (ttsRun' = "runs" /\ ttsReader' = "stuck" /\ ttsSender' = "waits")
      BY <2>1, <1>e, <1>g DEF ElevenLabsLosesServer
    <3> QED BY <3>1, <2>1 , <1>g DEF RunsEnd
  <2>2. CASE ttsDialect \in {"cartesia", "neuphonic"}
    BY <2>2, <1>e, <1>g DEF RunsEnd
  <2>3. CASE ttsDialect = "deepgram"
    <3>1. (ttsRun' = "returned" => ttsSender # "done") /\ ttsReader' # "stuck"
      BY <2>3, <1>e, <1>g DEF DeepgramLosesServer
    <3> QED BY <3>1, <2>3, <1>g DEF RunsEnd
  <2>4. CASE ttsDialect = "playai"
    BY <2>4, <1>e, <1>g DEF RunsEnd
  <2> QED BY <1>d, <2>1, <2>2, <2>3, <2>4
<1>6. ASSUME ttsDialect = "deepgram", ~trouble'
      PROVE  /\ ~trouble /\ ttsSender = "done" /\ ttsWire = <<>> /\ segments = <<>>
             /\ audioOut = <<>> /\ emitterFrame = 0 /\ UNCHANGED <<audioOut, emitterFrame>> /\ ttsReader' = "done"
  <2>1. ~trouble /\ ttsSender = "done" /\ ttsWire = <<>>
    BY <1>6, <1>g, <1>d
  <2>2. UNCHANGED <<audioOut, emitterFrame>> /\ ttsReader' = "done"
    BY <1>6, <2>1, <1>e DEF DeepgramLosesServer
  <2>3. ToSet(ttsWire) = {}
    BY <2>1 DEF ToSet
  <2>4. ~(taken > 1 \/ (taken = 1 /\ saying = 0))
    BY <1>6, <1>g, <1>i, <2>1, <2>3 DEF FirstSegmentOnly, FirstSent
  <2>5. saying = 0 /\ taken = Len(segments) /\ taken \in Nat
    BY <2>1, <1>i, TtsTypes DEF SegmentsInOrder
  <2>6. taken = 0
    BY <2>4, <2>5
  <2>7. segments = <<>>
    BY <2>5, <2>6, <1>i, TtsTypes, EmptySeq
  <2>8. audioOut = <<>> /\ emitterFrame = 0
    BY <1>6, <2>1, <2>6, <1>i DEF FirstSegmentOnly
  <2> QED BY <2>1, <2>2, <2>7, <2>8
<1>7. FramesEnd'
  <2>1. ASSUME ttsDialect # "elevenlabs", ttsUpdates = 0
        PROVE  \A k \in 1..Len(audioOut') : audioOut'[k].final => k = Len(audioOut') /\ ttsReader' = "done"
    <3>1. \A k \in 1..Len(audioOut) : ~audioOut[k].final
      BY <2>1, <1>g, <1>i DEF FramesEnd
    <3>2. CASE EmitterFlush /\ ttsReader' = "done"
      BY <3>1, <3>2, <1>i, FlushesFrame
    <3>3. CASE UNCHANGED <<audioOut, emitterFrame>>
      BY <3>1, <3>3
    <3> QED BY <3>2, <3>3, <1>e, <2>1 DEF DeepgramLosesServer
  <2>2. ASSUME ~trouble' PROVE audioOut' = <<>> /\ emitterFrame' = 0
    BY <2>2, <1>6, <1>g
  <2> QED BY <2>1, <2>2, <1>g DEF FramesEnd
<1>8. FirstSegmentOnly'
  <2> SUFFICES ASSUME ttsDialect = "deepgram", ~trouble' PROVE FirstSegmentOnly'
    BY <1>g DEF FirstSegmentOnly
  <2>1. /\ ~trouble /\ ttsSender = "done" /\ ttsWire = <<>> /\ segments = <<>>
        /\ audioOut = <<>> /\ emitterFrame = 0 /\ UNCHANGED <<audioOut, emitterFrame>> /\ ttsReader' = "done"
    BY <1>6
  <2>2. Len(ttsWire) = 0 /\ 1..0 = {}
    BY <2>1
  <2>3. FirstSent' <=> FirstSent
    BY <1>g DEF FirstSent
  <2> QED BY <2>1, <2>2, <2>3, <1>a, <1>f, <1>g, <1>i DEF FirstSegmentOnly
<1> QED BY <1>1, <1>2, <1>3, <1>4, <1>5, <1>7, <1>8 DEF TtsInv

\* What is pushed follows what the input holds.
LEMMA PushesKeepsTts == ASSUME TtsInv, PushesText PROVE TtsInv'
<1>i. /\ TtsSocketsTypeOK /\ FlowInOrder /\ NoneLost /\ SegmentsInOrder /\ FramesEnd /\ RunsEnd
      /\ SegmentBySegment /\ LastPacket /\ FirstSegmentOnly
  BY DEF TtsInv
<1>u. /\ ~script.closed
      /\ UNCHANGED <<ttsDialect, segments, writing, saying, taken, textOver, ttsSender, ttsWire, ttsReader,
                     emitterFrame, audioOut, ttsRun, trouble, ttsUpdates>>
  BY DEF PushesText
<1>t. /\ script \in [queue : Seq(0..MaxWordsSaid), pushed : 0..MaxWordsSaid, flushes : Nat, closed : BOOLEAN,
                    first : 0..MaxWordsSaid + 1]
      /\ MaxWordsSaid \in Nat
  BY <1>i, TtsTypes DEF TtsSocketsTypeOK
<1>f. /\ WordsTaken \in 0..script.pushed /\ WaitingWords = (WordsTaken + 1)..script.pushed /\ Ascends(script.queue)
  BY <1>i DEF FlowInOrder
<1>g. PICK item \in 0..MaxWordsSaid :
        /\ script'.queue = Append(script.queue, item) /\ script'.first = script.first
        /\ item # 0 => item = script.pushed + 1 /\ script'.pushed = script.pushed + 1 /\ ~script'.closed
        /\ item = 0 => script'.pushed = script.pushed
        /\ script' \in [queue : Seq(0..MaxWordsSaid), pushed : 0..MaxWordsSaid, flushes : Nat, closed : BOOLEAN,
                       first : 0..MaxWordsSaid + 1]
  <2>0. 0 \in 0..MaxWordsSaid /\ script.queue \in Seq(0..MaxWordsSaid) /\ script.pushed \in 0..MaxWordsSaid
    BY <1>t
  <2>1. CASE script.pushed < MaxWordsSaid /\ script' = [script EXCEPT !.queue = Append(@, script.pushed + 1), !.pushed = @ + 1]
    <3>1. script.pushed + 1 \in 0..MaxWordsSaid /\ script.pushed + 1 # 0
      BY <2>0, <2>1, <1>t
    <3>2. Append(script.queue, script.pushed + 1) \in Seq(0..MaxWordsSaid)
      BY <2>0, <3>1, AppendProperties
    <3> QED BY <2>1, <3>1, <3>2, <1>t, <1>u
  <2>2. CASE script.flushes < MaxFlushes /\ script' = [script EXCEPT !.queue = Append(@, 0), !.flushes = @ + 1]
    <3>1. Append(script.queue, 0) \in Seq(0..MaxWordsSaid)
      BY <2>0, AppendProperties
    <3>2. script.flushes + 1 \in Nat /\ script.flushes \in Nat
      BY <1>t
    <3> QED BY <2>0, <2>2, <3>1, <3>2, <1>t
  <2>3. CASE script' = [script EXCEPT !.queue = Append(@, 0), !.closed = TRUE]
    <3>1. Append(script.queue, 0) \in Seq(0..MaxWordsSaid)
      BY <2>0, AppendProperties
    <3> QED BY <2>0, <2>3, <3>1, <1>t
  <2> QED BY <2>1, <2>2, <2>3 DEF PushesText
<1>q. /\ Ascends(script'.queue) /\ WaitingWords' = WaitingWords \cup ({item} \ {0})
      /\ script'.queue # <<>> /\ script'.queue[Len(script'.queue)] = item
  <2>1. Below(ToSet(script.queue) \ {0}, {item} \ {0})
    <3> SUFFICES ASSUME item # 0, NEW x \in WaitingWords PROVE x < item
      BY DEF Below, WaitingWords
    <3>1. item = script.pushed + 1 /\ x \in (WordsTaken + 1)..script.pushed /\ script.pushed \in Nat /\ WordsTaken \in Nat
      BY <1>g, <1>f, <1>t
    <3> QED BY <3>1
  <2>2. script.queue \in Seq(0..MaxWordsSaid) /\ MaxWordsSaid \in Nat /\ Ascends(script.queue)
    BY <1>t, <1>f
  <2>a. \A x \in Seq(0..MaxWordsSaid) : Ascends(x) /\ Below(ToSet(x) \ {0}, {item} \ {0}) =>
            /\ Ascends(Append(x, item))
            /\ ToSet(Append(x, item)) \ {0} = (ToSet(x) \ {0}) \cup ({item} \ {0})
    BY ONLY <2>2, item \in 0..MaxWordsSaid, AscendsAppend, ZenonT(60)
  <2>3. /\ Ascends(Append(script.queue, item))
        /\ ToSet(Append(script.queue, item)) \ {0} = (ToSet(script.queue) \ {0}) \cup ({item} \ {0})
    BY <2>1, <2>2, <2>a
  <2>4. /\ Append(script.queue, item)[Len(Append(script.queue, item))] = item /\ Append(script.queue, item) # <<>>
    BY <2>2, LastElement DEF Last
  <2> QED BY <2>3, <2>4, <1>g DEF WaitingWords
<1>w. WordsTaken' = WordsTaken /\ WordsTaken' \in 0..script'.pushed /\ WaitingWords' = (WordsTaken' + 1)..script'.pushed
  <2>1. WordsTaken \in 0..script'.pushed /\ WaitingWords' = (WordsTaken + 1)..script'.pushed /\ script'.pushed \in Nat
    <3>1. script.pushed \in Nat
      BY <1>t
    <3>2. CASE item = 0
      BY <3>1, <3>2, <1>f, <1>g, <1>q
    <3>3. CASE item # 0
      <4>1. script'.pushed = script.pushed + 1 /\ item = script.pushed + 1 /\ WaitingWords' = WaitingWords \cup {script.pushed + 1}
        BY <3>3, <1>g, <1>q
      <4> QED BY <3>1, <4>1, <1>f
    <3> QED BY <3>2, <3>3
  <2>2. WordsTaken' = WordsTaken
    BY <2>1, WordsTakenIs
  <2> QED BY <2>1, <2>2
<1>a. /\ OutWords' = OutWords /\ HeardWords' = HeardWords /\ (Consecutive => Consecutive')
      /\ OnWire' = OnWire /\ LiveSegments' = LiveSegments /\ ComingWords' = ComingWords /\ (LiveInOrder => LiveInOrder')
  BY <1>u, SameAudio, SameSegments DEF OnWire
<1>1. TtsSocketsTypeOK'
  BY <1>u, <1>i, <1>g DEF TtsSocketsTypeOK
<1>2. FlowInOrder' /\ NoneLost'
  <2>1. TakenWords' = TakenWords
    BY <1>a DEF TakenWords
  <2> QED BY <2>1, <1>a, <1>q, <1>w, <1>u, <1>i DEF FlowInOrder, NoneLost
<1>3. SegmentsInOrder'
  <2>1. ~textOver /\ ttsSender # "done"
    BY <1>u, <1>i DEF SegmentsInOrder
  <2> QED BY <2>1, <1>u, <1>i, <1>a, <1>g, <1>q DEF SegmentsInOrder
<1>4. FramesEnd' /\ RunsEnd' /\ SegmentBySegment' /\ LastPacket'
  BY <1>u, <1>i DEF FramesEnd, RunsEnd, SegmentBySegment, LastPacket
<1>5. FirstSegmentOnly'
  BY <1>u, <1>i, <1>a, <1>g, <1>w DEF FirstSegmentOnly, FirstSent
<1> QED BY <1>1, <1>2, <1>3, <1>4, <1>5 DEF TtsInv

\* The item that is taken is the next word, or a flush.
LEMMA TakesItem ==
    ASSUME TtsInv, script.queue # <<>>, NEW first \in 0..(MaxWordsSaid + 1),
           script' = [script EXCEPT !.queue = Tail(@), !.first = first]
    PROVE  /\ script' \in [queue : Seq(0..MaxWordsSaid), pushed : 0..MaxWordsSaid, flushes : Nat, closed : BOOLEAN,
                          first : 0..MaxWordsSaid + 1]
           /\ script'.queue = Tail(script.queue) /\ script'.pushed = script.pushed /\ script'.closed = script.closed
           /\ script'.first = first /\ Ascends(script'.queue) /\ Head(script.queue) \in 0..MaxWordsSaid
           /\ WordsTaken' \in 0..script'.pushed /\ WaitingWords' = (WordsTaken' + 1)..script'.pushed
           /\ WordsTaken \in 0..MaxWordsSaid
           /\ Head(script.queue) = 0 => WordsTaken' = WordsTaken
           /\ Head(script.queue) # 0 => Head(script.queue) = WordsTaken + 1 /\ WordsTaken' = WordsTaken + 1
           /\ script'.closed /\ script'.queue # <<>> => script'.queue[Len(script'.queue)] = 0
           /\ script'.closed /\ Head(script.queue) # 0 => script'.queue # <<>>
<1>i. TtsSocketsTypeOK /\ FlowInOrder /\ SegmentsInOrder
  BY DEF TtsInv
<1>t. /\ script \in [queue : Seq(0..MaxWordsSaid), pushed : 0..MaxWordsSaid, flushes : Nat, closed : BOOLEAN,
                    first : 0..MaxWordsSaid + 1]
      /\ MaxWordsSaid \in Nat /\ script.queue \in Seq(0..MaxWordsSaid) /\ script.pushed \in Nat
      /\ script.pushed \in 0..MaxWordsSaid
  BY <1>i, TtsTypes DEF TtsSocketsTypeOK
<1>f. /\ WordsTaken \in 0..script.pushed /\ WaitingWords = (WordsTaken + 1)..script.pushed /\ Ascends(script.queue)
  BY <1>i DEF FlowInOrder
<1> DEFINE h == Head(script.queue)
           q == Tail(script.queue)
<1>1. /\ q \in Seq(0..MaxWordsSaid) /\ Ascends(q) /\ h \in 0..MaxWordsSaid
      /\ ToSet(script.queue) \ {0} = (ToSet(q) \ {0}) \cup ({h} \ {0})
      /\ Below({h} \ {0}, ToSet(q) \ {0})
  BY <1>t, <1>f, AscendsTail
<1>2. /\ script'.queue = q /\ script'.pushed = script.pushed /\ script'.closed = script.closed /\ script'.first = first
      /\ script' \in [queue : Seq(0..MaxWordsSaid), pushed : 0..MaxWordsSaid, flushes : Nat, closed : BOOLEAN,
                     first : 0..MaxWordsSaid + 1]
  BY <1>1, <1>t
<1>3. WaitingWords = WaitingWords' \cup ({h} \ {0}) /\ Below({h} \ {0}, WaitingWords') /\ WordsTaken \in Nat
  BY <1>1, <1>2, <1>f, <1>t DEF WaitingWords
<1>4. ASSUME h = 0
      PROVE  /\ WordsTaken' = WordsTaken
             /\ WordsTaken' \in 0..script'.pushed /\ WaitingWords' = (WordsTaken' + 1)..script'.pushed
  <2>1. WaitingWords' = (WordsTaken + 1)..script'.pushed /\ WordsTaken \in 0..script'.pushed /\ script'.pushed \in Nat
    BY <1>2, <1>3, <1>4, <1>f, <1>t
  <2>2. WordsTaken' = WordsTaken
    BY <2>1, WordsTakenIs
  <2> QED BY <2>1, <2>2
<1>5. ASSUME h # 0
      PROVE  /\ h = WordsTaken + 1 /\ WordsTaken' = WordsTaken + 1
             /\ WordsTaken' \in 0..script'.pushed /\ WaitingWords' = (WordsTaken' + 1)..script'.pushed
  <2>1. h \in (WordsTaken + 1)..script.pushed /\ \A y \in (WordsTaken + 1)..script.pushed : y = h \/ h < y
    BY <1>3, <1>5, <1>f DEF Below
  <2>2. h = WordsTaken + 1
    <3>1. WordsTaken + 1 \in (WordsTaken + 1)..script.pushed
      BY <2>1, <1>3, <1>t
    <3>2. h >= WordsTaken + 1 /\ h \in Nat
      BY <2>1, <1>3, <1>t
    <3>3. WordsTaken + 1 = h \/ h < WordsTaken + 1
      BY <2>1, <3>1
    <3> QED BY <3>2, <3>3, <1>3
  <2>3. WordsTaken + 1 \in 0..script.pushed
    BY <2>1, <2>2, <1>3, <1>t
  <2>4. WaitingWords' = (WordsTaken + 2)..script.pushed
    <3>1. WordsTaken + 1 \notin WaitingWords'
      BY <2>2, <1>3, <1>5 DEF Below
    <3>2. WaitingWords' = WaitingWords \ {WordsTaken + 1}
      BY <3>1, <2>2, <1>3, <1>5
    <3>3. ((WordsTaken + 1)..script.pushed) \ {WordsTaken + 1} = (WordsTaken + 2)..script.pushed
      BY <1>3, <1>t
    <3> QED BY <3>2, <3>3, <1>f
  <2>5. WaitingWords' = ((WordsTaken + 1) + 1)..script'.pushed /\ WordsTaken + 1 \in 0..script'.pushed /\ script'.pushed \in Nat
    <3>1. (WordsTaken + 1) + 1 = WordsTaken + 2
      BY <1>3
    <3> QED BY <3>1, <2>3, <2>4, <1>2, <1>t
  <2>6. WordsTaken' = WordsTaken + 1
    BY <2>5, WordsTakenIs
  <2> QED BY <2>2, <2>5, <2>6, <1>5
<1>6. script.closed => script.queue[Len(script.queue)] = 0
  BY <1>i DEF SegmentsInOrder
<1>7. /\ Len(q) = Len(script.queue) - 1 /\ Len(script.queue) # 0 /\ Len(script.queue) \in Nat /\ h = script.queue[1]
      /\ \A k \in 1..Len(q) : q[k] = script.queue[k + 1]
      /\ (q # <<>> <=> Len(q) # 0)
  <2>1. q # <<>> <=> Len(q) # 0
    BY <1>1, EmptySeq
  <2>2. script.queue \in Seq(0..MaxWordsSaid) /\ script.queue # <<>>
    BY <1>t
  <2>3. Len(script.queue) \in Nat /\ Len(script.queue) # 0
    BY <2>2, EmptySeq, LenProperties
  <2> QED BY <2>1, <2>2, <2>3, HeadTailProperties
<1>8. script.closed /\ q # <<>> => q[Len(q)] = 0
  <2>1. q # <<>> => Len(q) \in 1..Len(q) /\ Len(q) + 1 = Len(script.queue)
    BY <1>7
  <2> QED BY <2>1, <1>6, <1>7
<1>9. script.closed /\ h # 0 => q # <<>>
  <2>1. Len(q) = 0 => Len(script.queue) = 1
    BY <1>7
  <2> QED BY <2>1, <1>6, <1>7
<1>10. WordsTaken \in 0..MaxWordsSaid
  BY <1>f, <1>t
<1> QED BY <1>1, <1>2, <1>4, <1>5, <1>8, <1>9, <1>10

\* Nothing but the input, the word streams and the wire moves when the input is taken.
Taking ==
    /\ ttsRun = "runs" /\ script.queue # <<>> /\ ttsSender # "done" /\ ~textOver
    /\ UNCHANGED <<ttsDialect, saying, taken, textOver, ttsSender, ttsReader, emitterFrame, audioOut, ttsRun, trouble,
                   ttsUpdates>>
    /\ \E first \in 0..(MaxWordsSaid + 1) : script' = [script EXCEPT !.queue = Tail(@), !.first = first]

LEMMA TakingFacts ==
    ASSUME TtsInv, Taking
    PROVE  /\ script' \in [queue : Seq(0..MaxWordsSaid), pushed : 0..MaxWordsSaid, flushes : Nat, closed : BOOLEAN,
                          first : 0..MaxWordsSaid + 1]
           /\ script'.pushed = script.pushed /\ script'.closed = script.closed
           /\ Ascends(script'.queue) /\ Head(script.queue) \in 0..MaxWordsSaid
           /\ WordsTaken' \in 0..script'.pushed /\ WaitingWords' = (WordsTaken' + 1)..script'.pushed
           /\ WordsTaken \in 0..MaxWordsSaid /\ WordsTaken \in Nat
           /\ Head(script.queue) = 0 => WordsTaken' = WordsTaken
           /\ Head(script.queue) # 0 => /\ Head(script.queue) = WordsTaken + 1 /\ WordsTaken' = WordsTaken + 1
                                        /\ Head(script.queue) \in ScriptWords
                                        /\ 1..WordsTaken' = 1..WordsTaken \cup {Head(script.queue)}
                                        /\ \A x \in 1..WordsTaken : x < Head(script.queue)
           /\ script'.closed /\ script'.queue # <<>> => script'.queue[Len(script'.queue)] = 0
           /\ script'.closed /\ Head(script.queue) # 0 => script'.queue # <<>>
           /\ OutWords' = OutWords /\ HeardWords' = HeardWords /\ (Consecutive => Consecutive')
           /\ TakenWords \subseteq 1..WordsTaken
<1> PICK first \in 0..(MaxWordsSaid + 1) : script' = [script EXCEPT !.queue = Tail(@), !.first = first]
  BY DEF Taking
<1> DEFINE h == Head(script.queue)
<1>0. script.queue # <<>> /\ UNCHANGED <<emitterFrame, audioOut>>
  BY DEF Taking
<1>1. /\ script' \in [queue : Seq(0..MaxWordsSaid), pushed : 0..MaxWordsSaid, flushes : Nat, closed : BOOLEAN,
                     first : 0..MaxWordsSaid + 1]
      /\ script'.pushed = script.pushed /\ script'.closed = script.closed
      /\ Ascends(script'.queue) /\ h \in 0..MaxWordsSaid
      /\ WordsTaken' \in 0..script'.pushed /\ WaitingWords' = (WordsTaken' + 1)..script'.pushed
      /\ WordsTaken \in 0..MaxWordsSaid
      /\ h = 0 => WordsTaken' = WordsTaken
      /\ h # 0 => h = WordsTaken + 1 /\ WordsTaken' = WordsTaken + 1
      /\ script'.closed /\ script'.queue # <<>> => script'.queue[Len(script'.queue)] = 0
      /\ script'.closed /\ h # 0 => script'.queue # <<>>
  BY <1>0, TakesItem
<1>2. MaxWordsSaid \in Nat
  BY TtsSocketsAssumption
<1>3. WordsTaken \in Nat
  BY <1>1, <1>2
<1>4. ASSUME h # 0 PROVE h \in ScriptWords /\ 1..WordsTaken' = 1..WordsTaken \cup {h} /\ \A x \in 1..WordsTaken : x < h
  <2>1. 1..(WordsTaken + 1) = 1..WordsTaken \cup {WordsTaken + 1} /\ \A x \in 1..WordsTaken : x < WordsTaken + 1
    BY <1>3
  <2> QED BY <2>1, <1>1, <1>2, <1>4 DEF ScriptWords
<1>5. TakenWords \subseteq 1..WordsTaken
  BY DEF TtsInv, FlowInOrder
<1> QED BY <1>0, <1>1, <1>3, <1>4, <1>5, SameAudio

\* A word goes to the word stream that is written.
LEMMA WritesKeepsTts ==
    ASSUME TtsInv, Taking, Head(script.queue) # 0, ttsDialect # "neuphonic", script'.first = script.first,
           Writes(Head(script.queue))
    PROVE  TtsInv'
<1> DEFINE w == Head(script.queue)
<1>i. /\ TtsSocketsTypeOK /\ FlowInOrder /\ NoneLost /\ SegmentsInOrder /\ FramesEnd /\ RunsEnd
      /\ SegmentBySegment /\ LastPacket /\ FirstSegmentOnly
  BY DEF TtsInv
<1>u. /\ ttsRun = "runs" /\ ttsSender # "done" /\ ~textOver
      /\ UNCHANGED <<ttsDialect, saying, taken, textOver, ttsSender, ttsReader, emitterFrame, audioOut, ttsRun, trouble,
                     ttsUpdates, ttsWire>>
  BY DEF Taking, Writes
<1>f. /\ script' \in [queue : Seq(0..MaxWordsSaid), pushed : 0..MaxWordsSaid, flushes : Nat, closed : BOOLEAN,
                     first : 0..MaxWordsSaid + 1]
      /\ script'.pushed = script.pushed /\ script'.closed = script.closed /\ Ascends(script'.queue)
      /\ WordsTaken' \in 0..script'.pushed /\ WaitingWords' = (WordsTaken' + 1)..script'.pushed /\ WordsTaken \in Nat
      /\ w = WordsTaken + 1 /\ WordsTaken' = WordsTaken + 1 /\ w \in ScriptWords
      /\ 1..WordsTaken' = 1..WordsTaken \cup {w} /\ \A x \in 1..WordsTaken : x < w
      /\ script'.closed => script'.queue # <<>> /\ script'.queue[Len(script'.queue)] = 0
      /\ OutWords' = OutWords /\ HeardWords' = HeardWords /\ (Consecutive => Consecutive')
      /\ HeardWords \cup OnWire \cup ComingWords \subseteq 1..WordsTaken /\ OnWire' = OnWire
  BY <1>u, TakingFacts DEF OnWire, TakenWords
<1> HIDE DEF w
<1>1. Below(ComingWords, {w})
  BY <1>f DEF Below
<1>2. /\ segments' \in Seq([words : Seq(ScriptWords), ended : BOOLEAN]) /\ Len(segments') \in Nat
      /\ LiveInOrder' /\ ComingWords' = ComingWords \cup {w} /\ LiveSegments' = LiveSegments \cup {writing'}
      /\ writing' = Len(segments') /\ writing' # 0 /\ writing' \in LiveSegments' /\ ~segments'[writing'].ended
      /\ writing # 0 => writing' = writing /\ Len(segments') = Len(segments)
      /\ writing = 0 => Len(segments') = Len(segments) + 1
      /\ \A s \in 1..Len(segments) : s \in 1..Len(segments') /\ (s # writing' => segments'[s] = segments[s])
      /\ ToSet(segments'[writing'].words) =
             (IF writing = 0 THEN {} ELSE ToSet(segments[writing].words)) \cup {w}
  <2>1. LiveInOrder /\ w \in ScriptWords /\ Writes(w) /\ UNCHANGED <<taken, saying>>
    BY <1>i, <1>f, <1>u DEF FlowInOrder, w
  <2> QED BY <2>1, <1>1, <1>i, WritesWord
<1>t. /\ taken \in 0..Len(segments) /\ saying \in 0..taken /\ Len(segments) \in Nat /\ writing \in 0..Len(segments)
  BY <1>i, TtsTypes
<1>3. TtsSocketsTypeOK'
  <2>1. taken \in 0..Len(segments') /\ writing' \in 0..Len(segments')
    BY <1>t, <1>2
  <2> QED BY <2>1, <1>u, <1>i, <1>f, <1>2 DEF TtsSocketsTypeOK
<1>4. FlowInOrder' /\ NoneLost'
  <2>1. TakenWords' = TakenWords \cup {w}
    BY <1>f, <1>2 DEF TakenWords
  <2>2. Below(HeardWords' \cup OnWire', ComingWords')
    BY <1>f, <1>2, <1>i DEF Below, FlowInOrder
  <2>3. TakenWords' \subseteq 1..WordsTaken'
    BY <2>1, <1>f DEF TakenWords
  <2>4. FlowInOrder'
    BY <2>2, <2>3, <1>f, <1>2, <1>u, <1>i DEF FlowInOrder
  <2> QED BY <2>1, <2>4, <1>f, <1>u, <1>i DEF NoneLost
<1>5. SegmentsInOrder'
  <2>1. ASSUME ttsSender = "waits" PROVE saying # 0 /\ segments'[saying] = segments[saying]
    <3>1. saying # 0 /\ segments[saying].ended
      BY <2>1, <1>i DEF SegmentsInOrder
    <3>2. saying # writing'
      <4>1. CASE writing = 0
        BY <4>1, <1>2, <1>t
      <4>2. CASE writing # 0
        BY <4>2, <3>1, <1>2, <1>i DEF SegmentsInOrder
      <4> QED BY <4>1, <4>2
    <3>3. saying \in 1..Len(segments)
      BY <3>1, <1>t
    <3> QED BY <3>1, <3>2, <3>3, <1>2
  <2> QED BY <2>1, <1>2, <1>f, <1>u, <1>i DEF SegmentsInOrder
<1>6. FramesEnd' /\ RunsEnd' /\ SegmentBySegment' /\ LastPacket'
  BY <1>u, <1>i DEF FramesEnd, RunsEnd, SegmentBySegment, LastPacket
<1>7. FirstSegmentOnly'
  <2> SUFFICES ASSUME ttsDialect = "deepgram", ~trouble PROVE FirstSegmentOnly'
    BY <1>u DEF FirstSegmentOnly
  <2>1. FirstSent' <=> FirstSent
    BY <1>u DEF FirstSent
  <2>2. segments' # <<>> /\ writing' # 0
    BY <1>2, EmptySeq
  <2>3. script.first = 0 => Len(segments') <= 1 /\ writing' = 1
    <3> SUFFICES ASSUME script.first = 0 PROVE Len(segments') <= 1 /\ writing' = 1 OBVIOUS
    <3>1. segments # <<>> => writing = 1
      BY <1>i DEF FirstSegmentOnly
    <3>2. Len(segments) <= 1
      BY <1>i DEF FirstSegmentOnly
    <3>3. CASE segments = <<>>
      <4>1. Len(segments) = 0 /\ writing = 0
        BY <3>3, <1>t, EmptySeq
      <4> QED BY <4>1, <1>2
    <3>4. CASE segments # <<>>
      BY <3>1, <3>2, <3>4, <1>2
    <3> QED BY <3>3, <3>4
  <2>4. script.first # 0 => writing' # 1
    <3> SUFFICES ASSUME script.first # 0 PROVE writing' # 1 OBVIOUS
    <3>1. writing # 1 /\ segments # <<>>
      BY <1>i DEF FirstSegmentOnly
    <3>2. Len(segments) # 0
      BY <3>1, <1>i, TtsTypes, EmptySeq
    <3> QED BY <3>1, <3>2, <1>2, <1>t
  <2>5. script.first # 0 => /\ script.first \in 1..(WordsTaken' + 1)
                            /\ \A s \in LiveSegments' : \A x \in ToSet(segments'[s].words) : x < script.first <=> s = 1
    <3> SUFFICES ASSUME script.first # 0
                 PROVE  /\ script.first \in 1..(WordsTaken' + 1)
                        /\ \A s \in LiveSegments' : \A x \in ToSet(segments'[s].words) : x < script.first <=> s = 1
      OBVIOUS
    <3>1. script.first \in 1..(WordsTaken + 1)
      BY <1>i DEF FirstSegmentOnly
    <3>2. script.first \in 1..(WordsTaken' + 1) /\ ~(w < script.first)
      <4>1. WordsTaken' = WordsTaken + 1 /\ w = WordsTaken + 1 /\ WordsTaken \in Nat
        BY <1>f
      <4> QED BY <3>1, <4>1
    <3>3. \A s \in LiveSegments : \A x \in ToSet(segments[s].words) : x < script.first <=> s = 1
      BY <1>i DEF FirstSegmentOnly
    <3>4. writing # 0 => writing \in LiveSegments
      BY <1>i DEF SegmentsInOrder
    <3>5. \A x \in ToSet(segments'[writing'].words) : x < script.first <=> writing' = 1
      BY <2>4, <3>2, <3>3, <3>4, <1>2
    <3>6. \A s \in LiveSegments : s # writing' => segments'[s] = segments[s]
      BY <1>2 DEF LiveSegments
    <3> QED BY <3>2, <3>3, <3>5, <3>6, <1>2
  <2> QED BY <2>1, <2>2, <2>3, <2>4, <2>5, <1>f, <1>u, <1>i DEF FirstSegmentOnly
<1> QED BY <1>3, <1>4, <1>5, <1>6, <1>7 DEF TtsInv

\* What is sent at the end of the wire, that neither segments nor the reader know of.
LEMMA WireGrows ==
    ASSUME TtsInv, NEW e \in 0..MaxWordsSaid, Below(OnWire, {e} \ {0}), ttsWire' = Append(ttsWire, e)
    PROVE  /\ ttsWire' \in Seq(0..MaxWordsSaid) /\ Ascends(ttsWire') /\ OnWire' = OnWire \cup ({e} \ {0})
           /\ ToSet(ttsWire') = ToSet(ttsWire) \cup {e} /\ ttsWire' # <<>>
           /\ 1..Len(ttsWire') = 1..Len(ttsWire) \cup {Len(ttsWire')} /\ Len(ttsWire') \notin 1..Len(ttsWire)
           /\ \A k \in 1..Len(ttsWire) : ttsWire'[k] = ttsWire[k]
           /\ ttsWire'[Len(ttsWire')] = e
<1>t. MaxWordsSaid \in Nat /\ ttsWire \in Seq(0..MaxWordsSaid) /\ Ascends(ttsWire)
  BY TtsTypes DEF TtsInv, FlowInOrder
<1>w. MaxWordsSaid \in Nat /\ e \in 0..MaxWordsSaid
  BY <1>t
<1>a. \A x \in Seq(0..MaxWordsSaid) : Ascends(x) /\ Below(ToSet(x) \ {0}, {e} \ {0}) =>
          /\ Append(x, e) \in Seq(0..MaxWordsSaid) /\ Ascends(Append(x, e))
          /\ ToSet(Append(x, e)) = ToSet(x) \cup {e}
  BY ONLY <1>w, AscendsAppend
<1>1. Below(ToSet(ttsWire) \ {0}, {e} \ {0})
  BY DEF OnWire
<1>2. ttsWire' \in Seq(0..MaxWordsSaid) /\ Ascends(ttsWire') /\ ToSet(ttsWire') = ToSet(ttsWire) \cup {e}
  BY <1>1, <1>a, <1>t
<1>3. /\ 1..Len(ttsWire') = 1..Len(ttsWire) \cup {Len(ttsWire) + 1} /\ Len(ttsWire) + 1 \notin 1..Len(ttsWire)
      /\ \A k \in 1..Len(ttsWire) : ttsWire'[k] = ttsWire[k]
      /\ ttsWire'[Len(ttsWire) + 1] = e
  BY <1>t, AppendAt
<1>4. Len(ttsWire') = Len(ttsWire) + 1 /\ ttsWire' # <<>>
  <2>1. Len(Append(ttsWire, e)) = Len(ttsWire) + 1 /\ Append(ttsWire, e) # <<>>
    BY <1>t, AppendProperties, LastElement
  <2> QED BY <2>1
<1> QED BY <1>2, <1>3, <1>4 DEF OnWire

\* Neuphonic sends a word at once.
LEMMA NeuphonicWordKeepsTts ==
    ASSUME TtsInv, Taking, Head(script.queue) # 0, ttsDialect = "neuphonic", script'.first = script.first,
           NeuphonicTakes(Head(script.queue))
    PROVE  TtsInv'
<1> DEFINE w == Head(script.queue)
<1>i. /\ TtsSocketsTypeOK /\ FlowInOrder /\ NoneLost /\ SegmentsInOrder /\ FramesEnd /\ RunsEnd
      /\ SegmentBySegment /\ LastPacket /\ FirstSegmentOnly
  BY DEF TtsInv
<1>u. /\ ttsRun = "runs" /\ ttsSender # "done" /\ ~textOver
      /\ UNCHANGED <<ttsDialect, saying, taken, textOver, ttsSender, ttsReader, emitterFrame, audioOut, ttsRun, trouble,
                     ttsUpdates, segments, writing>>
      /\ ttsWire' = Append(ttsWire, w)
  BY DEF Taking, NeuphonicTakes
<1>f. /\ script' \in [queue : Seq(0..MaxWordsSaid), pushed : 0..MaxWordsSaid, flushes : Nat, closed : BOOLEAN,
                     first : 0..MaxWordsSaid + 1]
      /\ script'.pushed = script.pushed /\ script'.closed = script.closed /\ Ascends(script'.queue)
      /\ WordsTaken' \in 0..script'.pushed /\ WaitingWords' = (WordsTaken' + 1)..script'.pushed /\ WordsTaken \in Nat
      /\ w = WordsTaken + 1 /\ WordsTaken' = WordsTaken + 1 /\ w \in 0..MaxWordsSaid /\ w # 0
      /\ 1..WordsTaken' = 1..WordsTaken \cup {w} /\ \A x \in 1..WordsTaken : x < w
      /\ script'.closed => script'.queue # <<>> /\ script'.queue[Len(script'.queue)] = 0
      /\ OutWords' = OutWords /\ HeardWords' = HeardWords /\ (Consecutive => Consecutive')
      /\ HeardWords \cup OnWire \cup ComingWords \subseteq 1..WordsTaken
  BY <1>u, TakingFacts DEF TakenWords
<1> HIDE DEF w
<1>s. segments = <<>> /\ segments' = segments /\ LiveSegments = {} /\ ComingWords = {} /\ LiveSegments' = {} /\ ComingWords' = {}
  <2>1. segments = <<>> /\ Len(<<>>) = 0 /\ 1..0 = {}
    BY <1>i DEF SegmentsInOrder
  <2> QED BY <2>1, <1>u DEF LiveSegments, ComingWords
<1>1. Below(OnWire, {w} \ {0})
  BY <1>f DEF Below
<1>2. /\ ttsWire' \in Seq(0..MaxWordsSaid) /\ Ascends(ttsWire') /\ OnWire' = OnWire \cup ({w} \ {0})
      /\ ToSet(ttsWire') = ToSet(ttsWire) \cup {w}
  BY <1>1, <1>f, <1>u, WireGrows
<1>3. TtsSocketsTypeOK'
  BY <1>u, <1>i, <1>f, <1>2 DEF TtsSocketsTypeOK
<1>4. FlowInOrder' /\ NoneLost'
  <2>1. TakenWords' = TakenWords \cup {w}
    BY <1>f, <1>2, <1>s DEF TakenWords
  <2>2. Below(HeardWords', OnWire')
    BY <1>f, <1>2, <1>i DEF Below, FlowInOrder
  <2>3. TakenWords' \subseteq 1..WordsTaken'
    BY <2>1, <1>f DEF TakenWords
  <2>4. LiveInOrder' /\ Below(HeardWords' \cup OnWire', ComingWords')
    BY <1>s DEF LiveInOrder, Below
  <2>5. FlowInOrder'
    BY <2>2, <2>3, <2>4, <1>f, <1>2, <1>u, <1>i DEF FlowInOrder
  <2> QED BY <2>1, <2>5, <1>f, <1>u, <1>i DEF NoneLost
<1>5. SegmentsInOrder'
  BY <1>s, <1>f, <1>u, <1>i DEF SegmentsInOrder
<1>6. FramesEnd' /\ RunsEnd' /\ SegmentBySegment' /\ LastPacket'
  BY <1>u, <1>i DEF FramesEnd, RunsEnd, SegmentBySegment, LastPacket
<1>7. FirstSegmentOnly'
  <2> SUFFICES ASSUME ~trouble PROVE FirstSegmentOnly'
    BY <1>u DEF FirstSegmentOnly
  <2>1. (FirstSent' <=> FirstSent) /\ (FirstSent <=> script.first # 0)
    BY <1>u DEF FirstSent
  <2>2. 0 \in ToSet(ttsWire') <=> 0 \in ToSet(ttsWire)
    BY <1>2, <1>f
  <2>3. ASSUME script.first # 0
        PROVE  script.first \in 1..(WordsTaken' + 1) /\ CutAt(ttsWire', script.first, ttsReader = "reads")
    <3>1. script.first \in 1..(WordsTaken + 1)
      BY <2>3, <1>u, <1>i DEF FirstSegmentOnly
    <3>2. script.first \in 1..(WordsTaken' + 1) /\ ~(w < script.first)
      <4>1. WordsTaken' = WordsTaken + 1 /\ w = WordsTaken + 1 /\ WordsTaken \in Nat
        BY <1>f
      <4> QED BY <3>1, <4>1
    <3>3. ttsReader = "reads" => 0 \in ToSet(ttsWire)
      BY <2>1, <2>3, <1>u, <1>i DEF FirstSegmentOnly
    <3> DEFINE read == ttsReader = "reads"
    <3>4. CutAt(ttsWire, script.first, read) /\ (w # 0 => (w < script.first <=> read /\ 0 \notin ToSet(ttsWire)))
      BY <2>3, <3>2, <3>3, <1>u, <1>i DEF FirstSegmentOnly
    <3> HIDE DEF read
    <3>5. ttsWire \in Seq(0..MaxWordsSaid) /\ MaxWordsSaid \in Nat /\ w \in 0..MaxWordsSaid
      BY <1>f, <1>i, TtsTypes
    <3>6. CutAt(Append(ttsWire, w), script.first, read)
      BY <3>4, <3>5, CutAppend
    <3> QED BY <3>2, <3>6, <1>u DEF read
  <2> QED BY <2>1, <2>2, <2>3, <1>s, <1>f, <1>u, <1>i DEF FirstSegmentOnly
<1> QED BY <1>3, <1>4, <1>5, <1>6, <1>7 DEF TtsInv

\* Before the first segment ended, all words that are on the way are of it.
LEMMA CutAtAll ==
    ASSUME NEW N \in Nat, NEW s \in Seq(0..N), NEW f, NEW read, read, 0 \notin ToSet(s), \A x \in ToSet(s) \ {0} : x < f
    PROVE  CutAt(s, f, read)
<1>1. ToSet(s) = {s[k] : k \in 1..Len(s)}
  BY LenProperties DEF ToSet
<1>2. \A k \in 1..Len(s) : s[k] # 0 /\ s[k] < f
  BY <1>1
<1> QED BY <1>2 DEF CutAt, NoneBefore

\* Neuphonic sends <STOP> for a flush.
LEMMA NeuphonicStopKeepsTts ==
    ASSUME TtsInv, Taking, Head(script.queue) = 0, ttsDialect = "neuphonic",
           script'.first = IF script.first = 0 THEN WordsTaken + 1 ELSE script.first,
           NeuphonicTakes(0)
    PROVE  TtsInv'
<1>i. /\ TtsSocketsTypeOK /\ FlowInOrder /\ NoneLost /\ SegmentsInOrder /\ FramesEnd /\ RunsEnd
      /\ SegmentBySegment /\ LastPacket /\ FirstSegmentOnly
  BY DEF TtsInv
<1>u. /\ ttsRun = "runs" /\ ttsSender # "done" /\ ~textOver
      /\ UNCHANGED <<ttsDialect, saying, taken, textOver, ttsSender, ttsReader, emitterFrame, audioOut, ttsRun, trouble,
                     ttsUpdates, segments, writing>>
      /\ ttsWire' = Append(ttsWire, 0)
  BY DEF Taking, NeuphonicTakes
<1>f. /\ script' \in [queue : Seq(0..MaxWordsSaid), pushed : 0..MaxWordsSaid, flushes : Nat, closed : BOOLEAN,
                     first : 0..MaxWordsSaid + 1]
      /\ script'.pushed = script.pushed /\ script'.closed = script.closed /\ Ascends(script'.queue)
      /\ WordsTaken' \in 0..script'.pushed /\ WaitingWords' = (WordsTaken' + 1)..script'.pushed /\ WordsTaken \in Nat
      /\ WordsTaken' = WordsTaken
      /\ script'.closed /\ script'.queue # <<>> => script'.queue[Len(script'.queue)] = 0
      /\ OutWords' = OutWords /\ HeardWords' = HeardWords /\ (Consecutive => Consecutive')
      /\ HeardWords \cup OnWire \cup ComingWords \subseteq 1..WordsTaken
  BY <1>u, TakingFacts DEF TakenWords
<1>s. segments = <<>> /\ segments' = segments /\ LiveSegments = {} /\ ComingWords = {} /\ LiveSegments' = {} /\ ComingWords' = {}
  <2>1. segments = <<>> /\ Len(<<>>) = 0 /\ 1..0 = {}
    BY <1>i DEF SegmentsInOrder
  <2> QED BY <2>1, <1>u DEF LiveSegments, ComingWords
<1>2. /\ ttsWire' \in Seq(0..MaxWordsSaid) /\ Ascends(ttsWire') /\ OnWire' = OnWire /\ 0 \in ToSet(ttsWire')
  <2>1. Below(OnWire, {0} \ {0}) /\ 0 \in 0..MaxWordsSaid
    BY TtsSocketsAssumption DEF Below
  <2> QED BY <2>1, <1>u, WireGrows
<1>3. TtsSocketsTypeOK'
  BY <1>u, <1>i, <1>f, <1>2 DEF TtsSocketsTypeOK
<1>4. FlowInOrder' /\ NoneLost'
  <2>1. TakenWords' = TakenWords
    BY <1>f, <1>2, <1>s DEF TakenWords
  <2>2. LiveInOrder' /\ Below(HeardWords' \cup OnWire', ComingWords')
    BY <1>s DEF LiveInOrder, Below
  <2>3. FlowInOrder'
    BY <2>1, <2>2, <1>f, <1>2, <1>u, <1>i DEF FlowInOrder
  <2> QED BY <2>1, <2>3, <1>f, <1>u, <1>i DEF NoneLost
<1>5. SegmentsInOrder'
  <2>1. writing = 0
    <3>1. Len(segments) = 0 /\ writing \in 0..Len(segments)
      BY <1>s, <1>i, TtsTypes
    <3> QED BY <3>1
  <2> QED BY <2>1, <1>s, <1>f, <1>u, <1>i DEF SegmentsInOrder
<1>6. FramesEnd' /\ RunsEnd' /\ SegmentBySegment' /\ LastPacket'
  BY <1>u, <1>i DEF FramesEnd, RunsEnd, SegmentBySegment, LastPacket
<1>7. FirstSegmentOnly'
  <2> SUFFICES ASSUME ~trouble PROVE FirstSegmentOnly'
    BY <1>u DEF FirstSegmentOnly
  <2>1. script'.first \in 1..(WordsTaken + 1) /\ script'.first # 0
    <3>1. CASE script.first = 0
      BY <3>1, <1>f
    <3>2. CASE script.first # 0
      BY <3>2, <1>u, <1>i DEF FirstSegmentOnly
    <3> QED BY <3>1, <3>2
  <2>2. FirstSent'
    BY <2>1, <1>u DEF FirstSent
  <2> DEFINE read == ttsReader = "reads"
  <2>3. ttsWire \in Seq(0..MaxWordsSaid) /\ MaxWordsSaid \in Nat /\ 0 \in 0..MaxWordsSaid
    BY <1>i, TtsTypes
  <2>4. (\A x \in HeardWords : x < script'.first) /\ CutAt(ttsWire, script'.first, read)
    <3>1. CASE script.first = 0
      <4>1. ~FirstSent
        BY <3>1, <1>u DEF FirstSent
      <4>2. ttsReader # "done" /\ ttsReader # "stuck"
        BY <4>1, <1>u, <1>i DEF FirstSegmentOnly, RunsEnd
      <4>3. read /\ 0 \notin ToSet(ttsWire)
        BY <4>1, <4>2, <1>u, <1>i DEF FirstSegmentOnly, TtsSocketsTypeOK
      <4>4. script'.first = WordsTaken + 1 /\ \A x \in 1..WordsTaken : x < script'.first
        BY <3>1, <1>f
      <4>5. \A x \in ToSet(ttsWire) \ {0} : x < script'.first
        BY <4>4, <1>f DEF OnWire
      <4> HIDE DEF read
      <4>6. CutAt(ttsWire, script'.first, read)
        BY <2>3, <4>3, <4>5, CutAtAll
      <4> QED BY <4>4, <4>6, <1>f
    <3>2. CASE script.first # 0
      BY <3>2, <1>u, <1>i DEF FirstSegmentOnly
    <3> QED BY <3>1, <3>2
  <2>5. CutAt(ttsWire', script'.first, read)
    <3> PICK f : f = script'.first OBVIOUS
    <3> HIDE DEF read
    <3>1. CutAt(ttsWire, f, read)
      BY <2>4
    <3>2. CutAt(Append(ttsWire, 0), f, read)
      BY <3>1, <2>3, CutAppend
    <3> QED BY <3>2, <1>u
  <2> QED BY <2>1, <2>2, <2>4, <2>5, <1>2, <1>s, <1>f, <1>u, <1>i DEF FirstSegmentOnly
<1> QED BY <1>3, <1>4, <1>5, <1>6, <1>7 DEF TtsInv

\* A flush ends the word stream that is written; that of cartesia goes on.
LEMMA FlushKeepsTts ==
    ASSUME TtsInv, Taking, Head(script.queue) = 0, ttsDialect # "neuphonic",
           script'.first = IF script.first = 0 /\ writing # 0 THEN WordsTaken + 1 ELSE script.first,
           \/ ttsDialect # "cartesia" /\ EndsSegment
           \/ ttsDialect = "cartesia" /\ UNCHANGED <<segments, writing, ttsWire>>
    PROVE  TtsInv'
<1>i. /\ TtsSocketsTypeOK /\ FlowInOrder /\ NoneLost /\ SegmentsInOrder /\ FramesEnd /\ RunsEnd
      /\ SegmentBySegment /\ LastPacket /\ FirstSegmentOnly
  BY DEF TtsInv
<1>u. /\ ttsRun = "runs" /\ ttsSender # "done" /\ ~textOver
      /\ UNCHANGED <<ttsDialect, saying, taken, textOver, ttsSender, ttsReader, emitterFrame, audioOut, ttsRun, trouble,
                     ttsUpdates, ttsWire>>
  BY DEF Taking, EndsSegment
<1>f. /\ script' \in [queue : Seq(0..MaxWordsSaid), pushed : 0..MaxWordsSaid, flushes : Nat, closed : BOOLEAN,
                     first : 0..MaxWordsSaid + 1]
      /\ script'.pushed = script.pushed /\ script'.closed = script.closed /\ Ascends(script'.queue)
      /\ WordsTaken' \in 0..script'.pushed /\ WaitingWords' = (WordsTaken' + 1)..script'.pushed /\ WordsTaken \in Nat
      /\ WordsTaken' = WordsTaken
      /\ script'.closed /\ script'.queue # <<>> => script'.queue[Len(script'.queue)] = 0
      /\ OutWords' = OutWords /\ HeardWords' = HeardWords /\ (Consecutive => Consecutive')
      /\ HeardWords \cup OnWire \cup ComingWords \subseteq 1..WordsTaken /\ OnWire' = OnWire
  BY <1>u, TakingFacts DEF TakenWords, OnWire
<1>t. /\ taken \in 0..Len(segments) /\ saying \in 0..taken /\ Len(segments) \in Nat /\ writing \in 0..Len(segments)
  BY <1>i, TtsTypes
<1>s. /\ segments' \in Seq([words : Seq(ScriptWords), ended : BOOLEAN]) /\ Len(segments') = Len(segments)
      /\ \A s \in 1..Len(segments) : /\ segments'[s].words = segments[s].words
                                     /\ segments[s].ended => segments'[s].ended
  <2>1. CASE EndsSegment
    BY <2>1, <1>i, EndsWriting DEF EndsSegment
  <2>2. CASE UNCHANGED segments
    BY <2>2, <1>i DEF TtsSocketsTypeOK
  <2> QED BY <2>1, <2>2
<1>l. LiveSegments' = LiveSegments /\ LiveSegments \subseteq 1..Len(segments)
  BY <1>u, <1>s DEF LiveSegments
<1>c. ComingWords' = ComingWords /\ LiveInOrder'
  BY <1>l, <1>s, <1>i, FewerLive DEF FlowInOrder
<1>w. writing' = 0 \/ (ttsDialect = "cartesia" /\ UNCHANGED <<segments, writing>>)
  BY DEF EndsSegment
<1>3. TtsSocketsTypeOK'
  <2>1. writing' \in 0..Len(segments')
    BY <1>t, <1>s, <1>w
  <2> QED BY <2>1, <1>u, <1>i, <1>f, <1>s DEF TtsSocketsTypeOK
<1>4. FlowInOrder' /\ NoneLost'
  <2>1. TakenWords' = TakenWords
    BY <1>f, <1>c DEF TakenWords
  <2>2. FlowInOrder'
    BY <2>1, <1>f, <1>c, <1>u, <1>i DEF FlowInOrder
  <2> QED BY <2>1, <2>2, <1>f, <1>u, <1>i DEF NoneLost
<1>5. SegmentsInOrder'
  <2>1. saying # 0 => saying \in 1..Len(segments)
    BY <1>t
  <2>2. ttsSender = "waits" => /\ ttsDialect = "elevenlabs" /\ saying # 0
                               /\ segments'[saying].words = <<>> /\ segments'[saying].ended
    BY <2>1, <1>s, <1>i DEF SegmentsInOrder
  <2>3. writing' # 0 => writing' = Len(segments') /\ writing' \in LiveSegments' /\ ~segments'[writing'].ended
    BY <1>w, <1>l, <1>i DEF SegmentsInOrder
  <2> QED BY <2>2, <2>3, <1>w, <1>f, <1>u, <1>i DEF SegmentsInOrder
<1>6. FramesEnd' /\ RunsEnd' /\ SegmentBySegment' /\ LastPacket'
  BY <1>u, <1>i DEF FramesEnd, RunsEnd, SegmentBySegment, LastPacket
<1>7. FirstSegmentOnly'
  <2> SUFFICES ASSUME ttsDialect = "deepgram", ~trouble PROVE FirstSegmentOnly'
    BY <1>u DEF FirstSegmentOnly
  <2>1. (FirstSent' <=> FirstSent) /\ writing' = 0
    BY <1>u, <1>w DEF FirstSent
  <2>2. script'.first = 0 => Len(segments') <= 1 /\ segments' = <<>>
    <3> SUFFICES ASSUME script'.first = 0 PROVE Len(segments') <= 1 /\ segments' = <<>> OBVIOUS
    <3>1. script.first = 0 /\ writing = 0
      BY <1>f
    <3>2. segments = <<>>
      BY <3>1, <1>i DEF FirstSegmentOnly
    <3>3. Len(segments') = 0
      BY <3>2, <1>s
    <3> QED BY <3>3, <1>s, EmptySeq
  <2>3. script'.first # 0 => segments' # <<>>
    <3> SUFFICES ASSUME script'.first # 0 PROVE Len(segments) # 0
      BY <1>s, EmptySeq
    <3>1. CASE script.first # 0
      BY <3>1, <1>i, EmptySeq, TtsTypes DEF FirstSegmentOnly
    <3>2. CASE writing # 0
      BY <3>2, <1>t
    <3> QED BY <3>1, <3>2
  <2>4. FirstSent => script'.first # 0
    BY <1>i DEF FirstSegmentOnly
  <2>5. ASSUME script'.first # 0
        PROVE  /\ script'.first \in 1..(WordsTaken + 1)
               /\ \A x \in HeardWords : x < script'.first
               /\ CutAt(ttsWire, script'.first, ttsReader = "reads")
               /\ \A s \in LiveSegments : \A x \in ToSet(segments[s].words) : x < script'.first <=> s = 1
    <3>1. CASE script.first # 0
      BY <3>1, <1>i DEF FirstSegmentOnly
    <3>2. CASE script.first = 0 /\ writing # 0
      <4> DEFINE read == ttsReader = "reads"
      <4>1. ~FirstSent
        BY <3>2, <1>i DEF FirstSegmentOnly
      <4>2. ttsReader # "done" /\ ttsReader # "stuck"
        BY <4>1, <1>u, <1>i DEF FirstSegmentOnly, RunsEnd
      <4>3. read /\ 0 \notin ToSet(ttsWire)
        BY <4>1, <4>2, <1>u, <1>i DEF FirstSegmentOnly, TtsSocketsTypeOK
      <4>4. script'.first = WordsTaken + 1 /\ \A x \in 1..WordsTaken : x < script'.first
        BY <3>2, <1>f
      <4>5. \A x \in ToSet(ttsWire) \ {0} : x < script'.first
        BY <4>4, <1>f DEF OnWire
      <4>6. CutAt(ttsWire, script'.first, read)
        <5>1. ttsWire \in Seq(0..MaxWordsSaid) /\ MaxWordsSaid \in Nat
          BY <1>i, TtsTypes
        <5> HIDE DEF read
        <5> QED BY <5>1, <4>3, <4>5, CutAtAll
      <4>7. \A s \in LiveSegments : s = 1
        <5>1. Len(segments) <= 1
          BY <3>2, <1>i DEF FirstSegmentOnly
        <5> QED BY <5>1, <1>t, <1>l
      <4>8. \A s \in LiveSegments : ToSet(segments[s].words) \subseteq 1..WordsTaken
        BY <1>f DEF ComingWords
      <4>9. script'.first \in 1..(WordsTaken + 1)
        BY <4>4, <1>f
      <4> QED BY <4>4, <4>6, <4>7, <4>8, <4>9, <1>f
    <3> QED BY <3>1, <3>2, <2>5
  <2>6. ASSUME script'.first # 0
        PROVE  \A s \in LiveSegments' : \A x \in ToSet(segments'[s].words) : x < script'.first <=> s = 1
    BY <2>5, <2>6, <1>s, <1>l
  <2> QED BY <2>1, <2>2, <2>3, <2>4, <2>5, <2>6, <1>f, <1>u, <1>i DEF FirstSegmentOnly
<1> QED BY <1>3, <1>4, <1>5, <1>6, <1>7 DEF TtsInv

LEMMA TakesInputKeepsTts == ASSUME TtsInv, TokenizeInput PROVE TtsInv'
<1> DEFINE item == Head(script.queue)
           ends == item = 0 /\ (writing # 0 \/ ttsDialect = "neuphonic")
           first == IF script.first = 0 /\ ends THEN WordsTaken + 1 ELSE script.first
<1>i. TtsSocketsTypeOK /\ FlowInOrder /\ SegmentsInOrder
  BY DEF TtsInv
<1>d. /\ ttsDialect \in {"elevenlabs", "cartesia", "deepgram", "neuphonic", "playai"}
      /\ MaxWordsSaid \in Nat
  BY <1>i, TtsSocketsAssumption DEF TtsSocketsTypeOK
<1>g. /\ ttsRun = "runs" /\ script.queue # <<>>
      /\ script' = [script EXCEPT !.queue = Tail(@), !.first = first]
      /\ UNCHANGED <<ttsDialect, saying, taken, textOver, ttsSender, ttsReader, emitterFrame, audioOut, ttsRun,
                     trouble, ttsUpdates>>
  BY DEF TokenizeInput
<1>1. script'.first = first
  <2>1. script \in [queue : Seq(0..MaxWordsSaid), pushed : 0..MaxWordsSaid, flushes : Nat, closed : BOOLEAN,
                    first : 0..MaxWordsSaid + 1]
    BY <1>i DEF TtsSocketsTypeOK
  <2> HIDE DEF first
  <2> QED BY <2>1, <1>g
<1>2. first \in 0..(MaxWordsSaid + 1)
  <2>1. script.first \in 0..(MaxWordsSaid + 1) /\ script.pushed \in 0..MaxWordsSaid
    BY <1>i, TtsTypes
  <2>2. WordsTaken \in 0..script.pushed
    BY <1>i DEF FlowInOrder
  <2>3. WordsTaken + 1 \in 0..(MaxWordsSaid + 1)
    BY <2>1, <2>2, <1>d
  <2> QED BY <2>1, <2>3
<1>3. Taking
  <2>1. ~textOver /\ ttsSender # "done"
    BY <1>g, <1>i DEF SegmentsInOrder
  <2> HIDE DEF first
  <2> QED BY <2>1, <1>2, <1>g DEF Taking
<1>4. \/ ttsDialect = "neuphonic" /\ NeuphonicTakes(item)
      \/ ttsDialect # "neuphonic" /\ item # 0 /\ Writes(item)
      \/ ttsDialect \notin {"neuphonic", "cartesia"} /\ item = 0 /\ EndsSegment
      \/ ttsDialect = "cartesia" /\ item = 0 /\ UNCHANGED <<segments, writing, ttsWire>>
  BY <1>d DEF TokenizeInput, ElevenLabsTakes, DeepgramTakes, PlayAITakes, CartesiaTakes
<1>5. CASE item # 0
  BY <1>1, <1>3, <1>4, <1>5, WritesKeepsTts, NeuphonicWordKeepsTts
<1>6. CASE item = 0
  <2>1. CASE ttsDialect = "neuphonic"
    BY <1>1, <1>3, <1>4, <1>6, <2>1, NeuphonicStopKeepsTts
  <2>2. CASE ttsDialect # "neuphonic"
    BY <1>1, <1>3, <1>4, <1>6, <2>2, FlushKeepsTts
  <2> QED BY <2>1, <2>2
<1> QED BY <1>5, <1>6

\* The first word of the segment that is said is sent.
LEMMA SendsWordKeepsTts == ASSUME TtsInv, SendsWord PROVE TtsInv'
<1> DEFINE h == Head(segments[saying].words)
<1>g. /\ ttsRun = "runs" /\ saying # 0 /\ ttsSender = "sends" /\ segments[saying].words # <<>>
      /\ ttsWire' = Append(ttsWire, h)
      /\ segments' = [segments EXCEPT ![saying].words = Tail(@)]
      /\ UNCHANGED <<ttsDialect, script, writing, saying, taken, textOver, ttsSender, ttsReader, emitterFrame,
                     audioOut, ttsRun, trouble, ttsUpdates>>
  BY DEF SendsWord
<1>i. /\ TtsSocketsTypeOK /\ FlowInOrder /\ NoneLost /\ SegmentsInOrder /\ FramesEnd /\ RunsEnd
      /\ SegmentBySegment /\ LastPacket /\ FirstSegmentOnly
  BY DEF TtsInv
<1>t. /\ taken \in 0..Len(segments) /\ saying \in 0..taken /\ Len(segments) \in Nat /\ writing \in 0..Len(segments)
      /\ MaxWordsSaid \in Nat /\ ttsWire \in Seq(0..MaxWordsSaid) /\ ScriptWords \subseteq Nat /\ 0 \notin ScriptWords
  BY <1>i, TtsTypes
<1>s. /\ segments' \in Seq([words : Seq(ScriptWords), ended : BOOLEAN]) /\ Len(segments') = Len(segments)
      /\ LiveInOrder' /\ LiveSegments' = LiveSegments /\ saying \in LiveSegments
      /\ h \in ScriptWords /\ ComingWords = ComingWords' \cup {h} /\ Below({h}, ComingWords')
      /\ h \in ToSet(segments[saying].words)
      /\ \A s \in 1..Len(segments) : /\ ToSet(segments'[s].words) \subseteq ToSet(segments[s].words)
                                     /\ segments'[s].ended = segments[s].ended
  BY <1>g, <1>i, TakesFirstWord DEF FlowInOrder
<1> HIDE DEF h
<1>1. h \in 0..MaxWordsSaid /\ h # 0 /\ h \in ComingWords
  BY <1>s, <1>t DEF ScriptWords
<1>2. Below(HeardWords \cup OnWire, ComingWords)
  BY <1>i DEF FlowInOrder
<1>3. /\ ttsWire' \in Seq(0..MaxWordsSaid) /\ Ascends(ttsWire') /\ OnWire' = OnWire \cup {h}
      /\ ToSet(ttsWire') = ToSet(ttsWire) \cup {h}
      /\ 1..Len(ttsWire') = 1..Len(ttsWire) \cup {Len(ttsWire')}
      /\ \A k \in 1..Len(ttsWire) : ttsWire'[k] = ttsWire[k]
      /\ ttsWire'[Len(ttsWire')] = h
  <2>1. Below(OnWire, {h} \ {0})
    BY <1>1, <1>2 DEF Below
  <2> QED BY <2>1, <1>1, <1>g, WireGrows
<1>a. /\ OutWords' = OutWords /\ HeardWords' = HeardWords /\ (Consecutive => Consecutive')
      /\ WordsTaken' = WordsTaken /\ WaitingWords' = WaitingWords
  BY <1>g, SameAudio, SameScript
<1>4. TtsSocketsTypeOK'
  BY <1>g, <1>i, <1>s, <1>3 DEF TtsSocketsTypeOK
<1>5. FlowInOrder' /\ NoneLost'
  <2>1. TakenWords' = TakenWords
    BY <1>a, <1>s, <1>3 DEF TakenWords
  <2>2. Below(HeardWords', OnWire')
    BY <1>a, <1>1, <1>2, <1>3, <1>i DEF Below, FlowInOrder
  <2>3. Below(HeardWords' \cup OnWire', ComingWords')
    BY <1>a, <1>s, <1>2, <1>3 DEF Below
  <2>4. FlowInOrder'
    BY <2>1, <2>2, <2>3, <1>a, <1>s, <1>3, <1>g, <1>i DEF FlowInOrder
  <2> QED BY <2>1, <2>4, <1>a, <1>g, <1>i DEF NoneLost
<1>6. SegmentsInOrder'
  <2>1. ttsDialect # "neuphonic"
    <3>1. Len(segments) # 0
      BY <1>g, <1>t
    <3> QED BY <3>1, <1>i DEF SegmentsInOrder
  <2>2. writing # 0 => writing \in 1..Len(segments)
    BY <1>t
  <2> QED BY <2>1, <2>2, <1>g, <1>i, <1>s DEF SegmentsInOrder
<1>7. FramesEnd' /\ RunsEnd'
  BY <1>g, <1>i DEF FramesEnd, RunsEnd
<1>8. SegmentBySegment' /\ LastPacket'
  <2>1. ttsDialect \in {"elevenlabs", "cartesia", "playai"} => \A k \in 1..Len(ttsWire) : ttsWire[k] # 0
    BY <1>g, <1>i DEF SegmentBySegment, LastPacket
  <2>2. ttsDialect \in {"elevenlabs", "cartesia", "playai"} => \A k \in 1..Len(ttsWire') : ttsWire'[k] # 0
    BY <2>1, <1>1, <1>3
  <2>3. ttsDialect \in {"cartesia", "playai"} => ~(ttsReader = "done" /\ ~trouble)
    BY <1>g, <1>i DEF LastPacket
  <2> QED BY <2>2, <2>3, <1>g, <1>i DEF SegmentBySegment, LastPacket
<1>9. FirstSegmentOnly'
  <2>0. ttsDialect # "neuphonic"
    <3>1. Len(segments) # 0
      BY <1>g, <1>t
    <3> QED BY <3>1, <1>i DEF SegmentsInOrder
  <2> SUFFICES ASSUME ttsDialect = "deepgram", ~trouble PROVE FirstSegmentOnly'
    BY <2>0, <1>g DEF FirstSegmentOnly
  <2>1. (FirstSent' <=> FirstSent) /\ (FirstSent <=> taken > 1 \/ (taken = 1 /\ saying = 0)) /\ saying = taken
    BY <1>g, <1>i DEF FirstSent, SegmentsInOrder
  <2>2. 0 \in ToSet(ttsWire') <=> 0 \in ToSet(ttsWire)
    BY <1>1, <1>3
  <2>3. segments' = <<>> <=> segments = <<>>
    <3>1. segments \in Seq([words : Seq(ScriptWords), ended : BOOLEAN])
      BY <1>i DEF TtsSocketsTypeOK
    <3> QED BY <3>1, <1>s, EmptySeq
  <2>4. ASSUME script.first # 0 PROVE CutAt(ttsWire', script.first, ttsReader = "reads")
    <3> DEFINE read == ttsReader = "reads"
    <3>1. CutAt(ttsWire, script.first, read)
      BY <2>4, <1>i DEF FirstSegmentOnly
    <3>2. h < script.first <=> saying = 1
      BY <2>4, <1>i, <1>s DEF FirstSegmentOnly
    <3>3. saying = 1 <=> ~FirstSent
      BY <2>1, <1>g, <1>t
    <3>4. ~FirstSent <=> read /\ 0 \notin ToSet(ttsWire)
      <4>1. ttsReader # "stuck" /\ ttsReader \in {"reads", "done", "stuck"}
        BY <1>i DEF RunsEnd, TtsSocketsTypeOK
      <4>2. ttsReader = "done" => FirstSent
        BY <1>g, <1>i DEF FirstSegmentOnly
      <4>3. ttsReader = "reads" => (FirstSent <=> 0 \in ToSet(ttsWire))
        BY <1>i DEF FirstSegmentOnly
      <4> QED BY <4>1, <4>2, <4>3
    <3> HIDE DEF read
    <3>5. CutAt(Append(ttsWire, h), script.first, read)
      BY <3>1, <3>2, <3>3, <3>4, <1>1, <1>t, CutAppend
    <3> QED BY <3>5, <1>g DEF read
  <2>5. ASSUME script.first # 0
        PROVE  \A s \in LiveSegments' : \A x \in ToSet(segments'[s].words) : x < script.first <=> s = 1
    <3>1. LiveSegments \subseteq 1..Len(segments)
      BY DEF LiveSegments
    <3> QED BY <2>5, <3>1, <1>s, <1>i DEF FirstSegmentOnly
  <2>6. taken # 0
    BY <2>1, <1>g
  <2> QED BY <2>1, <2>2, <2>3, <2>4, <2>5, <2>6, <1>a, <1>s, <1>g, <1>i DEF FirstSegmentOnly
<1> QED BY <1>4, <1>5, <1>6, <1>7, <1>8, <1>9 DEF TtsInv

\* The word stream that was said and is over is no longer live; the others are as they were.
LEMMA SaidIsOver ==
    ASSUME TtsInv, saying # 0, segments[saying].words = <<>>, segments[saying].ended, saying' = 0,
           UNCHANGED <<segments, writing, taken>>
    PROVE  /\ LiveSegments' \subseteq LiveSegments /\ LiveInOrder' /\ ComingWords' = ComingWords
           /\ writing' # 0 => writing' \in LiveSegments'
<1>i. TtsSocketsTypeOK /\ FlowInOrder /\ SegmentsInOrder
  BY DEF TtsInv
<1>t. taken \in Nat /\ Len(segments) \in Nat /\ saying = taken
  BY <1>i, TtsTypes DEF SegmentsInOrder
<1>1. LiveSegments' = LiveSegments \ {saying}
  BY <1>t DEF LiveSegments
<1>2. LiveInOrder' /\ ComingWords' = ComingWords
  BY <1>1, <1>i, FewerLive DEF FlowInOrder
<1>3. writing # 0 => writing \in LiveSegments /\ writing # saying
  BY <1>i DEF SegmentsInOrder
<1> QED BY <1>1, <1>2, <1>3

\* The end of the segment is sent, or what comes next is taken.
LEMMA SegmentSentKeepsTts == ASSUME TtsInv, SegmentSent PROVE TtsInv'
<1>g. /\ ttsRun = "runs" /\ saying # 0 /\ ttsSender = "sends" /\ segments[saying].words = <<>> /\ segments[saying].ended
      /\ UNCHANGED <<ttsDialect, script, segments, writing, taken, textOver, ttsReader, emitterFrame, audioOut,
                     ttsRun, trouble, ttsUpdates>>
  BY DEF SegmentSent
<1>i. /\ TtsSocketsTypeOK /\ FlowInOrder /\ NoneLost /\ SegmentsInOrder /\ FramesEnd /\ RunsEnd
      /\ SegmentBySegment /\ LastPacket /\ FirstSegmentOnly
  BY DEF TtsInv
<1>t. /\ taken \in 0..Len(segments) /\ saying \in 0..taken /\ Len(segments) \in Nat /\ writing \in 0..Len(segments)
      /\ MaxWordsSaid \in Nat /\ ttsWire \in Seq(0..MaxWordsSaid)
  BY <1>i, TtsTypes
<1>e. \/ ttsDialect = "elevenlabs" /\ ttsWire' = Append(ttsWire, 0) /\ ttsSender' = "waits" /\ saying' = saying
      \/ ttsDialect = "deepgram" /\ ttsWire' = Append(ttsWire, 0) /\ saying' = 0 /\ ttsSender' = ttsSender
      \/ ttsDialect \notin {"elevenlabs", "deepgram"} /\ saying' = 0 /\ ttsWire' = ttsWire /\ ttsSender' = ttsSender
  BY DEF SegmentSent, ElevenLabsEndsSegment, DeepgramEndsSegment
<1>n. ttsDialect # "neuphonic" /\ segments # <<>>
  <2>1. Len(segments) # 0
    BY <1>g, <1>t
  <2> QED BY <2>1, <1>i DEF SegmentsInOrder
<1>z. ASSUME ttsWire' = Append(ttsWire, 0)
      PROVE  /\ ttsWire' \in Seq(0..MaxWordsSaid) /\ Ascends(ttsWire') /\ OnWire' = OnWire /\ 0 \in ToSet(ttsWire')
             /\ 1..Len(ttsWire') = 1..Len(ttsWire) \cup {Len(ttsWire')}
             /\ \A k \in 1..Len(ttsWire) : ttsWire'[k] = ttsWire[k]
  <2>1. Below(OnWire, {0} \ {0}) /\ 0 \in 0..MaxWordsSaid
    BY <1>t DEF Below
  <2> QED BY <2>1, <1>z, WireGrows
<1>w. ttsWire' \in Seq(0..MaxWordsSaid) /\ Ascends(ttsWire') /\ OnWire' = OnWire
  <2>1. Ascends(ttsWire)
    BY <1>i DEF FlowInOrder
  <2> QED BY <2>1, <1>e, <1>z, <1>t DEF OnWire
<1>a. /\ OutWords' = OutWords /\ HeardWords' = HeardWords /\ (Consecutive => Consecutive')
      /\ WordsTaken' = WordsTaken /\ WaitingWords' = WaitingWords
  BY <1>g, SameAudio, SameScript
<1>s. /\ LiveSegments' \subseteq LiveSegments /\ LiveInOrder' /\ ComingWords' = ComingWords
      /\ writing # 0 => writing \in LiveSegments'
  <2>1. CASE saying' = saying
    <3>1. LiveInOrder /\ (writing # 0 => writing \in LiveSegments)
      BY <1>i DEF FlowInOrder, SegmentsInOrder
    <3> QED BY <2>1, <3>1, <1>g, SameSegments
  <2>2. CASE saying' = 0
    BY <2>2, <1>g, SaidIsOver
  <2> QED BY <2>1, <2>2, <1>e
<1>1. TtsSocketsTypeOK'
  <2>1. saying' \in 0..taken /\ ttsSender' \in {"sends", "waits", "done"}
    BY <1>g, <1>e, <1>t
  <2> QED BY <2>1, <1>g, <1>i, <1>w DEF TtsSocketsTypeOK
<1>2. FlowInOrder' /\ NoneLost'
  <2>1. TakenWords' = TakenWords
    BY <1>a, <1>s, <1>w DEF TakenWords
  <2>2. FlowInOrder'
    BY <2>1, <1>a, <1>s, <1>w, <1>g, <1>i DEF FlowInOrder
  <2> QED BY <2>1, <2>2, <1>a, <1>g, <1>i DEF NoneLost
<1>3. SegmentsInOrder'
  <2>1. ttsSender' # "done" /\ (ttsSender' = "waits" => ttsDialect = "elevenlabs" /\ saying' = saying)
    BY <1>g, <1>e
  <2>2. saying' # 0 => saying' = taken
    BY <1>e, <1>g, <1>i DEF SegmentsInOrder
  <2> QED BY <2>1, <2>2, <1>n, <1>s, <1>g, <1>i DEF SegmentsInOrder
<1>4. FramesEnd' /\ RunsEnd'
  <2>1. ttsDialect = "elevenlabs" => ~trouble
    BY <1>g, <1>i DEF RunsEnd
  <2> QED BY <2>1, <1>g, <1>i DEF FramesEnd, RunsEnd
<1>5. SegmentBySegment'
  <2> SUFFICES ASSUME ttsDialect = "elevenlabs" PROVE SegmentBySegment'
    BY <1>g DEF SegmentBySegment
  <2>1. \A k \in 1..Len(ttsWire) : ttsWire[k] # 0
    BY <1>g, <1>i DEF SegmentBySegment
  <2>2. ttsWire' = Append(ttsWire, 0) /\ ttsSender' = "waits" /\ saying' = saying
    BY <1>e
  <2>3. \A k \in 1..Len(ttsWire') : ttsWire'[k] = 0 => k = Len(ttsWire')
    BY <2>1, <2>2, <1>z
  <2> QED BY <2>2, <2>3, <1>g, <1>i DEF SegmentBySegment
<1>6. LastPacket'
  BY <1>e, <1>g, <1>i DEF LastPacket
<1>7. FirstSegmentOnly'
  <2> SUFFICES ASSUME ttsDialect = "deepgram", ~trouble PROVE FirstSegmentOnly'
    BY <1>n, <1>g DEF FirstSegmentOnly
  <2>1. ttsWire' = Append(ttsWire, 0) /\ saying' = 0 /\ ttsSender' = ttsSender /\ 0 \in ToSet(ttsWire')
    BY <1>e, <1>z
  <2>2. FirstSent' /\ taken # 0
    <3>1. taken \in Nat /\ taken # 0
      BY <1>g, <1>t
    <3>2. taken > 1 \/ taken = 1
      BY <3>1
    <3> QED BY <3>1, <3>2, <2>1, <1>g DEF FirstSent
  <2>3. script.first # 0
    <3> SUFFICES ASSUME script.first = 0 PROVE FALSE OBVIOUS
    <3>1. writing = 1 /\ Len(segments) <= 1
      BY <1>n, <1>i DEF FirstSegmentOnly
    <3>2. saying = 1
      BY <3>1, <1>g, <1>t
    <3>3. ~segments[writing].ended
      BY <3>1, <1>i DEF SegmentsInOrder
    <3> QED BY <3>1, <3>2, <3>3, <1>g
  <2>4. CutAt(ttsWire', script.first, ttsReader = "reads")
    <3> DEFINE read == ttsReader = "reads"
    <3>1. CutAt(ttsWire, script.first, read) /\ 0 \in 0..MaxWordsSaid
      BY <2>3, <1>i, <1>t DEF FirstSegmentOnly
    <3> HIDE DEF read
    <3>2. CutAt(Append(ttsWire, 0), script.first, read)
      BY <3>1, <1>t, CutAppend
    <3> QED BY <3>2, <2>1 DEF read
  <2> QED BY <2>1, <2>2, <2>3, <2>4, <1>a, <1>s, <1>n, <1>g, <1>i DEF FirstSegmentOnly
<1> QED BY <1>1, <1>2, <1>3, <1>4, <1>5, <1>6, <1>7 DEF TtsInv

\* Of the words that were taken the next one to be heard is the first that was not.
LEMMA NextIs ==
    ASSUME NEW n \in Nat, NEW t \in Nat, NEW w \in 1..t, NEW H, H = 1..n, NEW R, H \cup {w} \cup R = 1..t,
           Below(H, {w}), Below({w}, R)
    PROVE  w = n + 1
<1>1. n < w
  <2>1. n = 0 \/ n \in H
    OBVIOUS
  <2> QED BY <2>1 DEF Below
<1>2. CASE n + 1 < w
  <2>1. n + 1 \in 1..t /\ n + 1 \notin H /\ n + 1 # w
    BY <1>2
  <2>2. n + 1 \in R
    BY <2>1
  <2> QED BY <2>2, <1>2 DEF Below
<1> QED BY <1>1, <1>2

\* The server says a word.
LEMMA SaysWordKeepsTts ==
    ASSUME TtsInv, TtsServerSays, Head(ttsWire) # 0
    PROVE  TtsInv'
<1> DEFINE w == Head(ttsWire)
<1>g. /\ ttsRun = "runs" /\ ttsReader = "reads" /\ ttsWire # <<>> /\ ttsWire' = Tail(ttsWire)
      /\ EmitterPush(w) /\ UNCHANGED <<ttsSender, saying, ttsReader>>
      /\ UNCHANGED <<ttsDialect, script, segments, writing, taken, textOver, ttsRun, trouble, ttsUpdates>>
  BY DEF TtsServerSays
<1>i. /\ TtsSocketsTypeOK /\ FlowInOrder /\ NoneLost /\ SegmentsInOrder /\ FramesEnd /\ RunsEnd
      /\ SegmentBySegment /\ LastPacket /\ FirstSegmentOnly
  BY DEF TtsInv
<1>t. /\ MaxWordsSaid \in Nat /\ ttsWire \in Seq(0..MaxWordsSaid) /\ ScriptWords \subseteq Nat /\ 0 \notin ScriptWords
      /\ Len(audioOut) \in Nat
  BY <1>i, TtsTypes
<1>1. /\ ttsWire' \in Seq(0..MaxWordsSaid) /\ Ascends(ttsWire') /\ w \in 0..MaxWordsSaid
      /\ ToSet(ttsWire) = ToSet(ttsWire') \cup {w}
      /\ OnWire = OnWire' \cup {w} /\ Below({w}, OnWire')
  <2>1. Ascends(ttsWire)
    BY <1>i DEF FlowInOrder
  <2>2. /\ Tail(ttsWire) \in Seq(0..MaxWordsSaid) /\ Ascends(Tail(ttsWire)) /\ Head(ttsWire) \in 0..MaxWordsSaid
        /\ ToSet(ttsWire) = ToSet(Tail(ttsWire)) \cup {Head(ttsWire)}
        /\ ToSet(ttsWire) \ {0} = (ToSet(Tail(ttsWire)) \ {0}) \cup ({Head(ttsWire)} \ {0})
        /\ Below({Head(ttsWire)} \ {0}, ToSet(Tail(ttsWire)) \ {0})
    BY <2>1, <1>g, <1>t, AscendsTail
  <2>3. {w} \ {0} = {w}
    OBVIOUS
  <2> QED BY <2>2, <2>3, <1>g DEF OnWire
<1>p. w # 0 OBVIOUS
<1> HIDE DEF w
<1>2. w \in ScriptWords /\ w \in OnWire /\ Below(HeardWords, {w})
  BY <1>1, <1>p, <1>t, <1>i DEF ScriptWords, FlowInOrder, Below
<1>3. /\ audioOut' \in Seq([word : ScriptWords, final : BOOLEAN]) /\ emitterFrame' = w
      /\ HeardWords' = HeardWords \cup {w} /\ Below(OutWords', {emitterFrame'})
      /\ \A j, k \in 1..Len(audioOut') : j < k => audioOut'[j].word < audioOut'[k].word
      /\ (\A k \in 1..Len(audioOut) : ~audioOut[k].final) => \A k \in 1..Len(audioOut') : ~audioOut'[k].final
      /\ Consecutive /\ w = Len(audioOut) + (IF emitterFrame = 0 THEN 0 ELSE 1) + 1 => Consecutive'
  BY <1>2, <1>g, <1>i, HearsWord
<1>a. /\ WordsTaken' = WordsTaken /\ WaitingWords' = WaitingWords
      /\ LiveSegments' = LiveSegments /\ ComingWords' = ComingWords /\ (LiveInOrder => LiveInOrder')
  BY <1>g, SameScript, SameSegments
<1>4. TtsSocketsTypeOK'
  BY <1>g, <1>i, <1>1, <1>3 DEF TtsSocketsTypeOK
<1>5. FlowInOrder'
  <2>1. TakenWords' = TakenWords /\ HeardWords' \cup OnWire' = HeardWords \cup OnWire
    BY <1>a, <1>1, <1>3 DEF TakenWords
  <2>2. Below(HeardWords', OnWire')
    BY <1>1, <1>3, <1>i DEF Below, FlowInOrder
  <2> QED BY <2>1, <2>2, <1>a, <1>1, <1>3, <1>g, <1>i DEF FlowInOrder
<1>6. NoneLost'
  <2> SUFFICES ASSUME ~trouble PROVE NoneLost'
    BY <1>g DEF NoneLost
  <2>1. TakenWords' = TakenWords /\ TakenWords = 1..WordsTaken /\ Consecutive
    BY <1>a, <1>1, <1>3, <1>i DEF TakenWords, NoneLost
  <2> DEFINE n == Len(audioOut) + (IF emitterFrame = 0 THEN 0 ELSE 1)
             R == OnWire' \cup ComingWords
  <2>2. n \in Nat
    BY <1>t
  <2>3. HeardWords = 1..n
    <3>1. OutWords = 1..Len(audioOut)
      BY <2>1 DEF OutWords, Consecutive
    <3>2. CASE emitterFrame = 0
      <4>1. n = Len(audioOut)
        BY <3>2, <1>t
      <4> QED BY <3>1, <3>2, <4>1 DEF HeardWords
    <3>3. CASE emitterFrame # 0
      <4>1. n = Len(audioOut) + 1 /\ emitterFrame = Len(audioOut) + 1
        BY <3>3, <2>1, <1>t DEF Consecutive
      <4>2. 1..(Len(audioOut) + 1) = 1..Len(audioOut) \cup {Len(audioOut) + 1}
        BY <1>t
      <4> QED BY <3>1, <3>3, <4>1, <4>2 DEF HeardWords
    <3> QED BY <3>2, <3>3
  <2>4. HeardWords \cup {w} \cup R = 1..WordsTaken
    BY <2>1, <1>1 DEF TakenWords
  <2>5. Below({w}, R)
    BY <1>1, <1>2, <1>i DEF Below, FlowInOrder
  <2>6. WordsTaken \in Nat
    BY <1>i, TtsTypes DEF FlowInOrder
  <2>7. w \in 1..WordsTaken
    BY <2>4
  <2> HIDE DEF n, R
  <2>8. w = n + 1
    BY <2>2, <2>3, <2>4, <2>5, <2>6, <2>7, <1>2, NextIs
  <2>9. Consecutive'
    BY <2>1, <2>8, <1>3 DEF n
  <2> QED BY <2>1, <2>9, <1>a DEF NoneLost
<1>7. SegmentsInOrder' /\ RunsEnd'
  BY <1>g, <1>i, <1>a DEF SegmentsInOrder, RunsEnd
<1>8. FramesEnd'
  <2>1. ttsDialect # "elevenlabs" /\ ttsUpdates = 0 => \A k \in 1..Len(audioOut') : ~audioOut'[k].final
    BY <1>g, <1>i, <1>3 DEF FramesEnd
  <2> QED BY <2>1, <1>g, <1>3, <1>p DEF FramesEnd
<1>9. ASSUME \A k \in 1..Len(ttsWire) : ttsWire[k] = 0 => k = Len(ttsWire)
      PROVE  \A k \in 1..Len(ttsWire') : ttsWire'[k] = 0 => k = Len(ttsWire')
  <2>1. /\ Len(ttsWire') = Len(ttsWire) - 1 /\ Len(ttsWire) \in Nat
        /\ \A k \in 1..Len(ttsWire') : ttsWire'[k] = ttsWire[k + 1] /\ k + 1 \in 1..Len(ttsWire)
    BY <1>g, <1>t, TailAt, HeadTailProperties
  <2>2. \A k \in 1..Len(ttsWire') : k + 1 = Len(ttsWire) => k = Len(ttsWire')
    BY <2>1
  <2> QED BY <2>1, <2>2, <1>9
<1>10. \A k \in 1..Len(ttsWire') : ttsWire'[k] = 0 => \E j \in 1..Len(ttsWire) : ttsWire[j] = 0
  BY <1>g, <1>t, TailAt
<1>11. SegmentBySegment' /\ LastPacket'
  BY <1>9, <1>10, <1>g, <1>i DEF SegmentBySegment, LastPacket
<1>12. FirstSegmentOnly'
  <2> SUFFICES ASSUME ttsDialect \in {"deepgram", "neuphonic"}, ~trouble PROVE FirstSegmentOnly'
    BY <1>g DEF FirstSegmentOnly
  <2>1. (FirstSent' <=> FirstSent) /\ (0 \in ToSet(ttsWire') <=> 0 \in ToSet(ttsWire))
    BY <1>g, <1>1, <1>p DEF FirstSent
  <2>2. ttsDialect = "deepgram" => taken # 0
    BY <1>g, <1>i DEF FirstSegmentOnly
  <2>3. ASSUME script.first # 0
        PROVE  /\ CutAt(ttsWire', script.first, ttsReader = "reads")
               /\ \A x \in HeardWords' : x < script.first
    <3>1. CutAt(ttsWire, script.first, TRUE) /\ \A x \in HeardWords : x < script.first
      BY <2>3, <1>g, <1>i DEF FirstSegmentOnly, CutAt
    <3>2. CutAt(Tail(ttsWire), script.first, TRUE) /\ (w < script.first <=> TRUE)
      BY <3>1, <1>g, <1>t, <1>p, CutTail DEF w
    <3> QED BY <3>1, <3>2, <1>g, <1>3 DEF CutAt
  <2> QED BY <2>1, <2>2, <2>3, <1>a, <1>g, <1>i DEF FirstSegmentOnly
<1> QED BY <1>4, <1>5, <1>6, <1>7, <1>8, <1>11, <1>12 DEF TtsInv

\* The server has said what precedes an end.
LEMMA SaysEndKeepsTts ==
    ASSUME TtsInv, TtsServerSays, Head(ttsWire) = 0
    PROVE  TtsInv'
<1>g. /\ ttsRun = "runs" /\ ttsReader = "reads" /\ ttsWire # <<>> /\ ttsWire' = Tail(ttsWire) /\ HearsEnd
      /\ UNCHANGED <<ttsDialect, script, segments, writing, taken, textOver, ttsRun, trouble, ttsUpdates>>
  BY DEF TtsServerSays
<1>i. /\ TtsSocketsTypeOK /\ FlowInOrder /\ NoneLost /\ SegmentsInOrder /\ FramesEnd /\ RunsEnd
      /\ SegmentBySegment /\ LastPacket /\ FirstSegmentOnly
  BY DEF TtsInv
<1>d. ttsDialect \in {"elevenlabs", "cartesia", "deepgram", "neuphonic", "playai"}
  BY <1>i, TtsSocketsAssumption DEF TtsSocketsTypeOK
<1>e. /\ EmitterFlush
      /\ \/ ttsDialect = "elevenlabs" /\ ttsSender' = "sends" /\ saying' = 0 /\ UNCHANGED ttsReader
         \/ ttsDialect # "elevenlabs" /\ ttsReader' = "done" /\ UNCHANGED <<ttsSender, saying>>
  BY <1>g, <1>d DEF HearsEnd, ElevenLabsHearsEnd, ReaderEnds, DeepgramHearsEnd, NeuphonicHearsEnd, CartesiaHearsEnd,
                    PlayAIHearsEnd
<1>t. /\ MaxWordsSaid \in Nat /\ ttsWire \in Seq(0..MaxWordsSaid) /\ taken \in Nat /\ Len(segments) \in Nat
      /\ taken \in 0..Len(segments) /\ saying \in 0..taken
  BY <1>i, TtsTypes
<1>1. /\ ttsWire' \in Seq(0..MaxWordsSaid) /\ Ascends(ttsWire') /\ OnWire' = OnWire /\ 0 \in ToSet(ttsWire)
      /\ 1 \in 1..Len(ttsWire) /\ ttsWire[1] = 0 /\ (Len(ttsWire) = 1 => ttsWire' = <<>>)
  <2>1. Ascends(ttsWire)
    BY <1>i DEF FlowInOrder
  <2>2. /\ Tail(ttsWire) \in Seq(0..MaxWordsSaid) /\ Ascends(Tail(ttsWire))
        /\ ToSet(ttsWire) = ToSet(Tail(ttsWire)) \cup {Head(ttsWire)}
        /\ ToSet(ttsWire) \ {0} = (ToSet(Tail(ttsWire)) \ {0}) \cup ({Head(ttsWire)} \ {0})
    BY <2>1, <1>g, <1>t, AscendsTail
  <2>3. 1 \in 1..Len(ttsWire) /\ Head(ttsWire) = ttsWire[1]
    BY <1>g, <1>t, TailAt
  <2>4. Len(ttsWire) = 1 => Tail(ttsWire) = <<>>
    <3>1. Len(Tail(ttsWire)) = Len(ttsWire) - 1
      BY <1>g, <1>t, HeadTailProperties
    <3>2. Len(ttsWire) = 1 => Len(Tail(ttsWire)) = 0
      BY <3>1
    <3> QED BY <3>2, <2>2, EmptySeq
  <2> QED BY <2>2, <2>3, <2>4, <1>g DEF OnWire
<1>3. /\ audioOut' \in Seq([word : ScriptWords, final : BOOLEAN]) /\ emitterFrame' = 0
      /\ HeardWords' = HeardWords
      /\ \A j, k \in 1..Len(audioOut') : j < k => audioOut'[j].word < audioOut'[k].word
      /\ (\A k \in 1..Len(audioOut) : ~audioOut[k].final) =>
             \A k \in 1..Len(audioOut') : audioOut'[k].final => k = Len(audioOut')
      /\ (emitterFrame = 0 /\ audioOut # <<>> => audioOut[Len(audioOut)].final) =>
             (audioOut' # <<>> => audioOut'[Len(audioOut')].final)
      /\ Consecutive => Consecutive'
  BY <1>e, <1>i, FlushesFrame
<1>4. ASSUME ttsDialect = "elevenlabs"
      PROVE  /\ ttsSender = "waits" /\ saying # 0 /\ segments[saying].words = <<>> /\ segments[saying].ended
             /\ ttsWire' = <<>> /\ ttsSender' = "sends" /\ saying' = 0 /\ ttsReader' = "reads" /\ ~trouble
  <2>1. ttsSender = "waits" /\ Len(ttsWire) = 1
    BY <1>4, <1>1, <1>i DEF SegmentBySegment
  <2>2. saying # 0 /\ segments[saying].words = <<>> /\ segments[saying].ended
    BY <2>1, <1>i DEF SegmentsInOrder
  <2>3. ~trouble
    BY <1>4, <1>g, <1>i DEF RunsEnd
  <2> QED BY <2>1, <2>2, <2>3, <1>4, <1>e, <1>g, <1>1
<1>a. WordsTaken' = WordsTaken /\ WaitingWords' = WaitingWords
  BY <1>g, SameScript
<1>s. /\ LiveSegments' \subseteq LiveSegments /\ LiveInOrder' /\ ComingWords' = ComingWords
      /\ writing # 0 => writing \in LiveSegments'
      /\ saying' = saying => LiveSegments' = LiveSegments
  <2>1. CASE saying' = saying
    <3>1. LiveInOrder /\ (writing # 0 => writing \in LiveSegments)
      BY <1>i DEF FlowInOrder, SegmentsInOrder
    <3> QED BY <2>1, <3>1, <1>g, SameSegments
  <2>2. CASE ttsDialect = "elevenlabs"
    BY <2>2, <1>4, <1>g, SaidIsOver
  <2> QED BY <2>1, <2>2, <1>e
<1>5. TtsSocketsTypeOK'
  <2>1. saying' \in 0..taken /\ ttsSender' \in {"sends", "waits", "done"} /\ ttsReader' \in {"reads", "done", "stuck"}
        /\ 0 \in 0..MaxWordsSaid
    BY <1>e, <1>t, <1>i DEF TtsSocketsTypeOK
  <2> QED BY <2>1, <1>g, <1>i, <1>1, <1>3 DEF TtsSocketsTypeOK
<1>6. FlowInOrder' /\ NoneLost'
  <2>1. TakenWords' = TakenWords
    BY <1>a, <1>s, <1>1, <1>3 DEF TakenWords
  <2>2. FlowInOrder'
    BY <2>1, <1>a, <1>s, <1>1, <1>3, <1>g, <1>i DEF FlowInOrder
  <2> QED BY <2>1, <2>2, <1>a, <1>3, <1>g, <1>i DEF NoneLost
<1>7. SegmentsInOrder'
  <2>1. CASE ttsDialect = "elevenlabs"
    BY <2>1, <1>4, <1>s, <1>g, <1>i DEF SegmentsInOrder
  <2>2. CASE ttsDialect # "elevenlabs"
    BY <2>2, <1>e, <1>s, <1>g, <1>i DEF SegmentsInOrder
  <2> QED BY <2>1, <2>2
<1>8. FramesEnd'
  <2>1. ttsDialect # "elevenlabs" /\ ttsUpdates = 0 => \A k \in 1..Len(audioOut) : ~audioOut[k].final
    BY <1>g, <1>i DEF FramesEnd
  <2>2. ttsDialect # "elevenlabs" => ttsReader' = "done"
    BY <1>e
  <2>3. ~trouble => (emitterFrame = 0 /\ audioOut # <<>> => audioOut[Len(audioOut)].final)
    BY <1>i DEF FramesEnd
  <2> QED BY <2>1, <2>2, <2>3, <1>3, <1>g DEF FramesEnd
<1>9. RunsEnd'
  <2>1. ttsReader' # "stuck" /\ (ttsDialect = "elevenlabs" => ~trouble)
    BY <1>e, <1>g, <1>4
  <2> QED BY <2>1, <1>g, <1>i DEF RunsEnd
<1>10. SegmentBySegment'
  <2> SUFFICES ASSUME ttsDialect = "elevenlabs" PROVE SegmentBySegment'
    BY <1>g DEF SegmentBySegment
  <2>1. ttsWire' = <<>> /\ Len(<<>>) = 0 /\ 1..0 = {} /\ ttsReader' # "done"
    BY <1>4
  <2> QED BY <2>1, <1>3 DEF SegmentBySegment
<1>11. LastPacket'
  <2> SUFFICES ASSUME ttsDialect \in {"cartesia", "playai"} PROVE LastPacket'
    BY <1>g DEF LastPacket
  <2>1. Len(ttsWire) = 1 /\ ttsSender = "done"
    BY <1>1, <1>i DEF LastPacket
  <2>2. ttsWire' = <<>> /\ Len(<<>>) = 0 /\ 1..0 = {} /\ ttsSender' = "done"
    BY <2>1, <1>1, <1>e
  <2> QED BY <2>2 DEF LastPacket
<1>12. FirstSegmentOnly'
  <2> SUFFICES ASSUME ttsDialect \in {"deepgram", "neuphonic"}, ~trouble PROVE FirstSegmentOnly'
    BY <1>g DEF FirstSegmentOnly
  <2>1. ttsReader' = "done" /\ ttsSender' = ttsSender /\ saying' = saying
    BY <1>e
  <2>2. FirstSent' /\ FirstSent
    <3>1. FirstSent
      BY <1>1, <1>g, <1>i DEF FirstSegmentOnly
    <3> QED BY <3>1, <2>1, <1>g DEF FirstSent
  <2>3. script.first # 0 /\ (ttsDialect = "deepgram" => taken # 0)
    BY <2>2, <1>g, <1>i DEF FirstSegmentOnly
  <2>4. CutAt(ttsWire', script.first, FALSE)
    <3>1. CutAt(ttsWire, script.first, TRUE)
      BY <2>3, <1>g, <1>i DEF FirstSegmentOnly, CutAt
    <3>2. CutAt(Tail(ttsWire), script.first, FALSE)
      BY <3>1, <1>g, <1>t, CutTail
    <3> QED BY <3>2, <1>g
  <2>5. CutAt(ttsWire', script.first, ttsReader' = "reads")
    BY <2>1, <2>4 DEF CutAt
  <2> QED BY <2>1, <2>2, <2>3, <2>5, <1>a, <1>s, <1>3, <1>g, <1>i DEF FirstSegmentOnly
<1> QED BY <1>5, <1>6, <1>7, <1>8, <1>9, <1>10, <1>11, <1>12 DEF TtsInv

LEMMA TtsStutter == ASSUME TtsInv, UNCHANGED ttsSockVars PROVE TtsInv'
<1>u. UNCHANGED <<ttsDialect, script, segments, writing, saying, taken, textOver, ttsSender, ttsWire, ttsReader,
                  emitterFrame, audioOut, ttsRun, trouble, ttsUpdates>>
  BY DEF ttsSockVars
<1>i. /\ TtsSocketsTypeOK /\ FlowInOrder /\ NoneLost /\ SegmentsInOrder /\ FramesEnd /\ RunsEnd
      /\ SegmentBySegment /\ LastPacket /\ FirstSegmentOnly
  BY DEF TtsInv
<1>a. /\ OutWords' = OutWords /\ HeardWords' = HeardWords /\ (Consecutive => Consecutive')
      /\ WordsTaken' = WordsTaken /\ WaitingWords' = WaitingWords /\ OnWire' = OnWire
      /\ LiveSegments' = LiveSegments /\ ComingWords' = ComingWords /\ (LiveInOrder => LiveInOrder')
  BY <1>u, SameAudio, SameScript, SameSegments DEF OnWire
<1>1. TtsSocketsTypeOK'
  BY <1>u, <1>i DEF TtsSocketsTypeOK
<1>2. FlowInOrder' /\ NoneLost'
  BY <1>u, <1>i, SameFlow DEF FlowInOrder, OnWire
<1>3. SegmentsInOrder' /\ FramesEnd' /\ RunsEnd' /\ SegmentBySegment' /\ LastPacket'
  BY <1>u, <1>i, <1>a DEF SegmentsInOrder, FramesEnd, RunsEnd, SegmentBySegment, LastPacket
<1>4. FirstSegmentOnly'
  BY <1>u, <1>i, <1>a DEF FirstSegmentOnly, FirstSent
<1> QED BY <1>1, <1>2, <1>3, <1>4 DEF TtsInv

LEMMA TtsNextInv == TtsInv /\ [TtsSocketsNext]_ttsSockVars => TtsInv'
<1> SUFFICES ASSUME TtsInv, [TtsSocketsNext]_ttsSockVars PROVE TtsInv' OBVIOUS
<1>1. CASE PushesText BY <1>1, PushesKeepsTts
<1>2. CASE TokenizeInput BY <1>2, TakesInputKeepsTts
<1>3. CASE InputOver BY <1>3, InputOverKeepsTts
<1>4. CASE TakesSegment BY <1>4, TakesSegmentKeepsTts
<1>5. CASE SendsWord BY <1>5, SendsWordKeepsTts
<1>6. CASE SegmentSent BY <1>6, SegmentSentKeepsTts
<1>7. CASE SendsEnd BY <1>7, SendsEndKeepsTts
<1>8. CASE TtsServerSays BY <1>8, SaysWordKeepsTts, SaysEndKeepsTts
<1>9. CASE TtsServerCloses BY <1>9, ClosesKeepsTts
<1>10. CASE DeepgramReconnects BY <1>10, ReconnectsKeepsTts
<1>11. CASE TtsRunReturns BY <1>11, RunReturnsKeepsTts
<1>12. CASE UNCHANGED ttsSockVars BY <1>12, TtsStutter
<1> QED BY <1>1, <1>2, <1>3, <1>4, <1>5, <1>6, <1>7, <1>8, <1>9, <1>10, <1>11, <1>12 DEF TtsSocketsNext

LEMMA SameUpTo ==
    ASSUME NEW m \in Nat, NEW n \in Nat, 1..m = 1..n
    PROVE  m = n
<1>1. (m = 0 \/ m \in 1..m) /\ (n = 0 \/ n \in 1..n)
  OBVIOUS
<1>2. \A k \in 1..m : k <= n
  OBVIOUS
<1>3. \A k \in 1..n : k <= m
  OBVIOUS
<1> QED BY <1>1, <1>2, <1>3

\* A run that returns without trouble said what it had to say.
LEMMA TtsInvReturns == TtsInv => TtsSocketsTypeOK /\ SaysInOrder /\ ReturnsWhole
<1> SUFFICES ASSUME TtsInv PROVE TtsSocketsTypeOK /\ SaysInOrder /\ ReturnsWhole OBVIOUS
<1>i. /\ TtsSocketsTypeOK /\ FlowInOrder /\ NoneLost /\ SegmentsInOrder /\ FramesEnd /\ RunsEnd
      /\ SegmentBySegment /\ LastPacket /\ FirstSegmentOnly
  BY DEF TtsInv
<1>d. ttsDialect \in {"elevenlabs", "cartesia", "deepgram", "neuphonic", "playai"}
  BY <1>i, TtsSocketsAssumption DEF TtsSocketsTypeOK
<1>t. /\ DOMAIN audioOut = 1..Len(audioOut) /\ Len(audioOut) \in Nat /\ MaxWordsSaid \in Nat
      /\ audioOut \in Seq([word : ScriptWords, final : BOOLEAN])
      /\ script.pushed \in 0..MaxWordsSaid /\ taken \in Nat /\ Len(segments) \in Nat /\ taken \in 0..Len(segments)
      /\ ttsWire \in Seq(0..MaxWordsSaid) /\ ToSet(ttsWire) = {ttsWire[k] : k \in 1..Len(ttsWire)}
  BY <1>i, TtsTypes
<1>1. SaysInOrder
  BY <1>i, <1>t DEF SaysInOrder, FlowInOrder, FramesEnd
<1>2. ASSUME ttsRun = "returned", trouble => ttsDialect \notin {"deepgram", "playai"}
      PROVE  /\ Len(audioOut) =
                    IF ttsDialect \in {"deepgram", "neuphonic"} /\ script.first # 0 THEN script.first - 1 ELSE script.pushed
             /\ Len(audioOut) # 0 => audioOut[Len(audioOut)].final
  <2>1. ~trouble
    BY <1>2, <1>d, <1>i DEF RunsEnd
  <2>2. ttsReader = "done" \/ ttsDialect = "elevenlabs"
    BY <1>2, <2>1, <1>i DEF RunsEnd
  <2>3. ttsSender = "done"
    BY <1>2, <2>1, <2>2, <1>i DEF RunsEnd, LastPacket
  <2>4. textOver /\ saying = 0 /\ taken = Len(segments) /\ script.queue = <<>>
    BY <2>3, <1>i DEF SegmentsInOrder
  <2>5. emitterFrame = 0
    BY <2>1, <2>2, <2>4, <1>i DEF FramesEnd, SegmentBySegment
  <2>6. Len(audioOut) # 0 => audioOut[Len(audioOut)].final
    BY <2>1, <2>5, <1>i, <1>t, EmptySeq DEF FramesEnd
  <2>7. HeardWords = 1..Len(audioOut)
    BY <2>1, <2>5, <1>i DEF HeardWords, OutWords, NoneLost, Consecutive
  <2>8. ComingWords = {}
    <3>1. LiveSegments = {}
      BY <2>4, <1>t DEF LiveSegments
    <3> QED BY <3>1 DEF ComingWords
  <2>9. WordsTaken = script.pushed /\ script.pushed \in Nat
    <3>1. ToSet(<<>>) = {}
      BY DEF ToSet
    <3>2. (WordsTaken + 1)..script.pushed = {} /\ WordsTaken \in 0..script.pushed /\ script.pushed \in Nat
      BY <3>1, <2>4, <1>i, <1>t DEF FlowInOrder, WaitingWords
    <3> QED BY <3>2
  <2>10. 1..Len(audioOut) \cup OnWire = 1..script.pushed
    BY <2>1, <2>7, <2>8, <2>9, <1>i DEF NoneLost, TakenWords
  <2>11. ASSUME ttsWire = <<>> PROVE Len(audioOut) = script.pushed
    <3>1. OnWire = {}
      BY <2>11 DEF OnWire, ToSet
    <3>2. 1..Len(audioOut) = 1..script.pushed
      BY <3>1, <2>10
    <3> QED BY <3>2, <2>9, <1>t, SameUpTo
  <2>12. CASE ttsDialect \notin {"deepgram", "neuphonic"}
    <3>1. ttsWire = <<>>
      BY <2>1, <2>2, <2>4, <2>12, <1>d, <1>i DEF SegmentBySegment, LastPacket
    <3> QED BY <3>1, <2>6, <2>11, <2>12
  <2>13. CASE ttsDialect \in {"deepgram", "neuphonic"}
    <3>1. ttsReader = "done"
      BY <2>2, <2>13
    <3>2. CASE FirstSent
      <4>1. /\ script.first # 0 /\ script.first \in 1..(script.pushed + 1)
            /\ \A x \in 1..Len(audioOut) : x < script.first
            /\ CutAt(ttsWire, script.first, ttsReader = "reads")
        BY <3>2, <2>1, <2>7, <2>9, <2>13, <1>i DEF FirstSegmentOnly
      <4>2. \A x \in OnWire : ~(x < script.first)
        BY <3>1, <4>1, <1>t DEF CutAt, OnWire
      <4>3. Len(audioOut) = script.first - 1
        <5>1. script.first \in Nat /\ script.first - 1 \in Nat
          BY <4>1, <2>9
        <5>2. \A x \in 1..(script.first - 1) : x \in 1..script.pushed /\ x < script.first
          BY <4>1, <2>9
        <5>3. \A x \in 1..Len(audioOut) : x \in 1..(script.first - 1)
          BY <4>1, <5>1, <1>t
        <5>4. 1..Len(audioOut) = 1..(script.first - 1)
          BY <5>2, <5>3, <4>2, <2>10
        <5> QED BY <5>1, <5>4, <1>t, SameUpTo
      <4> QED BY <4>1, <4>3, <2>6, <2>13
    <3>3. CASE ~FirstSent
      <4>1. ttsDialect = "deepgram" /\ segments = <<>>
        BY <3>1, <3>3, <2>1, <2>13, <1>i DEF FirstSegmentOnly
      <4>2. script.first = 0
        BY <4>1, <2>1, <1>i DEF FirstSegmentOnly
      <4>3. taken = 0
        BY <4>1, <2>4
      <4>4. ttsWire = <<>>
        BY <4>1, <4>3, <2>1, <1>i DEF FirstSegmentOnly
      <4> QED BY <4>2, <4>4, <2>6, <2>11
    <3> QED BY <3>2, <3>3
  <2> QED BY <2>12, <2>13
<1>3. ReturnsWhole
  BY <1>2 DEF ReturnsWhole
<1> QED BY <1>1, <1>3, <1>i

\* SynthesisSafe: whatever the provider, a synthesis that returns said all it was given, in order, and the last frame
\* is final, unless the server closed on a provider that does not look (the tts.py of the plugins).
THEOREM SynthesisIsWhole == TtsSocketsSpec /\ ChunkedSpeechSpec => []SynthesisSafe
<1>1. TtsSocketsSpec => []TtsInv
  BY TtsInitInv, TtsNextInv, PTL DEF TtsSocketsSpec
<1>2. ChunkedSpeechSpec => []ChunkInv
  BY ChunkInit, ChunkNext, PTL DEF ChunkedSpeechSpec
<1>3. TtsInv /\ ChunkInv => SynthesisSafe
  BY TtsInvReturns, ChunkInvReturns DEF SynthesisSafe
<1> QED BY <1>1, <1>2, <1>3, PTL

=============================================================================
