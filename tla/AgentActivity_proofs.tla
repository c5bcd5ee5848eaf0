------------------------ MODULE AgentActivity_proofs ------------------------
(***************************************************************************)
(* Proofs about AgentActivity, for every set of handles and every choice   *)
(* of the constants: the types, the safety and the order of the floor, the *)
(* refinement of SpeechFloor, and the order of what is recorded.           *)
(***************************************************************************)
EXTENDS AgentActivity, TLAPS

\* A handle that SpeechHandle.create() returns is a new one.
LEMMA NewHandleIsNew ==
    ASSUME CanCreate
    PROVE  NewHandle \in Handles /\ pc[NewHandle] = "none"
  BY DEF CanCreate, NewHandle, Created

\* Before anything happens every variable has its type.
LEMMA TypeInit == Init => TypeOK
  <1> SUFFICES ASSUME Init PROVE TypeOK
    OBVIOUS
  <1>1. Unborn \in SpeechInfo
    BY DEF Unborn, SpeechInfo, Kinds, NORMAL
  <1>2. handle \in [Handles -> SpeechInfo]
    BY <1>1 DEF Init
  <1>3. pc \in [Tasks -> Stages]
    BY DEF Init, Stages
  <1>4. draining \in BOOLEAN /\ closed \in BOOLEAN /\ q_updated \in BOOLEAN
    BY DEF Init
  <1>5. /\ tool \in [Handles -> {"idle", "running", "reply", "last", "silent", "failed"}]
        /\ awaits \in [Handles -> Handles \cup {None}]
    BY DEF Init
  <1> QED
    BY <1>2, <1>3, <1>4, <1>5 DEF Init, TypeOK

\* Creating a speech task keeps the types.
LEMMA CreateType ==
    ASSUME TypeOK, NEW h \in Handles, NEW info \in SpeechInfo, NEW pcs \in [Tasks -> Stages],
           CreateSpeechTask(h, info, pcs)
    PROVE  /\ handle' \in [Handles -> SpeechInfo]
           /\ pc' \in [Tasks -> Stages]
           /\ clock' \in Nat
  <1>1. h \in Tasks
    BY DEF Tasks
  <1>2. handle' \in [Handles -> SpeechInfo]
    BY DEF CreateSpeechTask, TypeOK
  <1>3. (IF info.kind = "rt_gen" THEN "auth_gen" ELSE "auth") \in Stages
    BY DEF Stages
  <1>4. pc' \in [Tasks -> Stages]
    BY <1>1, <1>3 DEF CreateSpeechTask
  <1>5. clock' \in Nat
    BY DEF CreateSpeechTask, TypeOK
  <1> QED
    BY <1>2, <1>4, <1>5

\* Scheduling one keeps the types.
LEMMA ScheduleType ==
    ASSUME TypeOK, NEW h \in Handles, NEW b \in BOOLEAN, ScheduleSpeech(h, b)
    PROVE  speech_q' \subseteq Handles /\ q_updated' \in BOOLEAN
  BY DEF ScheduleSpeech, TypeOK

\* A speech somebody asks for: what the step knows of the new handle.
LEMMA NewSpeechStep ==
    ASSUME TypeOK, NEW k \in Kinds, NewSpeech(k)
    PROVE  /\ NewHandle \in Handles /\ pc[NewHandle] = "none"
           /\ \E info \in SpeechInfo :
                 info.time = clock /\ info.parent = None /\ info.kind = k
                 /\ info.late = draining /\ CreateSpeechTask(NewHandle, info, pc)
           /\ ScheduleSpeech(NewHandle, FALSE)
  <1>1. NewHandle \in Handles /\ pc[NewHandle] = "none"
    BY NewHandleIsNew DEF NewSpeech
  <1>2. PICK allow \in Allow, p \in Priorities :
          CreateSpeechTask(NewHandle,
              [kind |-> k, allow_interruptions |-> allow, priority |-> p, time |-> clock,
               step |-> 0, parent |-> None, tools |-> TRUE, late |-> draining], pc)
    BY DEF NewSpeech
  <1> DEFINE info == [kind |-> k, allow_interruptions |-> allow, priority |-> p,
                      time |-> clock, step |-> 0, parent |-> None, tools |-> TRUE,
                      late |-> draining]
  <1>3. info \in SpeechInfo
    BY ActivityAssumption DEF TypeOK, SpeechInfo
  <1>4. /\ info.time = clock /\ info.parent = None /\ info.kind = k /\ info.late = draining
        /\ CreateSpeechTask(NewHandle, info, pc)
    BY <1>2
  <1> HIDE DEF info
  <1>5. \E i \in SpeechInfo :
           i.time = clock /\ i.parent = None /\ i.kind = k
           /\ i.late = draining /\ CreateSpeechTask(NewHandle, i, pc)
    BY <1>3, <1>4
  <1>6. ScheduleSpeech(NewHandle, FALSE)
    BY DEF NewSpeech
  <1> QED
    BY <1>1, <1>5, <1>6

----------------------------------------------------------------------------
(* Every action preserves the invariant *)

\* The steps that create a speech nobody's tools have asked for.
LEMMA NewSpeechInv ==
    ASSUME Inv, ~draining, NEW k \in Kinds, NewSpeech(k), eot' \in {"idle", "hook"},
           UNCHANGED <<main, draining, closed, current, interrupted, authorized, playout_done,
                       tool, awaits, spoken, recorded>>
    PROVE  Inv'
  <1> USE DEF Inv
  <1>0. TypeOK
    OBVIOUS
  <1> DEFINE n == NewHandle
  <1>1. /\ n \in Handles /\ pc[n] = "none"
        /\ ScheduleSpeech(n, FALSE)
    BY <1>0, NewSpeechStep
  <1>2. PICK info \in SpeechInfo : CreateSpeechTask(n, info, pc)
    BY <1>0, NewSpeechStep
  <1> HIDE DEF n
  <1>3. pc \in [Tasks -> Stages] /\ n \in Tasks
    BY <1>0, <1>1 DEF TypeOK, Tasks
  <1>4. TypeOK'
    <2>1. /\ handle' \in [Handles -> SpeechInfo] /\ pc' \in [Tasks -> Stages] /\ clock' \in Nat
      BY <1>0, <1>1, <1>2, <1>3, CreateType
    <2>2. speech_q' \subseteq Handles /\ q_updated' \in BOOLEAN
      BY <1>0, <1>1, ScheduleType
    <2> QED
      BY <1>0, <2>1, <2>2 DEF TypeOK
  <1>5. /\ pc'[n] \in {"auth", "auth_gen"}
        /\ \A t \in Tasks \ {n} : pc'[t] = pc[t]
        /\ speech_q' = speech_q \cup {n}
    BY <1>1, <1>2, <1>3 DEF CreateSpeechTask, ScheduleSpeech
  <1>6. Handles \subseteq Tasks /\ Hooks \subseteq Tasks /\ n \notin Hooks
    BY <1>1, ActivityAssumption DEF Tasks
  <1>7. StagesKept' /\ UnbornNowhere'
    BY <1>1, <1>5, <1>6 DEF StagesKept, UnbornNowhere
  <1>8. QueuedOrServed' /\ ServedInTurn' /\ HolderServed'
    BY <1>1, <1>5, <1>6 DEF QueuedOrServed, ServedInTurn, HolderServed, UnbornNowhere
  <1>9. NotDoneEarly' /\ SpeakingServed' /\ NothingAfterExit'
    BY <1>1, <1>5, <1>6 DEF NotDoneEarly, SpeakingServed, NothingAfterExit, UnbornNowhere
  <1> QED
    BY <1>4, <1>7, <1>8, <1>9

\* The steps of the tasks and of the callers that leave the floor, the queue and the handles'
\* futures alone need only keep the types.
LEMMA NothingMoves ==
    ASSUME Inv, TypeOK',
           UNCHANGED <<main, draining, speech_q, current, pc, authorized, playout_done>>
    PROVE  Inv'
  BY DEF Inv, StagesKept, UnbornNowhere, QueuedOrServed, ServedInTurn, HolderServed,
         NotDoneEarly, SpeakingServed, NothingAfterExit

\* A speech task moves to another stage: it may release its handle when it leaves the outputs,
\* and takes the outputs only once it is authorized.
LEMMA SpeechMoves ==
    ASSUME Inv, NEW h \in Handles, NEW stage \in Stages \ {"none", "run"},
           pc[h] \notin {"none", "gone"}, Goto(h, stage),
           stage \in {"play", "clear"} => h \in authorized,
           playout_done' \in {playout_done, playout_done \cup {h}},
           stage \in {"auth", "request", "auth_gen", "play", "clear"}
              => /\ pc[h] \in {"auth", "request", "auth_gen", "play", "clear"}
                 /\ playout_done' = playout_done,
           tool' \in [Handles -> {"idle", "running", "reply", "last", "silent", "failed"}],
           q_updated' \in BOOLEAN, spoken' \subseteq Handles, recorded' \subseteq Handles,
           UNCHANGED <<main, draining, closed, speech_q, current, handle, interrupted,
                       authorized, awaits, eot, clock>>
    PROVE  Inv'
  <1>1. TypeOK /\ h \in Tasks /\ pc \in [Tasks -> Stages]
    BY DEF Inv, TypeOK, Tasks
  <1>2. pc' \in [Tasks -> Stages]
    BY <1>1 DEF Goto
  <1>3. pc'[h] = stage /\ \A t \in Tasks \ {h} : pc'[t] = pc[t]
    BY <1>1 DEF Goto
  <1>4. Handles \subseteq Tasks /\ Hooks \subseteq Tasks /\ h \notin Hooks
    BY ActivityAssumption DEF Tasks
  <1>5. TypeOK'
    BY <1>1, <1>2 DEF TypeOK
  <1>6. StagesKept' /\ UnbornNowhere' /\ QueuedOrServed'
    BY <1>3, <1>4 DEF Inv, StagesKept, UnbornNowhere, QueuedOrServed
  <1>7. ServedInTurn' /\ HolderServed'
    BY DEF Inv, ServedInTurn, HolderServed
  <1>8. NotDoneEarly' /\ SpeakingServed'
    BY <1>3, <1>4 DEF Inv, NotDoneEarly, SpeakingServed
  <1>9. NothingAfterExit'
    BY <1>3, <1>4 DEF Inv, NothingAfterExit
  <1> QED
    BY <1>5, <1>6, <1>7, <1>8, <1>9 DEF Inv

\* The stages a speech task can be in once it is authorized or interrupted.
LEMMA SpeechStepInv ==
    ASSUME Inv, NEW h \in Handles, SpeechStep(h), ~ToolsFinished(h), ~ToolResultsSent(h)
    PROVE  Inv'
  <1> USE DEF Goto
  <1>0. TypeOK
    BY DEF Inv
  <1>1. CASE BeginPlay(h)
    <2>1. PICK stage \in {"play", "finished"} : Goto(h, stage)
      BY <1>1 DEF BeginPlay
    <2> QED
      BY <1>0, <1>1, <2>1, SpeechMoves DEF BeginPlay, AwaitsFloor, Stages, TypeOK
  <1>2. CASE GiveUp(h)
    BY <1>0, <1>2, SpeechMoves DEF GiveUp, AwaitsFloor, Stages, TypeOK
  <1>3. CASE RealtimeRequest(h)
    BY <1>0, <1>3, SpeechMoves DEF RealtimeRequest, Stages, TypeOK
  <1>4. CASE RealtimeAnswer(h)
    <2>1. PICK stage \in {"auth_gen", "finished"} : Goto(h, stage)
      BY <1>4 DEF RealtimeAnswer
    <2> QED
      BY <1>0, <1>4, <2>1, SpeechMoves DEF RealtimeAnswer, Stages, TypeOK
  <1>5. CASE PlayEnds(h)
    <2>1. PICK stage \in {"finished", "tools"} : Goto(h, stage)
      BY <1>5 DEF PlayEnds
    <2>2. recorded' \subseteq Handles /\ spoken' \subseteq Handles
      BY <1>0, <1>5 DEF PlayEnds, Record, TypeOK
    <2> QED
      BY <1>0, <1>5, <2>1, <2>2, SpeechMoves DEF PlayEnds, Stages, TypeOK
  <1>6. CASE PlayInterrupted(h)
    <2>1. h \in authorized
      BY <1>6 DEF PlayInterrupted, Inv, SpeakingServed
    <2>2. recorded' \subseteq Handles
      BY <1>0, <1>6 DEF PlayInterrupted, Record, TypeOK
    <2> QED
      BY <1>0, <1>6, <2>1, <2>2, SpeechMoves DEF PlayInterrupted, Stages, TypeOK
  <1>7. CASE BufferCleared(h)
    <2>1. PICK stage \in {"finished", "cancel"} : Goto(h, stage)
      BY <1>7 DEF BufferCleared
    <2>2. spoken' \subseteq Handles /\ playout_done' \in {playout_done, playout_done \cup {h}}
      BY <1>0, <1>7 DEF BufferCleared, TypeOK
    <2> QED
      BY <1>0, <1>7, <2>1, <2>2, SpeechMoves DEF BufferCleared, Stages, TypeOK
  <1>8. CASE ToolsCancelled(h)
    <2>1. spoken' \subseteq Handles
      BY <1>0, <1>8 DEF ToolsCancelled, TypeOK
    <2> QED
      BY <1>0, <1>8, <2>1, SpeechMoves DEF ToolsCancelled, Stages, TypeOK
  <1> QED
    BY <1>1, <1>2, <1>3, <1>4, <1>5, <1>6, <1>7, <1>8 DEF SpeechStep

\* A tool response: the task that schedules it ends in the same step.
LEMMA ToolResponseInv ==
    ASSUME Inv, NEW h \in Handles, NEW tools \in BOOLEAN, CanCreate, ToolResponse(h, tools),
           pc[h] \in {"tools", "sync"},
           UNCHANGED <<main, draining, closed, current, interrupted, authorized, playout_done,
                       tool, awaits, eot, spoken, recorded>>
    PROVE  Inv'
  <1>0. TypeOK
    BY DEF Inv
  <1> DEFINE n == NewHandle
             pcs == [pc EXCEPT ![h] = "finished"]
             info == [kind |-> handle[h].kind,
                      allow_interruptions |-> handle[h].allow_interruptions,
                      priority |-> NORMAL, time |-> clock, step |-> handle[h].step + 1,
                      parent |-> h, tools |-> tools, late |-> draining]
  <1>1. n \in Handles /\ pc[n] = "none" /\ n # h
    BY NewHandleIsNew
  <1>2. CreateSpeechTask(n, info, pcs) /\ ScheduleSpeech(n, TRUE)
    BY DEF ToolResponse
  <1>3. handle[h] \in SpeechInfo
    BY <1>0 DEF TypeOK
  <1>4. info \in SpeechInfo
    BY <1>0, <1>3 DEF TypeOK, SpeechInfo
  <1>5. pc \in [Tasks -> Stages] /\ n \in Tasks /\ h \in Tasks
    BY <1>0, <1>1 DEF TypeOK, Tasks
  <1>6. pcs \in [Tasks -> Stages]
    BY <1>5 DEF Stages
  <1>7. /\ pc'[n] \in {"auth", "auth_gen"} /\ pc'[h] = "finished"
        /\ \A t \in Tasks \ {n, h} : pc'[t] = pc[t]
        /\ speech_q' = speech_q \cup {n}
    BY <1>1, <1>2, <1>5 DEF CreateSpeechTask, ScheduleSpeech
  <1> HIDE DEF n, info, pcs
  <1>8. TypeOK'
    <2>1. /\ handle' \in [Handles -> SpeechInfo] /\ pc' \in [Tasks -> Stages] /\ clock' \in Nat
      BY <1>0, <1>1, <1>2, <1>4, <1>6, CreateType
    <2>2. speech_q' \subseteq Handles /\ q_updated' \in BOOLEAN
      BY <1>0, <1>1, <1>2, ScheduleType
    <2> QED
      BY <1>0, <2>1, <2>2 DEF TypeOK
  <1>9. Handles \subseteq Tasks /\ Hooks \subseteq Tasks /\ n \notin Hooks /\ h \notin Hooks
    BY <1>1, ActivityAssumption DEF Tasks
  <1>10. StagesKept' /\ UnbornNowhere'
    BY <1>1, <1>7, <1>9 DEF Inv, StagesKept, UnbornNowhere
  <1>11. QueuedOrServed' /\ ServedInTurn' /\ HolderServed'
    BY <1>1, <1>7, <1>9 DEF Inv, QueuedOrServed, ServedInTurn, HolderServed, UnbornNowhere
  <1>12. NotDoneEarly' /\ SpeakingServed'
    BY <1>1, <1>7, <1>9 DEF Inv, NotDoneEarly, SpeakingServed, UnbornNowhere
  <1>13. NothingAfterExit'
    BY <1>1, <1>7, <1>9 DEF Inv, NothingAfterExit
  <1> QED
    BY <1>8, <1>10, <1>11, <1>12, <1>13 DEF Inv

\* The steps that end a tool execution, in the pipeline and in the realtime task.
LEMMA ToolsFinishedInv ==
    ASSUME Inv, NEW h \in Handles, ToolsFinished(h)
    PROVE  Inv'
  <1>0. TypeOK
    BY DEF Inv
  <1>1. CASE ~Answers(h)
    BY <1>0, <1>1, SpeechMoves DEF ToolsFinished, Goto, Stages, TypeOK
  <1>2. CASE Answers(h) /\ LLM = "pipeline"
    <2>1. PICK agent_switch \in BOOLEAN : ToolResponse(h, ~LastResponse(agent_switch))
      BY <1>2 DEF ToolsFinished
    <2> DEFINE tools == ~LastResponse(agent_switch)
    <2>2. tools \in BOOLEAN
      BY Zenon
    <2>3. ToolResponse(h, tools)
      BY <2>1
    <2> HIDE DEF tools
    <2> QED
      BY <1>2, <2>2, <2>3, ToolResponseInv DEF ToolsFinished, Answers
  <1>3. CASE Answers(h) /\ LLM # "pipeline"
    <2>1. tool' \in [Handles -> {"idle", "running", "reply", "last", "silent", "failed"}]
      BY <1>0, <1>3 DEF ToolsFinished, TypeOK
    <2> QED
      BY <1>0, <1>3, <2>1, SpeechMoves DEF ToolsFinished, Goto, Stages, TypeOK
  <1> QED
    BY <1>1, <1>2, <1>3

LEMMA ToolResultsSentInv ==
    ASSUME Inv, NEW h \in Handles, ToolResultsSent(h)
    PROVE  Inv'
  <1>0. TypeOK
    BY DEF Inv
  <1>1. CASE CanCreate
    BY <1>1, ToolResponseInv DEF ToolResultsSent
  <1>2. CASE ~CanCreate
    BY <1>0, <1>2, SpeechMoves DEF ToolResultsSent, Goto, Stages, TypeOK
  <1> QED
    BY <1>1, <1>2

\* The steps inside a tool execution.
LEMMA ToolStepInv ==
    ASSUME Inv, NEW h \in Handles, NEW g \in Handles,
           ToolStarts(h) \/ ToolAwaits(h, g) \/ ToolEnds(h)
    PROVE  Inv'
  <1>0. TypeOK
    BY DEF Inv
  <1>1. CASE ToolStarts(h)
    <2>1. TypeOK'
      BY <1>0, <1>1 DEF ToolStarts, TypeOK
    <2> QED
      BY <1>1, <2>1, NothingMoves DEF ToolStarts
  <1>2. CASE ToolAwaits(h, g)
    <2>1. TypeOK'
      BY <1>0, <1>2 DEF ToolAwaits, TypeOK
    <2> QED
      BY <1>2, <2>1, NothingMoves DEF ToolAwaits
  <1>3. CASE ToolEnds(h)
    <2>1. TypeOK'
      BY <1>0, <1>3 DEF ToolEnds, TypeOK
    <2> QED
      BY <1>3, <2>1, NothingMoves DEF ToolEnds
  <1> QED
    BY <1>1, <1>2, <1>3

\* What the callers do: they schedule a speech, interrupt some, or wait in the user's hook.
LEMMA CallersInv ==
    ASSUME Inv, Callers
    PROVE  Inv'
  <1>0. TypeOK
    BY DEF Inv
  <1>k. ReplyKind \in Kinds /\ "say" \in Kinds /\ "rt_gen" \in Kinds
    BY DEF ReplyKind, Kinds
  <1>1. CASE Say
    BY <1>0, <1>k, <1>1, NewSpeechInv DEF Say, TypeOK
  <1>2. CASE UserGenerateReply
    BY <1>0, <1>k, <1>2, NewSpeechInv DEF UserGenerateReply, GenerateReply, TypeOK
  <1>3. CASE OnGenerationCreated
    BY <1>0, <1>k, <1>3, NewSpeechInv DEF OnGenerationCreated, TypeOK
  <1>4. CASE Interrupt
    <2>1. TypeOK'
      BY <1>0, <1>4 DEF Interrupt, Interrupted, Current, TypeOK
    <2> QED
      BY <1>4, <2>1, NothingMoves DEF Interrupt
  <1>5. CASE OnVadInferenceDone
    <2>1. TypeOK'
      BY <1>0, <1>5 DEF OnVadInferenceDone, Interrupted, TypeOK
    <2> QED
      BY <1>5, <2>1, NothingMoves DEF OnVadInferenceDone
  <1>6. CASE OnEndOfTurn
    <2>1. TypeOK'
      BY <1>0, <1>6 DEF OnEndOfTurn, Interrupted, Current, TypeOK
    <2> QED
      BY <1>6, <2>1, NothingMoves DEF OnEndOfTurn
  <1>7. CASE OnEndOfTurnResumes
    <2>1. CASE AfterUserHook
      BY <1>k, <1>7, <2>1, NewSpeechInv DEF OnEndOfTurnResumes, AfterUserHook, GenerateReply
    <2>2. CASE UNCHANGED <<q_updated, speech_q, pc, handle, clock>>
      <3>1. TypeOK'
        BY <1>0, <1>7, <2>2 DEF OnEndOfTurnResumes, TypeOK
      <3> QED
        BY <1>7, <2>2, <3>1, NothingMoves DEF OnEndOfTurnResumes
    <2> QED
      BY <1>7, <2>1, <2>2 DEF OnEndOfTurnResumes
  <1>8. CASE OnEndOfTurnCancelled
    <2>1. TypeOK'
      BY <1>0, <1>8 DEF OnEndOfTurnCancelled, TypeOK
    <2> QED
      BY <1>8, <2>1, NothingMoves DEF OnEndOfTurnCancelled
  <1> QED
    BY <1>1, <1>2, <1>3, <1>4, <1>5, <1>6, <1>7, <1>8 DEF Callers

\* The main task: what is left in the queue, what has been served, who has the floor.
LEMMA MainTaskInv ==
    ASSUME Inv, MainTask
    PROVE  Inv'
  <1>0. TypeOK
    BY DEF Inv
  <1>1. ServeQueue /\ main \in {"wait", "playing"}
    BY DEF MainTask, MainWakes, MainSpeechDone
  <1>2. current # None => current \in playout_done
    BY <1>1 DEF MainTask, MainWakes, MainSpeechDone, Inv, HolderServed
  <1>p. Handles \subseteq Tasks /\ \A h \in Handles : h # None
    BY ActivityAssumption DEF Tasks
  <1>3. authorized \subseteq playout_done
    BY <1>0, <1>2, <1>p DEF Inv, ServedInTurn, TypeOK
  <1>u. UNCHANGED <<draining, closed, pc, handle, interrupted, playout_done, tool, awaits,
                    eot, spoken, recorded, clock>>
    BY DEF MainTask
  <1>4. ASSUME NEW h \in speech_q \ playout_done,
               \A g \in (speech_q \ playout_done) \ {h} : Before(h, g),
               speech_q' = speech_q \ {g \in speech_q : g = h \/ Before(g, h)},
               authorized' = authorized \cup {g \in speech_q : g = h \/ Before(g, h)},
               current' = h, main' = "playing", UNCHANGED q_updated
        PROVE  Inv'
    <2>1. \A g \in speech_q : g # h /\ Before(g, h) => g \in playout_done
      <3>1. SUFFICES ASSUME NEW g \in speech_q, g # h, Before(g, h), g \notin playout_done
                     PROVE  FALSE
        OBVIOUS
      <3>2. Before(h, g)
        BY <1>4, <3>1
      <3>3. handle[g] \in SpeechInfo /\ handle[h] \in SpeechInfo
        BY <1>0, <1>4, <3>1 DEF TypeOK
      <3>4. /\ handle[g].priority \in Nat /\ handle[h].priority \in Nat
            /\ handle[g].time \in Nat /\ handle[h].time \in Nat
        BY <3>3 DEF SpeechInfo, LOW, NORMAL, HIGH
      <3> QED
        BY <3>1, <3>2, <3>4 DEF Before
    <2>2. TypeOK'
      BY <1>0, <1>4, <1>u DEF TypeOK
    <2>3. h \in Handles /\ h # None
      BY <1>0, <1>4, <1>p DEF TypeOK
    <2>4. StagesKept' /\ UnbornNowhere' /\ QueuedOrServed'
      BY <1>0, <1>4, <1>u DEF Inv, StagesKept, UnbornNowhere, QueuedOrServed, TypeOK
    <2>5. ServedInTurn'
      BY <1>3, <1>4, <1>u, <2>1 DEF ServedInTurn
    <2>6. HolderServed'
      BY <1>4, <2>3 DEF HolderServed
    <2>7. NotDoneEarly' /\ SpeakingServed'
      BY <1>4, <1>u DEF Inv, NotDoneEarly, SpeakingServed
    <2>8. NothingAfterExit'
      BY <1>4 DEF NothingAfterExit
    <2> QED
      BY <2>2, <2>4, <2>5, <2>6, <2>7, <2>8 DEF Inv
  <1>5. ASSUME speech_q \ playout_done = {}, speech_q' = {},
               authorized' = authorized \cup speech_q, current' = None,
               IF MayExit
               THEN main' = "exited" /\ UNCHANGED q_updated
               ELSE main' = "wait" /\ q_updated' = FALSE
        PROVE  Inv'
    <2>1. main' \in {"exited", "wait"} /\ q_updated' \in BOOLEAN
      BY <1>0, <1>5 DEF TypeOK
    <2>2. TypeOK'
      BY <1>0, <1>5, <1>u, <2>1 DEF TypeOK
    <2>3. StagesKept' /\ UnbornNowhere' /\ QueuedOrServed'
      BY <1>0, <1>5, <1>u DEF Inv, StagesKept, UnbornNowhere, QueuedOrServed, TypeOK
    <2>4. ServedInTurn'
      BY <1>3, <1>5, <1>u DEF ServedInTurn
    <2>5. HolderServed'
      BY <1>5, <2>1 DEF HolderServed
    <2>6. NotDoneEarly' /\ SpeakingServed'
      BY <1>5, <1>u DEF Inv, NotDoneEarly, SpeakingServed
    <2>7. NothingAfterExit'
      BY <1>5, <1>u, <2>1 DEF NothingAfterExit, MayExit, SpeechTasks
    <2> QED
      BY <2>2, <2>3, <2>4, <2>5, <2>6, <2>7 DEF Inv
  <1> QED
    BY <1>1, <1>4, <1>5 DEF ServeQueue

\* start(), drain() and aclose(), the hooks they run and the callbacks of every task.
LEMMA LifeInv ==
    ASSUME Inv, \/ Start \/ Drain \/ AClose
                \/ \E t \in Hooks : HookEnds(t)
                \/ \E t \in Tasks : TaskCallbacks(t)
    PROVE  Inv'
  <1>0. TypeOK /\ pc \in [Tasks -> Stages]
    BY DEF Inv, TypeOK
  <1>p. /\ Handles \subseteq Tasks /\ Hooks \subseteq Tasks
        /\ \A h \in Handles : h \notin Hooks
        /\ "on_enter" \in Hooks /\ "on_exit" \in Hooks
    BY ActivityAssumption DEF Tasks, Hooks
  <1>m. ASSUME NEW t \in Hooks, NEW stage \in {"run", "finished", "gone"}, Goto(t, stage)
        PROVE  /\ pc' \in [Tasks -> Stages]
               /\ \A h \in Handles : pc'[h] = pc[h]
               /\ pc'[t] = stage
               /\ \A u \in Tasks \ {t} : pc'[u] = pc[u]
               /\ StagesKept'
    BY <1>0, <1>p, <1>m DEF Goto, Stages, Inv, StagesKept
  <1>1. CASE Start
    <2>1. Goto("on_enter", "run")
      BY <1>1 DEF Start
    <2>2. TypeOK'
      BY <1>0, <1>1, <1>p, <1>m, <2>1 DEF Start, TypeOK
    <2>3. UnbornNowhere' /\ QueuedOrServed' /\ ServedInTurn'
      BY <1>1, <1>p, <1>m, <2>1 DEF Start, Inv, UnbornNowhere, QueuedOrServed, ServedInTurn
    <2>4. HolderServed' /\ NothingAfterExit'
      BY <1>1 DEF Start, Inv, HolderServed, NothingAfterExit
    <2>5. NotDoneEarly' /\ SpeakingServed'
      BY <1>1, <1>p, <1>m, <2>1 DEF Start, Inv, NotDoneEarly, SpeakingServed
    <2> QED
      BY <1>p, <1>m, <2>1, <2>2, <2>3, <2>4, <2>5 DEF Inv
  <1>2. CASE Drain
    <2>1. Goto("on_exit", "run")
      BY <1>2 DEF Drain
    <2>2. TypeOK'
      BY <1>0, <1>2, <1>p, <1>m, <2>1 DEF Drain, TypeOK
    <2>3. UnbornNowhere' /\ QueuedOrServed' /\ ServedInTurn'
      BY <1>2, <1>p, <1>m, <2>1 DEF Drain, Inv, UnbornNowhere, QueuedOrServed, ServedInTurn
    <2>4. HolderServed' /\ NothingAfterExit'
      BY <1>2 DEF Drain, Inv, HolderServed, NothingAfterExit
    <2>5. NotDoneEarly' /\ SpeakingServed'
      BY <1>2, <1>p, <1>m, <2>1 DEF Drain, Inv, NotDoneEarly, SpeakingServed
    <2> QED
      BY <1>p, <1>m, <2>1, <2>2, <2>3, <2>4, <2>5 DEF Inv
  <1>3. CASE AClose
    <2>1. TypeOK'
      BY <1>0, <1>3 DEF AClose, TypeOK
    <2> QED
      BY <1>3, <2>1, NothingMoves DEF AClose
  <1>h. ASSUME NEW t \in Hooks, NEW stage \in {"finished", "gone"}, Goto(t, stage),
               pc[t] \in {"run", "finished"}, q_updated' \in BOOLEAN,
               UNCHANGED <<main, draining, closed, speech_q, current, handle, interrupted,
                           authorized, playout_done, tool, awaits, eot, spoken, recorded, clock>>
        PROVE  Inv'
    <2>1. TypeOK'
      BY <1>0, <1>h, <1>m DEF TypeOK
    <2>2. UnbornNowhere' /\ QueuedOrServed' /\ ServedInTurn' /\ HolderServed'
      BY <1>h, <1>m DEF Inv, UnbornNowhere, QueuedOrServed, ServedInTurn, HolderServed
    <2>3. NotDoneEarly' /\ SpeakingServed'
      BY <1>h, <1>m DEF Inv, NotDoneEarly, SpeakingServed
    <2>4. NothingAfterExit'
      BY <1>h, <1>m, <1>p DEF Inv, NothingAfterExit
    <2> QED
      BY <1>h, <1>m, <2>1, <2>2, <2>3, <2>4 DEF Inv
  <1>4. ASSUME NEW t \in Hooks, HookEnds(t) PROVE Inv'
    BY <1>0, <1>4, <1>h DEF HookEnds, TypeOK
  <1>5. ASSUME NEW t \in Hooks, TaskCallbacks(t) PROVE Inv'
    <2>1. playout_done' = playout_done
      BY <1>p, <1>5 DEF TaskCallbacks
    <2> QED
      BY <1>0, <1>5, <1>h, <2>1 DEF TaskCallbacks
  <1>6. ASSUME NEW h \in Handles, TaskCallbacks(h) PROVE Inv'
    <2>1. playout_done' = playout_done \cup {h}
      BY <1>6 DEF TaskCallbacks
    <2> QED
      BY <1>0, <1>6, <2>1, SpeechMoves DEF TaskCallbacks, Stages, TypeOK
  <1> QED
    BY <1>1, <1>2, <1>3, <1>4, <1>5, <1>6 DEF Tasks

\* Every step of the activity preserves the invariant.
LEMMA InvStep == Inv /\ [Next]_vars => Inv'
  <1> SUFFICES ASSUME Inv, [Next]_vars PROVE Inv'
    OBVIOUS
  <1>1. CASE UNCHANGED vars
    <2>1. TypeOK'
      BY <1>1 DEF vars, Inv, TypeOK
    <2> QED
      BY <1>1, <2>1, NothingMoves DEF vars
  <1>2. CASE Start \/ Drain \/ AClose \/ (\E t \in Hooks : HookEnds(t))
             \/ (\E t \in Tasks : TaskCallbacks(t))
    BY <1>2, LifeInv
  <1>3. CASE MainTask
    BY <1>3, MainTaskInv
  <1>4. CASE Callers
    BY <1>4, CallersInv
  <1>5. ASSUME NEW h \in Handles, SpeechStep(h) \/ ToolStarts(h) \/ ToolEnds(h)
        PROVE  Inv'
    BY <1>5, SpeechStepInv, ToolsFinishedInv, ToolResultsSentInv, ToolStepInv
  <1>6. ASSUME NEW h \in Handles, NEW g \in Handles, ToolAwaits(h, g)
        PROVE  Inv'
    BY <1>6, ToolStepInv
  <1> QED
    BY <1>1, <1>2, <1>3, <1>4, <1>5, <1>6 DEF Next

LEMMA InvInit == Init => Inv
  <1> SUFFICES ASSUME Init PROVE Inv
    OBVIOUS
  <1>1. TypeOK
    BY TypeInit
  <1>2. \A t \in Tasks : pc[t] = "none"
    BY DEF Init
  <1>3. Handles \subseteq Tasks /\ Hooks \subseteq Tasks
    BY DEF Tasks
  <1> QED
    BY <1>1, <1>2, <1>3
    DEF Init, Inv, StagesKept, UnbornNowhere, QueuedOrServed, ServedInTurn, HolderServed,
        NotDoneEarly, SpeakingServed, NothingAfterExit

----------------------------------------------------------------------------
(* The theorems *)

\* The invariant holds in every reachable state, whatever the constants.
THEOREM Invariance == Spec => []Inv
  BY InvInit, InvStep, PTL DEF Spec

\* Every variable keeps its type.
THEOREM TypeCorrect == Spec => []TypeOK
  <1>1. Inv => TypeOK
    BY DEF Inv
  <1> QED
    BY <1>1, Invariance, PTL

\* The outputs of the session belong to the one speech the main task authorized.
THEOREM FloorIsSafe == Spec => []OneVoice
  <1>1. Inv => OneVoice
    <2> SUFFICES ASSUME Inv, NEW h \in Speaking
                 PROVE  current = h /\ main = "playing" /\ h \notin playout_done
      BY DEF OneVoice
    <2>1. h \in Handles /\ h \in authorized /\ h \notin playout_done
      BY DEF Speaking, Inv, SpeakingServed, NotDoneEarly
    <2>2. h = current /\ h # None
      BY <2>1, ActivityAssumption DEF Inv, ServedInTurn, Tasks
    <2> QED
      BY <2>1, <2>2 DEF Inv, HolderServed
  <1> QED
    BY <1>1, Invariance, PTL

\* A speech task that waits for the floor is in the queue of a main task that will serve it.
THEOREM NoSpeechForgotten == Spec => []NobodyForgotten
  <1>1. Inv => NobodyForgotten
    <2> SUFFICES ASSUME Inv, NEW h \in Waiting \ (interrupted \cup authorized)
                 PROVE  h \in speech_q /\ main # "exited"
      BY DEF NobodyForgotten
    <2>1. h \in Handles /\ h \in Tasks /\ pc[h] \in {"auth", "auth_gen"}
      BY DEF Waiting, Tasks
    <2> QED
      BY <2>1 DEF Inv, QueuedOrServed, NothingAfterExit
  <1> QED
    BY <1>1, Invariance, PTL

\* drain() returns to a queue that is empty and to no task of the agent.
THEOREM DrainLeavesNothing == Spec => []DrainedClean
  <1>1. Inv => DrainedClean
    BY DEF Inv, DrainedClean, HolderServed, NothingAfterExit, SpeechTasks
  <1> QED
    BY <1>1, Invariance, PTL

----------------------------------------------------------------------------
(* The order of the floor *)

TimesPast == \A h \in Created : handle[h].time < clock

OrderInv == NoOvertaking /\ TimesPast

\* The steps that create no speech and give the floor to none.
LEMMA OrderUntouched ==
    ASSUME OrderInv, UNCHANGED <<handle, authorized, clock>>, Created' = Created
    PROVE  OrderInv'
  BY DEF OrderInv, NoOvertaking, TimesPast

\* A new speech comes after all the others.
LEMMA OrderOfNew ==
    ASSUME Inv, OrderInv, NEW n \in Handles, pc[n] = "none",
           NEW info \in SpeechInfo, info.time = clock,
           handle' = [handle EXCEPT ![n] = info], clock' = clock + 1,
           Created' = Created \cup {n}, authorized' = authorized
    PROVE  OrderInv'
  <1>1. handle'[n] = info /\ \A h \in Handles \ {n} : handle'[h] = handle[h]
    BY DEF Inv, TypeOK
  <1>2. n \notin authorized /\ n \notin Created /\ Created \subseteq Handles
    BY DEF Inv, UnbornNowhere, Created
  <1>3. \A h \in Created : handle[h].time < clock /\ handle[h].time \in Nat
    BY DEF OrderInv, TimesPast, Inv, TypeOK, SpeechInfo, Created
  <1>4. clock \in Nat
    BY DEF Inv, TypeOK
  <1>5. TimesPast'
    BY <1>1, <1>2, <1>3, <1>4 DEF TimesPast
  <1>6. NoOvertaking'
    <2> SUFFICES ASSUME NEW g \in Created', NEW h \in Created',
                        handle'[g].priority = handle'[h].priority,
                        handle'[g].time < handle'[h].time, h \in authorized
                 PROVE  g \in authorized
      BY DEF NoOvertaking
    <2>1. h \in Created /\ h # n
      BY <1>2
    <2>2. CASE g = n
      BY <1>1, <1>2, <1>3, <1>4, <2>1, <2>2
    <2>3. CASE g # n
      BY <1>1, <1>2, <2>1, <2>3 DEF OrderInv, NoOvertaking
    <2> QED
      BY <2>2, <2>3
  <1> QED
    BY <1>5, <1>6 DEF OrderInv

\* What a step of somebody who asks for a speech does to the handles.
LEMMA CreationStep ==
    ASSUME Inv, NEW n \in Handles, NEW info \in SpeechInfo, NEW pcs \in [Tasks -> Stages],
           pc[n] = "none", CreateSpeechTask(n, info, pcs),
           \A h \in Handles : pcs[h] = "none" <=> pc[h] = "none"
    PROVE  Created' = Created \cup {n}
  <1>1. Handles \subseteq Tasks
    BY DEF Tasks
  <1>2. pc'[n] # "none" /\ \A h \in Handles \ {n} : pc'[h] = pcs[h]
    BY <1>1 DEF CreateSpeechTask
  <1> QED
    BY <1>2 DEF Created

LEMMA OrderNewSpeech ==
    ASSUME Inv, OrderInv, NEW k \in Kinds, NewSpeech(k), UNCHANGED authorized
    PROVE  OrderInv' /\ \E n \in Handles : n \notin Created /\ Created' = Created \cup {n}
  <1>1. TypeOK /\ pc \in [Tasks -> Stages]
    BY DEF Inv, TypeOK
  <1> DEFINE n == NewHandle
  <1>2. PICK info \in SpeechInfo :
           info.time = clock /\ CreateSpeechTask(n, info, pc) /\ n \in Handles /\ pc[n] = "none"
    BY <1>1, NewSpeechStep
  <1> HIDE DEF n
  <1>3. Created' = Created \cup {n}
    BY <1>1, <1>2, CreationStep
  <1>4. OrderInv'
    BY <1>2, <1>3, OrderOfNew DEF CreateSpeechTask
  <1> QED
    BY <1>2, <1>3, <1>4 DEF Created

LEMMA OrderToolResponse ==
    ASSUME Inv, OrderInv, NEW h \in Handles, NEW tools \in BOOLEAN, CanCreate,
           ToolResponse(h, tools), pc[h] \in {"tools", "sync"}, UNCHANGED authorized
    PROVE  OrderInv' /\ \E n \in Handles : n \notin Created /\ Created' = Created \cup {n}
  <1>0. TypeOK
    BY DEF Inv
  <1> DEFINE n == NewHandle
             pcs == [pc EXCEPT ![h] = "finished"]
             info == [kind |-> handle[h].kind,
                      allow_interruptions |-> handle[h].allow_interruptions,
                      priority |-> NORMAL, time |-> clock, step |-> handle[h].step + 1,
                      parent |-> h, tools |-> tools, late |-> draining]
  <1>1. n \in Handles /\ pc[n] = "none"
    BY NewHandleIsNew
  <1>2. CreateSpeechTask(n, info, pcs)
    BY DEF ToolResponse
  <1>3. handle[h] \in SpeechInfo
    BY <1>0 DEF TypeOK
  <1>4. info \in SpeechInfo /\ info.time = clock
    BY <1>0, <1>3 DEF TypeOK, SpeechInfo
  <1>5. /\ pc \in [Tasks -> Stages] /\ h \in Tasks /\ Handles \subseteq Tasks
        /\ pcs \in [Tasks -> Stages]
    BY <1>0 DEF TypeOK, Tasks, Stages
  <1>6. \A g \in Handles : pcs[g] = "none" <=> pc[g] = "none"
    BY <1>5
  <1> HIDE DEF n, info, pcs
  <1>7. Created' = Created \cup {n}
    BY <1>1, <1>2, <1>4, <1>5, <1>6, CreationStep
  <1>8. OrderInv'
    BY <1>1, <1>2, <1>4, <1>7, OrderOfNew DEF CreateSpeechTask
  <1> QED
    BY <1>1, <1>7, <1>8 DEF Created

\* A step that moves one existing task between stages creates no speech.
LEMMA MoveCreatesNothing ==
    ASSUME Inv, NEW t \in Tasks, NEW stage \in Stages \ {"none"}, Goto(t, stage),
           pc[t] # "none" \/ t \in Hooks
    PROVE  /\ Created' = Created
           /\ stage \notin {"play", "clear"} => Speaking' = Speaking \ {t}
           /\ stage \in {"play", "clear"} /\ t \in Handles => Speaking' = Speaking \cup {t}
  <1>1. pc \in [Tasks -> Stages] /\ Handles \subseteq Tasks
    BY DEF Inv, TypeOK, Tasks
  <1>2. pc'[t] = stage /\ \A u \in Tasks \ {t} : pc'[u] = pc[u]
    BY <1>1 DEF Goto
  <1>3. Created' = Created
    BY <1>1, <1>2, ActivityAssumption DEF Created
  <1>4. stage \notin {"play", "clear"} => Speaking' = Speaking \ {t}
    BY <1>1, <1>2 DEF Speaking
  <1>5. stage \in {"play", "clear"} /\ t \in Handles => Speaking' = Speaking \cup {t}
    BY <1>1, <1>2 DEF Speaking
  <1> QED
    BY <1>3, <1>4, <1>5

\* The main task passes over nobody: what is popped with a speech comes before it.
LEMMA OrderMainTask ==
    ASSUME Inv, OrderInv, MainTask
    PROVE  OrderInv'
  <1>1. ServeQueue
    BY DEF MainTask, MainWakes, MainSpeechDone
  <1>2. UNCHANGED <<handle, clock, pc>> /\ Created' = Created
    BY DEF MainTask, Created
  <1>3. TimesPast'
    BY <1>2 DEF OrderInv, TimesPast
  <1>4. \A h \in Handles : /\ handle[h].priority \in Nat /\ handle[h].time \in Nat
    <2> SUFFICES ASSUME NEW h \in Handles
                 PROVE  handle[h].priority \in Nat /\ handle[h].time \in Nat
      OBVIOUS
    <2>1. handle[h] \in SpeechInfo
      BY DEF Inv, TypeOK
    <2> QED
      BY <2>1 DEF SpeechInfo, LOW, NORMAL, HIGH
  <1>5. speech_q \subseteq Handles
    BY DEF Inv, TypeOK
  <1>6. \A g, x \in Created :
           /\ handle[g].priority = handle[x].priority
           /\ handle[g].time < handle[x].time
           /\ x \in authorized'
           => g \in authorized'
    <2> SUFFICES ASSUME NEW g \in Created, NEW x \in Created,
                        handle[g].priority = handle[x].priority,
                        handle[g].time < handle[x].time,
                        x \in authorized', g \notin authorized'
                 PROVE  FALSE
      OBVIOUS
    <2>0. g \in Handles /\ x \in Handles
      BY DEF Created
    <2>1. authorized \subseteq authorized'
      BY <1>1 DEF ServeQueue
    <2>2. g \notin authorized /\ g \in speech_q
      BY <2>0, <2>1 DEF Created, Inv, QueuedOrServed
    <2>3. x \notin authorized
      BY <2>2 DEF OrderInv, NoOvertaking
    <2>4. PICK h \in speech_q \ playout_done :
             authorized' = authorized \cup {y \in speech_q : y = h \/ Before(y, h)}
      BY <1>1, <2>2 DEF ServeQueue
    <2>5. x = h \/ Before(x, h)
      BY <2>3, <2>4
    <2>6. Before(g, h)
      BY <1>4, <1>5, <2>0, <2>4, <2>5 DEF Before
    <2> QED
      BY <2>2, <2>4, <2>6
  <1> QED
    BY <1>2, <1>3, <1>6 DEF OrderInv, NoOvertaking

LEMMA OrderStep == Inv /\ OrderInv /\ [Next]_vars => OrderInv'
  <1> SUFFICES ASSUME Inv, OrderInv, [Next]_vars PROVE OrderInv'
    OBVIOUS
  <1>k. ReplyKind \in Kinds /\ "say" \in Kinds /\ "rt_gen" \in Kinds
    BY DEF ReplyKind, Kinds
  <1>h. Handles \subseteq Tasks /\ Hooks \subseteq Tasks
    BY DEF Tasks
  <1>s. /\ Stages \ {"none"} = {"run", "auth", "request", "auth_gen", "play", "clear", "cancel",
                               "tools", "sync", "finished", "gone"}
    BY DEF Stages
  <1>1. CASE UNCHANGED <<handle, authorized, clock, pc>>
    BY <1>1, OrderUntouched DEF Created
  <1>2. ASSUME NEW t \in Tasks, NEW stage \in Stages \ {"none"}, Goto(t, stage),
               pc[t] # "none" \/ t \in Hooks, UNCHANGED <<handle, authorized, clock>>
        PROVE  OrderInv'
    BY <1>2, MoveCreatesNothing, OrderUntouched
  <1>3. CASE Start \/ Drain \/ (\E t \in Hooks : HookEnds(t)) \/ (\E t \in Tasks : TaskCallbacks(t))
    <2>1. CASE Start
      BY <1>2, <1>h, <1>s, <2>1 DEF Start, Hooks
    <2>2. CASE Drain
      BY <1>2, <1>h, <1>s, <2>2 DEF Drain, Hooks
    <2>3. ASSUME NEW t \in Hooks, HookEnds(t) PROVE OrderInv'
      BY <1>2, <1>h, <1>s, <2>3 DEF HookEnds
    <2>4. ASSUME NEW t \in Tasks, TaskCallbacks(t) PROVE OrderInv'
      BY <1>2, <1>s, <2>4 DEF TaskCallbacks
    <2> QED
      BY <1>3, <2>1, <2>2, <2>3, <2>4
  <1>4. CASE MainTask
    BY <1>4, OrderMainTask
  <1>5. CASE Callers
    <2>1. CASE UNCHANGED <<handle, authorized, clock, pc>>
      BY <1>1, <2>1
    <2>2. CASE \E k \in Kinds : NewSpeech(k) /\ UNCHANGED authorized
      BY <2>2, OrderNewSpeech
    <2> QED
      BY <1>5, <1>k, <2>1, <2>2
      DEF Callers, Say, UserGenerateReply, OnGenerationCreated, Interrupt, OnVadInferenceDone,
          OnEndOfTurn, OnEndOfTurnResumes, OnEndOfTurnCancelled, AfterUserHook, GenerateReply
  <1>6. ASSUME NEW h \in Handles, SpeechStep(h)
        PROVE  OrderInv'
    <2>0. h \in Tasks
      BY <1>h
    <2>1. CASE ToolsFinished(h) /\ Answers(h) /\ LLM = "pipeline"
      <3>1. PICK agent_switch \in BOOLEAN : ToolResponse(h, ~LastResponse(agent_switch))
        BY <2>1 DEF ToolsFinished
      <3> DEFINE tools == ~LastResponse(agent_switch)
      <3>2. tools \in BOOLEAN /\ ToolResponse(h, tools)
        BY <3>1, Zenon
      <3> HIDE DEF tools
      <3> QED
        BY <2>1, <3>2, OrderToolResponse DEF ToolsFinished, Answers
    <2>2. CASE ToolResultsSent(h) /\ CanCreate
      <3>1. (tool[h] # "last") \in BOOLEAN
        OBVIOUS
      <3> QED
        BY <2>2, <3>1, OrderToolResponse DEF ToolResultsSent
    <2>3. CASE \E stage \in Stages \ {"none"} : Goto(h, stage) /\ pc[h] # "none"
                   /\ UNCHANGED <<handle, authorized, clock>>
      BY <1>2, <2>0, <2>3
    <2>4. CASE ToolsFinished(h) /\ ~(Answers(h) /\ LLM = "pipeline")
      BY <1>s, <2>3, <2>4 DEF ToolsFinished
    <2>5. CASE ToolResultsSent(h) /\ ~CanCreate
      BY <1>s, <2>3, <2>5 DEF ToolResultsSent
    <2>6. CASE BeginPlay(h) \/ GiveUp(h) \/ RealtimeRequest(h) \/ RealtimeAnswer(h)
      BY <1>s, <2>3, <2>6 DEF BeginPlay, GiveUp, RealtimeRequest, RealtimeAnswer, AwaitsFloor
    <2>7. CASE PlayEnds(h) \/ PlayInterrupted(h) \/ BufferCleared(h) \/ ToolsCancelled(h)
      BY <1>s, <2>3, <2>7 DEF PlayEnds, PlayInterrupted, BufferCleared, ToolsCancelled
    <2> QED
      BY <1>6, <2>1, <2>2, <2>4, <2>5, <2>6, <2>7 DEF SpeechStep
  <1>7. CASE AClose \/ (\E h \in Handles : ToolStarts(h) \/ ToolEnds(h))
             \/ (\E h, g \in Handles : ToolAwaits(h, g))
    BY <1>1, <1>7 DEF AClose, ToolStarts, ToolEnds, ToolAwaits
  <1>8. CASE UNCHANGED vars
    BY <1>1, <1>8 DEF vars
  <1> QED
    BY <1>3, <1>4, <1>5, <1>6, <1>7, <1>8 DEF Next

\* Speeches of the same priority get the floor in the order they were scheduled.
THEOREM FloorInOrder == Spec => []NoOvertaking
  <1>1. Init => OrderInv
    BY DEF Init, OrderInv, NoOvertaking, TimesPast, Created, Tasks
  <1>2. OrderInv => NoOvertaking
    BY DEF OrderInv
  <1> QED
    BY <1>1, <1>2, OrderStep, Invariance, PTL DEF Spec

----------------------------------------------------------------------------
(* The scheduler implements SpeechFloor *)

\* A speech that uses the outputs has the floor.
LEMMA SpeakerHolds ==
    ASSUME Inv, NEW h \in Handles, h \in authorized, h \notin playout_done
    PROVE  current = h /\ h # None
  BY ActivityAssumption DEF Inv, ServedInTurn, Tasks

\* A step of one task, seen from outside: it starts to speak, stops, ends its speech, or
\* nothing is to be seen.
LEMMA FloorMove ==
    ASSUME Inv, NEW h \in Handles, NEW stage \in Stages \ {"none"}, Goto(h, stage),
           pc[h] # "none", current' = current,
           \/ /\ playout_done' = playout_done
              /\ stage \in {"play", "clear"} => h \in authorized /\ h \notin playout_done
           \/ playout_done' = playout_done \cup {h} /\ stage \notin {"play", "clear"}
    PROVE  [Floor!Next]_(Floor!vars)
  <1>1. h \in Tasks /\ h \in Created
    BY DEF Tasks, Created
  <1>2. /\ Created' = Created
        /\ stage \notin {"play", "clear"} => Speaking' = Speaking \ {h}
        /\ stage \in {"play", "clear"} => Speaking' = Speaking \cup {h}
    BY <1>1, MoveCreatesNothing
  <1>3. CASE stage \in {"play", "clear"}
    <2>1. Floor!Speak(h)
      BY <1>2, <1>3, SpeakerHolds DEF Floor!Speak
    <2> QED
      BY <2>1 DEF Floor!Next
  <1>4. CASE stage \notin {"play", "clear"} /\ playout_done' = playout_done
    <2>1. CASE h \in Speaking
      <3>1. Floor!Stop(h)
        BY <1>2, <1>4, <2>1 DEF Floor!Stop
      <3> QED
        BY <3>1 DEF Floor!Next
    <2>2. CASE h \notin Speaking
      BY <1>2, <1>4, <2>2 DEF Floor!vars
    <2> QED
      BY <2>1, <2>2
  <1>5. CASE stage \notin {"play", "clear"} /\ playout_done' # playout_done
    <2>1. playout_done' = playout_done \cup {h} /\ h \notin playout_done
      BY <1>5
    <2>2. Floor!End(h)
      BY <1>1, <1>2, <1>5, <2>1 DEF Floor!End
    <2> QED
      BY <2>2 DEF Floor!Next
  <1> QED
    BY <1>3, <1>4, <1>5

\* The main task gives the floor to a speech, or takes it back.
LEMMA FloorMain ==
    ASSUME Inv, MainTask
    PROVE  [Floor!Next]_(Floor!vars)
  <1>1. ServeQueue /\ current \in playout_done \cup {None}
    BY DEF MainTask, MainWakes, MainSpeechDone, Inv, HolderServed
  <1>2. Created' = Created /\ Speaking' = Speaking /\ playout_done' = playout_done
    BY DEF MainTask, Created, Speaking
  <1>3. ASSUME NEW h \in speech_q \ playout_done, current' = h
        PROVE  Floor!Next
    <2>1. h \in Handles /\ h \in Created
      BY <1>3 DEF Inv, TypeOK, UnbornNowhere, Created
    <2>2. Floor!GiveFloor(h)
      BY <1>1, <1>2, <1>3, <2>1 DEF Floor!GiveFloor
    <2> QED
      BY <2>1, <2>2 DEF Floor!Next
  <1>4. CASE current' = None
    <2>1. CASE current = None
      BY <1>2, <1>4, <2>1 DEF Floor!vars
    <2>2. CASE current # None
      <3>1. Floor!TakeBack
        BY <1>1, <1>2, <1>4, <2>2 DEF Floor!TakeBack
      <3> QED
        BY <3>1 DEF Floor!Next
    <2> QED
      BY <2>1, <2>2
  <1> QED
    BY <1>1, <1>3, <1>4 DEF ServeQueue

\* A step that creates one speech.
LEMMA FloorAsk ==
    ASSUME NEW n \in Handles, n \notin Created, Created' = Created \cup {n},
           Speaking' = Speaking, UNCHANGED <<current, playout_done>>
    PROVE  [Floor!Next]_(Floor!vars)
  <1>1. Floor!Ask(n)
    BY DEF Floor!Ask
  <1> QED
    BY <1>1 DEF Floor!Next

LEMMA FloorNewSpeech ==
    ASSUME Inv, NEW k \in Kinds, NewSpeech(k), UNCHANGED <<current, playout_done>>
    PROVE  [Floor!Next]_(Floor!vars)
  <1>1. TypeOK /\ pc \in [Tasks -> Stages]
    BY DEF Inv, TypeOK
  <1> DEFINE n == NewHandle
  <1>2. PICK info \in SpeechInfo :
           CreateSpeechTask(n, info, pc) /\ n \in Handles /\ pc[n] = "none"
    BY <1>1, NewSpeechStep
  <1> HIDE DEF n
  <1>3. Created' = Created \cup {n} /\ n \notin Created
    BY <1>1, <1>2, CreationStep DEF Created
  <1>4. pc'[n] \in {"auth", "auth_gen"} /\ \A h \in Handles \ {n} : pc'[h] = pc[h]
    BY <1>1, <1>2 DEF CreateSpeechTask, Tasks
  <1>5. Speaking' = Speaking
    BY <1>2, <1>4 DEF Speaking
  <1> QED
    BY <1>2, <1>3, <1>5, FloorAsk

LEMMA FloorToolResponse ==
    ASSUME Inv, NEW h \in Handles, NEW tools \in BOOLEAN, CanCreate,
           ToolResponse(h, tools), pc[h] \in {"tools", "sync"},
           UNCHANGED <<current, playout_done>>
    PROVE  [Floor!Next]_(Floor!vars)
  <1> DEFINE n == NewHandle
  <1>1. n \in Handles /\ pc[n] = "none" /\ n # h /\ Handles \subseteq Tasks
    BY NewHandleIsNew DEF Tasks
  <1>2. pc \in [Tasks -> Stages]
    BY DEF Inv, TypeOK
  <1>3. /\ pc'[n] \in {"auth", "auth_gen"} /\ pc'[h] = "finished"
        /\ \A g \in Handles \ {n, h} : pc'[g] = pc[g]
    BY <1>1, <1>2 DEF ToolResponse, CreateSpeechTask
  <1> HIDE DEF n
  <1>4. Created' = Created \cup {n} /\ n \notin Created
    BY <1>1, <1>3 DEF Created
  <1>5. Speaking' = Speaking
    BY <1>1, <1>3 DEF Speaking
  <1> QED
    BY <1>1, <1>4, <1>5, FloorAsk

LEMMA FloorSpeechStep ==
    ASSUME Inv, NEW h \in Handles, SpeechStep(h)
    PROVE  [Floor!Next]_(Floor!vars)
  <1>s. /\ Stages \ {"none"} = {"run", "auth", "request", "auth_gen", "play", "clear", "cancel",
                               "tools", "sync", "finished", "gone"}
    BY DEF Stages
  <1>e. pc[h] \in {"auth", "request", "auth_gen", "play", "clear"} => h \notin playout_done
    BY DEF Inv, NotDoneEarly
  <1>0. CASE \E stage \in Stages \ {"none"} :
               /\ Goto(h, stage) /\ pc[h] # "none" /\ current' = current
               /\ \/ /\ playout_done' = playout_done
                     /\ stage \in {"play", "clear"} => h \in authorized /\ h \notin playout_done
                  \/ playout_done' = playout_done \cup {h} /\ stage \notin {"play", "clear"}
    BY <1>0, FloorMove
  <1>1. CASE BeginPlay(h)
    BY <1>s, <1>e, <1>0, <1>1 DEF BeginPlay, AwaitsFloor
  <1>2. CASE GiveUp(h) \/ RealtimeRequest(h) \/ RealtimeAnswer(h)
    BY <1>s, <1>0, <1>2 DEF GiveUp, RealtimeRequest, RealtimeAnswer, AwaitsFloor
  <1>3. CASE PlayEnds(h)
    BY <1>s, <1>0, <1>3 DEF PlayEnds
  <1>4. CASE PlayInterrupted(h)
    <2>1. h \in authorized
      BY <1>4 DEF PlayInterrupted, Inv, SpeakingServed
    <2> QED
      BY <1>s, <1>e, <1>0, <1>4, <2>1 DEF PlayInterrupted
  <1>5. CASE BufferCleared(h) \/ ToolsCancelled(h)
    BY <1>s, <1>0, <1>5 DEF BufferCleared, ToolsCancelled
  <1>6. CASE ToolsFinished(h) /\ Answers(h) /\ LLM = "pipeline"
    <2>1. PICK agent_switch \in BOOLEAN : ToolResponse(h, ~LastResponse(agent_switch))
      BY <1>6 DEF ToolsFinished
    <2> DEFINE tools == ~LastResponse(agent_switch)
    <2>2. tools \in BOOLEAN /\ ToolResponse(h, tools)
      BY <2>1, Zenon
    <2> HIDE DEF tools
    <2> QED
      BY <1>6, <2>2, FloorToolResponse DEF ToolsFinished, Answers
  <1>7. CASE ToolsFinished(h) /\ ~(Answers(h) /\ LLM = "pipeline")
    BY <1>s, <1>0, <1>7 DEF ToolsFinished
  <1>8. CASE ToolResultsSent(h) /\ CanCreate
    <2>1. (tool[h] # "last") \in BOOLEAN
      OBVIOUS
    <2> QED
      BY <1>8, <2>1, FloorToolResponse DEF ToolResultsSent
  <1>9. CASE ToolResultsSent(h) /\ ~CanCreate
    BY <1>s, <1>0, <1>9 DEF ToolResultsSent
  <1> QED
    BY <1>1, <1>2, <1>3, <1>4, <1>5, <1>6, <1>7, <1>8, <1>9 DEF SpeechStep

\* A step that touches neither the stages, nor the floor, nor the handles' ends.
LEMMA FloorStill ==
    ASSUME UNCHANGED <<pc, current, playout_done>>
    PROVE  [Floor!Next]_(Floor!vars)
  BY DEF Floor!vars, Created, Speaking

LEMMA FloorStep == Inv /\ [Next]_vars => [Floor!Next]_(Floor!vars)
  <1> SUFFICES ASSUME Inv, [Next]_vars PROVE [Floor!Next]_(Floor!vars)
    OBVIOUS
  <1>k. ReplyKind \in Kinds /\ "say" \in Kinds /\ "rt_gen" \in Kinds
    BY DEF ReplyKind, Kinds
  <1>s. "run" \in Stages \ {"none"} /\ "finished" \in Stages \ {"none"} /\ "gone" \in Stages \ {"none"}
    BY DEF Stages
  <1>h. Hooks \subseteq Tasks /\ "on_enter" \in Hooks /\ "on_exit" \in Hooks
    BY DEF Tasks, Hooks
  <1>1. ASSUME NEW t \in Hooks, NEW stage \in {"run", "finished", "gone"}, Goto(t, stage),
               UNCHANGED <<current, playout_done>>
        PROVE  [Floor!Next]_(Floor!vars)
    <2>1. Created' = Created /\ Speaking' = Speaking \ {t}
      BY <1>1, <1>s, <1>h, MoveCreatesNothing
    <2>2. t \notin Speaking
      BY ActivityAssumption DEF Speaking
    <2> QED
      BY <1>1, <2>1, <2>2 DEF Floor!vars
  <1>2. CASE Start \/ Drain
    BY <1>1, <1>2, <1>h DEF Start, Drain
  <1>3. ASSUME NEW t \in Hooks, HookEnds(t) PROVE [Floor!Next]_(Floor!vars)
    BY <1>1, <1>3 DEF HookEnds
  <1>4. ASSUME NEW t \in Hooks, TaskCallbacks(t) PROVE [Floor!Next]_(Floor!vars)
    <2>1. playout_done' = playout_done
      BY <1>4, ActivityAssumption DEF TaskCallbacks
    <2> QED
      BY <1>1, <1>4, <2>1 DEF TaskCallbacks
  <1>5. ASSUME NEW h \in Handles, TaskCallbacks(h) PROVE [Floor!Next]_(Floor!vars)
    <2>1. playout_done' = playout_done \cup {h}
      BY <1>5 DEF TaskCallbacks
    <2> QED
      BY <1>5, <1>s, <2>1, FloorMove DEF TaskCallbacks
  <1>6. CASE MainTask
    BY <1>6, FloorMain
  <1>7. CASE Callers
    <2>1. CASE UNCHANGED <<pc, current, playout_done>>
      BY <2>1, FloorStill
    <2>2. CASE \E k \in Kinds : NewSpeech(k) /\ UNCHANGED <<current, playout_done>>
      BY <2>2, FloorNewSpeech
    <2> QED
      BY <1>7, <1>k, <2>1, <2>2
      DEF Callers, Say, UserGenerateReply, OnGenerationCreated, Interrupt, OnVadInferenceDone,
          OnEndOfTurn, OnEndOfTurnResumes, OnEndOfTurnCancelled, AfterUserHook, GenerateReply
  <1>8. ASSUME NEW h \in Handles, SpeechStep(h) PROVE [Floor!Next]_(Floor!vars)
    BY <1>8, FloorSpeechStep
  <1>9. CASE AClose \/ (\E h \in Handles : ToolStarts(h) \/ ToolEnds(h))
             \/ (\E h, g \in Handles : ToolAwaits(h, g))
    BY <1>9, FloorStill DEF AClose, ToolStarts, ToolEnds, ToolAwaits
  <1>10. CASE UNCHANGED vars
    BY <1>10, FloorStill DEF vars
  <1> QED
    BY <1>2, <1>3, <1>4, <1>5, <1>6, <1>7, <1>8, <1>9, <1>10 DEF Next, Tasks

\* The scheduler, with its queue, its tasks and its hooks, does what SpeechFloor promises.
THEOREM ImplementsSpeechFloor == Spec => KeepsThePromise
  <1>1. Init => Floor!Init
    BY DEF Init, Floor!Init, Created, Speaking, Tasks
  <1> QED
    BY <1>1, FloorStep, Invariance, PTL DEF Spec, KeepsThePromise, Floor!Spec

----------------------------------------------------------------------------
(* The conversation and the tools *)

\* Who asks for a speech changes its handle only.
LEMMA NewSpeechEffect ==
    ASSUME Inv, NEW k \in Kinds, NewSpeech(k)
    PROVE  \E n \in Handles, info \in SpeechInfo :
              /\ pc[n] = "none" /\ info.parent = None /\ info.late = draining
              /\ handle'[n] = info /\ \A h \in Handles \ {n} : handle'[h] = handle[h]
              /\ pc'[n] \in {"auth", "auth_gen"} /\ \A t \in Tasks \ {n} : pc'[t] = pc[t]
              /\ Created' = Created \cup {n}
  <1>1. TypeOK /\ pc \in [Tasks -> Stages] /\ handle \in [Handles -> SpeechInfo] /\ Handles \subseteq Tasks
    BY DEF Inv, TypeOK, Tasks
  <1> DEFINE n == NewHandle
  <1>2. n \in Handles /\ pc[n] = "none"
    BY <1>1, NewSpeechStep
  <1>3. PICK info \in SpeechInfo :
           info.parent = None /\ info.late = draining /\ CreateSpeechTask(n, info, pc)
    BY <1>1, NewSpeechStep
  <1> HIDE DEF n
  <1>4. /\ handle'[n] = info /\ \A h \in Handles \ {n} : handle'[h] = handle[h]
        /\ pc'[n] \in {"auth", "auth_gen"} /\ \A t \in Tasks \ {n} : pc'[t] = pc[t]
    BY <1>1, <1>2, <1>3 DEF CreateSpeechTask
  <1>5. Created' = Created \cup {n}
    BY <1>1, <1>2, <1>3, CreationStep
  <1> QED
    BY <1>2, <1>3, <1>4, <1>5

\* The speech that answers with the results of tools also ends the task of its parent.
LEMMA ToolResponseEffect ==
    ASSUME Inv, NEW h \in Handles, NEW tools \in BOOLEAN, CanCreate,
           ToolResponse(h, tools), pc[h] \in {"tools", "sync"}
    PROVE  \E n \in Handles \ {h}, info \in SpeechInfo :
              /\ pc[n] = "none" /\ info.parent = h /\ info.late = draining /\ info.tools = tools
              /\ handle'[n] = info /\ \A g \in Handles \ {n} : handle'[g] = handle[g]
              /\ pc'[n] \in {"auth", "auth_gen"} /\ pc'[h] = "finished"
              /\ \A t \in Tasks \ {n, h} : pc'[t] = pc[t]
              /\ Created' = Created \cup {n}
  <1>0. TypeOK
    BY DEF Inv
  <1> DEFINE n == NewHandle
             pcs == [pc EXCEPT ![h] = "finished"]
             info == [kind |-> handle[h].kind,
                      allow_interruptions |-> handle[h].allow_interruptions,
                      priority |-> NORMAL, time |-> clock, step |-> handle[h].step + 1,
                      parent |-> h, tools |-> tools, late |-> draining]
  <1>1. n \in Handles /\ pc[n] = "none" /\ n # h
    BY NewHandleIsNew
  <1>2. CreateSpeechTask(n, info, pcs)
    BY DEF ToolResponse
  <1>3. handle[h] \in SpeechInfo /\ handle \in [Handles -> SpeechInfo]
    BY <1>0 DEF TypeOK
  <1>4. info \in SpeechInfo /\ info.parent = h /\ info.late = draining /\ info.tools = tools
    BY <1>0, <1>3 DEF TypeOK, SpeechInfo
  <1>5. /\ pc \in [Tasks -> Stages] /\ h \in Tasks /\ Handles \subseteq Tasks
        /\ pcs \in [Tasks -> Stages] /\ pcs[h] = "finished"
        /\ \A t \in Tasks \ {h} : pcs[t] = pc[t]
    BY <1>0 DEF TypeOK, Tasks, Stages
  <1>6. \A g \in Handles : pcs[g] = "none" <=> pc[g] = "none"
    BY <1>5
  <1> HIDE DEF n, info, pcs
  <1>7. Created' = Created \cup {n}
    BY <1>1, <1>2, <1>4, <1>5, <1>6, CreationStep
  <1>8. /\ handle'[n] = info /\ \A g \in Handles \ {n} : handle'[g] = handle[g]
        /\ pc'[n] \in {"auth", "auth_gen"} /\ \A t \in Tasks \ {n} : pc'[t] = pcs[t]
    BY <1>1, <1>2, <1>3, <1>5 DEF CreateSpeechTask
  <1> QED
    BY <1>1, <1>4, <1>5, <1>7, <1>8

\* Every step is of one of four forms: it creates a speech somebody asks for, or one that answers
\* tools; it moves a task; or it leaves the handles and the tasks alone.
LEMMA StepForms ==
    ASSUME Inv, [Next]_vars
    PROVE  \/ \E k \in Kinds : /\ NewSpeech(k) /\ ~draining
                               /\ UNCHANGED <<draining, interrupted, tool, spoken, recorded>>
           \/ \E h \in Handles, tools \in BOOLEAN :
                 /\ CanCreate /\ ToolResponse(h, tools) /\ pc[h] \in {"tools", "sync"}
                 /\ (tool[h] = "reply" /\ (draining => ~tools)) \/ pc[h] = "sync"
                 /\ UNCHANGED <<interrupted, tool, spoken, recorded>>
           \/ \E t \in Tasks, stage \in Stages \ {"none", "sync", "play", "clear", "cancel"} :
                 /\ Goto(t, stage) /\ (pc[t] # "none" \/ t \in Hooks)
                 /\ UNCHANGED <<handle, interrupted, tool, spoken, recorded>>
           \/ \E h \in Handles :
                 \/ BeginPlay(h) \/ PlayEnds(h) \/ PlayInterrupted(h) \/ BufferCleared(h)
                 \/ ToolsCancelled(h) \/ ToolStarts(h) \/ ToolEnds(h)
                 \/ ToolsFinished(h) /\ LLM # "pipeline" /\ Goto(h, "sync")
           \/ UNCHANGED <<handle, pc, tool, spoken, recorded>> /\ interrupted \subseteq interrupted'
  <1>k. ReplyKind \in Kinds /\ "say" \in Kinds /\ "rt_gen" \in Kinds
    BY DEF ReplyKind, Kinds
  <1>h. Handles \subseteq Tasks /\ Hooks \subseteq Tasks /\ "on_enter" \in Hooks /\ "on_exit" \in Hooks
    BY DEF Tasks, Hooks
  <1>s. {"run", "auth", "request", "auth_gen", "tools", "finished", "gone"}
            \subseteq Stages \ {"none", "sync", "play", "clear", "cancel"}
    BY DEF Stages
  <1>1. CASE Start \/ Drain \/ (\E t \in Hooks : HookEnds(t)) \/ (\E t \in Tasks : TaskCallbacks(t))
    <2>1. CASE Start
      <3>1. Goto("on_enter", "run") /\ UNCHANGED <<handle, interrupted, tool, spoken, recorded>>
        BY <2>1 DEF Start
      <3> QED BY <1>h, <1>s, <3>1
    <2>2. CASE Drain
      <3>1. Goto("on_exit", "run") /\ UNCHANGED <<handle, interrupted, tool, spoken, recorded>>
        BY <2>2 DEF Drain
      <3> QED BY <1>h, <1>s, <3>1
    <2>3. ASSUME NEW t \in Hooks, HookEnds(t)
          PROVE  Goto(t, "finished") /\ UNCHANGED <<handle, interrupted, tool, spoken, recorded>>
      BY <2>3 DEF HookEnds
    <2>4. ASSUME NEW t \in Tasks, TaskCallbacks(t)
          PROVE  /\ Goto(t, "gone") /\ pc[t] # "none"
                 /\ UNCHANGED <<handle, interrupted, tool, spoken, recorded>>
      BY <2>4 DEF TaskCallbacks
    <2> QED BY <1>1, <1>h, <1>s, <2>1, <2>2, <2>3, <2>4
  <1>2. CASE MainTask \/ AClose \/ (\E h, g \in Handles : ToolAwaits(h, g)) \/ UNCHANGED vars
    BY <1>2 DEF MainTask, AClose, ToolAwaits, vars
  <1>3. CASE Callers
    <2>1. CASE Say \/ UserGenerateReply \/ OnGenerationCreated
      BY <1>k, <2>1 DEF Say, UserGenerateReply, OnGenerationCreated, GenerateReply
    <2>2. CASE Interrupt \/ OnVadInferenceDone \/ OnEndOfTurn \/ OnEndOfTurnCancelled
      BY <2>2 DEF Interrupt, OnVadInferenceDone, OnEndOfTurn, OnEndOfTurnCancelled, Interrupted
    <2>3. CASE OnEndOfTurnResumes
      <3>1. CASE AfterUserHook
        BY <1>k, <2>3, <3>1 DEF OnEndOfTurnResumes, AfterUserHook, GenerateReply
      <3>2. CASE ~AfterUserHook
        BY <2>3, <3>2 DEF OnEndOfTurnResumes
      <3> QED BY <3>1, <3>2
    <2> QED BY <1>3, <2>1, <2>2, <2>3 DEF Callers
  <1>4. ASSUME NEW h \in Handles, ToolsFinished(h)
        PROVE  \/ /\ Goto(h, "finished") /\ pc[h] # "none"
                  /\ UNCHANGED <<handle, interrupted, tool, spoken, recorded>>
               \/ LLM # "pipeline" /\ Goto(h, "sync")
               \/ \E tools \in BOOLEAN :
                     /\ CanCreate /\ ToolResponse(h, tools) /\ pc[h] \in {"tools", "sync"}
                     /\ (tool[h] = "reply" /\ (draining => ~tools)) \/ pc[h] = "sync"
                     /\ UNCHANGED <<interrupted, tool, spoken, recorded>>
    <2>1. CASE ~Answers(h)
      BY <1>4, <2>1 DEF ToolsFinished
    <2>2. CASE Answers(h) /\ LLM # "pipeline"
      BY <1>4, <2>2 DEF ToolsFinished
    <2>3. CASE Answers(h) /\ LLM = "pipeline"
      <3>1. PICK agent_switch \in BOOLEAN : ToolResponse(h, ~LastResponse(agent_switch))
        BY <1>4, <2>3 DEF ToolsFinished
      <3> DEFINE tools == ~LastResponse(agent_switch)
      <3>2. tools \in BOOLEAN /\ ToolResponse(h, tools)
        BY <3>1, Zenon
      <3>3. draining => ~tools
        BY DEF LastResponse
      <3>4. /\ pc[h] = "tools" /\ CanCreate /\ tool[h] = "reply"
            /\ UNCHANGED <<interrupted, tool, spoken, recorded>>
        BY <1>4, <2>3 DEF ToolsFinished, Answers
      <3> HIDE DEF tools
      <3> QED BY <3>2, <3>3, <3>4
    <2> QED BY <2>1, <2>2, <2>3
  <1>5. ASSUME NEW h \in Handles, ToolResultsSent(h)
        PROVE  \/ /\ Goto(h, "finished") /\ pc[h] # "none"
                  /\ UNCHANGED <<handle, interrupted, tool, spoken, recorded>>
               \/ \E tools \in BOOLEAN :
                     /\ CanCreate /\ ToolResponse(h, tools) /\ pc[h] = "sync"
                     /\ UNCHANGED <<interrupted, tool, spoken, recorded>>
    BY <1>5 DEF ToolResultsSent
  <1>6. ASSUME NEW h \in Handles, GiveUp(h) \/ RealtimeRequest(h) \/ RealtimeAnswer(h)
        PROVE  \E stage \in {"finished", "request", "auth_gen"} :
                  /\ Goto(h, stage) /\ pc[h] # "none"
                  /\ UNCHANGED <<handle, interrupted, tool, spoken, recorded>>
    BY <1>6 DEF GiveUp, RealtimeRequest, RealtimeAnswer, AwaitsFloor
  <1>7. ASSUME NEW h \in Handles, SpeechStep(h) \/ ToolStarts(h) \/ ToolEnds(h)
        PROVE  \/ BeginPlay(h) \/ PlayEnds(h) \/ PlayInterrupted(h) \/ BufferCleared(h)
               \/ ToolsCancelled(h) \/ ToolStarts(h) \/ ToolEnds(h) \/ ToolsFinished(h)
               \/ ToolResultsSent(h) \/ GiveUp(h) \/ RealtimeRequest(h) \/ RealtimeAnswer(h)
    BY <1>7 DEF SpeechStep
  <1>8. ASSUME NEW h \in Handles, ToolsFinished(h) \/ ToolResultsSent(h)
        PROVE  \/ /\ Goto(h, "finished") /\ pc[h] # "none"
                  /\ UNCHANGED <<handle, interrupted, tool, spoken, recorded>>
               \/ ToolsFinished(h) /\ LLM # "pipeline" /\ Goto(h, "sync")
               \/ \E tools \in BOOLEAN :
                     /\ CanCreate /\ ToolResponse(h, tools) /\ pc[h] \in {"tools", "sync"}
                     /\ (tool[h] = "reply" /\ (draining => ~tools)) \/ pc[h] = "sync"
                     /\ UNCHANGED <<interrupted, tool, spoken, recorded>>
    BY <1>4, <1>5, <1>8
  <1>9. CASE \E h \in Handles : SpeechStep(h) \/ ToolStarts(h) \/ ToolEnds(h)
    <2>1. PICK h \in Handles : SpeechStep(h) \/ ToolStarts(h) \/ ToolEnds(h)
      BY <1>9
    <2>2. h \in Tasks /\ {"finished", "request", "auth_gen"} \subseteq Stages \ {"none", "sync", "play", "clear", "cancel"}
      BY <1>h, <1>s
    <2>3. CASE GiveUp(h) \/ RealtimeRequest(h) \/ RealtimeAnswer(h)
      BY <1>6, <2>2, <2>3
    <2>4. CASE ToolsFinished(h) \/ ToolResultsSent(h)
      BY <1>8, <2>2, <2>4
    <2> QED BY <1>7, <2>1, <2>3, <2>4
  <1> QED BY <1>1, <1>2, <1>3, <1>9 DEF Next

\* Moving one task.
LEMMA GotoEffect ==
    ASSUME Inv, NEW t \in Tasks, NEW stage, Goto(t, stage)
    PROVE  pc'[t] = stage /\ \A u \in Tasks \ {t} : pc'[u] = pc[u]
  BY DEF Inv, TypeOK, Goto

\* Every step keeps what the conversation and the stages of an interrupted speech agree on.
LEMMA HistoryStep == Inv /\ HistoryInv /\ [Next]_vars => HistoryInv'
  <1> SUFFICES ASSUME Inv, HistoryInv, [Next]_vars PROVE HistoryInv'
    OBVIOUS
  <1> USE DEF HistoryInv
  <1>h. Handles \subseteq Tasks /\ spoken \subseteq Handles /\ recorded \subseteq Handles
    BY DEF Tasks, Inv, TypeOK
  <1>1. ASSUME NEW k \in Kinds, NewSpeech(k), UNCHANGED <<interrupted, spoken, recorded>>
        PROVE  HistoryInv'
    <2>1. PICK n \in Handles, info \in SpeechInfo :
              /\ pc[n] = "none" /\ info.parent = None
              /\ handle'[n] = info /\ \A h \in Handles \ {n} : handle'[h] = handle[h]
              /\ pc'[n] \in {"auth", "auth_gen"} /\ \A t \in Tasks \ {n} : pc'[t] = pc[t]
              /\ Created' = Created \cup {n}
      BY <1>1, NewSpeechEffect
    <2>2. n \notin Created
      BY <2>1 DEF Created
    <2>3. InterruptedInOrder'
      BY <1>h, <1>1, <2>1 DEF InterruptedInOrder
    <2>4. AnswersFollowTools'
      BY <1>h, <1>1, <2>1, <2>2 DEF AnswersFollowTools
    <2> QED BY <1>1, <2>1, <2>3, <2>4
  <1>2. ASSUME NEW h \in Handles, NEW tools \in BOOLEAN, CanCreate, ToolResponse(h, tools),
               pc[h] \in {"tools", "sync"}, UNCHANGED <<interrupted, spoken, recorded>>
        PROVE  HistoryInv'
    <2>1. PICK n \in Handles \ {h}, info \in SpeechInfo :
              /\ pc[n] = "none"
              /\ handle'[n] = info /\ \A g \in Handles \ {n} : handle'[g] = handle[g]
              /\ pc'[n] \in {"auth", "auth_gen"} /\ pc'[h] = "finished"
              /\ \A t \in Tasks \ {n, h} : pc'[t] = pc[t]
              /\ Created' = Created \cup {n}
      BY <1>2, ToolResponseEffect
    <2>2. n \notin Created
      BY <2>1 DEF Created
    <2>3. InterruptedInOrder'
      BY <1>h, <1>2, <2>1 DEF InterruptedInOrder
    <2>4. AnswersFollowTools'
      BY <1>h, <1>2, <2>1, <2>2 DEF AnswersFollowTools
    <2> QED BY <1>2, <2>1, <2>3, <2>4
  <1>3. ASSUME NEW t \in Tasks, NEW stage \in Stages \ {"none", "clear", "cancel"},
               Goto(t, stage), pc[t] # "none" \/ t \in Hooks,
               UNCHANGED <<handle, interrupted, spoken, recorded>>
        PROVE  HistoryInv'
    <2>1. pc'[t] = stage /\ \A u \in Tasks \ {t} : pc'[u] = pc[u]
      BY <1>3, GotoEffect
    <2>2. Created' = Created
      BY <1>3, MoveCreatesNothing
    <2>3. InterruptedInOrder'
      BY <1>h, <1>3, <2>1 DEF InterruptedInOrder
    <2> QED BY <1>3, <2>2, <2>3 DEF AnswersFollowTools
  <1>4. CASE UNCHANGED <<handle, pc, spoken, recorded>> /\ interrupted \subseteq interrupted'
    BY <1>4 DEF InterruptedInOrder, AnswersFollowTools, Created
  <1>5. ASSUME NEW h \in Handles,
               \/ PlayEnds(h) \/ PlayInterrupted(h) \/ BufferCleared(h) \/ ToolsCancelled(h)
        PROVE  HistoryInv'
    <2>1. /\ pc[h] \in {"play", "clear", "cancel"} /\ h \in Created
          /\ spoken \subseteq spoken' /\ spoken' \subseteq spoken \cup {h}
          /\ recorded \subseteq recorded' /\ recorded' \subseteq recorded \cup {h}
          /\ UNCHANGED <<handle, interrupted>>
      BY <1>5 DEF PlayEnds, PlayInterrupted, BufferCleared, ToolsCancelled, Record, Created
    <2>2. /\ pc'[h] \in {"tools", "finished", "clear", "cancel"}
          /\ \A u \in Tasks \ {h} : pc'[u] = pc[u]
      BY <1>h, <1>5, GotoEffect DEF PlayEnds, PlayInterrupted, BufferCleared, ToolsCancelled
    <2>3. Created' = Created
      BY <1>h, <2>1, <2>2 DEF Created
    <2>4. /\ pc'[h] \in {"clear", "cancel"} => h \in interrupted
          /\ pc'[h] = "cancel" => handle[h].kind # "say"
          /\ pc'[h] = "clear" /\ handle[h].kind = "reply" /\ handle[h].parent # None => h \in recorded'
      <3>1. CASE PlayEnds(h)
        BY <1>h, <3>1, GotoEffect DEF PlayEnds
      <3>2. CASE PlayInterrupted(h)
        BY <1>h, <3>2, GotoEffect DEF PlayInterrupted, Record
      <3>3. CASE BufferCleared(h)
        BY <1>h, <3>3, GotoEffect DEF BufferCleared, InterruptedInOrder
      <3>4. CASE ToolsCancelled(h)
        BY <1>h, <3>4, GotoEffect DEF ToolsCancelled
      <3> QED BY <1>5, <3>1, <3>2, <3>3, <3>4
    <2>5. InterruptedInOrder'
      BY <1>h, <2>1, <2>2, <2>4 DEF InterruptedInOrder
    <2>6. h \in spoken' /\ h \notin spoken /\ handle[h].kind = "reply" /\ handle[h].parent # None
              => h \in recorded'
      BY <1>5 DEF PlayEnds, PlayInterrupted, BufferCleared, ToolsCancelled, Record, InterruptedInOrder
    <2>7. AnswersFollowTools'
      BY <2>1, <2>6 DEF AnswersFollowTools
    <2> QED BY <2>1, <2>3, <2>5, <2>7
  <1>6. ASSUME NEW h \in Handles, BeginPlay(h) \/ (ToolsFinished(h) /\ Goto(h, "sync"))
        PROVE  HistoryInv'
    <2>1. /\ \E stage \in {"play", "finished", "sync"} : Goto(h, stage)
          /\ pc[h] # "none" /\ UNCHANGED <<interrupted, spoken, recorded>>
      BY <1>6 DEF BeginPlay, ToolsFinished, AwaitsFloor
    <2>2. UNCHANGED handle
      <3>1. CASE BeginPlay(h)
        BY <3>1 DEF BeginPlay
      <3>2. CASE ToolsFinished(h) /\ Goto(h, "sync")
        <4>1. pc'[h] = "sync" /\ pc[h] = "tools"
          BY <1>h, <3>2, GotoEffect DEF ToolsFinished
        <4>2. ASSUME NEW tools \in BOOLEAN, CanCreate, ToolResponse(h, tools) PROVE FALSE
          <5>1. pc'[h] = "finished"
            BY <4>1, <4>2, ToolResponseEffect
          <5> QED BY <4>1, <5>1
        <4>3. CASE Answers(h) /\ LLM = "pipeline"
          <5>1. PICK agent_switch \in BOOLEAN : ToolResponse(h, ~LastResponse(agent_switch))
            BY <3>2, <4>3 DEF ToolsFinished
          <5> DEFINE tools == ~LastResponse(agent_switch)
          <5>2. tools \in BOOLEAN /\ ToolResponse(h, tools)
            BY <5>1, Zenon
          <5> HIDE DEF tools
          <5> QED BY <4>2, <4>3, <5>2 DEF Answers
        <4> QED BY <3>2, <4>3 DEF ToolsFinished
      <3> QED BY <1>6, <3>1, <3>2
    <2>3. {"play", "finished", "sync"} \subseteq Stages \ {"none", "clear", "cancel"}
      BY DEF Stages
    <2> QED BY <1>h, <1>3, <2>1, <2>2, <2>3
  <1>7. ASSUME NEW h \in Handles, ToolStarts(h) \/ ToolEnds(h) PROVE HistoryInv'
    BY <1>4, <1>7 DEF ToolStarts, ToolEnds
  <1>8. CASE \E k \in Kinds : /\ NewSpeech(k) /\ ~draining
                             /\ UNCHANGED <<draining, interrupted, tool, spoken, recorded>>
    BY <1>1, <1>8
  <1>9. CASE \E h \in Handles, tools \in BOOLEAN :
                 /\ CanCreate /\ ToolResponse(h, tools) /\ pc[h] \in {"tools", "sync"}
                 /\ UNCHANGED <<interrupted, tool, spoken, recorded>>
    BY <1>2, <1>9
  <1>10. CASE \E t \in Tasks, stage \in Stages \ {"none", "sync", "play", "clear", "cancel"} :
                 /\ Goto(t, stage) /\ (pc[t] # "none" \/ t \in Hooks)
                 /\ UNCHANGED <<handle, interrupted, tool, spoken, recorded>>
    <2>1. PICK t \in Tasks, stage \in Stages \ {"none", "sync", "play", "clear", "cancel"} :
                 /\ Goto(t, stage) /\ (pc[t] # "none" \/ t \in Hooks)
                 /\ UNCHANGED <<handle, interrupted, tool, spoken, recorded>>
      BY <1>10
    <2>2. stage \in Stages \ {"none", "clear", "cancel"}
      OBVIOUS
    <2> QED BY <1>3, <2>1, <2>2
  <1> HIDE DEF HistoryInv
  <1> QED BY <1>4, <1>5, <1>6, <1>7, <1>8, <1>9, <1>10, StepForms

\* The model never reads an answer to tools without the calls and the results it answers: whatever
\* interrupts the answer, its tool messages enter the chat context first (agent_activity.py
\* _pipeline_reply_task).
THEOREM AnswersAreRecorded == Spec => []AnswersFollowTools
  <1>1. Init => HistoryInv
    BY DEF Init, HistoryInv, InterruptedInOrder, AnswersFollowTools, Created, Tasks
  <1>2. HistoryInv => AnswersFollowTools
    BY DEF HistoryInv
  <1> QED BY <1>1, <1>2, Invariance, HistoryStep, PTL DEF Spec

\* A speech enters the conversation while it has the floor, or is a realtime message that was
\* interrupted (agent_activity.py _conversation_item_added).
THEOREM SpeechesEnterInTurn == Spec => SpokenInTurn
  <1>1. Init => HistoryInv
    BY DEF Init, HistoryInv, InterruptedInOrder, AnswersFollowTools, Created, Tasks
  <1>2. ASSUME Inv, HistoryInv, [Next]_vars
        PROVE  [\A h \in spoken' \ spoken :
                  \/ current = h
                  \/ handle[h].kind \in {"rt_reply", "rt_gen"} /\ h \in interrupted]_vars
    <2> SUFFICES ASSUME NEW h \in spoken', h \notin spoken
                 PROVE  \/ current = h
                        \/ handle[h].kind \in {"rt_reply", "rt_gen"} /\ h \in interrupted
      OBVIOUS
    <2>1. \/ PlayEnds(h) \/ BufferCleared(h) \/ ToolsCancelled(h)
      <3>1. PICK g \in Handles :
               \/ BeginPlay(g) \/ PlayEnds(g) \/ PlayInterrupted(g) \/ BufferCleared(g)
               \/ ToolsCancelled(g) \/ ToolStarts(g) \/ ToolEnds(g)
               \/ ToolsFinished(g)
        BY <1>2, StepForms
      <3>2. CASE BeginPlay(g) \/ PlayInterrupted(g) \/ ToolStarts(g) \/ ToolEnds(g) \/ ToolsFinished(g)
        BY <3>2 DEF BeginPlay, PlayInterrupted, ToolStarts, ToolEnds, ToolsFinished
      <3>3. CASE PlayEnds(g) \/ BufferCleared(g) \/ ToolsCancelled(g)
        <4>1. g = h
          BY <3>3 DEF PlayEnds, BufferCleared, ToolsCancelled
        <4> QED BY <3>3, <4>1
      <3> QED BY <3>1, <3>2, <3>3
    <2>2. h \in Handles
      <3>1. TypeOK'
        BY <1>2, InvStep DEF Inv
      <3> QED BY <3>1 DEF TypeOK
    <2>3. CASE PlayEnds(h) \/ BufferCleared(h)
      <3>1. pc[h] \in {"play", "clear"}
        BY <2>3 DEF PlayEnds, BufferCleared
      <3>2. h \in authorized /\ h \notin playout_done
        BY <1>2, <2>2, <3>1 DEF Inv, SpeakingServed, NotDoneEarly
      <3> QED BY <1>2, <2>2, <3>2, SpeakerHolds
    <2>4. CASE ToolsCancelled(h)
      <3>1. h \in interrupted /\ handle[h].kind # "say"
        BY <1>2, <2>2, <2>4 DEF ToolsCancelled, HistoryInv, InterruptedInOrder
      <3>2. handle[h].kind # "reply"
        BY <2>4 DEF ToolsCancelled
      <3>3. handle[h].kind \in Kinds
        BY <1>2, <2>2 DEF Inv, TypeOK, SpeechInfo
      <3> QED BY <3>1, <3>2, <3>3 DEF Kinds
    <2> QED BY <2>1, <2>3, <2>4
  <1> QED BY <1>1, <1>2, Invariance, HistoryStep, PTL DEF Spec, SpokenInTurn

\* Every step of a pipeline keeps the tools from a speech created while draining, and so from its
\* answer.
LEMMA ToolsStep ==
    ASSUME LLM = "pipeline", Inv, HistoryInv, LateWithoutTools, LastToolResponse, [Next]_vars
    PROVE  LateWithoutTools' /\ LastToolResponse'
  <1>h. /\ Handles \subseteq Tasks /\ None \notin Handles /\ Created \subseteq Handles
        /\ tool \in [Handles -> {"idle", "running", "reply", "last", "silent", "failed"}]
    BY ActivityAssumption DEF Tasks, Inv, TypeOK, Created
  <1>1. ASSUME NEW k \in Kinds, NewSpeech(k), ~draining, UNCHANGED tool
        PROVE  LateWithoutTools' /\ LastToolResponse'
    <2>1. PICK n \in Handles, info \in SpeechInfo :
              /\ pc[n] = "none" /\ info.parent = None /\ info.late = draining
              /\ handle'[n] = info /\ \A h \in Handles \ {n} : handle'[h] = handle[h]
              /\ pc'[n] \in {"auth", "auth_gen"} /\ \A t \in Tasks \ {n} : pc'[t] = pc[t]
              /\ Created' = Created \cup {n}
      BY <1>1, NewSpeechEffect
    <2>2. n \notin Created
      BY <2>1 DEF Created
    <2>3. LateWithoutTools'
      BY <1>h, <1>1, <2>1, <2>2 DEF LateWithoutTools
    <2>4. LastToolResponse'
      BY <1>h, <2>1, <2>2 DEF LateWithoutTools, LastToolResponse
    <2> QED BY <2>3, <2>4
  <1>2. ASSUME NEW h \in Handles, NEW tools \in BOOLEAN, CanCreate, ToolResponse(h, tools),
               pc[h] \in {"tools", "sync"},
               (tool[h] = "reply" /\ (draining => ~tools)) \/ pc[h] = "sync", UNCHANGED tool
        PROVE  LateWithoutTools' /\ LastToolResponse'
    <2>1. PICK n \in Handles \ {h}, info \in SpeechInfo :
              /\ pc[n] = "none" /\ info.parent = h /\ info.late = draining /\ info.tools = tools
              /\ handle'[n] = info /\ \A g \in Handles \ {n} : handle'[g] = handle[g]
              /\ pc'[n] \in {"auth", "auth_gen"} /\ pc'[h] = "finished"
              /\ \A t \in Tasks \ {n, h} : pc'[t] = pc[t]
              /\ Created' = Created \cup {n}
      BY <1>2, ToolResponseEffect
    <2>2. n \notin Created /\ h \in Created
      BY <1>2, <2>1 DEF Created
    <2>3. tool[h] = "reply" /\ (draining => ~tools) /\ ~handle[h].late
      BY <1>2, <2>2 DEF LateWithoutTools
    <2>4. LateWithoutTools'
      BY <1>h, <1>2, <2>1, <2>2, <2>3 DEF LateWithoutTools
    <2>5. LastToolResponse'
      BY <1>h, <2>1, <2>2, <2>3 DEF LateWithoutTools, LastToolResponse
    <2> QED BY <2>4, <2>5
  <1>3. ASSUME NEW t \in Tasks, NEW stage \in Stages \ {"none", "sync"}, Goto(t, stage),
               pc[t] # "none" \/ t \in Hooks, UNCHANGED <<handle, tool>>
        PROVE  LateWithoutTools' /\ LastToolResponse'
    <2>1. pc'[t] = stage /\ \A u \in Tasks \ {t} : pc'[u] = pc[u]
      BY <1>3, GotoEffect
    <2>2. Created' = Created
      BY <1>3, MoveCreatesNothing
    <2>3. LateWithoutTools'
      BY <1>h, <1>3, <2>1, <2>2 DEF LateWithoutTools
    <2> QED BY <1>3, <2>2, <2>3 DEF LastToolResponse
  <1>4. CASE UNCHANGED <<handle, pc, tool>>
    BY <1>4 DEF LateWithoutTools, LastToolResponse, Created
  <1>5. ASSUME NEW h \in Handles,
               \/ BeginPlay(h) \/ PlayEnds(h) \/ PlayInterrupted(h) \/ BufferCleared(h)
               \/ ToolsCancelled(h)
        PROVE  LateWithoutTools' /\ LastToolResponse'
    <2>1. \E stage \in {"play", "finished", "tools", "clear", "cancel"} :
             Goto(h, stage) /\ pc[h] # "none" /\ UNCHANGED <<handle, tool>>
      BY <1>5 DEF BeginPlay, PlayEnds, PlayInterrupted, BufferCleared, ToolsCancelled, AwaitsFloor
    <2>2. {"play", "finished", "tools", "clear", "cancel"} \subseteq Stages \ {"none", "sync"}
      BY DEF Stages
    <2> QED BY <1>h, <1>3, <2>1, <2>2
  <1>6. ASSUME NEW h \in Handles, ToolStarts(h) \/ ToolEnds(h)
        PROVE  LateWithoutTools' /\ LastToolResponse'
    <2>1. UNCHANGED <<pc, handle>> /\ Created' = Created
      BY <1>6 DEF ToolStarts, ToolEnds, Created
    <2>2. /\ \A g \in Handles \ {h} : tool'[g] = tool[g]
          /\ h \in Created /\ handle[h].tools
      BY <1>h, <1>6 DEF ToolStarts, ToolEnds, LateWithoutTools, Created
    <2>3. LateWithoutTools'
      BY <1>h, <2>1, <2>2 DEF LateWithoutTools
    <2> QED BY <2>1, <2>3 DEF LastToolResponse
  <1>7. CASE \E k \in Kinds : /\ NewSpeech(k) /\ ~draining
                             /\ UNCHANGED <<draining, interrupted, tool, spoken, recorded>>
    BY <1>1, <1>7
  <1>8. CASE \E h \in Handles, tools \in BOOLEAN :
                 /\ CanCreate /\ ToolResponse(h, tools) /\ pc[h] \in {"tools", "sync"}
                 /\ (tool[h] = "reply" /\ (draining => ~tools)) \/ pc[h] = "sync"
                 /\ UNCHANGED <<interrupted, tool, spoken, recorded>>
    BY <1>2, <1>8
  <1>9. CASE \E t \in Tasks, stage \in Stages \ {"none", "sync", "play", "clear", "cancel"} :
                 /\ Goto(t, stage) /\ (pc[t] # "none" \/ t \in Hooks)
                 /\ UNCHANGED <<handle, interrupted, tool, spoken, recorded>>
    <2>1. PICK t \in Tasks, stage \in Stages \ {"none", "sync", "play", "clear", "cancel"} :
                 /\ Goto(t, stage) /\ (pc[t] # "none" \/ t \in Hooks)
                 /\ UNCHANGED <<handle, interrupted, tool, spoken, recorded>>
      BY <1>9
    <2>2. stage \in Stages \ {"none", "sync"}
      OBVIOUS
    <2> QED BY <1>3, <2>1, <2>2
  <1> QED BY <1>4, <1>5, <1>6, <1>7, <1>8, <1>9, StepForms

\* Tools cannot keep a draining pipeline alive: a response to tools that was created while draining
\* has no response of its own (agent_activity.py _pipeline_reply_task, "the last tool response").
\* A realtime model reads the flag before it sends the results, and is not bound so.
THEOREM LastResponseIsLast ==
    ASSUME LLM = "pipeline"
    PROVE  Spec => []LastToolResponse
  <1>1. Init => HistoryInv /\ LateWithoutTools /\ LastToolResponse
    BY DEF Init, HistoryInv, InterruptedInOrder, AnswersFollowTools, Created, Tasks, LateWithoutTools,
           LastToolResponse
  <1>2. Inv /\ HistoryInv /\ LateWithoutTools /\ LastToolResponse /\ [Next]_vars
            => LateWithoutTools' /\ LastToolResponse'
    BY ToolsStep
  <1> QED BY <1>1, <1>2, Invariance, HistoryStep, PTL DEF Spec

\* An interrupted speech that has not the floor yet stays silent (agent_activity.py: the tasks read
\* "interrupted" after the wait for the authorization).
THEOREM InterruptedStaysSilent == Spec => SilencedStaysSilent
  <1>1. ASSUME Inv, [Next]_vars
        PROVE  [\A h \in Handles : h \in interrupted /\ pc'[h] = "play" => pc[h] = "play"]_vars
    <2> SUFFICES ASSUME NEW h \in Handles, h \in interrupted, pc'[h] = "play", pc[h] # "play"
                 PROVE  FALSE
      OBVIOUS
    <2>h. h \in Tasks /\ Handles \subseteq Tasks
      BY DEF Tasks
    <2>1. ASSUME NEW t \in Tasks, NEW stage, Goto(t, stage) PROVE t = h /\ stage = "play"
      BY <1>1, <2>h, <2>1, GotoEffect
    <2>2. CASE \E k \in Kinds : NewSpeech(k)
      <3>1. PICK n \in Handles : pc'[n] \in {"auth", "auth_gen"} /\ \A t \in Tasks \ {n} : pc'[t] = pc[t]
        BY <1>1, <2>2, NewSpeechEffect
      <3> QED BY <2>h, <3>1
    <2>3. CASE \E g \in Handles, tools \in BOOLEAN :
                  CanCreate /\ ToolResponse(g, tools) /\ pc[g] \in {"tools", "sync"}
      <3>1. PICK g \in Handles, n \in Handles : /\ pc'[n] \in {"auth", "auth_gen"} /\ pc'[g] = "finished"
                                              /\ \A t \in Tasks \ {n, g} : pc'[t] = pc[t]
        BY <1>1, <2>3, ToolResponseEffect
      <3> QED BY <2>h, <3>1
    <2>4. ASSUME NEW g \in Handles,
                 \/ BeginPlay(g) \/ PlayEnds(g) \/ PlayInterrupted(g) \/ BufferCleared(g)
                 \/ ToolsCancelled(g) \/ ToolStarts(g) \/ ToolEnds(g) \/ Goto(g, "sync")
          PROVE  FALSE
      <3>0. g \in Tasks
        BY <2>h
      <3>1. CASE BeginPlay(g)
        BY <2>1, <3>0, <3>1 DEF BeginPlay
      <3>2. CASE PlayEnds(g) \/ PlayInterrupted(g) \/ BufferCleared(g) \/ ToolsCancelled(g) \/ Goto(g, "sync")
        BY <2>1, <3>0, <3>2 DEF PlayEnds, PlayInterrupted, BufferCleared, ToolsCancelled
      <3>3. CASE ToolStarts(g) \/ ToolEnds(g)
        BY <3>3 DEF ToolStarts, ToolEnds
      <3> QED BY <2>4, <3>1, <3>2, <3>3
    <2>5. CASE \E t \in Tasks, stage \in Stages \ {"none", "sync", "play", "clear", "cancel"} : Goto(t, stage)
      BY <2>1, <2>5
    <2>6. pc' # pc
      OBVIOUS
    <2>7. CASE \E g \in Handles :
                 \/ BeginPlay(g) \/ PlayEnds(g) \/ PlayInterrupted(g) \/ BufferCleared(g)
                 \/ ToolsCancelled(g) \/ ToolStarts(g) \/ ToolEnds(g)
                 \/ ToolsFinished(g) /\ LLM # "pipeline" /\ Goto(g, "sync")
      BY <2>4, <2>7
    <2> HIDE DEF Goto
    <2> QED BY <1>1, <2>2, <2>3, <2>5, <2>6, <2>7, StepForms
  <1> QED BY <1>1, Invariance, PTL DEF Spec, SilencedStaysSilent

=============================================================================
