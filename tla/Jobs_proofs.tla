----------------------------- MODULE Jobs_proofs -----------------------------
(***************************************************************************)
(* Proofs about the worker and its reload, the executor of a job and its   *)
(* process, and what surrounds a job: for any number of jobs, offers,      *)
(* pages, log records and inferences, of changes of files, participants    *)
(* and entrypoints, and any set of faults.                                 *)
(***************************************************************************)
EXTENDS ProcMains, Worker, Browser, JobContext, SequenceLemmas

(* Worker *)

\* A message that is queued is in the channel or with its waiting sender.
LEMMA QueueKeeps ==
    ASSUME WorkerAssumption, WorkerInv, NEW m \in WorkerMessages, Queue(m)
    PROVE  /\ msgChan' \in Seq(WorkerMessages) /\ Len(msgChan') <= ChanSize
           /\ blocked' \subseteq WorkerMessages
<1>1. msgChan \in Seq(WorkerMessages) /\ blocked \subseteq WorkerMessages /\ Len(msgChan) <= ChanSize
  BY DEF WorkerInv, MessagesTypeOK, WorkerTypeOK
<1>2. /\ Append(msgChan, m) \in Seq(WorkerMessages) /\ Len(Append(msgChan, m)) = Len(msgChan) + 1
      /\ Len(msgChan) \in Nat
  BY <1>1, AppendProperties, LenProperties
<1> QED BY <1>1, <1>2 DEF Queue, chanVars, WorkerAssumption

\* The offers and what is assigned do not depend on the connection.
LEMMA OffersStay ==
    ASSUME WorkerInv, UNCHANGED offerVars
    PROVE  /\ OffersKeepJobs' /\ LaunchesAssigned' /\ KnownOffers' = KnownOffers
           /\ WorkerMessages' = WorkerMessages /\ ServerMessages' = ServerMessages
BY DEF WorkerInv, OffersKeepJobs, LaunchesAssigned, Assigned, KnownOffers, WorkerMessages, ServerMessages,
       offerVars

LEMMA WorkerInitInv == WorkerAssumption /\ WorkerInit => WorkerInv
<1> SUFFICES ASSUME WorkerAssumption, WorkerInit PROVE WorkerInv OBVIOUS
<1> USE DEF WorkerInit, WorkerAssumption
<1>1. Len(<<>>) = 0 /\ <<>> \in Seq(WorkerMessages) /\ <<>> \in Seq(ServerMessages)
  BY EmptySeq
<1>2. WorkerTypeOK
  <2>1. Len(msgChan) <= ChanSize
    BY <1>1
  <2>2. /\ offerJob \in [Offers -> Jobs \cup {NoJob}]
        /\ request \in [Offers -> {"none", "asked", "queueing", "waiting", "launching", "launched",
                               "over"}]
        /\ pendingAssign \in [Jobs -> Offers \cup {0}]
        /\ jobProc \in [Jobs -> {"none", "running", "exited"}]
        /\ heard \in [Jobs -> {"none", "running", "done"}]
    OBVIOUS
  <2>3. /\ {wclosed, wdraining, connecting, heardFull} \subseteq BOOLEAN
        /\ conn \in {"none", "idle", "dialing", "registering", "up", "ended", "failed"}
        /\ retry \in 0..MaxRetry /\ assigned \subseteq Offers
        /\ wclose \in {"no", "pool", "gather", "over"}
    <3>1. /\ wclosed \in BOOLEAN /\ wdraining \in BOOLEAN /\ connecting \in BOOLEAN
          /\ heardFull \in BOOLEAN
      OBVIOUS
    <3>2. 0 \in 0..MaxRetry
      OBVIOUS
    <3> QED BY <3>1, <3>2
  <2> HIDE DEF WorkerInit
  <2> QED BY <2>1, <2>2, <2>3 DEF WorkerTypeOK
<1>3. MessagesTypeOK
  BY <1>1 DEF MessagesTypeOK
<1>4. OffersKeepJobs
  BY DEF OffersKeepJobs
<1>5. LaunchesAssigned
  <2>1. \A j \in Jobs : Assigned(j) = {}
    BY DEF Assigned
  <2>2. Cardinality({}) = 0
    BY FS_EmptySet
  <2>3. \A o \in Offers : request[o] \notin {"launching", "launched"}
    OBVIOUS
  <2>4. ASSUME NEW j \in Jobs PROVE Cardinality(Assigned(j)) <= assignments[j]
    <3>1. Cardinality(Assigned(j)) = 0 /\ assignments[j] = 0
      BY <2>1, <2>2
    <3> QED BY <3>1
  <2> QED BY <2>3, <2>4 DEF LaunchesAssigned
<1> QED BY <1>2, <1>3, <1>4, <1>5 DEF WorkerInv

\* The worker connects.
LEMMA RunKeeps ==
    ASSUME WorkerAssumption, WorkerInv, Run
    PROVE  WorkerInv'
<1> USE DEF Run, offerVars, connVars, workerJobVars, serverVars, chanVars
<1>0. /\ OffersKeepJobs' /\ LaunchesAssigned'
      /\ WorkerMessages' = WorkerMessages /\ ServerMessages' = ServerMessages
  BY OffersStay
<1>1. WorkerTypeOK'
  BY <1>0 DEF WorkerInv, WorkerTypeOK, WorkerAssumption, MessagesTypeOK
<1>2. MessagesTypeOK'
  BY <1>0 DEF WorkerInv, MessagesTypeOK
<1> QED BY <1>0, <1>1, <1>2 DEF WorkerInv

\* The worker connects.
LEMMA DialKeeps ==
    ASSUME WorkerAssumption, WorkerInv, Dial
    PROVE  WorkerInv'
<1> USE DEF Dial, offerVars, connVars, workerJobVars, serverVars, chanVars
<1>0. /\ OffersKeepJobs' /\ LaunchesAssigned'
      /\ WorkerMessages' = WorkerMessages /\ ServerMessages' = ServerMessages
  BY OffersStay
<1>1. WorkerTypeOK'
  BY <1>0 DEF WorkerInv, WorkerTypeOK, WorkerAssumption, MessagesTypeOK
<1>2. MessagesTypeOK'
  BY <1>0 DEF WorkerInv, MessagesTypeOK
<1> QED BY <1>0, <1>1, <1>2 DEF WorkerInv

\* The retries are counted up to the maximum.
LEMMA DialFailsKeeps ==
    ASSUME WorkerAssumption, WorkerInv, DialFails
    PROVE  WorkerInv'
<1> USE DEF DialFails, Retry, offerVars, connVars, workerJobVars, serverVars, chanVars
<1>0. /\ OffersKeepJobs' /\ LaunchesAssigned'
      /\ WorkerMessages' = WorkerMessages /\ ServerMessages' = ServerMessages
  BY OffersStay
<1>1. WorkerTypeOK'
  BY <1>0 DEF WorkerInv, WorkerTypeOK, WorkerAssumption, MessagesTypeOK
<1>2. MessagesTypeOK'
  BY <1>0 DEF WorkerInv, MessagesTypeOK
<1> QED BY <1>0, <1>1, <1>2 DEF WorkerInv

\* The retries start again.
LEMMA DialedKeeps ==
    ASSUME WorkerAssumption, WorkerInv, Dialed
    PROVE  WorkerInv'
<1> USE DEF Dialed, offerVars, connVars, workerJobVars, serverVars, chanVars
<1>0. /\ OffersKeepJobs' /\ LaunchesAssigned'
      /\ WorkerMessages' = WorkerMessages /\ ServerMessages' = ServerMessages
  BY OffersStay
<1>1. WorkerTypeOK'
  BY <1>0 DEF WorkerInv, WorkerTypeOK, WorkerAssumption, MessagesTypeOK
<1>2. MessagesTypeOK'
  BY <1>0 DEF WorkerInv, MessagesTypeOK
<1> QED BY <1>0, <1>1, <1>2 DEF WorkerInv

\* The retries are counted up to the maximum.
LEMMA RegisterFailsKeeps ==
    ASSUME WorkerAssumption, WorkerInv, RegisterFails
    PROVE  WorkerInv'
<1> USE DEF RegisterFails, Retry, offerVars, connVars, workerJobVars, serverVars, chanVars
<1>0. /\ OffersKeepJobs' /\ LaunchesAssigned'
      /\ WorkerMessages' = WorkerMessages /\ ServerMessages' = ServerMessages
  BY OffersStay
<1>1. WorkerTypeOK'
  BY <1>0 DEF WorkerInv, WorkerTypeOK, WorkerAssumption, MessagesTypeOK
<1>2. MessagesTypeOK'
  BY <1>0 DEF WorkerInv, MessagesTypeOK
<1> QED BY <1>0, <1>1, <1>2 DEF WorkerInv

\* Nothing was sent yet on the new connection.
LEMMA RegisteredKeeps ==
    ASSUME WorkerAssumption, WorkerInv, Registered
    PROVE  WorkerInv'
<1> USE DEF Registered, offerVars, connVars, workerJobVars, serverVars, chanVars
<1>0. /\ OffersKeepJobs' /\ LaunchesAssigned'
      /\ WorkerMessages' = WorkerMessages /\ ServerMessages' = ServerMessages
  BY OffersStay
<1>a. <<>> \in Seq(ServerMessages)
  BY EmptySeq
<1>1. WorkerTypeOK'
  BY <1>0, <1>a DEF WorkerInv, WorkerTypeOK, WorkerAssumption, MessagesTypeOK
<1>2. MessagesTypeOK'
  BY <1>0, <1>a DEF WorkerInv, MessagesTypeOK
<1> QED BY <1>0, <1>1, <1>2 DEF WorkerInv

\* What was on the connection is lost.
LEMMA ConnectionLostKeeps ==
    ASSUME WorkerAssumption, WorkerInv, ConnectionLost
    PROVE  WorkerInv'
<1> USE DEF ConnectionLost, Retry, offerVars, connVars, workerJobVars, serverVars, chanVars
<1>0. /\ OffersKeepJobs' /\ LaunchesAssigned'
      /\ WorkerMessages' = WorkerMessages /\ ServerMessages' = ServerMessages
  BY OffersStay
<1>a. <<>> \in Seq(ServerMessages)
  BY EmptySeq
<1>b. msgChan # <<>> => /\ Tail(msgChan) \in Seq(WorkerMessages) /\ Len(Tail(msgChan)) <= ChanSize
                        /\ Head(msgChan) \in WorkerMessages
  BY HeadTailProperties, LenProperties, EmptySeq DEF WorkerInv, WorkerTypeOK, MessagesTypeOK, WorkerAssumption
<1>1. WorkerTypeOK'
  BY <1>0, <1>a, <1>b DEF WorkerInv, WorkerTypeOK, WorkerAssumption, MessagesTypeOK
<1>2. MessagesTypeOK'
  BY <1>0, <1>a, <1>b DEF WorkerInv, MessagesTypeOK
<1> QED BY <1>0, <1>1, <1>2 DEF WorkerInv

\* What was on the connection is lost.
LEMMA WorkerCloseKeeps ==
    ASSUME WorkerAssumption, WorkerInv, WorkerClose
    PROVE  WorkerInv'
<1> USE DEF WorkerClose, offerVars, connVars, workerJobVars, serverVars, chanVars
<1>0. /\ OffersKeepJobs' /\ LaunchesAssigned'
      /\ WorkerMessages' = WorkerMessages /\ ServerMessages' = ServerMessages
  BY OffersStay
<1>a. <<>> \in Seq(ServerMessages)
  BY EmptySeq
<1>1. WorkerTypeOK'
  BY <1>0, <1>a DEF WorkerInv, WorkerTypeOK, WorkerAssumption, MessagesTypeOK
<1>2. MessagesTypeOK'
  BY <1>0, <1>a DEF WorkerInv, MessagesTypeOK
<1> QED BY <1>0, <1>1, <1>2 DEF WorkerInv

\* Nothing changes but the state of aclose().
LEMMA PoolClosedKeeps ==
    ASSUME WorkerAssumption, WorkerInv, PoolClosed
    PROVE  WorkerInv'
<1> USE DEF PoolClosed, offerVars, connVars, workerJobVars, serverVars, chanVars
<1>0. /\ OffersKeepJobs' /\ LaunchesAssigned'
      /\ WorkerMessages' = WorkerMessages /\ ServerMessages' = ServerMessages
  BY OffersStay
<1>1. WorkerTypeOK'
  BY <1>0 DEF WorkerInv, WorkerTypeOK, WorkerAssumption, MessagesTypeOK
<1>2. MessagesTypeOK'
  BY <1>0 DEF WorkerInv, MessagesTypeOK
<1> QED BY <1>0, <1>1, <1>2 DEF WorkerInv

\* Nothing changes but the state of aclose().
LEMMA TasksGatheredKeeps ==
    ASSUME WorkerAssumption, WorkerInv, TasksGathered
    PROVE  WorkerInv'
<1> USE DEF TasksGathered, offerVars, connVars, workerJobVars, serverVars, chanVars
<1>0. /\ OffersKeepJobs' /\ LaunchesAssigned'
      /\ WorkerMessages' = WorkerMessages /\ ServerMessages' = ServerMessages
  BY OffersStay
<1>1. WorkerTypeOK'
  BY <1>0 DEF WorkerInv, WorkerTypeOK, WorkerAssumption, MessagesTypeOK
<1>2. MessagesTypeOK'
  BY <1>0 DEF WorkerInv, MessagesTypeOK
<1> QED BY <1>0, <1>1, <1>2 DEF WorkerInv

\* The status of the worker is queued.
LEMMA StatusTickKeeps ==
    ASSUME WorkerAssumption, WorkerInv, StatusTick
    PROVE  WorkerInv'
<1> USE DEF StatusTick, offerVars, connVars, workerJobVars, serverVars, chanVars
<1>0. /\ OffersKeepJobs' /\ LaunchesAssigned'
      /\ WorkerMessages' = WorkerMessages /\ ServerMessages' = ServerMessages
  BY OffersStay
<1>a. /\ msgChan' \in Seq(WorkerMessages) /\ Len(msgChan') <= ChanSize
      /\ blocked' \subseteq WorkerMessages
  <2>1. WorkerStatus \in WorkerMessages
    BY DEF WorkerInv, WorkerTypeOK, WorkerMessages, MessagesTypeOK, WorkerStatus
  <2> QED BY <2>1, QueueKeeps
<1>1. WorkerTypeOK'
  BY <1>0, <1>a DEF WorkerInv, WorkerTypeOK, WorkerAssumption, MessagesTypeOK
<1>2. MessagesTypeOK'
  BY <1>0, <1>a DEF WorkerInv, MessagesTypeOK
<1> QED BY <1>0, <1>1, <1>2 DEF WorkerInv

\* The status of the worker is queued.
LEMMA StartDrainKeeps ==
    ASSUME WorkerAssumption, WorkerInv, StartDrain
    PROVE  WorkerInv'
<1> USE DEF StartDrain, offerVars, connVars, workerJobVars, serverVars, chanVars
<1>0. /\ OffersKeepJobs' /\ LaunchesAssigned'
      /\ WorkerMessages' = WorkerMessages /\ ServerMessages' = ServerMessages
  BY OffersStay
<1>a. /\ msgChan' \in Seq(WorkerMessages) /\ Len(msgChan') <= ChanSize
      /\ blocked' \subseteq WorkerMessages
  <2>1. [type |-> "worker", of |-> TRUE] \in WorkerMessages
    BY DEF WorkerInv, WorkerTypeOK, WorkerMessages, MessagesTypeOK, WorkerStatus
  <2> QED BY <2>1, QueueKeeps
<1>1. WorkerTypeOK'
  BY <1>0, <1>a DEF WorkerInv, WorkerTypeOK, WorkerAssumption, MessagesTypeOK
<1>2. MessagesTypeOK'
  BY <1>0, <1>a DEF WorkerInv, MessagesTypeOK
<1> QED BY <1>0, <1>1, <1>2 DEF WorkerInv

\* The status of the job is queued.
LEMMA UpdateJobStatusKeeps ==
    ASSUME WorkerAssumption, WorkerInv, NEW j \in Jobs, UpdateJobStatus(j)
    PROVE  WorkerInv'
<1> USE DEF UpdateJobStatus, offerVars, connVars, workerJobVars, serverVars, chanVars
<1>0. /\ OffersKeepJobs' /\ LaunchesAssigned'
      /\ WorkerMessages' = WorkerMessages /\ ServerMessages' = ServerMessages
  BY OffersStay
<1>a. /\ msgChan' \in Seq(WorkerMessages) /\ Len(msgChan') <= ChanSize
      /\ blocked' \subseteq WorkerMessages
  <2>1. [type |-> "job", of |-> <<j, IF jobProc[j] = "exited" THEN "done" ELSE "running">>] \in WorkerMessages
    BY DEF WorkerInv, WorkerTypeOK, WorkerMessages, MessagesTypeOK, WorkerStatus
  <2> QED BY <2>1, QueueKeeps
<1>1. WorkerTypeOK'
  BY <1>0, <1>a DEF WorkerInv, WorkerTypeOK, WorkerAssumption, MessagesTypeOK
<1>2. MessagesTypeOK'
  BY <1>0, <1>a DEF WorkerInv, MessagesTypeOK
<1> QED BY <1>0, <1>1, <1>2 DEF WorkerInv

\* The status of the job will be queued.
LEMMA JobExitsKeeps ==
    ASSUME WorkerAssumption, WorkerInv, NEW j \in Jobs, JobExits(j)
    PROVE  WorkerInv'
<1> USE DEF JobExits, offerVars, connVars, workerJobVars, serverVars, chanVars
<1>0. /\ OffersKeepJobs' /\ LaunchesAssigned'
      /\ WorkerMessages' = WorkerMessages /\ ServerMessages' = ServerMessages
  BY OffersStay
<1>1. WorkerTypeOK'
  BY <1>0 DEF WorkerInv, WorkerTypeOK, WorkerAssumption, MessagesTypeOK
<1>2. MessagesTypeOK'
  BY <1>0 DEF WorkerInv, MessagesTypeOK
<1> QED BY <1>0, <1>1, <1>2 DEF WorkerInv

\* The server assigns a job that it offered.
LEMMA SendMessageKeeps ==
    ASSUME WorkerAssumption, WorkerInv, SendMessage
    PROVE  WorkerInv'
<1> USE DEF SendMessage, offerVars, connVars, workerJobVars, serverVars, chanVars
<1>0. /\ OffersKeepJobs' /\ LaunchesAssigned'
      /\ WorkerMessages' = WorkerMessages /\ ServerMessages' = ServerMessages
  BY OffersStay
<1>b. msgChan # <<>> => /\ Tail(msgChan) \in Seq(WorkerMessages) /\ Len(Tail(msgChan)) <= ChanSize
                        /\ Head(msgChan) \in WorkerMessages
  BY HeadTailProperties, LenProperties, EmptySeq DEF WorkerInv, WorkerTypeOK, MessagesTypeOK, WorkerAssumption
<1>c. [type |-> "assignment", of |-> offerJob[Head(msgChan).of[1]]] \in ServerMessages
           \/ Head(msgChan).type # "availability"
  BY <1>b DEF WorkerMessages, ServerMessages, KnownOffers, WorkerInv, WorkerTypeOK
<1>d. fromServer' \in Seq(ServerMessages)
  <2> DEFINE m == [type |-> "assignment", of |-> offerJob[Head(msgChan).of[1]]]
  <2>1. \/ m \in ServerMessages /\ fromServer' = Append(fromServer, m)
        \/ fromServer' = fromServer
    BY <1>c
  <2>2. fromServer \in Seq(ServerMessages)
    BY DEF WorkerInv, MessagesTypeOK
  <2> HIDE DEF m, SendMessage
  <2> QED BY <2>1, <2>2, AppendProperties
<1>e. Head(msgChan).type = "job" => Head(msgChan).of \in Jobs \X {"running", "done"}
  BY <1>b DEF WorkerMessages
<1>f. Head(msgChan).type = "worker" => Head(msgChan).of \in BOOLEAN
  BY <1>b DEF WorkerMessages
<1>1. WorkerTypeOK'
  BY <1>0, <1>b, <1>d, <1>e, <1>f DEF WorkerInv, WorkerTypeOK, WorkerAssumption, MessagesTypeOK
<1>2. MessagesTypeOK'
  BY <1>0, <1>b, <1>d, <1>e, <1>f DEF WorkerInv, MessagesTypeOK
<1> QED BY <1>0, <1>1, <1>2 DEF WorkerInv

\* The future of the offer is set.
LEMMA AssignmentComesKeeps ==
    ASSUME WorkerAssumption, WorkerInv, NEW o \in Offers, AssignmentComes(o)
    PROVE  WorkerInv'
<1> USE DEF AssignmentComes, offerVars, connVars, workerJobVars, serverVars, chanVars
<1>1. WorkerTypeOK'
  BY DEF WorkerInv, WorkerTypeOK, WorkerAssumption, MessagesTypeOK
<1>2. MessagesTypeOK'
  BY DEF WorkerInv, MessagesTypeOK, WorkerMessages, ServerMessages, KnownOffers
<1>3. OffersKeepJobs'
  BY DEF WorkerInv, WorkerTypeOK, OffersKeepJobs, KnownOffers, LaunchesAssigned, WorkerAssumption
<1>4. LaunchesAssigned'
  BY DEF WorkerInv, WorkerTypeOK, LaunchesAssigned, Assigned
<1> QED BY <1>1, <1>2, <1>3, <1>4 DEF WorkerInv

\* An offer that is over launches nothing.
LEMMA AssignmentTimesOutKeeps ==
    ASSUME WorkerAssumption, WorkerInv, NEW o \in Offers, AssignmentTimesOut(o)
    PROVE  WorkerInv'
<1> USE DEF AssignmentTimesOut, offerVars, connVars, workerJobVars, serverVars, chanVars
<1>1. WorkerTypeOK'
  BY DEF WorkerInv, WorkerTypeOK, WorkerAssumption, MessagesTypeOK
<1>2. MessagesTypeOK'
  BY DEF WorkerInv, MessagesTypeOK, WorkerMessages, ServerMessages, KnownOffers
<1>3. OffersKeepJobs'
  BY DEF WorkerInv, WorkerTypeOK, OffersKeepJobs, KnownOffers, LaunchesAssigned, WorkerAssumption
<1>4. LaunchesAssigned'
  BY DEF WorkerInv, WorkerTypeOK, LaunchesAssigned, Assigned
<1> QED BY <1>1, <1>2, <1>3, <1>4 DEF WorkerInv

\* An offer that is over launches nothing.
LEMMA LaunchRaisesKeeps ==
    ASSUME WorkerAssumption, WorkerInv, NEW o \in Offers, LaunchRaises(o)
    PROVE  WorkerInv'
<1> USE DEF LaunchRaises, offerVars, connVars, workerJobVars, serverVars, chanVars
<1>1. WorkerTypeOK'
  BY DEF WorkerInv, WorkerTypeOK, WorkerAssumption, MessagesTypeOK
<1>2. MessagesTypeOK'
  BY DEF WorkerInv, MessagesTypeOK, WorkerMessages, ServerMessages, KnownOffers
<1>3. OffersKeepJobs'
  BY DEF WorkerInv, WorkerTypeOK, OffersKeepJobs, KnownOffers, LaunchesAssigned, WorkerAssumption
<1>4. LaunchesAssigned'
  BY DEF WorkerInv, WorkerTypeOK, LaunchesAssigned, Assigned
<1> QED BY <1>1, <1>2, <1>3, <1>4 DEF WorkerInv

\* The future of the offer was set.
LEMMA JobLaunchedKeeps ==
    ASSUME WorkerAssumption, WorkerInv, NEW o \in Offers, JobLaunched(o)
    PROVE  WorkerInv'
<1> USE DEF JobLaunched, offerVars, connVars, workerJobVars, serverVars, chanVars
<1>a. offerJob[o] \in Jobs
  BY DEF WorkerInv, WorkerTypeOK, OffersKeepJobs, KnownOffers
<1>1. WorkerTypeOK'
  BY <1>a DEF WorkerInv, WorkerTypeOK, WorkerAssumption, MessagesTypeOK
<1>2. MessagesTypeOK'
  BY <1>a DEF WorkerInv, MessagesTypeOK, WorkerMessages, ServerMessages, KnownOffers
<1>3. OffersKeepJobs'
  BY <1>a DEF WorkerInv, WorkerTypeOK, OffersKeepJobs, KnownOffers, LaunchesAssigned, WorkerAssumption
<1>4. LaunchesAssigned'
  BY <1>a DEF WorkerInv, WorkerTypeOK, LaunchesAssigned, Assigned
<1> QED BY <1>1, <1>2, <1>3, <1>4 DEF WorkerInv

\* The wait for an assignment disturbs no launch.
LEMMA AwaitKeeps ==
    ASSUME WorkerAssumption, WorkerInv, NEW o \in KnownOffers, AwaitAssignment(o),
           UNCHANGED <<offerJob, assigned, assignments>>
    PROVE  /\ OffersKeepJobs' /\ LaunchesAssigned'
           /\ request' \in [Offers -> {"none", "asked", "queueing", "waiting", "launching", "launched",
                                       "over"}]
           /\ pendingAssign' \in [Jobs -> Offers \cup {0}]
<1> USE DEF AwaitAssignment, WorkerInv, WorkerTypeOK, KnownOffers
<1>1. o \in Offers /\ offerJob[o] \in Jobs
  OBVIOUS
<1>2. OffersKeepJobs'
  BY <1>1 DEF OffersKeepJobs
<1>3. LaunchesAssigned'
  BY <1>1 DEF LaunchesAssigned, Assigned
<1> QED BY <1>1, <1>2, <1>3

\* The answer is queued, and the future is made of an offer whose job is known.
LEMMA AnswerOfferKeeps ==
    ASSUME WorkerAssumption, WorkerInv, NEW o \in Offers, NEW yes \in BOOLEAN, AnswerOffer(o, yes)
    PROVE  WorkerInv'
<1>0. /\ request[o] = "asked" /\ Queue(Answer(o, yes)) /\ o \in KnownOffers
      /\ UNCHANGED <<wclosed, wdraining, connVars, fromServer, offerJob, assigned, assignments, workerJobVars,
                     serverVars, wclose>>
  BY DEF AnswerOffer, WorkerInv, OffersKeepJobs
<1>a. /\ msgChan' \in Seq(WorkerMessages) /\ Len(msgChan') <= ChanSize
      /\ blocked' \subseteq WorkerMessages
  <2>1. Answer(o, yes) \in WorkerMessages
    BY <1>0 DEF WorkerInv, WorkerTypeOK, WorkerMessages, MessagesTypeOK, OffersKeepJobs, KnownOffers, Answer
  <2> QED BY <1>0, <2>1, QueueKeeps
<1>1. \/ /\ request' = [request EXCEPT ![o] = "queueing"] /\ UNCHANGED pendingAssign
      \/ AwaitAssignment(o)
      \/ /\ request' = [request EXCEPT ![o] = "over"] /\ UNCHANGED pendingAssign
  BY DEF AnswerOffer
<1>2. /\ OffersKeepJobs' /\ LaunchesAssigned'
      /\ request' \in [Offers -> {"none", "asked", "queueing", "waiting", "launching", "launched",
                                  "over"}]
      /\ pendingAssign' \in [Jobs -> Offers \cup {0}]
  <2>1. CASE AwaitAssignment(o)
    BY <1>0, <2>1, AwaitKeeps
  <2>2. CASE ~AwaitAssignment(o)
    BY <1>0, <1>1, <2>2 DEF WorkerInv, WorkerTypeOK, OffersKeepJobs, KnownOffers, LaunchesAssigned, Assigned
  <2> QED BY <2>1, <2>2
<1>3. WorkerTypeOK' /\ MessagesTypeOK'
  BY <1>0, <1>a, <1>2 DEF WorkerInv, WorkerTypeOK, MessagesTypeOK, WorkerMessages, ServerMessages, KnownOffers,
     connVars, workerJobVars, serverVars
<1> QED BY <1>2, <1>3 DEF WorkerInv

\* The message of a waiting sender gets into the channel, and its offer waits for the assignment.
LEMMA SenderResumesKeeps ==
    ASSUME WorkerAssumption, WorkerInv, SenderResumes
    PROVE  WorkerInv'
<1> PICK m \in blocked : /\ msgChan' = Append(msgChan, m) /\ blocked' = blocked \ {m}
                         /\ IF m.type # "availability" THEN UNCHANGED <<request, pendingAssign>>
                            ELSE IF m.of[2] THEN AwaitAssignment(m.of[1])
                            ELSE /\ request' = [request EXCEPT ![m.of[1]] = "over"]
                                 /\ UNCHANGED pendingAssign
  BY DEF SenderResumes
<1>0. /\ Len(msgChan) < ChanSize /\ m \in WorkerMessages
      /\ UNCHANGED <<wclosed, wdraining, connVars, fromServer, offerJob, assigned, assignments, workerJobVars,
                     serverVars, wclose>>
  BY DEF SenderResumes, WorkerInv, MessagesTypeOK
<1>1. /\ msgChan' \in Seq(WorkerMessages) /\ Len(msgChan') <= ChanSize
  BY <1>0, AppendProperties, LenProperties DEF WorkerInv, MessagesTypeOK, WorkerAssumption
<1>2. m.type = "availability" => m.of[1] \in KnownOffers
  BY <1>0 DEF WorkerMessages
<1>3. /\ OffersKeepJobs' /\ LaunchesAssigned'
      /\ request' \in [Offers -> {"none", "asked", "queueing", "waiting", "launching", "launched",
                                  "over"}]
      /\ pendingAssign' \in [Jobs -> Offers \cup {0}]
  <2>1. CASE m.type = "availability" /\ m.of[2]
    BY <1>0, <1>2, <2>1, AwaitKeeps
  <2>2. CASE ~(m.type = "availability" /\ m.of[2])
    BY <1>0, <1>2, <2>2 DEF WorkerInv, WorkerTypeOK, OffersKeepJobs, KnownOffers, LaunchesAssigned, Assigned
  <2> QED BY <2>1, <2>2
<1>4. WorkerTypeOK' /\ MessagesTypeOK'
  BY <1>0, <1>1, <1>3 DEF WorkerInv, WorkerTypeOK, MessagesTypeOK, WorkerMessages, ServerMessages, KnownOffers,
     connVars, workerJobVars, serverVars
<1> QED BY <1>3, <1>4 DEF WorkerInv

\* A new offer has a job, which the worker hears of.
LEMMA ServerOffersKeeps ==
    ASSUME WorkerAssumption, WorkerInv, NEW o \in Offers, ServerOffers(o)
    PROVE  WorkerInv'
<1> PICK j \in Jobs : /\ offerJob' = [offerJob EXCEPT ![o] = j]
                      /\ fromServer' = Append(fromServer, [type |-> "availability", of |-> o])
  BY DEF ServerOffers
<1>0. /\ offerJob[o] = NoJob /\ j # NoJob /\ o \notin assigned
      /\ UNCHANGED <<wclosed, wdraining, connVars, chanVars, request, pendingAssign, assigned,
                     assignments, workerJobVars, serverVars, wclose>>
  BY DEF ServerOffers, WorkerAssumption, WorkerInv, OffersKeepJobs, KnownOffers
<1> USE DEF connVars, chanVars, workerJobVars, serverVars
<1>1. KnownOffers' = KnownOffers \cup {o}
  BY <1>0 DEF KnownOffers, WorkerInv, WorkerTypeOK
<1>2. /\ WorkerMessages \subseteq WorkerMessages' /\ ServerMessages \subseteq ServerMessages'
      /\ [type |-> "availability", of |-> o] \in ServerMessages'
  BY <1>1 DEF WorkerMessages, ServerMessages
<1>3. WorkerTypeOK'
  BY <1>0 DEF WorkerInv, WorkerTypeOK
<1>4. MessagesTypeOK'
  <2>1. msgChan \in Seq(WorkerMessages') /\ fromServer \in Seq(ServerMessages')
    BY <1>2, SeqMonotonic DEF WorkerInv, MessagesTypeOK
  <2>2. fromServer' \in Seq(ServerMessages')
    BY <1>2, <2>1, AppendProperties
  <2> QED BY <1>0, <1>2, <2>1, <2>2 DEF WorkerInv, MessagesTypeOK
<1>5. OffersKeepJobs'
  <2>1. ASSUME NEW i \in Jobs, pendingAssign[i] # 0
        PROVE  offerJob'[pendingAssign[i]] = i
    <3>1. pendingAssign[i] \in Offers /\ offerJob[pendingAssign[i]] = i /\ i # NoJob
      BY <2>1 DEF WorkerInv, WorkerTypeOK, OffersKeepJobs, WorkerAssumption
    <3> QED BY <1>0, <3>1 DEF WorkerInv, WorkerTypeOK
  <2> QED BY <1>0, <1>1, <2>1 DEF WorkerInv, OffersKeepJobs
<1>6. LaunchesAssigned'
  <2>1. \A i \in Jobs : Assigned(i)' = Assigned(i)
    BY <1>0 DEF Assigned, WorkerInv, WorkerTypeOK
  <2> QED BY <1>0, <2>1 DEF WorkerInv, LaunchesAssigned
<1> QED BY <1>3, <1>4, <1>5, <1>6 DEF WorkerInv

\* An assignment sets at most one future, of an offer of its job.
LEMMA ReceiveKeeps ==
    ASSUME WorkerAssumption, WorkerInv, Receive
    PROVE  WorkerInv'
<1> DEFINE m == Head(fromServer)
<1>0. /\ fromServer # <<>> /\ fromServer' = Tail(fromServer)
      /\ UNCHANGED <<wclosed, wdraining, connVars, chanVars, offerJob, workerJobVars, serverVars, wclose>>
      /\ UNCHANGED <<KnownOffers, WorkerMessages, ServerMessages>>
  BY DEF Receive, KnownOffers, WorkerMessages, ServerMessages
<1> USE DEF connVars, chanVars, workerJobVars, serverVars
<1>1. m \in ServerMessages /\ Tail(fromServer) \in Seq(ServerMessages)
  BY <1>0, HeadTailProperties DEF WorkerInv, MessagesTypeOK
<1>2. CASE m.type = "availability"
  <2>1. /\ request' = [request EXCEPT ![m.of] = "asked"] /\ m.of \in KnownOffers
        /\ UNCHANGED <<pendingAssign, assigned, assignments>>
    BY <1>1, <1>2 DEF Receive, ServerMessages
  <2> HIDE DEF m
  <2>2. WorkerTypeOK' /\ MessagesTypeOK'
    BY <1>0, <1>1, <2>1 DEF WorkerInv, WorkerTypeOK, MessagesTypeOK
  <2>3. OffersKeepJobs' /\ LaunchesAssigned'
    BY <1>0, <2>1 DEF WorkerInv, WorkerTypeOK, OffersKeepJobs, KnownOffers, LaunchesAssigned, Assigned
  <2> QED BY <2>2, <2>3 DEF WorkerInv
<1>3. CASE m.type # "availability"
  <2> DEFINE j == m.of
             o == pendingAssign[j]
  <2>1. /\ j \in Jobs /\ o \in Offers \cup {0} /\ pendingAssign' = [pendingAssign EXCEPT ![j] = 0]
        /\ assigned' = IF o # 0 /\ request[o] = "waiting" THEN assigned \cup {o} ELSE assigned
        /\ assignments' = [assignments EXCEPT ![j] = @ + 1] /\ request' = request
        /\ o # 0 => offerJob[o] = j
    BY <1>1, <1>3 DEF Receive, HandleAssignment, ServerMessages, WorkerInv, WorkerTypeOK, OffersKeepJobs
  <2>2. o # 0 => o \in KnownOffers
    BY <2>1 DEF KnownOffers, WorkerAssumption
  <2> HIDE DEF m, j, o
  <2>3. WorkerTypeOK' /\ MessagesTypeOK'
    BY <1>0, <1>1, <2>1 DEF WorkerInv, WorkerTypeOK, MessagesTypeOK
  <2>4. OffersKeepJobs'
    BY <1>0, <2>1, <2>2 DEF WorkerInv, WorkerTypeOK, OffersKeepJobs
  <2>5. ASSUME NEW i \in Jobs PROVE Cardinality(Assigned(i)') <= assignments'[i]
    <3>1. /\ IsFiniteSet(Assigned(i)) /\ Cardinality(Assigned(i)) \in Nat
          /\ Cardinality(Assigned(i)) <= assignments[i] /\ assignments[i] \in Nat
      BY FS_Subset, FS_CardinalityType
         DEF Assigned, WorkerAssumption, WorkerInv, WorkerTypeOK, MessagesTypeOK, LaunchesAssigned
    <3>2. CASE i = j
      <4>1. Assigned(i)' \subseteq Assigned(i) \cup {o}
        BY <1>0, <2>1 DEF Assigned
      <4>2. /\ IsFiniteSet(Assigned(i) \cup {o})
            /\ Cardinality(Assigned(i) \cup {o}) <= Cardinality(Assigned(i)) + 1
        BY <3>1, FS_Singleton, UnionSize
      <4>3. /\ Cardinality(Assigned(i)') <= Cardinality(Assigned(i) \cup {o})
            /\ Cardinality(Assigned(i)') \in Nat /\ Cardinality(Assigned(i) \cup {o}) \in Nat
        BY <4>1, <4>2, FS_Subset, FS_CardinalityType
      <4>4. assignments'[i] = assignments[i] + 1
        BY <2>1, <3>2 DEF WorkerInv, MessagesTypeOK
      <4> QED BY <3>1, <4>2, <4>3, <4>4
    <3>3. CASE i # j
      <4>1. Assigned(i)' = Assigned(i)
        BY <1>0, <2>1, <3>3 DEF Assigned
      <4>2. assignments'[i] = assignments[i]
        BY <2>1, <3>3 DEF WorkerInv, MessagesTypeOK
      <4> QED BY <3>1, <4>1, <4>2
    <3> QED BY <3>2, <3>3
  <2>6. LaunchesAssigned'
    <3>1. \A n \in Offers : request'[n] \in {"launching", "launched"} => n \in assigned'
      BY <2>1 DEF WorkerInv, LaunchesAssigned
    <3> QED BY <2>5, <3>1 DEF LaunchesAssigned
  <2> QED BY <2>3, <2>4, <2>6 DEF WorkerInv
<1> QED BY <1>2, <1>3

\* Every step keeps the invariant.
LEMMA WorkerNextInv == WorkerAssumption /\ WorkerInv /\ [WorkerNext]_workerVars => WorkerInv'
<1> SUFFICES ASSUME WorkerAssumption, WorkerInv, [WorkerNext]_workerVars PROVE WorkerInv' OBVIOUS
<1>1. CASE Run \/ Dial \/ DialFails \/ Dialed \/ RegisterFails \/ Registered \/ ConnectionLost
  BY <1>1, RunKeeps, DialKeeps, DialFailsKeeps, DialedKeeps, RegisterFailsKeeps, RegisteredKeeps,
     ConnectionLostKeeps
<1>2. CASE SenderResumes \/ SendMessage \/ StatusTick \/ StartDrain \/ Receive
  BY <1>2, SenderResumesKeeps, SendMessageKeeps, StatusTickKeeps, StartDrainKeeps, ReceiveKeeps
<1>3. ASSUME NEW o \in Offers,
             \/ ServerOffers(o) \/ AnswerOffer(o, TRUE) \/ AnswerOffer(o, FALSE) \/ AssignmentComes(o)
             \/ AssignmentTimesOut(o) \/ JobLaunched(o) \/ LaunchRaises(o)
      PROVE  WorkerInv'
  BY <1>3, ServerOffersKeeps, AnswerOfferKeeps, AssignmentComesKeeps, AssignmentTimesOutKeeps,
     JobLaunchedKeeps, LaunchRaisesKeeps
<1>4. ASSUME NEW j \in Jobs, JobExits(j) \/ UpdateJobStatus(j) PROVE WorkerInv'
  BY <1>4, JobExitsKeeps, UpdateJobStatusKeeps
<1>5. CASE WorkerClose \/ PoolClosed \/ TasksGathered
  BY <1>5, WorkerCloseKeeps, PoolClosedKeeps, TasksGatheredKeeps
<1>6. CASE UNCHANGED workerVars
  <2>1. UNCHANGED offerVars /\ WorkerTypeOK'
    BY <1>6 DEF workerVars, offerVars, WorkerInv, WorkerTypeOK
  <2> QED BY <1>6, <2>1, OffersStay DEF workerVars, WorkerInv, MessagesTypeOK
<1> QED BY <1>1, <1>2, <1>3, <1>4, <1>5, <1>6 DEF WorkerNext

\* The invariant bounds the launches of a job by its assignments.
LEMMA WorkerInvSafe == WorkerAssumption /\ WorkerInv => LaunchesSafe
<1> SUFFICES ASSUME WorkerAssumption, WorkerInv, NEW j \in Jobs
             PROVE  Cardinality({o \in Offers : offerJob[o] = j /\ request[o] \in {"launching", "launched"}})
                        <= assignments[j]
  BY DEF WorkerInv, LaunchesSafe, OneLaunchPerAssignment
<1> DEFINE L == {o \in Offers : offerJob[o] = j /\ request[o] \in {"launching", "launched"}}
<1>1. L \subseteq Assigned(j) /\ Cardinality(Assigned(j)) <= assignments[j] /\ assignments[j] \in Nat
  BY DEF WorkerInv, LaunchesAssigned, Assigned, MessagesTypeOK
<1>2. IsFiniteSet(Assigned(j))
  BY FS_Subset DEF Assigned, WorkerAssumption, WorkerInv, WorkerTypeOK
<1>3. /\ Cardinality(L) <= Cardinality(Assigned(j)) /\ Cardinality(L) \in Nat
      /\ Cardinality(Assigned(j)) \in Nat
  BY <1>1, <1>2, FS_Subset, FS_CardinalityType
<1> QED BY <1>1, <1>3

\* An assignment launches one job at most, however often the job is offered, answered late, answered
\* after its future timed out, or assigned again, and across lost connections (worker.py:556-720, 734-835).
THEOREM OneLaunchEach == WorkerSpec => []LaunchesSafe
<1> USE WorkerAssumption
<1>1. WorkerSpec => []WorkerInv
  BY WorkerInitInv, WorkerNextInv, PTL DEF WorkerSpec
<1> QED BY <1>1, WorkerInvSafe, PTL

----------------------------------------------------------------------------
(* Browser *)

\* An order to the process is under way once.
LEMMA AskKeeps ==
    ASSUME BrowserInv, NEW p \in Pages, NEW t \in {"create", "release", "close"}, AskBrowser(t, p),
           PageMsg(t, p) \notin ToSet(toBrowser)
    PROVE  /\ toBrowser' \in Seq(Orders) /\ IsInjective(toBrowser')
           /\ ToSet(toBrowser') \subseteq ToSet(toBrowser) \cup {PageMsg(t, p)}
<1>1. PageMsg(t, p) \in Orders
  BY DEF PageMsg, Orders
<1>2. toBrowser \in Seq(Orders) /\ IsInjective(toBrowser)
  BY DEF BrowserInv, BrowserTypeOK, MessagesOnce
<1>3. /\ Append(toBrowser, PageMsg(t, p)) \in Seq(Orders) /\ IsInjective(Append(toBrowser, PageMsg(t, p)))
      /\ ToSet(Append(toBrowser, PageMsg(t, p))) = ToSet(toBrowser) \cup {PageMsg(t, p)}
  BY <1>1, <1>2, AppendElements
<1> QED BY <1>2, <1>3 DEF AskBrowser

\* What is known of an order, and of a report, under way.
LEMMA OrderKnown ==
    ASSUME BrowserInv, NEW m \in ToSet(toBrowser)
    PROVE  m \in Orders /\ m.page \in Pages /\ OrderFits(m)
<1>1. toBrowser \in Seq(Orders) /\ OrderFits(m)
  BY DEF BrowserInv, BrowserTypeOK, MessagesOnce
<1>2. m \in Orders
  BY <1>1, ElementsType
<1> QED BY <1>1, <1>2 DEF Orders

LEMMA ReportKnown ==
    ASSUME BrowserInv, NEW m \in ToSet(toAgent)
    PROVE  m \in Reports /\ m.page \in Pages /\ ReportFits(m)
<1>1. toAgent \in Seq(Reports) /\ ReportFits(m)
  BY DEF BrowserInv, BrowserTypeOK, MessagesOnce
<1>2. m \in Reports
  BY <1>1, ElementsType
<1> QED BY <1>1, <1>2 DEF Reports

LEMMA BrowserInitInv == BrowserAssumption /\ BrowserInit => BrowserInv
<1> SUFFICES ASSUME BrowserAssumption, BrowserInit PROVE BrowserInv OBVIOUS
<1> USE DEF BrowserInit, BrowserAssumption
<1>1. <<>> \in Seq(Orders) /\ <<>> \in Seq(Reports) /\ ToSet(<<>>) = {} /\ IsInjective(<<>>)
  BY EmptySeq DEF ToSet, IsInjective
<1>2. BrowserTypeOK
  <2>1. Blank \in Pictures
    BY DEF Blank, Pictures
  <2>2. /\ frame \in [Pages -> Pictures] /\ shm \in [Pages -> Pictures] /\ content \in [Pages -> Pictures]
    BY <2>1
  <2>3. /\ hostSees \in [Pages -> BOOLEAN] /\ serverSees \in [Pages -> BOOLEAN]
        /\ closingPage \in [Pages -> BOOLEAN] /\ released \in [Pages -> BOOLEAN]
    OBVIOUS
  <2>4. /\ page \in [Pages -> {"none", "starting", "open", "closing", "closed"}]
        /\ server \in [Pages -> {"none", "asked", "shown", "gone"}]
        /\ browsers \subseteq Pages /\ manager \in {"run", "dead"} /\ ui \in Pages \cup {0}
        /\ paints \in 0 .. MaxPaints /\ alive \in BOOLEAN
    OBVIOUS
  <2>5. toBrowser \in Seq(Orders) /\ toAgent \in Seq(Reports)
    BY <1>1
  <2> HIDE DEF BrowserInit
  <2> QED BY <2>2, <2>3, <2>4, <2>5 DEF BrowserTypeOK
<1>3. StagesAgree
  BY DEF StagesAgree
<1>4. MessagesOnce /\ PaintsAgree
  BY <1>1 DEF MessagesOnce, PaintsAgree
<1> QED BY <1>2, <1>3, <1>4 DEF BrowserInv

\* The new page is created nowhere yet.
LEMMA NewPageKeeps ==
    ASSUME BrowserAssumption, BrowserInv, NEW p \in Pages, NewPage(p)
    PROVE  BrowserInv'
<1> USE DEF NewPage, hostSide, serverSide
<1>0. /\ toBrowser' \in Seq(Orders) /\ IsInjective(toBrowser')
      /\ ToSet(toBrowser') \subseteq ToSet(toBrowser) \cup {PageMsg("create", p)}
  <2>1. PageMsg("create", p) \notin ToSet(toBrowser)
    BY DEF BrowserInv, MessagesOnce, OrderFits, PageMsg
  <2> QED BY <2>1, AskKeeps
<1>1. BrowserTypeOK'
  BY <1>0 DEF BrowserInv, BrowserTypeOK, BrowserAssumption
<1>2. StagesAgree'
  BY <1>0 DEF BrowserInv, BrowserTypeOK, StagesAgree, MessagesOnce, BrowserAssumption
<1>3. ASSUME NEW m \in ToSet(toBrowser') PROVE OrderFits(m)'
  <2>1. CASE m = PageMsg("create", p)
    BY <1>0, <2>1 DEF OrderFits, PageMsg, StagesAgree, PaintsAgree, BrowserInv, BrowserTypeOK
  <2>2. CASE m \in ToSet(toBrowser)
    <3>1. m \in Orders /\ m.page \in Pages /\ OrderFits(m)
      BY <2>2, OrderKnown
    <3> QED BY <1>0, <3>1 DEF OrderFits, PageMsg, StagesAgree, PaintsAgree, BrowserInv, BrowserTypeOK
  <2> QED BY <1>0, <2>1, <2>2
<1>4. ASSUME NEW m \in ToSet(toAgent') PROVE ReportFits(m)'
  <2>1. m \in Reports /\ m.page \in Pages /\ ReportFits(m)
    BY <1>0, ReportKnown
  <2> QED BY <1>0, <2>1 DEF ReportFits, PageMsg, StagesAgree, PaintsAgree, BrowserInv, BrowserTypeOK
<1>5. MessagesOnce'
  BY <1>0, <1>3, <1>4 DEF BrowserInv, MessagesOnce
<1>6. PaintsAgree'
  BY <1>0 DEF BrowserInv, BrowserTypeOK, PaintsAgree
<1> QED BY <1>1, <1>2, <1>5, <1>6 DEF BrowserInv

\* An open page is shown, and its close is on its way.
LEMMA ClosePageKeeps ==
    ASSUME BrowserAssumption, BrowserInv, NEW p \in Pages, ClosePage(p)
    PROVE  BrowserInv'
<1> USE DEF ClosePage, hostSide, serverSide
<1>0. /\ toBrowser' \in Seq(Orders) /\ IsInjective(toBrowser')
      /\ ToSet(toBrowser') \subseteq ToSet(toBrowser) \cup {PageMsg("close", p)}
  <2>1. PageMsg("close", p) \notin ToSet(toBrowser)
    BY DEF BrowserInv, MessagesOnce, OrderFits, PageMsg
  <2> QED BY <2>1, AskKeeps
<1>1. BrowserTypeOK'
  BY <1>0 DEF BrowserInv, BrowserTypeOK, BrowserAssumption
<1>2. StagesAgree'
  BY <1>0 DEF BrowserInv, BrowserTypeOK, StagesAgree, MessagesOnce, BrowserAssumption
<1>3. ASSUME NEW m \in ToSet(toBrowser') PROVE OrderFits(m)'
  <2>1. CASE m = PageMsg("close", p)
    BY <1>0, <2>1 DEF OrderFits, PageMsg, StagesAgree, PaintsAgree, BrowserInv, BrowserTypeOK
  <2>2. CASE m \in ToSet(toBrowser)
    <3>1. m \in Orders /\ m.page \in Pages /\ OrderFits(m)
      BY <2>2, OrderKnown
    <3> QED BY <1>0, <3>1 DEF OrderFits, PageMsg, StagesAgree, PaintsAgree, BrowserInv, BrowserTypeOK
  <2> QED BY <1>0, <2>1, <2>2
<1>4. ASSUME NEW m \in ToSet(toAgent') PROVE ReportFits(m)'
  <2>1. m \in Reports /\ m.page \in Pages /\ ReportFits(m)
    BY <1>0, ReportKnown
  <2> QED BY <1>0, <2>1 DEF ReportFits, PageMsg, StagesAgree, PaintsAgree, BrowserInv, BrowserTypeOK
<1>5. MessagesOnce'
  BY <1>0, <1>3, <1>4 DEF BrowserInv, MessagesOnce
<1>6. PaintsAgree'
  BY <1>0 DEF BrowserInv, BrowserTypeOK, PaintsAgree
<1> QED BY <1>1, <1>2, <1>5, <1>6 DEF BrowserInv

\* The page is shown, and the agent is told once.
LEMMA BrowserCreatedKeeps ==
    ASSUME BrowserAssumption, BrowserInv, NEW p \in Pages, BrowserCreated(p)
    PROVE  BrowserInv'
<1> USE DEF BrowserCreated, hostSide, serverSide
<1>0. /\ toAgent' \in Seq(Reports) /\ IsInjective(toAgent')
      /\ ToSet(toAgent') = ToSet(toAgent) \cup {PageMsg("created", p)}
  <2>1. PageMsg("created", p) \in Reports
    BY DEF PageMsg, Reports
  <2>2. PageMsg("created", p) \notin ToSet(toAgent)
    BY DEF BrowserInv, MessagesOnce, StagesAgree, ReportFits, PageMsg
  <2> QED BY <2>1, <2>2, AppendElements DEF BrowserInv, BrowserTypeOK, MessagesOnce
<1>1. BrowserTypeOK'
  BY <1>0 DEF BrowserInv, BrowserTypeOK, BrowserAssumption
<1>2. StagesAgree'
  BY <1>0 DEF BrowserInv, BrowserTypeOK, StagesAgree, MessagesOnce, BrowserAssumption
<1>3. ASSUME NEW m \in ToSet(toBrowser') PROVE OrderFits(m)'
  <2>1. m \in Orders /\ m.page \in Pages /\ OrderFits(m)
    BY <1>0, OrderKnown
  <2> QED BY <1>0, <2>1 DEF OrderFits, PageMsg, StagesAgree, PaintsAgree, BrowserInv, BrowserTypeOK
<1>4. ASSUME NEW m \in ToSet(toAgent') PROVE ReportFits(m)'
  <2>1. CASE m = PageMsg("created", p)
    BY <1>0, <2>1 DEF ReportFits, PageMsg, StagesAgree, PaintsAgree, BrowserInv, BrowserTypeOK
  <2>2. CASE m \in ToSet(toAgent)
    <3>1. m \in Reports /\ m.page \in Pages /\ ReportFits(m)
      BY <2>2, ReportKnown
    <3> QED BY <1>0, <3>1 DEF ReportFits, PageMsg, StagesAgree, PaintsAgree, BrowserInv, BrowserTypeOK
  <2> QED BY <1>0, <2>1, <2>2
<1>5. MessagesOnce'
  <2>0. PageMsg("created", p).type # "acquire"
    BY DEF PageMsg
  <2>1. ASSUME NEW m \in ToSet(toAgent'), m.type = "acquire" PROVE m \in ToSet(toAgent)
    <3> HIDE DEF BrowserCreated
    <3> QED BY <1>0, <2>0, <2>1
  <2> QED BY <1>0, <1>3, <1>4, <2>1 DEF BrowserInv, MessagesOnce
<1>6. PaintsAgree'
  BY <1>0 DEF BrowserInv, BrowserTypeOK, PaintsAgree
<1> QED BY <1>1, <1>2, <1>5, <1>6 DEF BrowserInv

\* No paint is on its way when the page is gone.
LEMMA BrowserClosedKeeps ==
    ASSUME BrowserAssumption, BrowserInv, NEW p \in Pages, BrowserClosed(p)
    PROVE  BrowserInv'
<1> USE DEF BrowserClosed, hostSide, serverSide
<1>0. /\ toAgent' \in Seq(Reports) /\ IsInjective(toAgent')
      /\ ToSet(toAgent') = ToSet(toAgent) \cup {PageMsg("closed", p)}
  <2>1. PageMsg("closed", p) \in Reports
    BY DEF PageMsg, Reports
  <2>2. PageMsg("closed", p) \notin ToSet(toAgent)
    BY DEF BrowserInv, MessagesOnce, StagesAgree, ReportFits, PageMsg
  <2> QED BY <2>1, <2>2, AppendElements DEF BrowserInv, BrowserTypeOK, MessagesOnce
<1>1. BrowserTypeOK'
  BY <1>0 DEF BrowserInv, BrowserTypeOK, BrowserAssumption
<1>2. StagesAgree'
  BY <1>0 DEF BrowserInv, BrowserTypeOK, StagesAgree, MessagesOnce, BrowserAssumption
<1>3. ASSUME NEW m \in ToSet(toBrowser') PROVE OrderFits(m)'
  <2>1. m \in Orders /\ m.page \in Pages /\ OrderFits(m)
    BY <1>0, OrderKnown
  <2> QED BY <1>0, <2>1 DEF OrderFits, PageMsg, StagesAgree, PaintsAgree, BrowserInv, BrowserTypeOK
<1>4. ASSUME NEW m \in ToSet(toAgent') PROVE ReportFits(m)'
  <2>1. CASE m = PageMsg("closed", p)
    BY <1>0, <2>1 DEF ReportFits, PageMsg, StagesAgree, PaintsAgree, BrowserInv, BrowserTypeOK
  <2>2. CASE m \in ToSet(toAgent)
    <3>1. m \in Reports /\ m.page \in Pages /\ ReportFits(m)
      BY <2>2, ReportKnown
    <3> QED BY <1>0, <3>1 DEF ReportFits, PageMsg, StagesAgree, PaintsAgree, BrowserInv, BrowserTypeOK
  <2> QED BY <1>0, <2>1, <2>2
<1>5. MessagesOnce'
  <2>0. PageMsg("closed", p).type # "acquire"
    BY DEF PageMsg
  <2>1. ASSUME NEW m \in ToSet(toAgent'), m.type = "acquire" PROVE m \in ToSet(toAgent)
    <3> HIDE DEF BrowserClosed
    <3> QED BY <1>0, <2>0, <2>1
  <2> QED BY <1>0, <1>3, <1>4, <2>1 DEF BrowserInv, MessagesOnce
<1>6. PaintsAgree'
  BY <1>0 DEF BrowserInv, BrowserTypeOK, PaintsAgree
<1> QED BY <1>1, <1>2, <1>5, <1>6 DEF BrowserInv

\* The orders are lost.
LEMMA BrowserCrashesKeeps ==
    ASSUME BrowserAssumption, BrowserInv, BrowserCrashes
    PROVE  BrowserInv'
<1> USE DEF BrowserCrashes, hostSide, serverSide
<1>0. <<>> \in Seq(Orders) /\ IsInjective(<<>>) /\ ToSet(<<>>) = {}
  BY EmptySeq DEF IsInjective, ToSet
<1>1. BrowserTypeOK'
  BY <1>0 DEF BrowserInv, BrowserTypeOK, BrowserAssumption
<1>2. StagesAgree'
  BY <1>0 DEF BrowserInv, BrowserTypeOK, StagesAgree, MessagesOnce, BrowserAssumption
<1>3. ASSUME NEW m \in ToSet(toBrowser') PROVE OrderFits(m)'
  BY <1>0
<1>4. ASSUME NEW m \in ToSet(toAgent') PROVE ReportFits(m)'
  <2>1. m \in Reports /\ m.page \in Pages /\ ReportFits(m)
    BY <1>0, ReportKnown
  <2> QED BY <1>0, <2>1 DEF ReportFits, PageMsg, StagesAgree, PaintsAgree, BrowserInv, BrowserTypeOK
<1>5. MessagesOnce'
  BY <1>0, <1>3, <1>4 DEF BrowserInv, MessagesOnce
<1>6. PaintsAgree'
  BY <1>0 DEF BrowserInv, BrowserTypeOK, PaintsAgree
<1> QED BY <1>1, <1>2, <1>5, <1>6 DEF BrowserInv

\* The paint is over: the framebuffer holds the page.
LEMMA PaintReleasedKeeps ==
    ASSUME BrowserAssumption, BrowserInv, PaintReleased
    PROVE  BrowserInv'
<1> USE DEF PaintReleased, hostSide, serverSide
<1>1. BrowserTypeOK'
  BY DEF BrowserInv, BrowserTypeOK, BrowserAssumption
<1>2. StagesAgree'
  BY DEF BrowserInv, BrowserTypeOK, StagesAgree, MessagesOnce, BrowserAssumption
<1>3. ASSUME NEW m \in ToSet(toBrowser') PROVE OrderFits(m)'
  <2>1. m \in Orders /\ m.page \in Pages /\ OrderFits(m)
    BY OrderKnown
  <2> QED BY <2>1 DEF OrderFits, PageMsg, StagesAgree, PaintsAgree, BrowserInv, BrowserTypeOK
<1>4. ASSUME NEW m \in ToSet(toAgent') PROVE ReportFits(m)'
  <2>1. m \in Reports /\ m.page \in Pages /\ ReportFits(m)
    BY ReportKnown
  <2> QED BY <2>1 DEF ReportFits, PageMsg, StagesAgree, PaintsAgree, BrowserInv, BrowserTypeOK
<1>5. MessagesOnce'
  BY <1>3, <1>4 DEF BrowserInv, MessagesOnce
<1>6. PaintsAgree'
  BY DEF BrowserInv, BrowserTypeOK, PaintsAgree
<1> QED BY <1>1, <1>2, <1>5, <1>6 DEF BrowserInv

\* A copy of what is dirty makes the copy whole when the rest of it is the same.
LEMMA CopyIsWhole ==
    ASSUME NEW dirty \in SUBSET Rects, NEW sees, NEW source \in Pictures, NEW dest \in Pictures,
           \A r \in Rects \ dirty : dest[r] = source[r]
    PROVE  CopyPaintData(dirty, sees, source, dest) = source
<1>1. CASE ~sees \/ dirty = Rects
  BY <1>1 DEF CopyPaintData
<1>2. CASE sees /\ dirty # Rects
  <2>1. [r \in Rects |-> IF r \in dirty THEN source[r] ELSE dest[r]] = [r \in Rects |-> source[r]]
    OBVIOUS
  <2> QED BY <1>2, <2>1 DEF CopyPaintData, Pictures
<1> QED BY <1>1, <1>2

\* The paint is the only one on its way; the framebuffer lacks what is dirty.
LEMMA PaintKeeps ==
    ASSUME BrowserAssumption, BrowserInv, NEW p \in Pages, NEW dirty \in SUBSET Rects, Paint(p, dirty)
    PROVE  BrowserInv'
<1> DEFINE msg == [PageMsg("acquire", p) EXCEPT !.dirty = dirty]
<1>m. msg \in Reports /\ msg.type = "acquire" /\ msg.page = p /\ msg.dirty = dirty
  BY DEF PageMsg, Reports
<1>u. /\ server[p] = "shown" /\ ~closingPage[p] /\ ui = 0 /\ ui' = p /\ toAgent' = Append(toAgent, msg)
      /\ UNCHANGED <<hostSide, server, closingPage, released, browsers, manager, toBrowser, alive>>
      /\ serverSees' = [serverSees EXCEPT ![p] = TRUE]
      /\ 0 \notin Pages
  BY DEF Paint, BrowserAssumption
<1>n. \A m \in ToSet(toAgent) : m.type # "acquire"
  BY <1>u, ReportKnown DEF ReportFits
<1>0. /\ toAgent' \in Seq(Reports) /\ IsInjective(toAgent')
      /\ ToSet(toAgent') = ToSet(toAgent) \cup {msg}
  <2>1. toAgent \in Seq(Reports) /\ IsInjective(toAgent) /\ msg \notin ToSet(toAgent)
    BY <1>m, <1>n DEF BrowserInv, BrowserTypeOK, MessagesOnce
  <2> HIDE DEF msg
  <2> QED BY <1>m, <1>u, <2>1, AppendElements
<1> HIDE DEF msg
<1>a. /\ content' \in [Pages -> Pictures]
      /\ \A q \in Pages : q # p => content'[q] = content[q]
      /\ \A r \in Rects \ dirty : content'[p][r] = content[p][r]
      /\ paints' \in 0 .. MaxPaints
  <2>1. paints' \in 0 .. MaxPaints /\ content \in [Pages -> Pictures]
    BY DEF Paint, BrowserInv, BrowserTypeOK, BrowserAssumption
  <2> DEFINE c == [r \in Rects |-> IF r \in dirty THEN paints' ELSE content[p][r]]
  <2>2. c \in Pictures /\ \A r \in Rects \ dirty : c[r] = content[p][r]
    BY <2>1 DEF Pictures
  <2>3. content' = [content EXCEPT ![p] = c]
    BY DEF Paint
  <2> HIDE DEF c
  <2> QED BY <2>1, <2>2, <2>3
<1>b. shm' = content'
  <2>1. shm = content /\ shm \in [Pages -> Pictures] /\ content \in [Pages -> Pictures]
    BY DEF BrowserInv, PaintsAgree, BrowserTypeOK
  <2>2. CopyPaintData(dirty, serverSees[p], content'[p], shm[p]) = content'[p]
    BY <1>a, <2>1, CopyIsWhole
  <2>3. shm' = [shm EXCEPT ![p] = content'[p]]
    BY <2>2 DEF Paint
  <2> QED BY <1>a, <2>1, <2>3
<1>1. BrowserTypeOK'
  <2>1. shm' \in [Pages -> Pictures] /\ serverSees' \in [Pages -> BOOLEAN]
    BY <1>a, <1>b, <1>u DEF BrowserInv, BrowserTypeOK
  <2> QED BY <1>0, <1>a, <1>u, <2>1 DEF BrowserInv, BrowserTypeOK, hostSide
<1>2. StagesAgree'
  BY <1>u DEF BrowserInv, StagesAgree, hostSide
<1>3. ASSUME NEW m \in ToSet(toBrowser') PROVE OrderFits(m)'
  <2>1. m \in Orders /\ m.page \in Pages /\ OrderFits(m)
    BY <1>u, OrderKnown
  <2>2. m.type # "release"
    BY <1>u, <2>1 DEF OrderFits
  <2> QED BY <1>u, <2>1, <2>2 DEF OrderFits, hostSide
<1>4. ASSUME NEW m \in ToSet(toAgent') PROVE ReportFits(m)'
  <2>1. CASE m = msg
    <3>1. ~released[p] /\ frame[p] = content[p]
      BY <1>u DEF BrowserInv, PaintsAgree
    <3>2. PageMsg("release", p) \notin ToSet(toBrowser)
      BY <1>u, OrderKnown DEF OrderFits, PageMsg
    <3> QED BY <1>u, <1>m, <1>a, <2>1, <3>1, <3>2 DEF ReportFits, hostSide
  <2>2. CASE m \in ToSet(toAgent)
    BY <1>u, <1>n, <2>2, ReportKnown DEF ReportFits, hostSide
  <2> QED BY <1>0, <2>1, <2>2
<1>5. MessagesOnce'
  BY <1>0, <1>n, <1>u, <1>3, <1>4 DEF BrowserInv, MessagesOnce
<1>6. PaintsAgree'
  BY <1>a, <1>b, <1>u DEF BrowserInv, PaintsAgree, hostSide
<1> QED BY <1>1, <1>2, <1>5, <1>6 DEF BrowserInv

\* The agent reads a report: of a page created, of a paint it copies and answers, of a page closed.
LEMMA HostReadsKeeps ==
    ASSUME BrowserAssumption, BrowserInv, HostReads
    PROVE  BrowserInv'
<1> DEFINE msg == Head(toAgent)
           p == msg.page
<1>0. /\ msg \in ToSet(toAgent) /\ toAgent' \in Seq(Reports) /\ IsInjective(toAgent')
      /\ ToSet(toAgent) = ToSet(toAgent') \cup {msg} /\ msg \notin ToSet(toAgent')
  BY TailElements DEF HostReads, BrowserInv, BrowserTypeOK, MessagesOnce
<1>u. UNCHANGED <<serverSide, released, browsers, manager, ui, alive>>
  BY DEF HostReads
<1>k. msg \in Reports /\ p \in Pages /\ ReportFits(msg)
  BY <1>0, ReportKnown
<1>c. \/ msg.type = "created" /\ HandleCreated(p)
      \/ msg.type = "acquire" /\ HandlePaint(p, msg.dirty)
      \/ msg.type = "closed" /\ HandleClosed(p)
  BY <1>k DEF HostReads, Reports
<1>o. \A m, n \in ToSet(toAgent') : m.type = "acquire" /\ n.type = "acquire" => m = n
  BY <1>0 DEF BrowserInv, MessagesOnce
<1> HIDE DEF msg, p
<1>7. CASE msg.type = "created" /\ HandleCreated(p)
  <2> USE DEF HandleCreated, serverSide
  <2>0. page[p] = "starting" /\ server[p] = "shown"
    BY <1>k, <1>7 DEF ReportFits, p
  <2>1. BrowserTypeOK'
    BY <1>0, <1>u, <1>k, <1>7 DEF BrowserInv, BrowserTypeOK
  <2>2. StagesAgree'
    BY <1>u, <1>k, <1>7, <2>0 DEF BrowserInv, BrowserTypeOK, StagesAgree
  <2>3. ASSUME NEW m \in ToSet(toBrowser') PROVE OrderFits(m)'
    <3>1. m \in Orders /\ m.page \in Pages /\ OrderFits(m)
      BY <1>7, OrderKnown
    <3> QED BY <1>u, <1>7, <2>0, <3>1 DEF OrderFits, BrowserInv, BrowserTypeOK
  <2>4. ASSUME NEW m \in ToSet(toAgent') PROVE ReportFits(m)'
    <3>1. m \in Reports /\ m.page \in Pages /\ ReportFits(m) /\ m # msg
      BY <1>0, ReportKnown
    <3>2. msg = PageMsg("created", p)
      BY <1>k, <1>7 DEF ReportFits, p
    <3> QED BY <1>u, <1>7, <2>0, <3>1, <3>2 DEF ReportFits, BrowserInv, BrowserTypeOK
  <2>5. MessagesOnce'
    BY <1>0, <1>o, <1>7, <2>3, <2>4 DEF BrowserInv, MessagesOnce
  <2>6. PaintsAgree'
    BY <1>u, <1>7 DEF BrowserInv, PaintsAgree
  <2> QED BY <2>1, <2>2, <2>5, <2>6 DEF BrowserInv
<1>8. CASE msg.type = "closed" /\ HandleClosed(p)
  <2> USE DEF HandleClosed, serverSide
  <2>0. page[p] = "closing" /\ server[p] = "gone"
    BY <1>k, <1>8 DEF ReportFits, p
  <2>1. BrowserTypeOK'
    BY <1>0, <1>u, <1>k, <1>8 DEF BrowserInv, BrowserTypeOK
  <2>2. StagesAgree'
    BY <1>u, <1>k, <1>8, <2>0 DEF BrowserInv, BrowserTypeOK, StagesAgree
  <2>3. ASSUME NEW m \in ToSet(toBrowser') PROVE OrderFits(m)'
    <3>1. m \in Orders /\ m.page \in Pages /\ OrderFits(m)
      BY <1>8, OrderKnown
    <3> QED BY <1>u, <1>8, <2>0, <3>1 DEF OrderFits, BrowserInv, BrowserTypeOK
  <2>4. ASSUME NEW m \in ToSet(toAgent') PROVE ReportFits(m)'
    <3>1. m \in Reports /\ m.page \in Pages /\ ReportFits(m) /\ m # msg
      BY <1>0, ReportKnown
    <3>2. msg = PageMsg("closed", p)
      BY <1>k, <1>8 DEF ReportFits, p
    <3> QED BY <1>u, <1>8, <2>0, <3>1, <3>2 DEF ReportFits, BrowserInv, BrowserTypeOK
  <2>5. MessagesOnce'
    BY <1>0, <1>o, <1>8, <2>3, <2>4 DEF BrowserInv, MessagesOnce
  <2>6. PaintsAgree'
    BY <1>u, <1>8 DEF BrowserInv, PaintsAgree
  <2> QED BY <2>1, <2>2, <2>5, <2>6 DEF BrowserInv
<1>9. CASE msg.type = "acquire" /\ HandlePaint(p, msg.dirty)
  <2> USE DEF HandlePaint, serverSide
  <2>0. /\ ui = p /\ ~released[p] /\ PageMsg("release", p) \notin ToSet(toBrowser)
        /\ \A r \in Rects \ msg.dirty : frame[p][r] = content[p][r]
    BY <1>k, <1>9 DEF ReportFits, p
  <2>a. /\ toBrowser' \in Seq(Orders) /\ IsInjective(toBrowser')
        /\ ToSet(toBrowser') \subseteq ToSet(toBrowser) \cup {PageMsg("release", p)}
    BY <1>k, <1>9, <2>0, AskKeeps
  <2>f. frame' = [frame EXCEPT ![p] = content[p]] /\ frame \in [Pages -> Pictures]
        /\ content[p] \in Pictures
    <3>1. /\ shm = content /\ frame \in [Pages -> Pictures] /\ content \in [Pages -> Pictures]
          /\ msg.dirty \in SUBSET Rects
      BY <1>k DEF BrowserInv, PaintsAgree, BrowserTypeOK, Reports
    <3>2. CopyPaintData(msg.dirty, hostSees[p], shm[p], frame[p]) = shm[p]
      <4>1. /\ shm[p] \in Pictures /\ frame[p] \in Pictures
            /\ \A r \in Rects \ msg.dirty : frame[p][r] = shm[p][r]
        BY <1>k, <2>0, <3>1
      <4> HIDE DEF p
      <4> QED BY <3>1, <4>1, CopyIsWhole
    <3> QED BY <1>k, <1>9, <3>1, <3>2
  <2>s. page' = page /\ hostSees' = [hostSees EXCEPT ![p] = TRUE]
    BY <1>9
  <2> HIDE DEF HandlePaint
  <2>1. BrowserTypeOK'
    BY <1>0, <1>u, <1>k, <2>a, <2>f, <2>s DEF BrowserInv, BrowserTypeOK
  <2>2. StagesAgree'
    BY <1>u, <2>s DEF BrowserInv, StagesAgree
  <2>3. ASSUME NEW m \in ToSet(toBrowser') PROVE OrderFits(m)'
    <3>1. CASE m = PageMsg("release", p)
      BY <1>u, <1>k, <2>0, <2>f, <3>1 DEF OrderFits, PageMsg
    <3>2. CASE m \in ToSet(toBrowser)
      <4>1. m \in Orders /\ m.page \in Pages /\ OrderFits(m)
        BY <3>2, OrderKnown
      <4> QED BY <1>u, <2>s, <2>f, <4>1 DEF OrderFits
    <3> QED BY <2>a, <3>1, <3>2
  <2>4. ASSUME NEW m \in ToSet(toAgent') PROVE ReportFits(m)'
    <3>1. m \in Reports /\ m.page \in Pages /\ ReportFits(m) /\ m # msg /\ m.type # "acquire"
      BY <1>0, <1>9, ReportKnown DEF BrowserInv, MessagesOnce
    <3> QED BY <1>u, <2>s, <3>1 DEF ReportFits
  <2>5. MessagesOnce'
    BY <1>0, <1>o, <2>a, <2>3, <2>4 DEF MessagesOnce
  <2>6. PaintsAgree'
    BY <1>u, <1>k, <2>0, <2>f DEF BrowserInv, PaintsAgree
  <2> QED BY <2>1, <2>2, <2>5, <2>6 DEF BrowserInv
<1> QED BY <1>c, <1>7, <1>8, <1>9

\* The manager reads an order: to create a page, to go on after a paint, to close a page.
LEMMA ManagerReadsKeeps ==
    ASSUME BrowserAssumption, BrowserInv, ManagerReads
    PROVE  BrowserInv'
<1> DEFINE msg == Head(toBrowser)
           p == msg.page
<1>0. /\ msg \in ToSet(toBrowser) /\ toBrowser' \in Seq(Orders) /\ IsInjective(toBrowser')
      /\ ToSet(toBrowser) = ToSet(toBrowser') \cup {msg} /\ msg \notin ToSet(toBrowser')
  BY TailElements DEF ManagerReads, BrowserInv, BrowserTypeOK, MessagesOnce
<1>u. UNCHANGED <<hostSide, shm, serverSees, content, paints, ui, toAgent, alive>>
  BY DEF ManagerReads
<1>k. msg \in Orders /\ p \in Pages /\ OrderFits(msg) /\ msg = PageMsg(msg.type, p)
  BY <1>0, OrderKnown DEF OrderFits
<1>c. \/ msg.type = "create" /\ ManagerCreates(p)
      \/ msg.type = "release" /\ ManagerReleases(p)
      \/ msg.type = "close" /\ ManagerCloses(p)
  BY <1>k DEF ManagerReads, Orders
<1> HIDE DEF msg, p
<1>7. CASE msg.type = "create" /\ ManagerCreates(p)
  <2> USE DEF ManagerCreates, hostSide
  <2>0. page[p] = "starting" /\ server[p] = "none"
    BY <1>0, <1>k, <1>7 DEF OrderFits, p
  <2>1. BrowserTypeOK'
    BY <1>0, <1>u, <1>k, <1>7 DEF BrowserInv, BrowserTypeOK
  <2>2. StagesAgree'
    BY <1>u, <1>k, <1>7, <2>0 DEF BrowserInv, BrowserTypeOK, StagesAgree
  <2>3. ASSUME NEW m \in ToSet(toBrowser') PROVE OrderFits(m)'
    <3>1. m \in Orders /\ m.page \in Pages /\ OrderFits(m) /\ m # msg
      BY <1>0, OrderKnown
    <3>2. msg = PageMsg("create", p) /\ (m.page = p => m.type # "create")
      BY <1>k, <1>7, <3>1 DEF OrderFits, p
    <3> QED BY <1>u, <1>k, <1>7, <2>0, <3>1, <3>2 DEF OrderFits, BrowserInv, BrowserTypeOK
  <2>4. ASSUME NEW m \in ToSet(toAgent') PROVE ReportFits(m)'
    <3>1. m \in Reports /\ m.page \in Pages /\ ReportFits(m)
      BY <1>u, ReportKnown
    <3> QED BY <1>0, <1>u, <1>k, <1>7, <2>0, <3>1 DEF ReportFits, BrowserInv, BrowserTypeOK
  <2>5. MessagesOnce'
    BY <1>0, <1>u, <2>3, <2>4 DEF BrowserInv, MessagesOnce
  <2>6. PaintsAgree'
    BY <1>u, <1>k, <1>7, <2>0 DEF BrowserInv, BrowserTypeOK, PaintsAgree
  <2> QED BY <2>1, <2>2, <2>5, <2>6 DEF BrowserInv
<1>8. CASE msg.type = "release" /\ ManagerReleases(p)
  <2> USE DEF ManagerReleases, hostSide
  <2>0. /\ ui = p /\ ~released[p] /\ frame[p] = content[p]
        /\ PageMsg("release", p) \notin ToSet(toBrowser')
        /\ PageMsg("release", p) \in ToSet(toBrowser)
    BY <1>0, <1>k, <1>8 DEF OrderFits, p
  <2>1. BrowserTypeOK'
    <3>1. released' \in [Pages -> BOOLEAN] /\ manager' \in {"run", "dead"}
          /\ UNCHANGED <<server, closingPage, browsers>>
      BY <1>k, <1>8 DEF BrowserInv, BrowserTypeOK
    <3> HIDE DEF ManagerReleases
    <3> QED BY <1>0, <1>u, <3>1 DEF BrowserInv, BrowserTypeOK
  <2>2. StagesAgree'
    BY <1>u, <1>k, <1>8, <2>0 DEF BrowserInv, BrowserTypeOK, StagesAgree
  <2>3. ASSUME NEW m \in ToSet(toBrowser') PROVE OrderFits(m)'
    <3>1. m \in Orders /\ m.page \in Pages /\ OrderFits(m) /\ m # msg
      BY <1>0, OrderKnown
    <3>2. msg = PageMsg("release", p) /\ (m.page = p => m.type # "release")
      BY <1>k, <1>8, <3>1 DEF OrderFits, p
    <3> QED BY <1>u, <1>k, <1>8, <2>0, <3>1, <3>2 DEF OrderFits, BrowserInv, BrowserTypeOK
  <2>4. ASSUME NEW m \in ToSet(toAgent') PROVE ReportFits(m)'
    <3>1. m \in Reports /\ m.page \in Pages /\ ReportFits(m)
      BY <1>u, ReportKnown
    <3> QED BY <1>0, <1>u, <1>k, <1>8, <2>0, <3>1 DEF ReportFits, BrowserInv, BrowserTypeOK
  <2>5. MessagesOnce'
    BY <1>0, <1>u, <2>3, <2>4 DEF BrowserInv, MessagesOnce
  <2>6. PaintsAgree'
    BY <1>u, <1>k, <1>8, <2>0 DEF BrowserInv, BrowserTypeOK, PaintsAgree
  <2> QED BY <2>1, <2>2, <2>5, <2>6 DEF BrowserInv
<1>9. CASE msg.type = "close" /\ ManagerCloses(p)
  <2> USE DEF ManagerCloses, hostSide
  <2>0. page[p] = "closing" /\ server[p] = "shown" /\ ~closingPage[p]
    BY <1>0, <1>k, <1>9 DEF OrderFits, p
  <2>1. BrowserTypeOK'
    BY <1>0, <1>u, <1>k, <1>9 DEF BrowserInv, BrowserTypeOK
  <2>2. StagesAgree'
    BY <1>u, <1>k, <1>9, <2>0 DEF BrowserInv, BrowserTypeOK, StagesAgree
  <2>3. ASSUME NEW m \in ToSet(toBrowser') PROVE OrderFits(m)'
    <3>1. m \in Orders /\ m.page \in Pages /\ OrderFits(m) /\ m # msg
      BY <1>0, OrderKnown
    <3>2. msg = PageMsg("close", p) /\ (m.page = p => m.type # "close")
      BY <1>k, <1>9, <3>1 DEF OrderFits, p
    <3> QED BY <1>u, <1>k, <1>9, <2>0, <3>1, <3>2 DEF OrderFits, BrowserInv, BrowserTypeOK
  <2>4. ASSUME NEW m \in ToSet(toAgent') PROVE ReportFits(m)'
    <3>1. m \in Reports /\ m.page \in Pages /\ ReportFits(m)
      BY <1>u, ReportKnown
    <3> QED BY <1>0, <1>u, <1>k, <1>9, <2>0, <3>1 DEF ReportFits, BrowserInv, BrowserTypeOK
  <2>5. MessagesOnce'
    BY <1>0, <1>u, <2>3, <2>4 DEF BrowserInv, MessagesOnce
  <2>6. PaintsAgree'
    BY <1>u, <1>k, <1>9, <2>0 DEF BrowserInv, BrowserTypeOK, PaintsAgree
  <2> QED BY <2>1, <2>2, <2>5, <2>6 DEF BrowserInv
<1> QED BY <1>c, <1>7, <1>8, <1>9

\* Every step keeps the invariant.
LEMMA BrowserNextInv == BrowserAssumption /\ BrowserInv /\ [BrowserNext]_browserVars => BrowserInv'
<1> SUFFICES ASSUME BrowserAssumption, BrowserInv, [BrowserNext]_browserVars PROVE BrowserInv' OBVIOUS
<1>1. CASE HostReads \/ ManagerReads \/ PaintReleased \/ BrowserCrashes
  BY <1>1, HostReadsKeeps, ManagerReadsKeeps, PaintReleasedKeeps, BrowserCrashesKeeps
<1>2. ASSUME NEW p \in Pages, BrowserCreated(p) \/ BrowserClosed(p) \/ NewPage(p) \/ ClosePage(p)
      PROVE  BrowserInv'
  BY <1>2, BrowserCreatedKeeps, BrowserClosedKeeps, NewPageKeeps, ClosePageKeeps
<1>3. ASSUME NEW p \in Pages, NEW dirty \in SUBSET Rects, Paint(p, dirty) PROVE BrowserInv'
  BY <1>3, PaintKeeps
<1>4. CASE UNCHANGED browserVars
  <2> USE <1>4 DEF browserVars
  <2>1. BrowserTypeOK'
    BY DEF BrowserInv, BrowserTypeOK
  <2>2. StagesAgree' /\ PaintsAgree'
    BY DEF BrowserInv, StagesAgree, PaintsAgree
  <2>3. MessagesOnce'
    BY DEF BrowserInv, MessagesOnce, OrderFits, ReportFits
  <2> QED BY <2>1, <2>2, <2>3 DEF BrowserInv
<1> QED BY <1>1, <1>2, <1>3, <1>4 DEF BrowserNext, BrowserSteps

\* A page that is closed is gone from the process, and no report of it is on its way.
LEMMA BrowserInvSafe == BrowserInv => PagesSafe
<1> SUFFICES ASSUME BrowserInv PROVE PagesSafe OBVIOUS
<1>1. BrowserTypeOK /\ FramesAreWhole
  BY DEF BrowserInv, PaintsAgree, FramesAreWhole
<1>2. ASSUME NEW p \in Pages, page[p] = "closed" PROVE ui # p
  BY <1>2 DEF BrowserInv, StagesAgree
<1>3. ASSUME NEW p \in Pages, page[p] = "closed", NEW i \in DOMAIN toAgent PROVE toAgent[i].page # p
  <2>1. toAgent[i] \in ToSet(toAgent)
    BY DEF ToSet
  <2>2. toAgent[i] \in Reports /\ ReportFits(toAgent[i])
    BY <2>1, ReportKnown
  <2> QED BY <1>2, <1>3, <2>2 DEF ReportFits, Reports
<1> QED BY <1>1, <1>2, <1>3 DEF PagesSafe, NoUseAfterUnmap

\* Whatever the order of paints, closes and a crash of the process, the listeners of a page are shown
\* the page as it was last painted, and neither process uses shared memory that was unmapped
\* (proc_main.py, proc.py and proto.py of livekit-plugins-browser).
THEOREM FramesReachTheirPage == BrowserSpec => []PagesSafe
<1> USE BrowserAssumption
<1>1. BrowserSpec => []BrowserInv
  BY BrowserInitInv, BrowserNextInv, PTL DEF BrowserSpec
<1> QED BY <1>1, BrowserInvSafe, PTL

----------------------------------------------------------------------------
(* The socket pair *)

\* What the worker sends arrives, or is lost with the process.
LEMMA SendToProcEffect ==
    ASSUME DuplexTypeOK, NEW m \in ToProcMessages, SendToProc(m)
    PROVE  /\ toProc' \in Seq(ToProcMessages) /\ ToSet(toProc') \subseteq ToSet(toProc) \cup {m}
           /\ UNCHANGED <<proc, exitcode, toWorker, workerOpen>>
<1>1. /\ Append(toProc, m) \in Seq(ToProcMessages) /\ ToSet(Append(toProc, m)) = ToSet(toProc) \cup {m}
      /\ toProc \in Seq(ToProcMessages)
  BY AppendElements DEF DuplexTypeOK
<1>2. (toProc' = Append(toProc, m) \/ toProc' = toProc) /\ UNCHANGED <<proc, exitcode, toWorker, workerOpen>>
  BY DEF SendToProc
<1> QED BY <1>1, <1>2

LEMMA SendToWorkerEffect ==
    ASSUME DuplexTypeOK, NEW m \in ToWorkerMessages, SendToWorker(m)
    PROVE  toWorker' \in Seq(ToWorkerMessages) /\ ToSet(toWorker') \subseteq ToSet(toWorker) \cup {m}
<1>1. /\ Append(toWorker, m) \in Seq(ToWorkerMessages)
      /\ ToSet(Append(toWorker, m)) = ToSet(toWorker) \cup {m}
      /\ toWorker \in Seq(ToWorkerMessages)
  BY AppendElements DEF DuplexTypeOK
<1>2. toWorker' = Append(toWorker, m) \/ toWorker' = toWorker
  BY DEF SendToWorker
<1> QED BY <1>1, <1>2

LEMMA WorkerReadsEffect ==
    ASSUME DuplexTypeOK, NEW m, WorkerReads(m)
    PROVE  /\ m \in ToWorkerMessages /\ m \in ToSet(toWorker)
           /\ toWorker' \in Seq(ToWorkerMessages) /\ ToSet(toWorker') \subseteq ToSet(toWorker)
           /\ UNCHANGED <<proc, exitcode, toProc, workerOpen>>
BY TailElements DEF WorkerReads, DuplexTypeOK

LEMMA EmptyElements == ToSet(<<>>) = {} /\ \A S : <<>> \in Seq(S)
BY EmptySeq DEF ToSet

\* The process is gone.
LEMMA ExitEffect ==
    ASSUME DuplexTypeOK, NEW code \in {"zero", "nonzero"}, Exit(code)
    PROVE  /\ DuplexTypeOK' /\ proc' = "exited" /\ exitcode' = code /\ UNCHANGED workerOpen
           /\ ToSet(toProc') = {} /\ ToSet(toWorker') \subseteq ToSet(toWorker)
<1>1. /\ proc' = "exited" /\ exitcode' = code /\ UNCHANGED workerOpen
      /\ toProc' = <<>> /\ (toWorker' = toWorker \/ toWorker' = <<>>)
  BY DEF Exit
<1> QED BY <1>1, EmptyElements DEF DuplexTypeOK

LEMMA KillEffect ==
    ASSUME DuplexTypeOK, Kill
    PROVE  \/ DuplexTypeOK' /\ proc # "exited" /\ proc' = "exited" /\ exitcode' = "nonzero" /\ UNCHANGED workerOpen
              /\ ToSet(toProc') = {} /\ ToSet(toWorker') \subseteq ToSet(toWorker) /\ killSent' = TRUE
           \/ UNCHANGED <<duplexVars, killSent>>
<1>1. CASE proc # "exited" /\ sup # "ended"
  <2>1. Exit("nonzero") /\ killSent' = TRUE
    BY <1>1 DEF Kill
  <2> QED BY <1>1, <2>1, ExitEffect
<1>2. CASE ~(proc # "exited" /\ sup # "ended")
  BY <1>2 DEF Kill
<1> QED BY <1>1, <1>2

\* proc_main returns before the process ran: it exits, or stays.
LEMMA GivesUpEffect ==
    ASSUME DuplexTypeOK, NEW rest \in Seq(ToProcMessages), NEW sent \in Seq(ToWorkerMessages),
           ToSet(rest) \subseteq ToSet(toProc), GivesUp(rest, sent)
    PROVE  /\ DuplexTypeOK' /\ proc' \in {"exited", "stuck"} /\ UNCHANGED workerOpen
           /\ ToSet(toProc') \subseteq ToSet(toProc) /\ ToSet(toWorker') \subseteq ToSet(sent)
<1>1. /\ proc' \in {"exited", "stuck"} /\ (exitcode' = "zero" \/ exitcode' = exitcode) /\ UNCHANGED workerOpen
      /\ toProc' = <<>> \/ toProc' = rest
      /\ toWorker' = <<>> \/ toWorker' = sent
  BY DEF GivesUp
<1>2. DuplexTypeOK'
  BY <1>1, EmptyElements DEF DuplexTypeOK
<1> QED BY <1>1, <1>2, EmptyElements

----------------------------------------------------------------------------
(* The executor *)

LEMMA JobLinkInitInv == JobLinkInit => JobLinkInv
<1> SUFFICES ASSUME JobLinkInit PROVE JobLinkInv OBVIOUS
<1> USE DEF JobLinkInit, DuplexInit, SuperInit, JobInit
<1>1. toProc = <<>> /\ toWorker = <<>> /\ inbox = <<>>
  OBVIOUS
<1>2. DuplexTypeOK
  <2>1. workerOpen \in BOOLEAN /\ proc = "none" /\ exitcode = "none"
    OBVIOUS
  <2> HIDE DEF JobLinkInit
  <2> QED BY <1>1, <2>1, EmptyElements DEF DuplexTypeOK
<1>3. SuperTypeOK
  <2>1. closing = FALSE /\ killSent = FALSE
    OBVIOUS
  <2>2. closing \in BOOLEAN /\ killSent \in BOOLEAN
    BY <2>1, Zenon
  <2>3. infTask \in [Requests -> {"none", "run", "ended"}]
    OBVIOUS
  <2> QED BY <2>2, <2>3 DEF SuperTypeOK
<1>4. JobTypeOK
  <2>1. clientExit = FALSE /\ exitFlag = FALSE
    OBVIOUS
  <2>2. clientExit \in BOOLEAN /\ exitFlag \in BOOLEAN
    BY <2>1, Zenon
  <2>3. inference \in [Requests -> {"none", "sent", "answered", "failed"}] /\ inbox \in Seq(ToProcMessages)
    BY <1>1, EmptyElements
  <2> QED BY <2>2, <2>3 DEF JobTypeOK
<1>5. NothingBeforeRun /\ ExecutorInOrder /\ StatusTells
  BY <1>1, EmptyElements DEF NothingBeforeRun, ExecutorInOrder, StatusTells
<1>6. ExitHasReason
  BY <1>1, EmptyElements DEF ExitHasReason
<1> QED BY <1>2, <1>3, <1>4, <1>5, <1>6 DEF JobLinkInv, JobLinkTypeOK

\* Steps of the worker that send and read nothing.
LEMMA WorkerQuietKeeps ==
    ASSUME JobLinkInv, UNCHANGED jobVars,
           Start \/ InitializeLost \/ SuperviseBegins \/ ReadEnds \/ SuperviseEnds \/ CloseReturns
    PROVE  JobLinkInv'
<1> USE DEF Start, InitializeLost, SuperviseBegins, ReadEnds, SuperviseEnds, CloseReturns, jobVars, duplexVars
<1>0. UNCHANGED <<toProc, toWorker, inbox, kind>>
  OBVIOUS
<1>1. DuplexTypeOK'
  BY DEF JobLinkInv, JobLinkTypeOK, DuplexTypeOK
<1>2. SuperTypeOK'
  BY DEF JobLinkInv, JobLinkTypeOK, SuperTypeOK
<1>3. JobTypeOK'
  BY DEF JobLinkInv, JobLinkTypeOK, JobTypeOK
<1>4. NothingBeforeRun'
  BY <1>0 DEF JobLinkInv, NothingBeforeRun, ExecutorInOrder, Process
<1>5. ExecutorInOrder'
  BY <1>0 DEF JobLinkInv, ExecutorInOrder, NothingBeforeRun
<1>6. ExitHasReason'
  BY <1>0 DEF JobLinkInv, ExitHasReason
<1>7. StatusTells'
  BY <1>0 DEF JobLinkInv, StatusTells, ExecutorInOrder, NothingBeforeRun, Process
<1> QED BY <1>1, <1>2, <1>3, <1>4, <1>5, <1>6, <1>7 DEF JobLinkInv, JobLinkTypeOK
\* Steps of the worker that send a message: only aclose() asks for the shutdown.
LEMMA WorkerSendsKeeps ==
    ASSUME JobLinkInv, UNCHANGED jobVars, NEW m \in ToProcMessages, SendToProc(m),
           m.type = "ShutdownRequest" => closing', closing => closing', closing' \in BOOLEAN,
           UNCHANGED <<kind, sup, killSent, reader>>,
           status' = status \/ (status' = "running" /\ launch' # "no"), launch' \in {"no", "sent", "raised"},
           initCall' = initCall \/ (initCall' \in {"waiting", "over"} /\ initCall = "no" /\ sup = "init"),
           UNCHANGED init, launch' # launch => init = "ok",
           closeCall' = closeCall \/ (closeCall' = "waiting" /\ sup # "none"),
           infTask' \in [Requests -> {"none", "run", "ended"}],
           trace' \in {"no", "waiting", "answered", "raised"}
    PROVE  JobLinkInv'
<1>0. /\ toProc' \in Seq(ToProcMessages) /\ ToSet(toProc') \subseteq ToSet(toProc) \cup {m}
      /\ UNCHANGED <<proc, exitcode, toWorker, workerOpen>>
  BY SendToProcEffect DEF JobLinkInv, JobLinkTypeOK
<1>1. DuplexTypeOK'
  BY <1>0 DEF JobLinkInv, JobLinkTypeOK, DuplexTypeOK
<1>2. SuperTypeOK'
  BY DEF JobLinkInv, JobLinkTypeOK, SuperTypeOK
<1>3. JobTypeOK'
  BY DEF JobLinkInv, JobLinkTypeOK, JobTypeOK, jobVars
<1>4. NothingBeforeRun'
  BY <1>0 DEF JobLinkInv, NothingBeforeRun, Process, jobVars
<1>5. ExecutorInOrder'
  BY <1>0 DEF JobLinkInv, JobLinkTypeOK, SuperTypeOK, ExecutorInOrder
<1>6. ExitHasReason'
  BY <1>0 DEF JobLinkInv, ExitHasReason, jobVars
<1>7. StatusTells'
  BY <1>0 DEF JobLinkInv, StatusTells, Process, jobVars
<1> QED BY <1>1, <1>2, <1>3, <1>4, <1>5, <1>6, <1>7 DEF JobLinkInv, JobLinkTypeOK

LEMMA WorkerRequestsKeep ==
    ASSUME JobLinkInv, UNCHANGED jobVars,
           Initialize \/ LaunchJob \/ TracingInfo \/ Close \/ \E r \in Requests : InferenceEnds(r)
    PROVE  JobLinkInv'
<1>0. \A t \in {"InitializeRequest", "StartJobRequest", "TracingRequest", "ShutdownRequest"} :
          Msg(t) \in ToProcMessages /\ Msg(t).type = t
  BY DEF Msg, ToProcMessages
<1>t. SuperTypeOK /\ ExecutorInOrder
  BY DEF JobLinkInv, JobLinkTypeOK
<1>1. CASE Initialize
  <2> DEFINE m == Msg("InitializeRequest")
  <2>1. m \in ToProcMessages /\ m.type # "ShutdownRequest"
    BY <1>0
  <2>2. SendToProc(m)
    BY <1>1 DEF Initialize
  <2> HIDE DEF m
  <2> QED BY <1>t, <1>1, <2>1, <2>2, WorkerSendsKeeps DEF Initialize, SuperTypeOK
<1>2. CASE LaunchJob
  <2> DEFINE m == Msg("StartJobRequest")
  <2>1. m \in ToProcMessages /\ m.type # "ShutdownRequest"
    BY <1>0
  <2>2. SendToProc(m)
    BY <1>2 DEF LaunchJob
  <2> HIDE DEF m
  <2> QED BY <1>t, <1>2, <2>1, <2>2, WorkerSendsKeeps DEF LaunchJob, SuperTypeOK
<1>3. CASE TracingInfo
  <2> DEFINE m == Msg("TracingRequest")
  <2>1. m \in ToProcMessages /\ m.type # "ShutdownRequest"
    BY <1>0
  <2>2. SendToProc(m)
    BY <1>3 DEF TracingInfo
  <2> HIDE DEF m
  <2> QED BY <1>t, <1>3, <2>1, <2>2, WorkerSendsKeeps DEF TracingInfo, SuperTypeOK
<1>4. CASE Close
  <2> DEFINE m == Msg("ShutdownRequest")
  <2>1. m \in ToProcMessages
    BY <1>0
  <2>2. SendToProc(m) /\ closing' = TRUE
    BY <1>4 DEF Close
  <2> HIDE DEF m
  <2> QED BY <1>t, <1>4, <2>1, <2>2, WorkerSendsKeeps DEF Close, SuperTypeOK
<1>5. ASSUME NEW r \in Requests, InferenceEnds(r) PROVE JobLinkInv'
  <2> DEFINE m == [type |-> "InferenceResponse", id |-> r]
  <2>1. m \in ToProcMessages /\ m.type # "ShutdownRequest"
    BY DEF ToProcMessages
  <2>2. SendToProc(m) /\ infTask' \in [Requests -> {"none", "run", "ended"}]
    BY <1>t, <1>5 DEF InferenceEnds, SuperTypeOK
  <2> HIDE DEF m
  <2> QED BY <1>t, <1>5, <2>1, <2>2, WorkerSendsKeeps DEF InferenceEnds, SuperTypeOK
<1> QED BY <1>1, <1>2, <1>3, <1>4, <1>5

\* A message of the process is read; the answer to initialize() tells whether it ran.
LEMMA WorkerReadingKeeps ==
    ASSUME JobLinkInv, UNCHANGED jobVars, InitializeAnswered \/ ReadMessage
    PROVE  JobLinkInv'
<1>0. PICK m \in ToSet(toWorker) :
        /\ WorkerReads(m)
        /\ \/ /\ initCall = "waiting" /\ initCall' = "over"
              /\ init' = IF Process /\ m.type = "InitializeError" THEN "failed" ELSE "ok"
              /\ UNCHANGED <<infTask, trace, reader>>
           \/ /\ infTask' = IF m.type = "InferenceRequest"
                            THEN [infTask EXCEPT ![m.id] = "run"] ELSE infTask
              /\ trace' \in {trace, "answered"}
              /\ UNCHANGED <<init, initCall, reader>>
  BY DEF InitializeAnswered, ReadMessage
<1>1. UNCHANGED <<kind, sup, closing, killSent, launch, status, closeCall>>
  BY DEF InitializeAnswered, ReadMessage
<1>2. /\ toWorker' \in Seq(ToWorkerMessages) /\ ToSet(toWorker') \subseteq ToSet(toWorker)
      /\ UNCHANGED <<proc, exitcode, toProc, workerOpen>> /\ m \in ToWorkerMessages
  BY <1>0, WorkerReadsEffect DEF JobLinkInv, JobLinkTypeOK
<1>3. DuplexTypeOK'
  BY <1>2 DEF JobLinkInv, JobLinkTypeOK, DuplexTypeOK
<1>4. SuperTypeOK'
  <2>1. infTask' \in [Requests -> {"none", "run", "ended"}]
    BY <1>0 DEF JobLinkInv, JobLinkTypeOK, SuperTypeOK
  <2>2. init' \in {"pending", "ok", "failed"} /\ initCall' \in {"no", "waiting", "over"} /\ reader' = reader
        /\ trace' \in {"no", "waiting", "answered", "raised"}
    BY <1>0 DEF JobLinkInv, JobLinkTypeOK, SuperTypeOK
  <2> QED BY <1>1, <2>1, <2>2 DEF JobLinkInv, JobLinkTypeOK, SuperTypeOK
<1>5. JobTypeOK'
  BY DEF JobLinkInv, JobLinkTypeOK, JobTypeOK, jobVars
<1>6. NothingBeforeRun'
  BY <1>0, <1>1, <1>2 DEF JobLinkInv, NothingBeforeRun, Process, jobVars
<1>7. ExecutorInOrder'
  <2>1. launch # "no" => initCall = "over"
    BY DEF JobLinkInv, JobLinkTypeOK, SuperTypeOK, ExecutorInOrder
  <2> QED BY <1>0, <1>1, <1>2, <2>1 DEF JobLinkInv, ExecutorInOrder
<1>8. ExitHasReason'
  BY <1>1, <1>2 DEF JobLinkInv, ExitHasReason, jobVars
<1>9. StatusTells'
  BY <1>1, <1>2 DEF JobLinkInv, StatusTells, Process, jobVars
<1> QED BY <1>3, <1>4, <1>5, <1>6, <1>7, <1>8, <1>9 DEF JobLinkInv, JobLinkTypeOK

\* A process is killed: what it did not read, and what nobody read of it, may be lost.
LEMMA KillKeeps ==
    ASSUME JobLinkInv, UNCHANGED jobVars, Kill \/ UNCHANGED <<duplexVars, killSent>>,
           UNCHANGED <<kind, sup, launch, status, reader, infTask, trace>>,
           sup # "none", closing => closing', closing' \in BOOLEAN,
           (UNCHANGED <<init, initCall>>) \/ (initCall = "waiting" /\ initCall' = "over" /\ init' = "failed"),
           closeCall' \in {closeCall, "killed"}
    PROVE  JobLinkInv'
<1>0. \/ /\ DuplexTypeOK' /\ proc # "exited" /\ proc' = "exited" /\ exitcode' = "nonzero"
         /\ UNCHANGED workerOpen
         /\ ToSet(toProc') = {} /\ ToSet(toWorker') \subseteq ToSet(toWorker) /\ killSent' = TRUE
      \/ UNCHANGED <<duplexVars, killSent>>
  BY KillEffect DEF JobLinkInv, JobLinkTypeOK
<1>1. DuplexTypeOK'
  BY <1>0 DEF JobLinkInv, JobLinkTypeOK, DuplexTypeOK, duplexVars
<1>2. SuperTypeOK'
  <2>1. killSent' \in BOOLEAN
    <3>1. CASE UNCHANGED killSent
      BY <3>1 DEF JobLinkInv, JobLinkTypeOK, SuperTypeOK
    <3>2. CASE killSent' = TRUE
      BY <3>2, Zenon
    <3> QED BY <1>0, <3>1, <3>2
  <2> QED BY <2>1 DEF JobLinkInv, JobLinkTypeOK, SuperTypeOK
<1>3. JobTypeOK'
  BY DEF JobLinkInv, JobLinkTypeOK, JobTypeOK, jobVars
<1>4. NothingBeforeRun'
  BY <1>0 DEF JobLinkInv, NothingBeforeRun, Process, jobVars, duplexVars
<1>5. ExecutorInOrder'
  <2>1. launch # "no" => initCall = "over"
    BY DEF JobLinkInv, JobLinkTypeOK, SuperTypeOK, ExecutorInOrder
  <2> QED BY <1>0, <2>1 DEF JobLinkInv, ExecutorInOrder, duplexVars
<1>6. ExitHasReason'
  BY <1>0 DEF JobLinkInv, ExitHasReason, jobVars, duplexVars
<1>7. StatusTells'
  BY <1>0 DEF JobLinkInv, StatusTells, ExecutorInOrder, Process, jobVars, duplexVars
<1> QED BY <1>1, <1>2, <1>3, <1>4, <1>5, <1>6, <1>7 DEF JobLinkInv, JobLinkTypeOK

LEMMA WorkerKillsKeep ==
    ASSUME JobLinkInv, UNCHANGED jobVars,
           InitializeTimesOut \/ KilledByWorker \/ PongTimesOut \/ CloseTimesOut \/ KillCall
    PROVE  JobLinkInv'
<1>t. closing \in BOOLEAN /\ (initCall = "waiting" => sup # "none") /\ (closeCall = "waiting" => sup # "none")
  BY DEF JobLinkInv, JobLinkTypeOK, SuperTypeOK, ExecutorInOrder
<1>1. CASE InitializeTimesOut
  BY <1>t, <1>1, KillKeeps DEF InitializeTimesOut
<1>2. CASE KilledByWorker
  BY <1>t, <1>2, KillKeeps DEF KilledByWorker
<1>3. CASE PongTimesOut
  BY <1>t, <1>3, KillKeeps DEF PongTimesOut
<1>4. CASE CloseTimesOut
  BY <1>t, <1>4, KillKeeps DEF CloseTimesOut
<1>5. CASE KillCall
  <2>1. closing' = TRUE /\ sup # "none"
    BY <1>5 DEF KillCall
  <2> QED BY <1>5, <2>1, KillKeeps DEF KillCall
<1> QED BY <1>1, <1>2, <1>3, <1>4, <1>5

----------------------------------------------------------------------------
(* The process *)

\* It begins, or gives up before it ran.
LEMMA ClientStartsKeep ==
    ASSUME JobLinkInv, ClientBegins \/ ClientFails
    PROVE  JobLinkInv'
<1> USE DEF JobLinkInv, JobLinkTypeOK
<1>0. /\ proc \in {"boot", "user"} /\ UNCHANGED <<superVars, jobVars>>
      /\ reading = "none" /\ sup # "none" /\ sup # "ended"
  BY DEF ClientBegins, ClientFails, NothingBeforeRun, ExecutorInOrder
<1>1. /\ DuplexTypeOK' /\ proc' \in {"user", "exited", "stuck"} /\ UNCHANGED workerOpen
      /\ ToSet(toProc') \subseteq ToSet(toProc)
      /\ \A m \in ToSet(toWorker') : m \in ToSet(toWorker) \/ m.type = "InitializeError"
  <2>t. toProc \in Seq(ToProcMessages) /\ toWorker \in Seq(ToWorkerMessages)
    BY DEF DuplexTypeOK
  <2>u. toProc # <<>> => Tail(toProc) \in Seq(ToProcMessages) /\ ToSet(Tail(toProc)) \subseteq ToSet(toProc)
    BY <2>t, TailElements
  <2>1. CASE proc' = "user" /\ toProc # <<>> /\ toProc' = Tail(toProc)
             /\ UNCHANGED <<exitcode, toWorker, workerOpen>>
    BY <2>1, <2>u DEF DuplexTypeOK
  <2>2. CASE GivesUp(IF toProc = <<>> THEN toProc ELSE Tail(toProc), toWorker)
    <3> DEFINE rest == IF toProc = <<>> THEN toProc ELSE Tail(toProc)
    <3>1. rest \in Seq(ToProcMessages) /\ ToSet(rest) \subseteq ToSet(toProc)
      BY <2>t, <2>u
    <3>2. GivesUp(rest, toWorker)
      BY <2>2
    <3> HIDE DEF rest
    <3> QED BY <2>t, <3>1, <3>2, GivesUpEffect
  <2>3. CASE ClientFails
    <3> DEFINE m == Msg("InitializeError")
               sent == IF Connected THEN Append(toWorker, m) ELSE toWorker
    <3>1. m \in ToWorkerMessages /\ m.type = "InitializeError"
      BY DEF Msg, ToWorkerMessages
    <3>2. GivesUp(toProc, sent)
      BY <2>3 DEF ClientFails
    <3> HIDE DEF m
    <3>3. sent \in Seq(ToWorkerMessages) /\ ToSet(sent) \subseteq ToSet(toWorker) \cup {m}
      BY <2>t, <3>1, AppendElements
    <3> HIDE DEF sent
    <3> QED BY <2>t, <3>1, <3>2, <3>3, GivesUpEffect
  <2> QED BY <2>1, <2>2, <2>3 DEF ClientBegins
<1>2. SuperTypeOK'
  BY <1>0 DEF SuperTypeOK, superVars
<1>3. JobTypeOK'
  BY <1>0 DEF JobTypeOK, jobVars
<1>4. NothingBeforeRun'
  BY <1>0, <1>1 DEF NothingBeforeRun, Process, superVars, jobVars
<1>5. ExecutorInOrder'
  BY <1>0, <1>1 DEF ExecutorInOrder, superVars
<1>6. ExitHasReason'
  BY <1>0, <1>1 DEF ExitHasReason, superVars, jobVars
<1>7. StatusTells'
  BY <1>0, <1>1 DEF StatusTells, ExecutorInOrder, Process, superVars, jobVars
<1> QED BY <1>1, <1>2, <1>3, <1>4, <1>5, <1>6, <1>7

\* It runs.
LEMMA ClientRunsKeeps ==
    ASSUME JobLinkInv, ClientRuns
    PROVE  JobLinkInv'
<1> USE DEF JobLinkInv, JobLinkTypeOK
<1>0. /\ proc = "user" /\ proc' = "run" /\ reading' = "run" /\ listener' = "run" /\ reading = "none"
      /\ UNCHANGED <<exitcode, toProc, workerOpen, superVars, clientExit, inbox, exitFlag, job, shutdown,
                     inference>>
  BY DEF ClientRuns, NothingBeforeRun
<1>1. toWorker' \in Seq(ToWorkerMessages)
  <2>1. Msg("InitializeResponse") \in ToWorkerMessages
    BY DEF Msg, ToWorkerMessages
  <2> QED BY <2>1, SendToWorkerEffect DEF ClientRuns
<1>2. DuplexTypeOK' /\ SuperTypeOK' /\ JobTypeOK'
  BY <1>0, <1>1 DEF DuplexTypeOK, SuperTypeOK, JobTypeOK, superVars
<1>3. NothingBeforeRun' /\ ExecutorInOrder'
  BY <1>0 DEF NothingBeforeRun, ExecutorInOrder, superVars
<1>4. ExitHasReason' /\ StatusTells'
  BY <1>0 DEF ExitHasReason, StatusTells, NothingBeforeRun, ExecutorInOrder, Process, superVars
<1> QED BY <1>2, <1>3, <1>4

\* Its client reads, or gives the worker up.
LEMMA ClientReadingKeeps ==
    ASSUME JobLinkInv, ClientReads \/ ClientLosesWorker
    PROVE  JobLinkInv'
<1> USE DEF JobLinkInv, JobLinkTypeOK
<1>0. /\ proc = "run" /\ reading = "run" /\ reading' # "none"
      /\ UNCHANGED <<proc, exitcode, toWorker, workerOpen, superVars, listener, exitFlag, job, shutdown, inference>>
      /\ UNCHANGED <<reading, clientExit>> \/ (reading' = "ended" /\ clientExit' = TRUE)
      /\ reading' \in {"run", "ended"}
  BY DEF ClientReads, ClientLosesWorker, duplexVars
<1>1. /\ toProc' \in Seq(ToProcMessages) /\ inbox' \in Seq(ToProcMessages)
      /\ ToSet(toProc') \cup ToSet(inbox') \subseteq ToSet(toProc) \cup ToSet(inbox)
  <2>t. toProc \in Seq(ToProcMessages) /\ inbox \in Seq(ToProcMessages)
    BY DEF DuplexTypeOK, JobTypeOK
  <2>1. CASE ClientReads
    <3> DEFINE m == Head(toProc)
    <3>1. /\ m \in ToProcMessages /\ m \in ToSet(toProc)
          /\ Tail(toProc) \in Seq(ToProcMessages) /\ ToSet(Tail(toProc)) \subseteq ToSet(toProc)
      BY <2>t, <2>1, TailElements DEF ClientReads
    <3>2. toProc' = Tail(toProc) /\ (inbox' = inbox \/ inbox' = Append(inbox, m))
      BY <2>1 DEF ClientReads
    <3> HIDE DEF m
    <3>3. Append(inbox, m) \in Seq(ToProcMessages) /\ ToSet(Append(inbox, m)) = ToSet(inbox) \cup {m}
      BY <2>t, <3>1, AppendElements
    <3> QED BY <2>t, <3>1, <3>2, <3>3
  <2>2. CASE ClientLosesWorker
    BY <2>t, <2>2 DEF ClientLosesWorker, duplexVars
  <2> QED BY <2>1, <2>2
<1>2. DuplexTypeOK' /\ SuperTypeOK'
  BY <1>0, <1>1 DEF DuplexTypeOK, SuperTypeOK, superVars
<1>3. JobTypeOK'
  <2>1. clientExit' \in BOOLEAN
    <3>1. CASE UNCHANGED clientExit
      BY <3>1 DEF JobTypeOK
    <3>2. CASE clientExit' = TRUE
      BY <3>2, Zenon
    <3> QED BY <1>0, <3>1, <3>2
  <2> QED BY <1>0, <1>1, <2>1 DEF JobTypeOK
<1>4. NothingBeforeRun' /\ ExecutorInOrder'
  BY <1>0 DEF NothingBeforeRun, ExecutorInOrder, superVars
<1>5. ExitHasReason'
  <2>1. closing' = closing /\ sup' = sup
    BY <1>0 DEF superVars
  <2> QED BY <1>0, <1>1, <2>1 DEF ExitHasReason
<1>6. StatusTells'
  BY <1>0 DEF StatusTells, ExecutorInOrder, Process, superVars
<1> QED BY <1>2, <1>3, <1>4, <1>5, <1>6

\* The client is over and its process ends, or crashes at any time.
LEMMA ProcExitsKeeps ==
    ASSUME JobLinkInv, ClientEnds \/ ProcCrashes
    PROVE  JobLinkInv'
<1> USE DEF JobLinkInv, JobLinkTypeOK
<1>0. /\ proc \in {"boot", "user", "run"} /\ UNCHANGED <<superVars, jobVars>>
      /\ Exit("nonzero") \/ (clientExit /\ Exit("zero"))
  BY DEF ClientEnds, ProcCrashes
<1>1. /\ DuplexTypeOK' /\ proc' = "exited" /\ UNCHANGED workerOpen
      /\ exitcode' = "nonzero" \/ (clientExit /\ exitcode' = "zero")
      /\ ToSet(toProc') = {} /\ ToSet(toWorker') \subseteq ToSet(toWorker)
  BY <1>0, ExitEffect
<1>2. SuperTypeOK' /\ JobTypeOK'
  BY <1>0 DEF SuperTypeOK, superVars, JobTypeOK, jobVars
<1>3. NothingBeforeRun'
  BY <1>0, <1>1 DEF NothingBeforeRun, Process, superVars, jobVars
<1>4. ExecutorInOrder'
  BY <1>0, <1>1 DEF ExecutorInOrder, superVars
<1>5. ExitHasReason'
  BY <1>0, <1>1 DEF ExitHasReason, superVars, jobVars
<1>6. StatusTells'
  BY <1>0, <1>1 DEF StatusTells, ExecutorInOrder, Process, superVars, jobVars
<1> QED BY <1>1, <1>2, <1>3, <1>4, <1>5, <1>6

\* A message is taken by the entrypoint: a shutdown ends the process only without a job.
LEMMA ListenKeeps ==
    ASSUME JobLinkInv, Listen
    PROVE  JobLinkInv'
<1> USE DEF JobLinkInv, JobLinkTypeOK
<1>0. PICK m \in ToSet(inbox) :
        /\ Take(m)
        /\ OnStartJob(m) \/ OnShutdown(m) \/ OnInferenceResponse(m) \/ OnTracingRequest(m)
        /\ UNCHANGED <<duplexVars, superVars, reading, clientExit>>
  BY DEF Listen
<1>1. /\ proc = "run" /\ listener = "run" /\ m \in ToProcMessages
      /\ inbox' \in Seq(ToProcMessages) /\ ToSet(inbox') \subseteq ToSet(inbox)
      /\ m.type = "ShutdownRequest" => closing
  <2>1. inbox \in Seq(ToProcMessages) /\ inbox # <<>> /\ m = Head(inbox) /\ inbox' = Tail(inbox)
    BY <1>0 DEF Take, JobTypeOK
  <2> QED BY <1>0, <2>1, TailElements DEF Take, ExitHasReason
<1>2. /\ job' = job \/ (job = "none" /\ job' = "run")
      /\ listener' \in {"run", "ended", "tracing"}
      /\ exitFlag' = exitFlag \/ (exitFlag' = TRUE /\ job' = "none" /\ listener' = "ended" /\ closing)
      /\ shutdown' \in {shutdown, "request"}
      /\ inference' \in [Requests -> {"none", "sent", "answered", "failed"}]
  <2>1. CASE OnStartJob(m)
    BY <1>1, <2>1 DEF OnStartJob, JobTypeOK
  <2>2. CASE OnShutdown(m)
    BY <1>1, <2>2 DEF OnShutdown, JobTypeOK
  <2>3. CASE OnInferenceResponse(m)
    <3>1. inference' \in [Requests -> {"none", "sent", "answered", "failed"}]
      BY <2>3 DEF OnInferenceResponse, JobTypeOK
    <3> QED BY <1>1, <2>3, <3>1 DEF OnInferenceResponse
  <2>4. CASE OnTracingRequest(m)
    BY <1>1, <2>4 DEF OnTracingRequest, JobTypeOK
  <2> QED BY <1>0, <2>1, <2>2, <2>3, <2>4
<1>3. UNCHANGED <<proc, exitcode, toProc, toWorker, workerOpen, kind, sup, init, initCall, closing, launch,
                  status, closeCall, reading, clientExit>>
  BY <1>0 DEF duplexVars, superVars
<1>4. DuplexTypeOK' /\ SuperTypeOK'
  BY <1>0 DEF DuplexTypeOK, SuperTypeOK, duplexVars, superVars
<1>5. JobTypeOK'
  <2>1. exitFlag' \in BOOLEAN
    <3>1. CASE exitFlag' = exitFlag
      BY <3>1 DEF JobTypeOK
    <3>2. CASE exitFlag' = TRUE
      BY <3>2, Zenon
    <3> QED BY <1>2, <3>1, <3>2
  <2> QED BY <1>1, <1>2, <1>3, <2>1 DEF JobTypeOK
<1>6. NothingBeforeRun' /\ ExecutorInOrder'
  BY <1>1, <1>3 DEF NothingBeforeRun, ExecutorInOrder, Process
<1>7. ExitHasReason'
  BY <1>1, <1>2, <1>3 DEF ExitHasReason
<1>8. StatusTells'
  BY <1>3 DEF StatusTells, Process
<1> QED BY <1>4, <1>5, <1>6, <1>7, <1>8

\* The entrypoint answers a tracing request, or returns.
LEMMA EntrypointKeeps ==
    ASSUME JobLinkInv, TracingAnswered \/ EntrypointEnds
    PROVE  JobLinkInv'
<1> USE DEF JobLinkInv, JobLinkTypeOK
<1>0. /\ proc = "run" /\ UNCHANGED <<proc, exitcode, toProc, workerOpen, superVars, reading, inbox, exitFlag, job,
                                     shutdown, inference>>
      /\ \/ listener = "tracing" /\ listener' \in {"run", "ended"} /\ UNCHANGED clientExit
         \/ exitFlag /\ listener' = "ended" /\ clientExit' = TRUE
  BY DEF TracingAnswered, EntrypointEnds, duplexVars
<1>1. toWorker' \in Seq(ToWorkerMessages)
  <2>1. Msg("TracingResponse") \in ToWorkerMessages
    BY DEF Msg, ToWorkerMessages
  <2>2. CASE TracingAnswered
    BY <2>1, <2>2, SendToWorkerEffect DEF TracingAnswered
  <2>3. CASE EntrypointEnds
    BY <2>3 DEF EntrypointEnds, duplexVars, DuplexTypeOK
  <2> QED BY <2>2, <2>3
<1>2. DuplexTypeOK' /\ SuperTypeOK'
  BY <1>0, <1>1 DEF DuplexTypeOK, SuperTypeOK, superVars
<1>3. JobTypeOK'
  <2>1. clientExit' \in BOOLEAN
    <3>1. CASE UNCHANGED clientExit
      BY <3>1 DEF JobTypeOK
    <3>2. CASE clientExit' = TRUE
      BY <3>2, Zenon
    <3> QED BY <1>0, <3>1, <3>2
  <2> QED BY <1>0, <2>1 DEF JobTypeOK
<1>4. NothingBeforeRun' /\ ExecutorInOrder'
  BY <1>0 DEF NothingBeforeRun, ExecutorInOrder, superVars
<1>5. ExitHasReason'
  <2>1. closing' = closing /\ sup' = sup
    BY <1>0 DEF superVars
  <2> QED BY <1>0, <2>1 DEF ExitHasReason
<1>6. StatusTells'
  BY <1>0 DEF StatusTells, ExecutorInOrder, Process, superVars
<1> QED BY <1>2, <1>3, <1>4, <1>5, <1>6

\* The job goes on: it sends while the worker is there, and fails when it is not.
LEMMA JobStepKeeps ==
    ASSUME JobLinkInv,
           JobAsksShutdown \/ JobLeaves \/ RoomLeft \/ JobEnds \/ \E r \in Requests : Infer(r)
    PROVE  JobLinkInv'
<1> USE DEF JobLinkInv, JobLinkTypeOK
<1>0. /\ proc = "run" /\ UNCHANGED <<proc, exitcode, toProc, workerOpen, superVars, reading, clientExit, inbox,
                                     listener>>
      /\ job \in {"run", "leaving", "callbacks"}
      /\ \/ UNCHANGED exitFlag /\ job' \in {"run", "leaving", "callbacks"}
         \/ ~Connected /\ job' = "failed" /\ exitFlag' = TRUE
         \/ job' = "ended" /\ exitFlag' = TRUE
      /\ shutdown' \in {shutdown, "room", "user"}
  BY DEF JobAsksShutdown, JobLeaves, RoomLeft, JobEnds, Infer, JobTypeOK, duplexVars
<1>1. /\ toWorker' \in Seq(ToWorkerMessages)
      /\ inference' \in [Requests -> {"none", "sent", "answered", "failed"}]
  <2>1. CASE JobAsksShutdown \/ RoomLeft \/ JobEnds
    BY <2>1 DEF JobAsksShutdown, RoomLeft, JobEnds, JobTypeOK, DuplexTypeOK, duplexVars
  <2>2. CASE JobLeaves
    <3>1. Msg("Exiting") \in ToWorkerMessages
      BY DEF Msg, ToWorkerMessages
    <3> QED BY <2>2, <3>1, SendToWorkerEffect DEF JobLeaves, JobTypeOK
  <2>3. ASSUME NEW r \in Requests, Infer(r)
        PROVE  /\ toWorker' \in Seq(ToWorkerMessages)
               /\ inference' \in [Requests -> {"none", "sent", "answered", "failed"}]
    <3>1. [type |-> "InferenceRequest", id |-> r] \in ToWorkerMessages
      BY DEF ToWorkerMessages
    <3>2. inference' \in [Requests -> {"none", "sent", "answered", "failed"}]
      BY <2>3 DEF Infer, JobTypeOK
    <3> QED BY <2>3, <3>1, <3>2, SendToWorkerEffect DEF Infer
  <2> QED BY <2>1, <2>2, <2>3
<1>2. DuplexTypeOK' /\ SuperTypeOK'
  BY <1>0, <1>1 DEF DuplexTypeOK, SuperTypeOK, superVars
<1>3. JobTypeOK'
  <2>1. exitFlag' \in BOOLEAN
    <3>1. CASE UNCHANGED exitFlag
      BY <3>1 DEF JobTypeOK
    <3>2. CASE exitFlag' = TRUE
      BY <3>2, Zenon
    <3> QED BY <1>0, <3>1, <3>2
  <2> QED BY <1>0, <1>1, <2>1 DEF JobTypeOK
<1>4. NothingBeforeRun' /\ ExecutorInOrder'
  BY <1>0 DEF NothingBeforeRun, ExecutorInOrder, superVars
<1>5. ExitHasReason'
  <2>1. closing' = closing /\ sup' = sup
    BY <1>0 DEF superVars
  <2>2. ~Connected => sup = "gone"
    BY <1>0 DEF Connected, ExecutorInOrder
  <2> QED BY <1>0, <2>1, <2>2 DEF ExitHasReason
<1>6. StatusTells'
  BY <1>0 DEF StatusTells, ExecutorInOrder, Process, superVars
<1> QED BY <1>2, <1>3, <1>4, <1>5, <1>6

LEMMA WorkerDiesKeeps ==
    ASSUME JobLinkInv, WorkerDies
    PROVE  JobLinkInv'
<1> USE DEF JobLinkInv, JobLinkTypeOK
<1>0. /\ sup \in {"init", "run"} /\ sup' = "gone" /\ initCall' = "over" /\ closeCall' = "over"
      /\ reader' = "ended" /\ trace' = "raised" /\ workerOpen' = FALSE /\ toWorker' = <<>>
      /\ UNCHANGED <<proc, exitcode, toProc, kind, init, closing, killSent, launch, status, jobVars>>
  BY DEF WorkerDies
<1>1. DuplexTypeOK'
  <2>1. workerOpen' \in BOOLEAN
    BY <1>0, Zenon
  <2> QED BY <1>0, <2>1, EmptyElements DEF DuplexTypeOK
<1>2. SuperTypeOK'
  <2>1. infTask' \in [Requests -> {"none", "run", "ended"}]
    BY DEF WorkerDies
  <2> QED BY <1>0, <2>1 DEF SuperTypeOK
<1>3. JobTypeOK'
  BY <1>0 DEF JobTypeOK, jobVars
<1>4. NothingBeforeRun' /\ ExecutorInOrder'
  BY <1>0, EmptyElements DEF NothingBeforeRun, ExecutorInOrder, Process, jobVars
<1>5. ExitHasReason' /\ StatusTells'
  BY <1>0 DEF ExitHasReason, StatusTells, Process, jobVars
<1> QED BY <1>1, <1>2, <1>3, <1>4, <1>5

LEMMA JobLinkNextInv == JobLinkInv /\ [JobLinkNext]_jobLinkVars => JobLinkInv'
<1> SUFFICES ASSUME JobLinkInv, [JobLinkNext]_jobLinkVars PROVE JobLinkInv' OBVIOUS
<1>1. CASE WorkerStep /\ UNCHANGED jobVars
  BY <1>1, WorkerQuietKeeps, WorkerRequestsKeep, WorkerReadingKeeps, WorkerKillsKeep DEF WorkerStep
<1>2. CASE ProcStep
  BY <1>2, ClientStartsKeep, ClientRunsKeeps, ClientReadingKeeps, ProcExitsKeeps, ListenKeeps, EntrypointKeeps,
     JobStepKeeps, WorkerDiesKeeps DEF ProcStep
<1>3. CASE UNCHANGED jobLinkVars
  <2> USE <1>3 DEF jobLinkVars, duplexVars, superVars, jobVars, JobLinkInv, JobLinkTypeOK
  <2>1. DuplexTypeOK' /\ SuperTypeOK' /\ JobTypeOK'
    BY DEF DuplexTypeOK, SuperTypeOK, JobTypeOK
  <2>2. NothingBeforeRun' /\ ExecutorInOrder' /\ ExitHasReason' /\ StatusTells'
    BY DEF NothingBeforeRun, ExecutorInOrder, ExitHasReason, StatusTells, Process
  <2> QED BY <2>1, <2>2
<1> QED BY <1>1, <1>2, <1>3 DEF JobLinkNext

\* What the invariant says of a process that exited.
LEMMA JobLinkInvSafe == JobLinkInv => JobLinkTypeOK /\ CallbacksRunBeforeExit /\ SuccessIsEarned
<1> SUFFICES ASSUME JobLinkInv PROVE CallbacksRunBeforeExit /\ SuccessIsEarned
  BY DEF JobLinkInv
<1> USE DEF JobLinkInv, JobLinkTypeOK, NothingBeforeRun, ExecutorInOrder, ExitHasReason, StatusTells
<1>1. CallbacksRunBeforeExit
  BY DEF CallbacksRunBeforeExit
<1>2. SuccessIsEarned
  BY DEF SuccessIsEarned, DuplexTypeOK
<1> QED BY <1>1, <1>2

----------------------------------------------------------------------------
(* The log records *)

LEMMA LogInitInv == LogAssumption /\ LogInit => LogInv
<1> SUFFICES ASSUME LogAssumption, LogInit PROVE LogInv OBVIOUS
<1>1. /\ logQueue = <<>> /\ wire = <<>> /\ handled = <<>> /\ Len(<<>>) = 0 /\ DOMAIN <<>> = {}
      /\ \A S : <<>> \in Seq(S)
  BY EmptySeq DEF LogInit
<1>2. /\ logged = 0 /\ forwarder = "run" /\ logProc = "run" /\ toldToStop = MaxRecords + 1
      /\ listening = "run" /\ joiner = "join" /\ MaxRecords \in Nat /\ WireSize \in Nat
  BY DEF LogInit, LogAssumption, NotTold
<1>3. LogTypeOK
  <2>1. killedLogging \in BOOLEAN
    BY Zenon DEF LogInit
  <2>2. toldToStop \in 0..NotTold /\ Len(wire) <= WireSize
    BY <1>1, <1>2 DEF NotTold
  <2> QED BY <1>1, <1>2, <2>1, <2>2 DEF LogTypeOK
<1>4. ~Told /\ LogsInOrder
  BY <1>1, <1>2 DEF Told, NotTold, LogsInOrder
<1>5. QueueInOrder /\ WireInOrder /\ EndsInOrder
  BY <1>1, <1>2, <1>4 DEF QueueInOrder, SentinelWaits, WireInOrder, Forwarded, EndsInOrder
<1> QED BY <1>3, <1>4, <1>5 DEF LogInv

\* The lengths and numbers of a state.
LEMMA LogNumbers ==
    ASSUME LogAssumption, LogTypeOK
    PROVE  /\ logged \in Nat /\ toldToStop \in Nat /\ MaxRecords \in Nat /\ NotTold = MaxRecords + 1
           /\ logged <= MaxRecords /\ toldToStop <= MaxRecords + 1
           /\ Len(logQueue) \in Nat /\ DOMAIN logQueue = 1..Len(logQueue)
           /\ Len(wire) \in Nat /\ DOMAIN wire = 1..Len(wire)
           /\ Len(handled) \in Nat /\ DOMAIN handled = 1..Len(handled)
<1>1. /\ MaxRecords \in Nat /\ NotTold = MaxRecords + 1 /\ logged \in 0..MaxRecords
      /\ toldToStop \in 0..NotTold
  BY DEF LogTypeOK, LogAssumption, NotTold
<1>2. /\ logQueue \in Seq(0..MaxRecords) /\ wire \in Seq(1..MaxRecords) /\ handled \in Seq(1..MaxRecords)
  BY DEF LogTypeOK
<1>3. /\ Len(logQueue) \in Nat /\ DOMAIN logQueue = 1..Len(logQueue)
      /\ Len(wire) \in Nat /\ DOMAIN wire = 1..Len(wire)
      /\ Len(handled) \in Nat /\ DOMAIN handled = 1..Len(handled)
  BY <1>2, LenProperties
<1> QED BY <1>1, <1>3

\* A record is emitted.
LEMMA EmitKeeps ==
    ASSUME LogAssumption, LogInv, Emit
    PROVE  LogInv'
<1> USE DEF LogInv
<1>n. /\ logged \in Nat /\ toldToStop \in Nat /\ MaxRecords \in Nat
      /\ Len(logQueue) \in Nat /\ DOMAIN logQueue = 1..Len(logQueue)
  BY LogNumbers
<1>0. /\ logProc # "exited" /\ logged < MaxRecords /\ logged' = logged + 1
      /\ logQueue' = Append(logQueue, logged + 1)
      /\ UNCHANGED <<forwarder, wire, logProc, toldToStop, killedLogging, listening, handled, joiner>>
  BY DEF Emit
<1>1. /\ logQueue' \in Seq(0..MaxRecords) /\ Len(logQueue') = Len(logQueue) + 1
      /\ DOMAIN logQueue' = 1..(Len(logQueue) + 1)
      /\ \A i \in 1..Len(logQueue) : logQueue'[i] = logQueue[i]
      /\ logQueue'[Len(logQueue) + 1] = logged + 1
  <2>1. logQueue \in Seq(0..MaxRecords) /\ logged + 1 \in 0..MaxRecords
    BY <1>n, <1>0 DEF LogTypeOK
  <2>2. Append(logQueue, logged + 1) \in Seq(0..MaxRecords)
        /\ Len(Append(logQueue, logged + 1)) = Len(logQueue) + 1
    BY <2>1, AppendProperties
  <2> QED BY <1>0, <2>1, <2>2, AppendProperties, LenProperties
<1>2. LogTypeOK'
  BY <1>n, <1>0, <1>1 DEF LogTypeOK, NotTold
<1>3. LogsInOrder'
  BY <1>0 DEF LogsInOrder
<1>4. /\ SentinelWaits' = SentinelWaits /\ SentinelAt' = SentinelAt /\ Forwarded' = Forwarded
      /\ SentinelAt = (Len(logQueue) + toldToStop) - logged
  BY <1>n, <1>0, <1>1 DEF SentinelWaits, Told, NotTold, SentinelAt, Forwarded
<1>5. QueueInOrder'
  <2>1. CASE SentinelWaits
    <3>1. /\ SentinelAt \in 1..Len(logQueue) /\ Len(logQueue) <= logged + 1
          /\ logQueue[SentinelAt] = Sentinel
          /\ \A i \in 1..(SentinelAt - 1) : logQueue[i] = (logged + i + 1) - Len(logQueue)
          /\ \A i \in (SentinelAt + 1)..Len(logQueue) : logQueue[i] = (logged + i) - Len(logQueue)
      BY <2>1 DEF QueueInOrder
    <3>2. /\ SentinelAt' \in 1..Len(logQueue') /\ Len(logQueue') <= logged' + 1
          /\ logQueue'[SentinelAt'] = Sentinel
      BY <1>n, <1>0, <1>1, <1>4, <3>1
    <3>3. ASSUME NEW i \in 1..(SentinelAt' - 1)
          PROVE  logQueue'[i] = (logged' + i + 1) - Len(logQueue')
      <4>1. i \in 1..(SentinelAt - 1) /\ i \in 1..Len(logQueue)
        BY <1>n, <1>4, <3>1, <3>3
      <4> QED BY <1>n, <1>0, <1>1, <3>1, <4>1
    <3>4. ASSUME NEW i \in (SentinelAt' + 1)..Len(logQueue')
          PROVE  logQueue'[i] = (logged' + i) - Len(logQueue')
      <4>1. CASE i = Len(logQueue) + 1
        BY <1>n, <1>0, <1>1, <4>1
      <4>2. CASE i # Len(logQueue) + 1
        <5>1. i \in (SentinelAt + 1)..Len(logQueue) /\ i \in 1..Len(logQueue)
          BY <1>n, <1>1, <1>4, <3>1, <3>4, <4>2
        <5> QED BY <1>n, <1>0, <1>1, <3>1, <5>1
      <4> QED BY <4>1, <4>2
    <3>5. SentinelWaits'
      BY <1>4, <2>1
    <3> QED BY <3>2, <3>3, <3>4, <3>5 DEF QueueInOrder, Sentinel
  <2>2. CASE ~SentinelWaits
    BY <1>n, <1>0, <1>1, <1>4, <2>2 DEF QueueInOrder
  <2> QED BY <2>1, <2>2
<1>6. WireInOrder'
  BY <1>0, <1>4 DEF WireInOrder
<1>7. EndsInOrder'
  BY <1>n, <1>0, <1>1 DEF EndsInOrder, Told, NotTold
<1> QED BY <1>2, <1>3, <1>5, <1>6, <1>7

\* run() returns: the sentinel is behind every record emitted.
LEMMA RunReturnsKeeps ==
    ASSUME LogAssumption, LogInv, RunReturns
    PROVE  LogInv'
<1> USE DEF LogInv
<1>n. /\ logged \in Nat /\ toldToStop \in Nat /\ MaxRecords \in Nat /\ logged <= MaxRecords
      /\ Len(logQueue) \in Nat /\ DOMAIN logQueue = 1..Len(logQueue) /\ NotTold = MaxRecords + 1
  BY LogNumbers
<1>0. /\ logProc = "run" /\ logProc' = "over" /\ toldToStop' = logged /\ logQueue' = Append(logQueue, 0)
      /\ UNCHANGED <<logged, forwarder, wire, killedLogging, listening, handled, joiner>>
  BY DEF RunReturns, Sentinel
<1>1. /\ logQueue' \in Seq(0..MaxRecords) /\ Len(logQueue') = Len(logQueue) + 1
      /\ DOMAIN logQueue' = 1..(Len(logQueue) + 1)
      /\ \A i \in 1..Len(logQueue) : logQueue'[i] = logQueue[i]
      /\ logQueue'[Len(logQueue) + 1] = 0
  <2>1. logQueue \in Seq(0..MaxRecords) /\ 0 \in 0..MaxRecords
    BY <1>n DEF LogTypeOK
  <2>2. Append(logQueue, 0) \in Seq(0..MaxRecords) /\ Len(Append(logQueue, 0)) = Len(logQueue) + 1
    BY <2>1, AppendProperties
  <2> QED BY <1>0, <2>1, <2>2, AppendProperties, LenProperties
<1>2. LogTypeOK'
  BY <1>n, <1>0, <1>1 DEF LogTypeOK, NotTold
<1>3. LogsInOrder'
  BY <1>0 DEF LogsInOrder
<1>4. ~Told /\ ~SentinelWaits /\ forwarder = "run" /\ Told' /\ SentinelWaits'
  BY <1>n, <1>0 DEF EndsInOrder, Told, SentinelWaits, LogTypeOK, NotTold
<1>5. SentinelAt' = Len(logQueue) + 1 /\ Forwarded' = Forwarded
  BY <1>n, <1>0, <1>1, <1>4 DEF SentinelAt, Forwarded
<1>6. QueueInOrder'
  <2>1. /\ Len(logQueue) <= logged
        /\ \A i \in 1..Len(logQueue) : logQueue[i] = (logged + i) - Len(logQueue)
    BY <1>n, <1>4 DEF QueueInOrder
  <2> QED BY <1>n, <1>0, <1>1, <1>4, <1>5, <2>1 DEF QueueInOrder, Sentinel
<1>7. WireInOrder'
  BY <1>0, <1>5 DEF WireInOrder
<1>8. EndsInOrder'
  BY <1>n, <1>0, <1>4 DEF EndsInOrder
<1> QED BY <1>2, <1>3, <1>6, <1>7, <1>8

\* A record of the queue is the one after those forwarded; the sentinel ends the forwarder.
LEMMA ForwardLogKeeps ==
    ASSUME LogAssumption, LogInv, ForwardLog
    PROVE  LogInv'
<1> USE DEF LogInv
<1>n. /\ logged \in Nat /\ toldToStop \in Nat /\ MaxRecords \in Nat /\ logged <= MaxRecords
      /\ Len(logQueue) \in Nat /\ DOMAIN logQueue = 1..Len(logQueue) /\ NotTold = MaxRecords + 1
      /\ Len(wire) \in Nat /\ DOMAIN wire = 1..Len(wire) /\ Len(handled) \in Nat
  BY LogNumbers
<1>0. /\ logProc # "exited" /\ forwarder = "run" /\ logQueue # <<>> /\ logQueue' = Tail(logQueue)
      /\ UNCHANGED <<logged, logProc, toldToStop, killedLogging, listening, handled, joiner>>
  BY DEF ForwardLog
<1>1. /\ logQueue' \in Seq(0..MaxRecords) /\ Len(logQueue) > 0 /\ Len(logQueue') = Len(logQueue) - 1
      /\ DOMAIN logQueue' = 1..(Len(logQueue) - 1)
      /\ \A i \in 1..(Len(logQueue) - 1) : logQueue'[i] = logQueue[i + 1]
      /\ Head(logQueue) = logQueue[1] /\ Head(logQueue) \in 0..MaxRecords
  <2>1. logQueue \in Seq(0..MaxRecords) /\ logQueue # <<>>
    BY <1>0 DEF LogTypeOK
  <2>2. Tail(logQueue) \in Seq(0..MaxRecords) /\ Len(Tail(logQueue)) = Len(logQueue) - 1
    BY <2>1, HeadTailProperties
  <2> QED BY <1>0, <2>1, <2>2, HeadTailProperties, LenProperties, EmptySeq
<1>2. LogsInOrder'
  BY <1>0 DEF LogsInOrder
<1>3. SentinelWaits <=> Told
  BY <1>0 DEF SentinelWaits
<1>4. CASE Head(logQueue) = Sentinel
  <2>1. forwarder' = "ended" /\ wire' = wire
    BY <1>4 DEF ForwardLog
  <2>2. Told /\ SentinelWaits /\ Len(logQueue) + toldToStop = logged + 1
    <3>0. 1 \in 1..Len(logQueue) /\ logQueue[1] = 0
      BY <1>n, <1>1, <1>4 DEF Sentinel
    <3>1. SentinelWaits
      <4> SUFFICES ASSUME ~SentinelWaits PROVE FALSE OBVIOUS
      <4>1. Len(logQueue) <= logged /\ logQueue[1] = (logged + 1) - Len(logQueue)
        BY <3>0 DEF QueueInOrder
      <4> QED BY <1>n, <3>0, <4>1
    <3>2. SentinelAt \in 1..Len(logQueue) /\ Len(logQueue) <= logged + 1
      BY <3>1 DEF QueueInOrder
    <3>3. SentinelAt = 1
      <4> SUFFICES ASSUME SentinelAt # 1 PROVE FALSE OBVIOUS
      <4>1. 1 \in 1..(SentinelAt - 1)
        BY <1>n, <3>2
      <4>2. logQueue[1] = (logged + 1 + 1) - Len(logQueue)
        BY <3>1, <4>1 DEF QueueInOrder
      <4> QED BY <1>n, <3>0, <3>2, <4>2
    <3> QED BY <1>n, <1>3, <3>1, <3>3 DEF SentinelAt
  <2>3. Told' /\ ~SentinelWaits'
    BY <1>0, <2>1, <2>2 DEF Told, NotTold, SentinelWaits
  <2>4. LogTypeOK'
    BY <1>0, <1>1, <2>1 DEF LogTypeOK, NotTold
  <2>5. QueueInOrder'
    BY <1>n, <1>0, <1>1, <2>2, <2>3 DEF QueueInOrder, SentinelAt
  <2>6. Forwarded' = Forwarded
    BY <1>n, <1>0, <1>1, <2>2, <2>3 DEF Forwarded
  <2>7. WireInOrder'
    BY <1>0, <2>1, <2>6 DEF WireInOrder
  <2>8. EndsInOrder'
    BY <1>n, <1>0, <1>1, <2>2, <2>3 DEF EndsInOrder
  <2> QED BY <1>2, <2>4, <2>5, <2>7, <2>8
<1>5. CASE Head(logQueue) # Sentinel
  <2>1. /\ Len(wire) < WireSize /\ wire' = Append(wire, Head(logQueue)) /\ forwarder' = forwarder
    BY <1>5 DEF ForwardLog
  <2>2. Head(logQueue) \in 1..MaxRecords
    BY <1>n, <1>1, <1>5 DEF Sentinel
  <2>3. /\ wire' \in Seq(1..MaxRecords) /\ Len(wire') = Len(wire) + 1 /\ DOMAIN wire' = 1..(Len(wire) + 1)
        /\ \A i \in 1..Len(wire) : wire'[i] = wire[i]
        /\ wire'[Len(wire) + 1] = Head(logQueue)
    <3>1. wire \in Seq(1..MaxRecords)
      BY DEF LogTypeOK
    <3>2. Append(wire, Head(logQueue)) \in Seq(1..MaxRecords)
          /\ Len(Append(wire, Head(logQueue))) = Len(wire) + 1
      BY <2>2, <3>1, AppendProperties
    <3> QED BY <2>1, <2>2, <3>1, <3>2, AppendProperties, LenProperties
  <2>4. LogTypeOK'
    BY <1>n, <1>0, <1>1, <2>1, <2>3 DEF LogTypeOK, NotTold, LogAssumption
  <2>5. Told' = Told /\ SentinelWaits' = SentinelWaits
    BY <1>0, <2>1 DEF Told, NotTold, SentinelWaits
  <2>6. SentinelWaits => SentinelAt > 1 /\ SentinelAt' = SentinelAt - 1
    BY <1>n, <1>0, <1>1, <1>5 DEF QueueInOrder, SentinelAt
  <2>7. Head(logQueue) = Forwarded + 1 /\ Forwarded' = Forwarded + 1 /\ Forwarded \in Nat
    <3>1. CASE SentinelWaits
      BY <1>n, <1>0, <1>1, <2>5, <2>6, <3>1 DEF QueueInOrder, Forwarded
    <3>2. CASE ~SentinelWaits
      BY <1>n, <1>0, <1>1, <2>5, <3>2 DEF QueueInOrder, Forwarded
    <3> QED BY <3>1, <3>2
  <2>8. QueueInOrder'
    <3>1. CASE SentinelWaits
      <4>1. SentinelAt \in 2..Len(logQueue) /\ SentinelAt' = SentinelAt - 1
        BY <1>n, <2>6, <3>1 DEF QueueInOrder
      <4> HIDE DEF SentinelAt
      <4> QED BY <1>n, <1>0, <1>1, <2>5, <3>1, <4>1 DEF QueueInOrder, Sentinel
    <3>2. CASE ~SentinelWaits
      BY <1>n, <1>0, <1>1, <2>5, <3>2 DEF QueueInOrder
    <3> QED BY <3>1, <3>2
  <2>9. WireInOrder'
    <3> SUFFICES ASSUME listening = "run"
                 PROVE  /\ Len(handled) + Len(wire') = Forwarded'
                        /\ \A i \in 1..Len(wire') : wire'[i] = Len(handled) + i
      BY <1>0 DEF WireInOrder
    <3>1. /\ Len(handled) + Len(wire) = Forwarded
          /\ \A i \in 1..Len(wire) : wire[i] = Len(handled) + i
      BY <1>n DEF WireInOrder
    <3>2. Len(handled) + Len(wire') = Forwarded'
      BY <1>n, <2>3, <2>7, <3>1
    <3>3. ASSUME NEW i \in 1..Len(wire') PROVE wire'[i] = Len(handled) + i
      <4>1. CASE i = Len(wire) + 1
        BY <1>n, <2>3, <2>7, <3>1, <4>1
      <4>2. CASE i # Len(wire) + 1
        <5>1. i \in 1..Len(wire)
          BY <1>n, <2>3, <3>3, <4>2
        <5> QED BY <2>3, <3>1, <5>1
      <4> QED BY <4>1, <4>2
    <3> QED BY <3>2, <3>3
  <2>10. EndsInOrder'
    BY <1>n, <1>0, <2>1, <2>5 DEF EndsInOrder
  <2> QED BY <1>2, <2>4, <2>8, <2>9, <2>10
<1> QED BY <1>4, <1>5

\* The worker handles a record, or drops it with its thread.
LEMMA RecordReadKeeps ==
    ASSUME LogAssumption, LogInv, HandleRecord \/ RecordRaises
    PROVE  LogInv'
<1> USE DEF LogInv
<1>n. /\ Len(wire) \in Nat /\ DOMAIN wire = 1..Len(wire)
      /\ Len(handled) \in Nat /\ DOMAIN handled = 1..Len(handled) /\ MaxRecords \in Nat
  BY LogNumbers
<1>0. /\ listening = "run" /\ wire # <<>> /\ wire' = Tail(wire)
      /\ UNCHANGED <<logged, logQueue, forwarder, logProc, toldToStop, killedLogging, joiner>>
      /\ \/ handled' = Append(handled, Head(wire)) /\ UNCHANGED listening
         \/ listening' = "ended" /\ UNCHANGED handled
  BY DEF HandleRecord, RecordRaises
<1>1. /\ wire' \in Seq(1..MaxRecords) /\ Len(wire) > 0 /\ Len(wire') = Len(wire) - 1
      /\ DOMAIN wire' = 1..(Len(wire) - 1)
      /\ \A i \in 1..(Len(wire) - 1) : wire'[i] = wire[i + 1]
      /\ Head(wire) = wire[1] /\ Head(wire) \in 1..MaxRecords
  <2>1. wire \in Seq(1..MaxRecords) /\ wire # <<>>
    BY <1>0 DEF LogTypeOK
  <2>2. Tail(wire) \in Seq(1..MaxRecords) /\ Len(Tail(wire)) = Len(wire) - 1
    BY <2>1, HeadTailProperties
  <2> QED BY <1>0, <2>1, <2>2, HeadTailProperties, LenProperties, EmptySeq
<1>2. /\ QueueInOrder' /\ EndsInOrder' /\ Forwarded' = Forwarded
  BY <1>0 DEF QueueInOrder, EndsInOrder, Forwarded, SentinelWaits, SentinelAt, Told, NotTold
<1>3. CASE listening' = "ended" /\ UNCHANGED handled
  <2>1. LogTypeOK'
    BY <1>n, <1>0, <1>1, <1>3 DEF LogTypeOK, NotTold, LogAssumption
  <2>2. LogsInOrder' /\ WireInOrder'
    BY <1>3 DEF LogsInOrder, WireInOrder
  <2> QED BY <1>2, <2>1, <2>2
<1>4. CASE handled' = Append(handled, Head(wire)) /\ UNCHANGED listening
  <2>1. /\ handled' \in Seq(1..MaxRecords) /\ Len(handled') = Len(handled) + 1
        /\ DOMAIN handled' = 1..(Len(handled) + 1)
        /\ \A i \in 1..Len(handled) : handled'[i] = handled[i]
        /\ handled'[Len(handled) + 1] = Head(wire)
    <3>1. handled \in Seq(1..MaxRecords)
      BY DEF LogTypeOK
    <3>2. Append(handled, Head(wire)) \in Seq(1..MaxRecords)
          /\ Len(Append(handled, Head(wire))) = Len(handled) + 1
      BY <1>1, <3>1, AppendProperties
    <3> QED BY <1>1, <1>4, <3>1, <3>2, AppendProperties, LenProperties
  <2>2. LogTypeOK'
    BY <1>n, <1>0, <1>1, <1>4, <2>1 DEF LogTypeOK, NotTold, LogAssumption
  <2>3. /\ Len(handled) + Len(wire) = Forwarded
        /\ \A i \in 1..Len(wire) : wire[i] = Len(handled) + i
    BY <1>n, <1>0 DEF WireInOrder
  <2>4. LogsInOrder'
    <3>1. Head(wire) = Len(handled) + 1
      BY <1>n, <1>1, <2>3
    <3>2. \A i \in 1..Len(handled) : handled'[i] = i
      BY <1>n, <2>1 DEF LogsInOrder
    <3>3. ASSUME NEW i \in 1..(Len(handled) + 1) PROVE handled'[i] = i
      <4>1. CASE i = Len(handled) + 1
        BY <2>1, <3>1, <4>1
      <4>2. CASE i # Len(handled) + 1
        BY <1>n, <3>2, <4>2
      <4> QED BY <4>1, <4>2
    <3> QED BY <2>1, <3>3 DEF LogsInOrder
  <2>5. WireInOrder'
    BY <1>n, <1>1, <1>2, <2>1, <2>3 DEF WireInOrder
  <2> QED BY <1>2, <2>2, <2>4, <2>5
<1> QED BY <1>0, <1>3, <1>4

\* A process or a thread ends.
LEMMA LogThreadEndsKeeps ==
    ASSUME LogAssumption, LogInv,
           MainGivesUp \/ ExitsAfterForwarder \/ KilledWithLogs \/ MonitorEnds \/ JoinThread
    PROVE  LogInv'
<1> USE DEF LogInv
<1>0. /\ UNCHANGED <<logged, logQueue, forwarder, wire, toldToStop, handled>>
      /\ listening' \in {listening, "ended"} /\ joiner' \in {joiner, "stop", "joining", "done"}
      /\ UNCHANGED killedLogging \/ killedLogging' = TRUE
      /\ \/ UNCHANGED logProc
         \/ logProc = "run" /\ logProc' = "over"
         \/ logProc' = "exited" /\ (forwarder = "ended" \/ killedLogging' = TRUE)
  BY DEF MainGivesUp, ExitsAfterForwarder, KilledWithLogs, MonitorEnds, JoinThread
<1>1. LogTypeOK'
  BY <1>0 DEF LogTypeOK, NotTold
<1>2. LogsInOrder' /\ QueueInOrder'
  BY <1>0 DEF LogsInOrder, QueueInOrder, SentinelWaits, SentinelAt, Told, NotTold
<1>3. WireInOrder'
  BY <1>0 DEF WireInOrder, Forwarded, SentinelWaits, Told, NotTold
<1>4. EndsInOrder'
  BY <1>0 DEF EndsInOrder, Told, NotTold
<1> QED BY <1>1, <1>2, <1>3, <1>4

LEMMA LogNextInv == LogAssumption /\ LogInv /\ [LogNext]_logVars => LogInv'
<1> SUFFICES ASSUME LogAssumption, LogInv, [LogNext]_logVars PROVE LogInv' OBVIOUS
<1>1. CASE LogNext
  BY <1>1, EmitKeeps, RunReturnsKeeps, ForwardLogKeeps, RecordReadKeeps, LogThreadEndsKeeps DEF LogNext
<1>2. CASE UNCHANGED logVars
  <2> USE <1>2 DEF logVars, LogInv
  <2>1. LogTypeOK' /\ LogsInOrder'
    BY DEF LogTypeOK, NotTold, LogsInOrder
  <2>2. QueueInOrder' /\ WireInOrder' /\ EndsInOrder'
    BY DEF QueueInOrder, WireInOrder, Forwarded, EndsInOrder, SentinelWaits, SentinelAt, Told, NotTold
  <2> QED BY <2>1, <2>2
<1> QED BY <1>1, <1>2

\* A forwarder that ended left only what was emitted after the sentinel.
LEMMA LogInvSafe == LogAssumption /\ LogInv => LogTypeOK /\ LogsInOrder /\ LogsAreSent
<1> SUFFICES ASSUME LogAssumption, LogInv, logProc = "exited", ~killedLogging, NEW i \in DOMAIN logQueue
             PROVE  logQueue[i] \notin 1..toldToStop
  BY DEF LogInv, LogsAreSent
<1>1. /\ logged \in Nat /\ toldToStop \in Nat /\ Len(logQueue) \in Nat /\ i \in 1..Len(logQueue)
  BY LogNumbers DEF LogInv
<1>2. forwarder = "ended" /\ Len(logQueue) + toldToStop <= logged
  BY DEF LogInv, EndsInOrder
<1>3. logQueue[i] = (logged + i) - Len(logQueue)
  BY <1>2 DEF LogInv, QueueInOrder, SentinelWaits
<1> QED BY <1>1, <1>2, <1>3

----------------------------------------------------------------------------
(* The inferences *)

LEMMA InferenceInitType == InferenceInit => InferenceTypeOK
BY EmptyElements DEF InferenceInit, InferenceTypeOK

LEMMA InferenceNextType == InferenceTypeOK /\ [InferenceNext]_infVars => InferenceTypeOK'
<1> SUFFICES ASSUME InferenceTypeOK, [InferenceNext]_infVars PROVE InferenceTypeOK' OBVIOUS
<1>t. infRequests \in Seq(Callers) /\ infServing \in Seq(Callers) /\ infAnswers \in Seq(Callers)
  BY DEF InferenceTypeOK
<1>1. ASSUME NEW c \in Callers, DoInference(c) PROVE InferenceTypeOK'
  <2>1. Append(infRequests, c) \in Seq(Callers)
    BY <1>t, AppendProperties
  <2> QED BY <1>1, <2>1 DEF DoInference, InferenceTypeOK
<1>2. ASSUME NEW c \in Callers, InferenceCancelled(c) PROVE InferenceTypeOK'
  BY <1>2 DEF InferenceCancelled, InferenceTypeOK
<1>3. CASE ServeRequest
  <2>1. Tail(infRequests) \in Seq(Callers) /\ Head(infRequests) \in Callers
    BY <1>t, <1>3, HeadTailProperties DEF ServeRequest
  <2>2. <<Head(infRequests)>> \in Seq(Callers)
    BY <2>1
  <2> QED BY <1>3, <2>1, <2>2 DEF ServeRequest, InferenceTypeOK
<1>4. CASE RequestServed
  <2>1. infAnswers \o infServing \in Seq(Callers)
    BY <1>t, ConcatProperties
  <2> QED BY <1>4, <2>1, EmptyElements DEF RequestServed, InferenceTypeOK
<1>5. CASE HandleAnswer
  <2>1. Tail(infAnswers) \in Seq(Callers) /\ Head(infAnswers) \in Callers
    BY <1>t, <1>5, HeadTailProperties DEF HandleAnswer
  <2>2. infCall' \in [Callers -> {"none", "waiting", "data", "error", "cancelled"}]
    BY <1>5, <2>1 DEF HandleAnswer, InferenceTypeOK
  <2>3. infActive' \subseteq Callers /\ infHandler' \in {"run", "ended"}
    BY <1>5 DEF HandleAnswer, InferenceTypeOK
  <2> QED BY <1>5, <2>1, <2>2, <2>3 DEF HandleAnswer, InferenceTypeOK
<1>6. CASE InferenceClose \/ InferenceExits
  BY <1>6, EmptyElements DEF InferenceClose, InferenceExits, InferenceTypeOK
<1>7. CASE UNCHANGED infVars
  BY <1>7 DEF infVars, InferenceTypeOK
<1> QED BY <1>1, <1>2, <1>3, <1>4, <1>5, <1>6, <1>7 DEF InferenceNext

\* The shutdown callbacks of a job have run when its process exits in order, SUCCESS is said of a job
\* that was run to its end, and its log records come in their order, none of those emitted before
\* run() returned left behind, but for the cases the properties name, whatever the worker, the process
\* and the faults do (supervised_proc.py, job_proc_executor.py, proc_client.py, job_proc_lazy_main.py,
\* log_queue.py).
THEOREM JobsRunToTheirEnd == JobLinkSpec /\ LogSpec /\ InferenceSpec => []JobsEndWell
<1> USE LogAssumption
<1>1. JobLinkSpec => []JobLinkInv
  BY JobLinkInitInv, JobLinkNextInv, PTL DEF JobLinkSpec
<1>2. LogSpec => []LogInv
  BY LogInitInv, LogNextInv, PTL DEF LogSpec
<1>3. InferenceSpec => []InferenceTypeOK
  BY InferenceInitType, InferenceNextType, PTL DEF InferenceSpec
<1>4. JobLinkInv /\ LogInv /\ InferenceTypeOK => JobsEndWell
  BY JobLinkInvSafe, LogInvSafe DEF JobsEndWell
<1> QED BY <1>1, <1>2, <1>3, <1>4, PTL

(* The reload of a worker *)

ClientMsg == [kind : {"active", "jobs"}, jobs : SUBSET ReloadJobs, for : Workers]
ServerMsg == [kind : {"active", "jobs", "reloaded"}, jobs : SUBSET ReloadJobs, count : Workers, from : Workers]
WorkerType == [number : Workers, state : {"down", "runs", "closes"}, count : Workers, jobs : [ReloadJobs -> Nat],
               todo : SUBSET ReloadJobs, busy : BOOLEAN, asks : BOOLEAN]

ReloadShape ==
    /\ devWorker \in WorkerType /\ toClient \in Seq(ClientMsg) /\ toServer \in Seq(ServerMsg)
    /\ reloadCount \in Workers /\ onReload \in {"idle", "asks", "waits", "done"} /\ fileChanges \in Workers
    /\ activeJobs \subseteq ReloadJobs /\ begun \subseteq ReloadJobs /\ over \subseteq ReloadJobs
    /\ handedOver \subseteq ReloadJobs /\ {workerReloading, jobsFuture, stray} \subseteq BOOLEAN

\* The workers and the decisions are counted by the changes.
Counted ==
    /\ devWorker.number <= fileChanges /\ (onReload # "idle" => devWorker.number < fileChanges)
    /\ reloadCount <= fileChanges /\ (onReload \in {"asks", "waits"} => reloadCount < fileChanges)
    /\ devWorker.count <= reloadCount
    /\ \A k \in 1..Len(toClient) : toClient[k].for <= devWorker.number
    /\ \A k \in 1..Len(toServer) : toServer[k].from <= devWorker.number /\ toServer[k].count <= reloadCount

\* Only jobs that the server assigned are spoken of.
OnlyBegun ==
    /\ Running(devWorker) \subseteq begun /\ devWorker.todo \subseteq begun /\ activeJobs \subseteq begun
    /\ \A k \in 1..Len(toClient) : toClient[k].jobs \subseteq begun
    /\ \A k \in 1..Len(toServer) : toServer[k].jobs \subseteq begun

WorkerSound ==
    /\ devWorker.asks => devWorker.state = "down"
    /\ devWorker.state = "down" => Running(devWorker) = {}
    /\ ~devWorker.busy => devWorker.todo = {}

Request(k) == toServer[k].kind = "jobs" /\ toServer[k].from = devWorker.number
Handover(k) == toClient[k].kind = "jobs" /\ toClient[k].for = devWorker.number

\* The worker is given a list of jobs once: it has still to ask, or its request is on its way, as the first of
\* its messages, or the answer is, or it launches the jobs, or it has.
GivenOnce ==
    /\ devWorker.asks => /\ ~devWorker.busy
                         /\ \A k \in 1..Len(toServer) : toServer[k].from # devWorker.number
                         /\ \A k \in 1..Len(toClient) : ~Handover(k)
    /\ \A i \in 1..Len(toServer) : Request(i) =>
          /\ ~devWorker.busy /\ \A k \in 1..Len(toClient) : ~Handover(k)
          /\ \A k \in 1..Len(toServer) : k # i => ~Request(k)
          /\ \A k \in 1..(i - 1) : toServer[k].from # devWorker.number
    /\ \A i \in 1..Len(toClient) : Handover(i) =>
          ~devWorker.busy /\ \A k \in 1..Len(toClient) : k # i => ~Handover(k)

\* The jobs that are still to be launched do not run.
NotTwice ==
    /\ \A j \in ReloadJobs : devWorker.jobs[j] <= 1
    /\ devWorker.todo \cap Running(devWorker) = {}
    /\ \A i \in 1..Len(toServer) : Request(i) => activeJobs \cap Running(devWorker) = {}
    /\ \A i \in 1..Len(toClient) : Handover(i) => toClient[i].jobs \cap Running(devWorker) = {}

\* A list that is taken is that of the worker, which was asked for it, and of jobs that it runs.
TakenIsOwn ==
    /\ handedOver = activeJobs
    /\ \A k \in 1..Len(toServer) : toServer[k].kind = "active" =>
          /\ toServer[k].count = reloadCount => toServer[k].from = devWorker.number /\ onReload \in {"asks", "waits"}
          /\ toServer[k].from = devWorker.number /\ devWorker.state = "runs" => toServer[k].jobs \ over \subseteq Running(devWorker)
    /\ \A k \in 1..Len(toClient) :
          toClient[k].kind = "active" /\ toClient[k].for = devWorker.number /\ devWorker.count = reloadCount =>
              onReload \in {"asks", "waits"}

\* Once the request was answered, the jobs handed over run, are to be launched, or are on their way.
NoneLost ==
    devWorker.state = "runs" /\ (\A i \in 1..Len(toServer) : ~Request(i)) =>
        \A j \in handedOver \ over : \/ j \in Running(devWorker) \/ j \in devWorker.todo
                                     \/ \E i \in 1..Len(toClient) : Handover(i) /\ j \in toClient[i].jobs

\* The inductive invariant of the reload.
ReloadInv ==
    /\ ReloadShape /\ Counted /\ OnlyBegun /\ WorkerSound
    /\ ~stray => GivenOnce /\ NotTwice /\ TakenIsOwn /\ NoneLost

LEMMA ReloadInitInv == ReloadAssumption /\ ReloadInit => ReloadInv
<1> SUFFICES ASSUME ReloadAssumption, ReloadInit PROVE ReloadInv OBVIOUS
<1> USE DEF ReloadInit
<1>1. <<>> \in Seq(ClientMsg) /\ <<>> \in Seq(ServerMsg) /\ 1..Len(<<>>) = {} /\ 0 \in Workers /\ MaxFileChanges \in Nat
  BY EmptySeq DEF Workers, ReloadAssumption
<1>2. ReloadShape
  <2>1. NoneRuns \in [ReloadJobs -> Nat]
    BY DEF NoneRuns
  <2>2. devWorker \in WorkerType
    BY <1>1, <2>1 DEF WorkerType
  <2> QED BY <1>1, <2>2 DEF ReloadShape
<1>3. Running(devWorker) = {} /\ \A j \in ReloadJobs : devWorker.jobs[j] = 0
  BY DEF Running, NoneRuns
<1>4. Counted /\ OnlyBegun /\ WorkerSound
  <2>1. /\ devWorker.number = 0 /\ devWorker.count = 0 /\ devWorker.todo = {} /\ ~devWorker.busy
        /\ devWorker.asks /\ devWorker.state = "down"
    OBVIOUS
  <2>2. Counted
    BY <1>1, <2>1 DEF Counted
  <2>3. OnlyBegun /\ WorkerSound
    BY <1>1, <1>3, <2>1 DEF OnlyBegun, WorkerSound
  <2> QED BY <2>2, <2>3
<1>5. GivenOnce /\ NotTwice /\ TakenIsOwn /\ NoneLost
  BY <1>1, <1>3 DEF GivenOnce, NotTwice, TakenIsOwn, NoneLost
<1> QED BY <1>2, <1>4, <1>5 DEF ReloadInv

\* The jobs of the worker change, and nothing is sent.
LEMMA WorkerChanges ==
    ASSUME ReloadInv, UNCHANGED <<toClient, toServer, watchVars, fileChanges, handedOver, stray>>,
           devWorker' \in WorkerType, devWorker'.number = devWorker.number, devWorker'.count = devWorker.count,
           devWorker'.busy = devWorker.busy, devWorker'.todo \subseteq devWorker.todo,
           begun \subseteq begun', begun' \subseteq ReloadJobs, over' \subseteq ReloadJobs, over \subseteq over',
           Running(devWorker') \subseteq begun',
           devWorker'.asks => devWorker.asks /\ devWorker'.state = devWorker.state,
           devWorker'.state = "down" => Running(devWorker') = {},
           devWorker'.state = "runs" => devWorker.state = "runs",
           \* What begins to run was to be launched, or nobody had heard of it.
           ~stray => /\ \A j \in ReloadJobs : devWorker'.jobs[j] <= 1
                     /\ devWorker'.todo \cap Running(devWorker') = {}
                     /\ \A j \in Running(devWorker') \ Running(devWorker) : j \in devWorker.todo \/ j \notin begun,
           \* What runs no more is over, or the worker closes.
           devWorker'.state = "runs" => Running(devWorker) \subseteq Running(devWorker') \cup over',
           devWorker.todo \subseteq devWorker'.todo \cup Running(devWorker')
    PROVE  ReloadInv'
<1>1. /\ ReloadShape /\ Counted /\ OnlyBegun /\ WorkerSound
      /\ ~stray => GivenOnce /\ NotTwice /\ TakenIsOwn /\ NoneLost
      /\ UNCHANGED <<activeJobs, workerReloading, reloadCount, onReload, jobsFuture>>
  BY DEF ReloadInv, watchVars
<1>2. ReloadShape'
  BY <1>1 DEF ReloadShape
<1>3. Counted'
  BY <1>1 DEF Counted
<1>4. OnlyBegun'
  BY <1>1 DEF OnlyBegun
<1>5. WorkerSound'
  BY <1>1 DEF WorkerSound
<1>6. ASSUME ~stray PROVE GivenOnce'
  BY <1>1, <1>6 DEF GivenOnce, Request, Handover
<1>7. ASSUME ~stray PROVE NotTwice'
  <2>1. ASSUME NEW i \in 1..Len(toServer), Request(i) PROVE activeJobs \cap Running(devWorker') = {}
    <3>1. devWorker.todo = {} /\ activeJobs \cap Running(devWorker) = {} /\ activeJobs \subseteq begun
      BY <1>1, <1>7, <2>1 DEF GivenOnce, WorkerSound, NotTwice, OnlyBegun
    <3> QED BY <1>7, <3>1
  <2>2. ASSUME NEW i \in 1..Len(toClient), Handover(i) PROVE toClient[i].jobs \cap Running(devWorker') = {}
    <3>1. devWorker.todo = {} /\ toClient[i].jobs \cap Running(devWorker) = {} /\ toClient[i].jobs \subseteq begun
      BY <1>1, <1>7, <2>2 DEF GivenOnce, WorkerSound, NotTwice, OnlyBegun
    <3> QED BY <1>7, <3>1
  <2>3. ASSUME NEW i \in 1..Len(toServer'), Request(i)' PROVE activeJobs' \cap Running(devWorker') = {}
    <3>1. i \in 1..Len(toServer) /\ Request(i)
      BY <2>3 DEF Request
    <3> QED BY <1>1, <2>1, <3>1
  <2>4. ASSUME NEW i \in 1..Len(toClient'), Handover(i)' PROVE toClient'[i].jobs \cap Running(devWorker') = {}
    <3>1. i \in 1..Len(toClient) /\ Handover(i) /\ toClient'[i].jobs = toClient[i].jobs
      BY <2>4 DEF Handover
    <3> QED BY <2>2, <3>1
  <2> QED BY <1>7, <2>3, <2>4 DEF NotTwice
<1>8. ASSUME ~stray PROVE TakenIsOwn'
  BY <1>1, <1>8 DEF TakenIsOwn
<1>9. ASSUME ~stray PROVE NoneLost'
  BY <1>1, <1>9 DEF NoneLost, Request, Handover
<1> QED BY <1>2, <1>3, <1>4, <1>5, <1>6, <1>7, <1>8, <1>9 DEF ReloadInv

LEMMA WorkerKeeps ==
    ASSUME ReloadInv, \/ WorkerFailsToBoot \/ LaunchReloaded \/ WorkerCloses
                      \/ \E j \in ReloadJobs : JobBegins(j) \/ JobOver(j)
    PROVE  ReloadInv'
<1>1. /\ devWorker \in WorkerType /\ OnlyBegun /\ WorkerSound /\ (~stray => NotTwice)
      /\ begun \subseteq ReloadJobs /\ over \subseteq ReloadJobs /\ devWorker.jobs \in [ReloadJobs -> Nat]
      /\ devWorker.todo \subseteq ReloadJobs
      /\ Running(devWorker) = {j \in ReloadJobs : devWorker.jobs[j] > 0}
  BY DEF ReloadInv, ReloadShape, WorkerType, Running
<1>2. CASE WorkerFailsToBoot
  <2>1. /\ devWorker' = [devWorker EXCEPT !.asks = FALSE]
        /\ UNCHANGED <<toClient, toServer, watchVars, fileChanges, begun, over, handedOver, stray>>
    BY <1>2 DEF WorkerFailsToBoot
  <2>2. /\ devWorker' \in WorkerType /\ ~devWorker'.asks /\ devWorker'.jobs = devWorker.jobs /\ devWorker'.todo = devWorker.todo
        /\ devWorker'.state = devWorker.state /\ devWorker'.number = devWorker.number /\ devWorker'.count = devWorker.count
        /\ devWorker'.busy = devWorker.busy
    BY <1>1, <2>1 DEF WorkerType
  <2>3. Running(devWorker') = Running(devWorker)
    BY <2>2 DEF Running
  <2> QED BY <1>1, <2>1, <2>2, <2>3, WorkerChanges DEF OnlyBegun, WorkerSound, NotTwice
<1>3. CASE LaunchReloaded
  <2> PICK j \in devWorker.todo : devWorker' = [devWorker EXCEPT !.todo = devWorker.todo \ {j}, !.jobs[j] = devWorker.jobs[j] + 1]
    BY <1>3 DEF LaunchReloaded
  <2>1. devWorker.state = "runs" /\ UNCHANGED <<toClient, toServer, watchVars, fileChanges, begun, over, handedOver, stray>>
    BY <1>3 DEF LaunchReloaded
  <2> DEFINE jobs == [devWorker.jobs EXCEPT ![j] = devWorker.jobs[j] + 1]
  <2>2. jobs \in [ReloadJobs -> Nat] /\ jobs[j] = devWorker.jobs[j] + 1 /\ \A i \in ReloadJobs \ {j} : jobs[i] = devWorker.jobs[i]
    BY <1>1
  <2>3. devWorker' = [devWorker EXCEPT !.todo = devWorker.todo \ {j}, !.jobs = jobs]
    BY <1>1 DEF WorkerType
  <2> HIDE DEF jobs
  <2>4. /\ devWorker' \in WorkerType /\ devWorker'.jobs = jobs /\ devWorker'.todo = devWorker.todo \ {j}
        /\ devWorker'.state = devWorker.state /\ devWorker'.number = devWorker.number /\ devWorker'.count = devWorker.count
        /\ devWorker'.busy = devWorker.busy /\ devWorker'.asks = devWorker.asks
    BY <1>1, <2>2, <2>3 DEF WorkerType
  <2>5. Running(devWorker') = Running(devWorker) \cup {j}
    <3>1. devWorker.jobs[j] + 1 > 0 /\ j \in ReloadJobs
      BY <1>1
    <3> QED BY <1>1, <2>2, <2>4, <3>1 DEF Running
  <2>6. ~stray => \A i \in ReloadJobs : devWorker'.jobs[i] <= 1
    <3>1. ASSUME ~stray PROVE devWorker.jobs[j] = 0 /\ \A i \in ReloadJobs : devWorker.jobs[i] <= 1
      <4>1. j \notin Running(devWorker) /\ j \in ReloadJobs /\ devWorker.jobs[j] \in Nat
        BY <1>1, <3>1 DEF NotTwice
      <4> QED BY <1>1, <3>1, <4>1 DEF NotTwice
    <3> QED BY <2>2, <2>4, <3>1
  <2> QED BY <1>1, <2>1, <2>4, <2>5, <2>6, WorkerChanges DEF OnlyBegun, WorkerSound, NotTwice
<1>4. CASE WorkerCloses
  <2>1. /\ devWorker' = [devWorker EXCEPT !.state = "closes", !.jobs = NoneRuns] /\ devWorker.state = "runs"
        /\ UNCHANGED <<toClient, toServer, watchVars, fileChanges, begun, over, handedOver, stray>>
        /\ NoneRuns \in [ReloadJobs -> Nat]
    BY <1>4 DEF WorkerCloses, NoneRuns
  <2>2. /\ devWorker' \in WorkerType /\ devWorker'.jobs = NoneRuns /\ devWorker'.todo = devWorker.todo
        /\ devWorker'.state = "closes" /\ devWorker'.number = devWorker.number /\ devWorker'.count = devWorker.count
        /\ devWorker'.busy = devWorker.busy /\ devWorker'.asks = devWorker.asks
    BY <1>1, <2>1 DEF WorkerType
  <2>3. Running(devWorker') = {} /\ \A j \in ReloadJobs : devWorker'.jobs[j] <= 1
    BY <2>2 DEF Running, NoneRuns
  <2> QED BY <1>1, <2>1, <2>2, <2>3, WorkerChanges DEF OnlyBegun, WorkerSound, NotTwice
<1>5. ASSUME NEW j \in ReloadJobs, JobBegins(j) PROVE ReloadInv'
  <2>1. /\ devWorker' = [devWorker EXCEPT !.jobs[j] = 1] /\ devWorker.state = "runs" /\ j \notin begun /\ begun' = begun \cup {j}
        /\ UNCHANGED <<toClient, toServer, watchVars, fileChanges, over, handedOver, stray>>
    BY <1>5 DEF JobBegins
  <2> DEFINE jobs == [devWorker.jobs EXCEPT ![j] = 1]
  <2>2. jobs \in [ReloadJobs -> Nat] /\ jobs[j] = 1 /\ \A i \in ReloadJobs \ {j} : jobs[i] = devWorker.jobs[i]
    BY <1>1
  <2>3. devWorker' = [devWorker EXCEPT !.jobs = jobs]
    BY <1>1, <2>1 DEF WorkerType
  <2> HIDE DEF jobs
  <2>4. /\ devWorker' \in WorkerType /\ devWorker'.jobs = jobs /\ devWorker'.todo = devWorker.todo
        /\ devWorker'.state = devWorker.state /\ devWorker'.number = devWorker.number /\ devWorker'.count = devWorker.count
        /\ devWorker'.busy = devWorker.busy /\ devWorker'.asks = devWorker.asks
    BY <1>1, <2>2, <2>3 DEF WorkerType
  <2>5. Running(devWorker') = Running(devWorker) \cup {j}
    BY <1>1, <2>2, <2>4 DEF Running
  <2>6. ~stray => \A i \in ReloadJobs : devWorker'.jobs[i] <= 1
    BY <1>1, <2>2, <2>4 DEF NotTwice
  <2> QED BY <1>1, <2>1, <2>4, <2>5, <2>6, WorkerChanges DEF OnlyBegun, WorkerSound, NotTwice
<1>6. ASSUME NEW j \in ReloadJobs, JobOver(j) PROVE ReloadInv'
  <2>1. /\ devWorker' = [devWorker EXCEPT !.jobs[j] = 0] /\ over' = over \cup {j}
        /\ UNCHANGED <<toClient, toServer, watchVars, fileChanges, begun, handedOver, stray>>
    BY <1>6 DEF JobOver
  <2> DEFINE jobs == [devWorker.jobs EXCEPT ![j] = 0]
  <2>2. jobs \in [ReloadJobs -> Nat] /\ jobs[j] = 0 /\ \A i \in ReloadJobs \ {j} : jobs[i] = devWorker.jobs[i]
    BY <1>1
  <2>3. devWorker' = [devWorker EXCEPT !.jobs = jobs]
    BY <1>1, <2>1 DEF WorkerType
  <2> HIDE DEF jobs
  <2>4. /\ devWorker' \in WorkerType /\ devWorker'.jobs = jobs /\ devWorker'.todo = devWorker.todo
        /\ devWorker'.state = devWorker.state /\ devWorker'.number = devWorker.number /\ devWorker'.count = devWorker.count
        /\ devWorker'.busy = devWorker.busy /\ devWorker'.asks = devWorker.asks
    BY <1>1, <2>2, <2>3 DEF WorkerType
  <2>5. Running(devWorker') = Running(devWorker) \ {j}
    BY <1>1, <2>2, <2>4 DEF Running
  <2>6. ~stray => \A i \in ReloadJobs : devWorker'.jobs[i] <= 1
    BY <1>1, <2>2, <2>4 DEF NotTwice
  <2> QED BY <1>1, <2>1, <2>4, <2>5, <2>6, WorkerChanges DEF OnlyBegun, WorkerSound, NotTwice
<1> QED BY <1>2, <1>3, <1>4, <1>5, <1>6

\* What the worker adds to the socket is no list of another worker's.
LEMMA SentInOrder ==
    ASSUME ReloadInv, NEW m \in ServerMsg, toServer' = Append(toServer, m),
           m.from = devWorker.number, m.count = devWorker.count, m.jobs \subseteq Running(devWorker),
           UNCHANGED <<watchVars, fileChanges, begun, over, handedOver>>, stray' \in BOOLEAN,
           devWorker' \in WorkerType, devWorker'.number = devWorker.number, devWorker'.count = devWorker.count,
           devWorker'.jobs = devWorker.jobs, devWorker'.todo = devWorker.todo,
           toClient' \in Seq(ClientMsg), \A k \in 1..Len(toClient') : \E i \in 1..Len(toClient) : toClient'[k] = toClient[i]
    PROVE  /\ ReloadShape' /\ Counted' /\ OnlyBegun'
           /\ Running(devWorker') = Running(devWorker) /\ 1..Len(toServer') = 1..Len(toServer) \cup {Len(toServer) + 1}
           /\ \A k \in 1..Len(toServer) : toServer'[k] = toServer[k]
           /\ toServer'[Len(toServer) + 1] = m /\ Len(toServer) \in Nat
           /\ \A k \in 1..Len(toServer) : k < Len(toServer) + 1 /\ k # Len(toServer) + 1
<1>1. ReloadShape /\ Counted /\ OnlyBegun /\ toServer \in Seq(ServerMsg)
  BY DEF ReloadInv, ReloadShape
<1>2. /\ toServer' \in Seq(ServerMsg) /\ Len(toServer) \in Nat
      /\ 1..Len(toServer') = 1..Len(toServer) \cup {Len(toServer) + 1} /\ Len(toServer) + 1 \notin 1..Len(toServer)
      /\ \A k \in 1..Len(toServer) : toServer'[k] = toServer[k] /\ k < Len(toServer) + 1
      /\ toServer'[Len(toServer) + 1] = m
  BY <1>1, AppendAt
<1>3. Running(devWorker') = Running(devWorker)
  BY DEF Running
<1>4. ReloadShape'
  BY <1>1, <1>2 DEF ReloadShape, watchVars
<1>5. Counted'
  <2>1. /\ devWorker.number <= fileChanges /\ (onReload # "idle" => devWorker.number < fileChanges)
        /\ reloadCount <= fileChanges /\ (onReload \in {"asks", "waits"} => reloadCount < fileChanges)
        /\ devWorker.count <= reloadCount /\ devWorker.number <= devWorker.number
    BY <1>1 DEF Counted, ReloadShape, WorkerType, Workers
  <2>2. ASSUME NEW k \in 1..Len(toClient') PROVE toClient'[k].for <= devWorker.number
    BY <1>1 DEF Counted
  <2>3. ASSUME NEW k \in 1..Len(toServer') PROVE toServer'[k].from <= devWorker.number /\ toServer'[k].count <= reloadCount
    BY <1>1, <1>2, <2>1 DEF Counted
  <2> QED BY <2>1, <2>2, <2>3 DEF Counted, watchVars
<1>6. OnlyBegun'
  <2>1. ASSUME NEW k \in 1..Len(toClient') PROVE toClient'[k].jobs \subseteq begun
    BY <1>1 DEF OnlyBegun
  <2>2. ASSUME NEW k \in 1..Len(toServer') PROVE toServer'[k].jobs \subseteq begun
    <3>1. m.jobs \subseteq begun
      BY <1>1 DEF OnlyBegun
    <3> QED BY <1>1, <1>2, <3>1 DEF OnlyBegun
  <2> QED BY <1>1, <1>3, <2>1, <2>2 DEF OnlyBegun, watchVars
<1> QED BY <1>2, <1>3, <1>4, <1>5, <1>6

LEMMA WorkerBootsKeeps == ASSUME ReloadInv, WorkerBoots PROVE ReloadInv'
<1> DEFINE m == [kind |-> "jobs", jobs |-> {}, count |-> devWorker.count, from |-> devWorker.number]
<1>1. /\ ReloadShape /\ WorkerSound /\ (~stray => GivenOnce /\ NotTwice /\ TakenIsOwn)
      /\ devWorker \in WorkerType /\ toClient \in Seq(ClientMsg) /\ stray \in BOOLEAN
  BY DEF ReloadInv, ReloadShape
<1>2. /\ devWorker.state = "down" /\ devWorker.asks /\ devWorker' = [devWorker EXCEPT !.state = "runs", !.asks = FALSE]
      /\ toServer' = Append(toServer, m)
      /\ UNCHANGED <<toClient, watchVars, fileChanges, begun, over, handedOver, stray>>
  BY DEF WorkerBoots, ToServer
<1>3. m \in ServerMsg /\ m.from = devWorker.number /\ m.count = devWorker.count /\ m.jobs = {} /\ m.kind = "jobs"
  BY <1>1 DEF ServerMsg, WorkerType
<1> HIDE DEF m
<1>4. /\ devWorker' \in WorkerType /\ devWorker'.jobs = devWorker.jobs /\ devWorker'.todo = devWorker.todo
      /\ devWorker'.number = devWorker.number /\ devWorker'.count = devWorker.count
      /\ devWorker'.state = "runs" /\ ~devWorker'.asks /\ devWorker'.busy = devWorker.busy
  BY <1>1, <1>2 DEF WorkerType
<1>5. /\ ReloadShape' /\ Counted' /\ OnlyBegun'
      /\ Running(devWorker') = Running(devWorker) /\ 1..Len(toServer') = 1..Len(toServer) \cup {Len(toServer) + 1}
      /\ \A k \in 1..Len(toServer) : toServer'[k] = toServer[k]
      /\ toServer'[Len(toServer) + 1] = m /\ Len(toServer) \in Nat
      /\ \A k \in 1..Len(toServer) : k < Len(toServer) + 1 /\ k # Len(toServer) + 1
  BY <1>1, <1>2, <1>3, <1>4, SentInOrder
<1>6. Running(devWorker') = {} /\ WorkerSound'
  BY <1>1, <1>2, <1>4, <1>5 DEF WorkerSound
<1>7. ASSUME ~stray PROVE GivenOnce' /\ NotTwice' /\ TakenIsOwn' /\ NoneLost'
  <2>1. /\ ~devWorker.busy /\ \A k \in 1..Len(toServer) : toServer[k].from # devWorker.number
        /\ \A k \in 1..Len(toClient) : ~Handover(k)
    BY <1>1, <1>2, <1>7 DEF GivenOnce
  <2>2. \A k \in 1..Len(toClient) : ~Handover(k)'
    BY <1>2, <1>4, <2>1 DEF Handover
  <2>3. \A k \in 1..Len(toServer) : ~Request(k)' /\ toServer'[k].from # devWorker'.number
    BY <1>4, <1>5, <2>1 DEF Request
  <2>4. \E i \in 1..Len(toServer') : Request(i)'
    <3> PICK n \in Nat : n = Len(toServer) + 1
      BY <1>5
    <3>1. Request(n)' /\ n \in 1..Len(toServer')
      BY <1>3, <1>4, <1>5 DEF Request
    <3> QED BY <3>1
  <2>5. GivenOnce'
    <3>1. ASSUME NEW i \in 1..Len(toServer'), Request(i)'
          PROVE  /\ \A k \in 1..Len(toServer') : k # i => ~Request(k)'
                 /\ \A k \in 1..(i - 1) : toServer'[k].from # devWorker'.number
      <4>1. i = Len(toServer) + 1
        BY <1>5, <2>3, <3>1
      <4>2. i - 1 = Len(toServer)
        BY <1>5, <4>1
      <4> QED BY <1>5, <2>3, <4>1, <4>2
    <3> QED BY <1>2, <1>4, <2>1, <2>2, <3>1 DEF GivenOnce
  <2>6. NotTwice'
    <3>1. \A j \in ReloadJobs : devWorker'.jobs[j] <= 1
      BY <1>1, <1>4, <1>7 DEF NotTwice
    <3> QED BY <1>6, <3>1 DEF NotTwice
  <2>7. TakenIsOwn'
    <3>1. ASSUME NEW k \in 1..Len(toServer'), toServer'[k].kind = "active"
          PROVE  k \in 1..Len(toServer) /\ toServer'[k] = toServer[k]
      BY <1>3, <1>5, <3>1
    <3>2. ASSUME NEW k \in 1..Len(toServer'), toServer'[k].kind = "active"
          PROVE  /\ toServer'[k].count = reloadCount => toServer'[k].from = devWorker'.number /\ onReload \in {"asks", "waits"}
                 /\ toServer'[k].from # devWorker'.number
      BY <1>1, <1>4, <1>7, <2>3, <3>1, <3>2 DEF TakenIsOwn
    <3>3. reloadCount' = reloadCount /\ onReload' = onReload /\ activeJobs' = activeJobs /\ handedOver' = handedOver
      BY <1>2 DEF watchVars
    <3>4. \A k \in 1..Len(toClient') : toClient'[k].kind = "active" /\ toClient'[k].for = devWorker'.number
              /\ devWorker'.count = reloadCount => onReload \in {"asks", "waits"}
      BY <1>1, <1>2, <1>4, <1>7 DEF TakenIsOwn
    <3>5. handedOver = activeJobs
      BY <1>1, <1>7 DEF TakenIsOwn
    <3> QED BY <3>2, <3>3, <3>4, <3>5 DEF TakenIsOwn
  <2>8. NoneLost'
    BY <2>4 DEF NoneLost
  <2> QED BY <2>5, <2>6, <2>7, <2>8
<1> QED BY <1>2, <1>5, <1>6, <1>7 DEF ReloadInv

LEMMA TellReloadedKeeps == ASSUME ReloadInv, TellReloaded PROVE ReloadInv'
<1> DEFINE m == [kind |-> "reloaded", jobs |-> {}, count |-> devWorker.count, from |-> devWorker.number]
<1>1. /\ ReloadShape /\ WorkerSound /\ (~stray => GivenOnce /\ NotTwice /\ TakenIsOwn /\ NoneLost)
      /\ devWorker \in WorkerType /\ toClient \in Seq(ClientMsg) /\ stray \in BOOLEAN
  BY DEF ReloadInv, ReloadShape
<1>2. /\ Live /\ devWorker.busy /\ devWorker.todo = {} /\ devWorker' = [devWorker EXCEPT !.busy = FALSE]
      /\ toServer' = Append(toServer, m)
      /\ UNCHANGED <<toClient, watchVars, fileChanges, begun, over, handedOver, stray>>
  BY DEF TellReloaded, ToServer
<1>3. m \in ServerMsg /\ m.from = devWorker.number /\ m.count = devWorker.count /\ m.jobs = {} /\ m.kind = "reloaded"
  BY <1>1 DEF ServerMsg, WorkerType
<1> HIDE DEF m
<1>4. /\ devWorker' \in WorkerType /\ devWorker'.jobs = devWorker.jobs /\ devWorker'.todo = devWorker.todo
      /\ devWorker'.number = devWorker.number /\ devWorker'.count = devWorker.count
      /\ devWorker'.state = devWorker.state /\ devWorker'.asks = devWorker.asks /\ ~devWorker'.busy
  BY <1>1, <1>2 DEF WorkerType
<1>5. /\ ReloadShape' /\ Counted' /\ OnlyBegun'
      /\ Running(devWorker') = Running(devWorker) /\ 1..Len(toServer') = 1..Len(toServer) \cup {Len(toServer) + 1}
      /\ \A k \in 1..Len(toServer) : toServer'[k] = toServer[k]
      /\ toServer'[Len(toServer) + 1] = m /\ Len(toServer) \in Nat
      /\ \A k \in 1..Len(toServer) : k < Len(toServer) + 1 /\ k # Len(toServer) + 1
  BY <1>1, <1>2, <1>3, <1>4, SentInOrder
<1>6. WorkerSound' /\ ~devWorker.asks
  BY <1>1, <1>2, <1>4, <1>5 DEF WorkerSound, Live
<1>7. ASSUME ~stray PROVE GivenOnce' /\ NotTwice' /\ TakenIsOwn' /\ NoneLost'
  <2>1. (\A k \in 1..Len(toServer) : ~Request(k)) /\ \A k \in 1..Len(toClient) : ~Handover(k)
    BY <1>1, <1>2, <1>7 DEF GivenOnce
  <2>2. \A k \in 1..Len(toClient) : ~Handover(k)'
    BY <1>2, <1>4, <2>1 DEF Handover
  <2>3. \A k \in 1..Len(toServer') : ~Request(k)'
    BY <1>3, <1>4, <1>5, <2>1 DEF Request
  <2>4. GivenOnce'
    BY <1>2, <1>4, <1>6, <2>2, <2>3 DEF GivenOnce
  <2>5. NotTwice'
    <3>1. (\A j \in ReloadJobs : devWorker'.jobs[j] <= 1) /\ devWorker'.todo = {}
      BY <1>1, <1>2, <1>4, <1>7 DEF NotTwice
    <3> QED BY <1>2, <2>2, <2>3, <3>1 DEF NotTwice
  <2>6. TakenIsOwn'
    <3>1. ASSUME NEW k \in 1..Len(toServer'), toServer'[k].kind = "active"
          PROVE  /\ toServer'[k].count = reloadCount => toServer'[k].from = devWorker'.number /\ onReload \in {"asks", "waits"}
                 /\ toServer'[k].from = devWorker'.number /\ devWorker'.state = "runs" => toServer'[k].jobs \ over \subseteq Running(devWorker')
      <4>1. k \in 1..Len(toServer) /\ toServer'[k] = toServer[k]
        BY <1>3, <1>5, <3>1
      <4> QED BY <1>1, <1>4, <1>5, <1>7, <3>1, <4>1 DEF TakenIsOwn
    <3>2. reloadCount' = reloadCount /\ onReload' = onReload /\ activeJobs' = activeJobs /\ handedOver' = handedOver /\ over' = over
      BY <1>2 DEF watchVars
    <3>3. \A k \in 1..Len(toClient') : toClient'[k].kind = "active" /\ toClient'[k].for = devWorker'.number
              /\ devWorker'.count = reloadCount => onReload \in {"asks", "waits"}
      BY <1>1, <1>2, <1>4, <1>7 DEF TakenIsOwn
    <3>4. handedOver = activeJobs
      BY <1>1, <1>7 DEF TakenIsOwn
    <3> QED BY <3>1, <3>2, <3>3, <3>4 DEF TakenIsOwn
  <2>7. NoneLost'
    <3>1. devWorker.state = "runs" => \A j \in handedOver \ over : j \in Running(devWorker)
      BY <1>1, <1>2, <1>7, <2>1 DEF NoneLost
    <3> QED BY <1>2, <1>4, <1>5, <3>1 DEF NoneLost
  <2> QED BY <2>4, <2>5, <2>6, <2>7
<1> QED BY <1>2, <1>5, <1>6, <1>7 DEF ReloadInv

\* Only the first message of the client's socket is read.
LEMMA ReadInOrder ==
    ASSUME ReloadInv, toClient # <<>>, toClient' = Tail(toClient)
    PROVE  /\ toClient' \in Seq(ClientMsg) /\ Head(toClient) = toClient[1] /\ Head(toClient) \in ClientMsg
           /\ 1 \in 1..Len(toClient)
           /\ \A k \in 1..Len(toClient') :
                 /\ k + 1 \in 1..Len(toClient) /\ toClient'[k] = toClient[k + 1] /\ k + 1 # 1
                 /\ \A i \in 1..Len(toClient') : i # k => i + 1 # k + 1
           /\ \A k \in 1..Len(toClient) : k # 1 => \E i \in 1..Len(toClient') : toClient'[i] = toClient[k]
<1>1. toClient \in Seq(ClientMsg)
  BY DEF ReloadInv, ReloadShape
<1>2. /\ Tail(toClient) \in Seq(ClientMsg) /\ Len(Tail(toClient)) = Len(toClient) - 1 /\ Len(toClient) \in Nat
      /\ \A k \in 1..Len(Tail(toClient)) : Tail(toClient)[k] = toClient[k + 1]
  BY <1>1, HeadTailProperties, EmptySeq, LenProperties
<1>3. ASSUME NEW k \in 1..Len(toClient), k # 1 PROVE \E i \in 1..Len(toClient') : toClient'[i] = toClient[k]
  <2>1. k - 1 \in 1..Len(toClient') /\ (k - 1) + 1 = k
    BY <1>2, <1>3
  <2> QED BY <1>2, <2>1
<1> QED BY <1>1, <1>3, TailAt

LEMMA WatchClientReadsKeeps == ASSUME ReloadInv, WatchClientReads PROVE ReloadInv'
<1> DEFINE msg == Head(toClient)
           m == [kind |-> "active", jobs |-> Running(devWorker), count |-> devWorker.count, from |-> devWorker.number]
<1>1. /\ ReloadShape /\ Counted /\ OnlyBegun /\ WorkerSound /\ (~stray => GivenOnce /\ NotTwice /\ TakenIsOwn /\ NoneLost)
      /\ devWorker \in WorkerType /\ stray \in BOOLEAN
  BY DEF ReloadInv, ReloadShape
<1>2. /\ Live /\ ~devWorker.busy /\ toClient # <<>> /\ toClient' = Tail(toClient)
      /\ IF msg.kind = "active"
           THEN toServer' = Append(toServer, m) /\ devWorker' = devWorker
           ELSE devWorker' = [devWorker EXCEPT !.todo = msg.jobs, !.busy = TRUE] /\ toServer' = toServer
      /\ stray' = (stray \/ msg.for # devWorker.number)
      /\ UNCHANGED <<watchVars, fileChanges, begun, over, handedOver>>
  BY DEF WatchClientReads, ToServer
<1>3. /\ toClient' \in Seq(ClientMsg) /\ msg = toClient[1] /\ msg \in ClientMsg /\ 1 \in 1..Len(toClient)
      /\ \A k \in 1..Len(toClient') :
            /\ k + 1 \in 1..Len(toClient) /\ toClient'[k] = toClient[k + 1] /\ k + 1 # 1
            /\ \A i \in 1..Len(toClient') : i # k => i + 1 # k + 1
      /\ \A k \in 1..Len(toClient) : k # 1 => \E i \in 1..Len(toClient') : toClient'[i] = toClient[k]
  BY <1>2, ReadInOrder
<1>4. stray' \in BOOLEAN /\ (~stray' => ~stray /\ msg.for = devWorker.number)
  BY <1>1, <1>2
<1>5. ~devWorker.asks /\ devWorker.todo = {} /\ devWorker.state \in {"runs", "closes"}
  BY <1>1, <1>2 DEF WorkerSound, Live
<1> HIDE DEF msg, m
<1>6. \A k \in 1..Len(toClient') : \E i \in 1..Len(toClient) : toClient'[k] = toClient[i]
  BY <1>3
<1>7. reloadCount' = reloadCount /\ onReload' = onReload /\ activeJobs' = activeJobs /\ handedOver' = handedOver /\ over' = over
      /\ fileChanges' = fileChanges /\ begun' = begun
  BY <1>2 DEF watchVars
<1>8. ASSUME ~stray, devWorker'.number = devWorker.number, devWorker'.count = devWorker.count
      PROVE  \A k \in 1..Len(toClient') : toClient'[k].kind = "active" /\ toClient'[k].for = devWorker'.number
                /\ devWorker'.count = reloadCount => onReload \in {"asks", "waits"}
  BY <1>1, <1>6, <1>8 DEF TakenIsOwn
<1>9. CASE msg.kind = "active"
  <2>1. devWorker' = devWorker /\ toServer' = Append(toServer, m)
    BY <1>2, <1>9
  <2>2. /\ m \in ServerMsg /\ m.from = devWorker.number /\ m.count = devWorker.count /\ m.jobs = Running(devWorker)
        /\ m.kind = "active"
    BY <1>1 DEF ServerMsg, WorkerType, m, Running
  <2>3. /\ ReloadShape' /\ Counted' /\ OnlyBegun'
        /\ 1..Len(toServer') = 1..Len(toServer) \cup {Len(toServer) + 1}
        /\ \A k \in 1..Len(toServer) : toServer'[k] = toServer[k]
        /\ toServer'[Len(toServer) + 1] = m /\ Len(toServer) \in Nat
        /\ \A k \in 1..Len(toServer) : k < Len(toServer) + 1 /\ k # Len(toServer) + 1
    BY <1>1, <1>2, <1>3, <1>4, <1>6, <2>1, <2>2, SentInOrder
  <2>4. WorkerSound'
    BY <1>1, <2>1 DEF WorkerSound
  <2>5. ASSUME ~stray' PROVE GivenOnce' /\ NotTwice' /\ TakenIsOwn' /\ NoneLost'
    <3>1. GivenOnce /\ NotTwice /\ TakenIsOwn /\ NoneLost /\ msg.for = devWorker.number
      BY <1>1, <1>4, <2>5
    <3>2. ASSUME NEW k \in 1..Len(toServer'), Request(k)' PROVE k \in 1..Len(toServer) /\ Request(k)
      <4>1. k # Len(toServer) + 1
        BY <2>2, <2>3, <3>2 DEF Request
      <4>2. k \in 1..Len(toServer)
        BY <2>3, <4>1
      <4> QED BY <2>1, <2>3, <3>2, <4>2 DEF Request
    <3>3. ASSUME NEW k \in 1..Len(toClient'), Handover(k)'
          PROVE  k + 1 \in 1..Len(toClient) /\ Handover(k + 1) /\ toClient'[k] = toClient[k + 1]
      BY <1>3, <2>1, <3>3 DEF Handover
    <3>4. GivenOnce'
      <4>1. ASSUME NEW i \in 1..Len(toServer'), Request(i)'
            PROVE  /\ ~devWorker'.busy /\ \A k \in 1..Len(toClient') : ~Handover(k)'
                   /\ \A k \in 1..Len(toServer') : k # i => ~Request(k)'
                   /\ \A k \in 1..(i - 1) : toServer'[k].from # devWorker'.number
        <5>1. i \in 1..Len(toServer) /\ Request(i)
          BY <3>2, <4>1
        <5>2. 1..(i - 1) \subseteq 1..Len(toServer)
          BY <2>3, <5>1
        <5> QED BY <1>2, <2>1, <2>3, <3>1, <3>2, <3>3, <5>1, <5>2 DEF GivenOnce
      <4>2. ASSUME NEW i \in 1..Len(toClient'), Handover(i)'
            PROVE  ~devWorker'.busy /\ \A k \in 1..Len(toClient') : k # i => ~Handover(k)'
        <5>1. i + 1 \in 1..Len(toClient) /\ Handover(i + 1)
          BY <3>3, <4>2
        <5>2. ASSUME NEW k \in 1..Len(toClient'), k # i PROVE ~Handover(k)'
          <6>1. k + 1 # i + 1 /\ k + 1 \in 1..Len(toClient)
            BY <1>3, <5>2
          <6> QED BY <3>1, <3>3, <5>1, <6>1 DEF GivenOnce
        <5> QED BY <1>2, <2>1, <5>2
      <4> QED BY <1>5, <2>1, <4>1, <4>2 DEF GivenOnce
    <3>5. NotTwice'
      <4>1. ASSUME NEW i \in 1..Len(toClient'), Handover(i)' PROVE toClient'[i].jobs \cap Running(devWorker) = {}
        BY <3>1, <3>3, <4>1 DEF NotTwice
      <4>2. ASSUME NEW i \in 1..Len(toServer'), Request(i)' PROVE activeJobs \cap Running(devWorker) = {}
        BY <3>1, <3>2, <4>2 DEF NotTwice
      <4> QED BY <1>7, <2>1, <3>1, <4>1, <4>2 DEF NotTwice
    <3>6. TakenIsOwn'
      <4>1. devWorker.count = reloadCount => onReload \in {"asks", "waits"}
        BY <1>3, <1>9, <3>1 DEF TakenIsOwn
      <4>2. ASSUME NEW k \in 1..Len(toServer'), toServer'[k].kind = "active"
            PROVE  /\ toServer'[k].count = reloadCount => toServer'[k].from = devWorker.number /\ onReload \in {"asks", "waits"}
                   /\ toServer'[k].from = devWorker.number /\ devWorker.state = "runs" => toServer'[k].jobs \ over \subseteq Running(devWorker)
        <5>1. CASE k \in 1..Len(toServer)
          BY <2>3, <3>1, <4>2, <5>1 DEF TakenIsOwn
        <5>2. CASE k = Len(toServer) + 1
          BY <2>2, <2>3, <4>1, <5>2
        <5> QED BY <2>3, <5>1, <5>2
      <4> QED BY <1>4, <1>7, <1>8, <2>1, <2>5, <3>1, <4>2 DEF TakenIsOwn
    <3>7. NoneLost'
      <4>1. ASSUME devWorker.state = "runs", \A i \in 1..Len(toServer') : ~Request(i)', NEW j \in handedOver \ over
            PROVE  \/ j \in Running(devWorker)
                   \/ \E i \in 1..Len(toClient') : Handover(i)' /\ j \in toClient'[i].jobs
        <5>1. ASSUME NEW i \in 1..Len(toServer) PROVE ~Request(i)
          <6>1. ~Request(i)' /\ toServer'[i] = toServer[i]
            BY <2>3, <4>1, <5>1
          <6> QED BY <2>1, <6>1 DEF Request
        <5>2. \/ j \in Running(devWorker)
              \/ \E i \in 1..Len(toClient) : Handover(i) /\ j \in toClient[i].jobs
          BY <1>5, <3>1, <4>1, <5>1 DEF NoneLost
        <5>3. ASSUME NEW i \in 1..Len(toClient), Handover(i), j \in toClient[i].jobs
              PROVE \E k \in 1..Len(toClient') : Handover(k)' /\ j \in toClient'[k].jobs
          <6>1. i # 1
            BY <1>3, <1>9, <5>3 DEF Handover
          <6> PICK k \in 1..Len(toClient') : toClient'[k] = toClient[i]
            BY <1>3, <6>1
          <6>2. Handover(k)' /\ j \in toClient'[k].jobs
            BY <2>1, <5>3 DEF Handover
          <6> QED BY <6>2
        <5> QED BY <5>2, <5>3
      <4> QED BY <1>7, <2>1, <4>1 DEF NoneLost
    <3> QED BY <3>4, <3>5, <3>6, <3>7
  <2> QED BY <2>3, <2>4, <2>5 DEF ReloadInv
<1>10. CASE msg.kind # "active"
  <2>1. devWorker' = [devWorker EXCEPT !.todo = msg.jobs, !.busy = TRUE] /\ toServer' = toServer /\ msg.kind = "jobs"
    BY <1>2, <1>3, <1>10 DEF ClientMsg
  <2>2. /\ devWorker' \in WorkerType /\ devWorker'.jobs = devWorker.jobs /\ devWorker'.todo = msg.jobs
        /\ devWorker'.number = devWorker.number /\ devWorker'.count = devWorker.count
        /\ devWorker'.state = devWorker.state /\ devWorker'.asks = devWorker.asks /\ devWorker'.busy
    BY <1>1, <1>3, <2>1 DEF WorkerType, ClientMsg
  <2>3. Running(devWorker') = Running(devWorker)
    BY <2>2 DEF Running
  <2>4. ReloadShape'
    BY <1>1, <1>2, <1>3, <1>4, <2>1, <2>2 DEF ReloadShape, watchVars
  <2>5. Counted'
    BY <1>1, <1>6, <1>7, <2>1, <2>2 DEF Counted
  <2>6. OnlyBegun'
    BY <1>1, <1>3, <1>6, <1>7, <2>1, <2>2, <2>3 DEF OnlyBegun
  <2>7. WorkerSound'
    BY <1>1, <2>2, <2>3 DEF WorkerSound
  <2>8. ASSUME ~stray' PROVE GivenOnce' /\ NotTwice' /\ TakenIsOwn' /\ NoneLost'
    <3>1. GivenOnce /\ NotTwice /\ TakenIsOwn /\ NoneLost /\ Handover(1)
      BY <1>1, <1>3, <1>4, <2>1, <2>8 DEF Handover
    <3>2. /\ \A k \in 1..Len(toServer) : ~Request(k)
          /\ \A k \in 1..Len(toClient) : k # 1 => ~Handover(k)
      BY <1>3, <3>1 DEF GivenOnce
    <3>3. \A k \in 1..Len(toServer') : ~Request(k)'
      BY <2>1, <2>2, <3>2 DEF Request
    <3>4. \A k \in 1..Len(toClient') : ~Handover(k)'
      <4>1. ASSUME NEW k \in 1..Len(toClient') PROVE ~Handover(k)'
        <5>1. k + 1 \in 1..Len(toClient) /\ k + 1 # 1 /\ toClient'[k] = toClient[k + 1]
          BY <1>3
        <5>2. ~Handover(k + 1)
          BY <3>2, <5>1
        <5> QED BY <2>2, <5>1, <5>2 DEF Handover
      <4> QED BY <4>1
    <3>5. GivenOnce'
      BY <1>5, <2>2, <3>3, <3>4 DEF GivenOnce
    <3>6. NotTwice'
      <4>1. msg.jobs \cap Running(devWorker) = {}
        BY <1>3, <3>1 DEF NotTwice
      <4>2. \A j \in ReloadJobs : devWorker'.jobs[j] <= 1
        BY <2>2, <3>1 DEF NotTwice
      <4> QED BY <2>2, <2>3, <3>3, <3>4, <4>1, <4>2 DEF NotTwice
    <3>7. TakenIsOwn'
      BY <1>4, <1>7, <1>8, <2>1, <2>2, <2>3, <2>8, <3>1 DEF TakenIsOwn
    <3>8. NoneLost'
      <4>1. ASSUME devWorker.state = "runs", NEW j \in handedOver \ over PROVE j \in Running(devWorker) \/ j \in msg.jobs
        <5>1. \/ j \in Running(devWorker)
              \/ \E i \in 1..Len(toClient) : Handover(i) /\ j \in toClient[i].jobs
          BY <1>5, <3>1, <3>2, <4>1 DEF NoneLost
        <5> QED BY <1>3, <3>2, <5>1
      <4> QED BY <1>7, <2>2, <2>3, <4>1 DEF NoneLost
    <3> QED BY <3>5, <3>6, <3>7, <3>8
  <2> QED BY <2>4, <2>5, <2>6, <2>7, <2>8 DEF ReloadInv
<1> QED BY <1>9, <1>10

\* The callback of watchfiles, which asks the worker for its jobs and replaces it.
LEMMA CallbackKeeps ==
    ASSUME ReloadAssumption, ReloadInv, FutureMade \/ ReloadDecided \/ WorkerReplaced PROVE ReloadInv'
<1>1. /\ ReloadShape /\ Counted /\ OnlyBegun /\ WorkerSound /\ (~stray => GivenOnce /\ NotTwice /\ TakenIsOwn /\ NoneLost)
      /\ devWorker \in WorkerType /\ Workers \subseteq Nat /\ reloadCount \in Workers /\ fileChanges \in Workers
      /\ MaxFileChanges \in Nat /\ Workers = 0..MaxFileChanges
      /\ \A k \in 1..Len(toClient) : toClient[k] \in ClientMsg
      /\ \A k \in 1..Len(toServer) : toServer[k] \in ServerMsg
  <2>1. ReloadShape
    BY DEF ReloadInv
  <2>2. (\A k \in 1..Len(toClient) : toClient[k] \in ClientMsg) /\ \A k \in 1..Len(toServer) : toServer[k] \in ServerMsg
    BY <2>1, ElementsType DEF ReloadShape
  <2> QED BY <2>1, <2>2 DEF ReloadInv, ReloadShape, ReloadAssumption, Workers
<1>2. CASE FutureMade
  <2>1. /\ onReload = "asks" /\ onReload' = "waits" /\ jobsFuture' = FALSE
        /\ UNCHANGED <<devWorker, toClient, toServer, activeJobs, workerReloading, reloadCount, fileChanges, begun, over, handedOver, stray>>
    BY <1>2 DEF FutureMade
  <2>2. ReloadShape' /\ Counted' /\ OnlyBegun' /\ WorkerSound'
    BY <1>1, <2>1 DEF ReloadShape, Counted, OnlyBegun, WorkerSound
  <2>3. ~stray => GivenOnce' /\ NotTwice'
    BY <1>1, <2>1 DEF GivenOnce, NotTwice, Request, Handover
  <2>4. ~stray => TakenIsOwn' /\ NoneLost'
    BY <1>1, <2>1 DEF TakenIsOwn, NoneLost, Request, Handover
  <2> QED BY <2>1, <2>2, <2>3, <2>4 DEF ReloadInv
<1>3. CASE ReloadDecided
  <2>1. /\ onReload = "waits" /\ onReload' = "done" /\ reloadCount' = reloadCount + 1
        /\ UNCHANGED <<devWorker, toClient, toServer, activeJobs, workerReloading, jobsFuture, fileChanges, begun, over, handedOver, stray>>
    BY <1>3 DEF ReloadDecided
  <2>2. reloadCount < fileChanges /\ devWorker.count <= reloadCount
    BY <1>1, <2>1 DEF Counted
  <2>3. reloadCount' \in Workers /\ reloadCount' <= fileChanges
    BY <1>1, <2>1, <2>2
  <2>4. ReloadShape' /\ OnlyBegun' /\ WorkerSound'
    BY <1>1, <2>1, <2>3 DEF ReloadShape, OnlyBegun, WorkerSound
  <2>5. \A k \in 1..Len(toServer) : toServer[k].count <= reloadCount' /\ toServer[k].count # reloadCount'
    <3>1. ASSUME NEW k \in 1..Len(toServer) PROVE toServer[k].count <= reloadCount' /\ toServer[k].count # reloadCount'
      <4>1. toServer[k].count \in Nat /\ toServer[k].count <= reloadCount /\ reloadCount \in Nat
        BY <1>1 DEF Counted, ServerMsg
      <4> QED BY <2>1, <4>1
    <3> QED BY <3>1
  <2>6. devWorker.count <= reloadCount' /\ devWorker.count # reloadCount'
    <3>1. devWorker.count \in Nat /\ reloadCount \in Nat
      BY <1>1 DEF WorkerType
    <3> QED BY <2>1, <2>2, <3>1
  <2>7. Counted'
    <3>1. devWorker.number < fileChanges
      BY <1>1, <2>1 DEF Counted
    <3> QED BY <1>1, <2>1, <2>3, <2>5, <2>6, <3>1 DEF Counted
  <2>8. ~stray => GivenOnce' /\ NotTwice'
    BY <1>1, <2>1 DEF GivenOnce, NotTwice, Request, Handover
  <2>9. ~stray => TakenIsOwn'
    BY <1>1, <2>1, <2>5, <2>6 DEF TakenIsOwn
  <2>10. ~stray => NoneLost'
    BY <1>1, <2>1 DEF NoneLost, Request, Handover
  <2> QED BY <2>1, <2>4, <2>7, <2>8, <2>9, <2>10 DEF ReloadInv
<1>4. CASE WorkerReplaced
  <2>1. /\ onReload = "done" /\ onReload' = "idle"
        /\ devWorker' = [number |-> fileChanges, state |-> "down", count |-> reloadCount, jobs |-> NoneRuns,
                        todo |-> {}, busy |-> FALSE, asks |-> TRUE]
        /\ UNCHANGED <<toClient, toServer, activeJobs, workerReloading, reloadCount, jobsFuture, fileChanges, begun, over, handedOver, stray>>
    BY <1>4 DEF WorkerReplaced
  <2>2. devWorker' \in WorkerType /\ Running(devWorker') = {} /\ \A j \in ReloadJobs : devWorker'.jobs[j] <= 1
    BY <1>1, <2>1 DEF WorkerType, Running, NoneRuns
  <2>3. /\ devWorker'.number = fileChanges /\ devWorker'.count = reloadCount /\ devWorker'.state = "down" /\ devWorker'.todo = {}
        /\ ~devWorker'.busy /\ devWorker'.asks
    BY <2>1
  <2>4. devWorker.number < fileChanges /\ reloadCount <= fileChanges /\ devWorker.number \in Nat /\ fileChanges \in Nat /\ reloadCount \in Nat
    BY <1>1, <2>1 DEF Counted, WorkerType
  <2>5. ASSUME NEW k \in 1..Len(toClient) PROVE toClient[k].for <= fileChanges /\ toClient[k].for # fileChanges
    <3>1. toClient[k].for \in Nat /\ toClient[k].for <= devWorker.number
      BY <1>1 DEF Counted, ClientMsg
    <3> QED BY <2>4, <3>1
  <2>6. ASSUME NEW k \in 1..Len(toServer) PROVE toServer[k].from <= fileChanges /\ toServer[k].from # fileChanges
    <3>1. toServer[k].from \in Nat /\ toServer[k].from <= devWorker.number
      BY <1>1 DEF Counted, ServerMsg
    <3> QED BY <2>4, <3>1
  <2>7. ReloadShape' /\ OnlyBegun' /\ WorkerSound'
    BY <1>1, <2>1, <2>2, <2>3 DEF ReloadShape, OnlyBegun, WorkerSound
  <2>8. Counted'
    <3>1. \A k \in 1..Len(toServer) : toServer[k].count <= reloadCount
      BY <1>1 DEF Counted
    <3>2. fileChanges <= fileChanges /\ reloadCount <= reloadCount
      BY <2>4
    <3> QED BY <2>1, <2>3, <2>4, <2>5, <2>6, <3>1, <3>2 DEF Counted
  <2>9. GivenOnce' /\ NotTwice'
    BY <2>1, <2>2, <2>3, <2>5, <2>6 DEF GivenOnce, NotTwice, Request, Handover
  <2>10. ASSUME ~stray PROVE TakenIsOwn'
    <3>1. /\ handedOver = activeJobs
          /\ \A k \in 1..Len(toServer) : toServer[k].kind = "active" => toServer[k].count # reloadCount
      BY <1>1, <2>1, <2>10 DEF TakenIsOwn
    <3> QED BY <2>1, <2>3, <2>5, <2>6, <3>1 DEF TakenIsOwn
  <2>11. NoneLost'
    BY <2>3 DEF NoneLost
  <2> QED BY <2>1, <2>7, <2>8, <2>9, <2>10, <2>11 DEF ReloadInv
<1> QED BY <1>2, <1>3, <1>4

\* What the server adds to the client's socket: a question, or the list for a request that it has read.
LEMMA FileChangedKeeps == ASSUME ReloadAssumption, ReloadInv, FileChanged PROVE ReloadInv'
<1> DEFINE m == Ask(devWorker.number)
<1>1. /\ ReloadShape /\ Counted /\ OnlyBegun /\ WorkerSound /\ (~stray => GivenOnce /\ NotTwice /\ TakenIsOwn /\ NoneLost)
      /\ devWorker \in WorkerType /\ Workers \subseteq Nat /\ reloadCount \in Workers /\ fileChanges \in Workers
      /\ MaxFileChanges \in Nat /\ Workers = 0..MaxFileChanges /\ toClient \in Seq(ClientMsg)
  BY DEF ReloadInv, ReloadShape, ReloadAssumption, Workers
<1>2. /\ onReload = "idle" /\ fileChanges < MaxFileChanges /\ fileChanges' = fileChanges + 1
      /\ workerReloading' = TRUE
      /\ \/ onReload' = "done" /\ toClient' = toClient
         \/ onReload' = "asks" /\ toClient' = Append(toClient, m)
      /\ UNCHANGED <<devWorker, toServer, activeJobs, reloadCount, jobsFuture, begun, over, handedOver, stray>>
  BY DEF FileChanged
<1>3. fileChanges' \in Workers
  BY <1>1, <1>2
<1>4. m \in ClientMsg /\ m.for = devWorker.number /\ m.jobs = {} /\ m.kind = "active"
  BY <1>1 DEF Ask, ClientMsg, WorkerType
<1>5. /\ devWorker.number <= fileChanges' /\ devWorker.number < fileChanges' /\ reloadCount <= fileChanges' /\ reloadCount < fileChanges'
      /\ devWorker.number <= devWorker.number
  <2>1. devWorker.number \in Nat /\ reloadCount \in Nat /\ fileChanges \in Nat /\ devWorker.number <= fileChanges /\ reloadCount <= fileChanges
    BY <1>1 DEF Counted, WorkerType
  <2> QED BY <1>2, <2>1
<1> HIDE DEF m
<1>6. /\ toClient' \in Seq(ClientMsg)
      /\ \A k \in 1..Len(toClient') : (k \in 1..Len(toClient) /\ toClient'[k] = toClient[k]) \/ (toClient'[k] = m /\ onReload' = "asks")
      /\ \A k \in 1..Len(toClient) : k \in 1..Len(toClient') /\ toClient'[k] = toClient[k]
  <2>1. CASE onReload' = "done" /\ toClient' = toClient
    BY <1>1, <2>1
  <2>2. CASE onReload' = "asks" /\ toClient' = Append(toClient, m)
    <3>1. /\ toClient' \in Seq(ClientMsg) /\ 1..Len(toClient') = 1..Len(toClient) \cup {Len(toClient) + 1}
          /\ \A k \in 1..Len(toClient) : toClient'[k] = toClient[k]
          /\ toClient'[Len(toClient) + 1] = m
      BY <1>1, <1>4, <2>2, AppendAt
    <3> QED BY <2>2, <3>1
  <2> QED BY <1>2, <2>1, <2>2
<1>7. ReloadShape' /\ WorkerSound'
  BY <1>1, <1>2, <1>3, <1>6 DEF ReloadShape, WorkerSound
<1>8. Counted' /\ OnlyBegun'
  <2>1. ASSUME NEW k \in 1..Len(toClient') PROVE toClient'[k].for <= devWorker.number /\ toClient'[k].jobs \subseteq begun
    BY <1>1, <1>4, <1>5, <1>6 DEF Counted, OnlyBegun
  <2>2. Counted'
    BY <1>1, <1>2, <1>5, <2>1 DEF Counted
  <2>3. OnlyBegun'
    BY <1>1, <1>2, <2>1 DEF OnlyBegun
  <2> QED BY <2>2, <2>3
<1>9. ASSUME ~stray PROVE GivenOnce' /\ NotTwice' /\ TakenIsOwn' /\ NoneLost'
  <2>1. GivenOnce /\ NotTwice /\ TakenIsOwn /\ NoneLost
    BY <1>1, <1>9
  <2>2. ASSUME NEW k \in 1..Len(toClient'), Handover(k)' PROVE k \in 1..Len(toClient) /\ Handover(k) /\ toClient'[k] = toClient[k]
    BY <1>2, <1>4, <1>6, <2>2 DEF Handover
  <2>3. ASSUME NEW k \in 1..Len(toServer'), Request(k)' PROVE k \in 1..Len(toServer) /\ Request(k)
    BY <1>2, <2>3 DEF Request
  <2>4. GivenOnce'
    BY <1>2, <2>1, <2>2, <2>3 DEF GivenOnce
  <2>5. NotTwice'
    BY <1>2, <2>1, <2>2, <2>3 DEF NotTwice
  <2>6. TakenIsOwn'
    <3>1. ASSUME NEW k \in 1..Len(toServer), toServer[k].kind = "active" PROVE toServer[k].count # reloadCount
      BY <1>2, <2>1, <3>1 DEF TakenIsOwn
    <3>2. ASSUME NEW k \in 1..Len(toClient'), toClient'[k].kind = "active", toClient'[k].for = devWorker.number, devWorker.count = reloadCount
          PROVE  onReload' \in {"asks", "waits"}
      BY <1>2, <1>6, <2>1, <3>2 DEF TakenIsOwn
    <3> QED BY <1>2, <2>1, <3>1, <3>2 DEF TakenIsOwn
  <2>7. NoneLost'
    <3>1. ASSUME NEW k \in 1..Len(toClient), Handover(k) PROVE k \in 1..Len(toClient') /\ Handover(k)' /\ toClient'[k] = toClient[k]
      BY <1>2, <1>6, <3>1 DEF Handover
    <3>2. (\A i \in 1..Len(toServer') : ~Request(i)') => \A i \in 1..Len(toServer) : ~Request(i)
      BY <1>2 DEF Request
    <3> QED BY <1>2, <2>1, <3>1, <3>2 DEF NoneLost
  <2> QED BY <2>4, <2>5, <2>6, <2>7
<1> QED BY <1>2, <1>7, <1>8, <1>9 DEF ReloadInv

\* The server reads the first message: the lists and requests behind it are the same.
LEMMA ServerReadsInOrder ==
    ASSUME ReloadInv, ServerReads
    PROVE  /\ toServer' \in Seq(ServerMsg) /\ Head(toServer) = toServer[1] /\ Head(toServer) \in ServerMsg
           /\ 1 \in 1..Len(toServer) /\ Len(toServer) \in Nat
           /\ \A k \in 1..Len(toServer') : k + 1 \in 1..Len(toServer) /\ toServer'[k] = toServer[k + 1] /\ k + 1 # 1
           /\ \A k \in 1..Len(toServer) : k # 1 => \E i \in 1..Len(toServer') : toServer'[i] = toServer[k]
           /\ \A k \in 1..Len(toServer') : Request(k)' => Request(k + 1)
           /\ ~stray => /\ \A i \in 1..Len(toServer') : Request(i)' =>
                              /\ \A k \in 1..Len(toServer') : k # i => ~Request(k)'
                              /\ \A k \in 1..(i - 1) : toServer'[k].from # devWorker.number
                              /\ toServer[1].from # devWorker.number
<1>1. /\ toServer \in Seq(ServerMsg) /\ toServer # <<>> /\ toServer' = Tail(toServer) /\ devWorker' = devWorker
      /\ ~stray => GivenOnce
  BY DEF ReloadInv, ReloadShape, ServerReads
<1>2. /\ toServer' \in Seq(ServerMsg) /\ Len(toServer') = Len(toServer) - 1 /\ Len(toServer) \in Nat
      /\ \A k \in 1..Len(toServer') : toServer'[k] = toServer[k + 1]
      /\ Head(toServer) = toServer[1] /\ Head(toServer) \in ServerMsg /\ 1 \in 1..Len(toServer)
  <2>1. /\ toServer' \in Seq(ServerMsg) /\ Len(toServer') = Len(toServer) - 1 /\ Len(toServer) \in Nat
        /\ \A k \in 1..Len(toServer') : toServer'[k] = toServer[k + 1]
    BY <1>1, HeadTailProperties, EmptySeq, LenProperties
  <2> QED BY <1>1, <2>1, TailAt
<1>3. ASSUME NEW k \in 1..Len(toServer) PROVE k # 1 => \E i \in 1..Len(toServer') : toServer'[i] = toServer[k]
  <2>1. k # 1 => k - 1 \in 1..Len(toServer') /\ (k - 1) + 1 = k
    BY <1>2
  <2> QED BY <1>2, <2>1
<1>4. ASSUME NEW k \in 1..Len(toServer')
      PROVE  k + 1 \in 1..Len(toServer) /\ toServer'[k] = toServer[k + 1] /\ k + 1 # 1 /\ (Request(k)' => Request(k + 1))
  <2>1. k + 1 \in 1..Len(toServer) /\ k + 1 # 1
    BY <1>2
  <2> QED BY <1>1, <1>2, <2>1 DEF Request
<1>5. ASSUME ~stray, NEW i \in 1..Len(toServer'), Request(i)'
      PROVE  /\ \A k \in 1..Len(toServer') : k # i => ~Request(k)'
             /\ \A k \in 1..(i - 1) : toServer'[k].from # devWorker.number
             /\ toServer[1].from # devWorker.number
  <2>1. /\ i + 1 \in 1..Len(toServer) /\ Request(i + 1)
        /\ \A k \in 1..Len(toServer) : k # i + 1 => ~Request(k)
        /\ \A k \in 1..((i + 1) - 1) : toServer[k].from # devWorker.number
    BY <1>1, <1>4, <1>5 DEF GivenOnce
  <2>2. ASSUME NEW k \in 1..Len(toServer'), k # i PROVE ~Request(k)'
    <3>1. k + 1 # i + 1
      BY <2>2
    <3> QED BY <1>4, <2>1, <3>1
  <2>3. ASSUME NEW k \in 1..(i - 1) PROVE toServer'[k].from # devWorker.number
    <3>1. k + 1 \in 1..((i + 1) - 1) /\ k \in 1..Len(toServer')
      BY <1>2
    <3> QED BY <1>2, <2>1, <3>1
  <2>4. 1 \in 1..((i + 1) - 1)
    BY <1>2
  <2> QED BY <2>1, <2>2, <2>3, <2>4
<1> QED BY <1>2, <1>3, <1>4, <1>5

\* A message that is not a request of the worker, and what it changes of the lists.
LEMMA ServerTakes ==
    ASSUME ReloadInv, ServerReads, UNCHANGED <<toClient, devWorker, reloadCount, onReload, fileChanges, begun, over, stray>>,
           activeJobs' \subseteq begun, handedOver' \subseteq ReloadJobs, {workerReloading', jobsFuture'} \subseteq BOOLEAN,
           ~Request(1),
           ~stray => /\ handedOver' = activeJobs'
                     /\ \/ activeJobs' = activeJobs
                        \/ /\ toServer[1].from = devWorker.number
                           /\ devWorker.state = "runs" => activeJobs' \ over \subseteq Running(devWorker)
    PROVE  ReloadInv'
<1>1. /\ ReloadShape /\ Counted /\ OnlyBegun /\ WorkerSound /\ (~stray => GivenOnce /\ NotTwice /\ TakenIsOwn /\ NoneLost)
      /\ begun \subseteq ReloadJobs
  BY DEF ReloadInv, ReloadShape
<1>2. /\ toServer' \in Seq(ServerMsg)
      /\ \A k \in 1..Len(toServer') : k + 1 \in 1..Len(toServer) /\ toServer'[k] = toServer[k + 1]
      /\ \A k \in 1..Len(toServer) : k # 1 => \E i \in 1..Len(toServer') : toServer'[i] = toServer[k]
      /\ \A k \in 1..Len(toServer') : Request(k)' => Request(k + 1)
      /\ ~stray => /\ \A i \in 1..Len(toServer') : Request(i)' =>
                              /\ \A k \in 1..Len(toServer') : k # i => ~Request(k)'
                              /\ \A k \in 1..(i - 1) : toServer'[k].from # devWorker.number
                              /\ toServer[1].from # devWorker.number
  BY ServerReadsInOrder
<1>3. ReloadShape' /\ WorkerSound'
  BY <1>1, <1>2 DEF ReloadShape, WorkerSound
<1>4. Counted' /\ OnlyBegun'
  <2>1. ASSUME NEW k \in 1..Len(toServer')
        PROVE  toServer'[k].from <= devWorker.number /\ toServer'[k].count <= reloadCount /\ toServer'[k].jobs \subseteq begun
    BY <1>1, <1>2 DEF Counted, OnlyBegun
  <2>2. Counted'
    BY <1>1, <2>1 DEF Counted
  <2>3. OnlyBegun'
    BY <1>1, <2>1 DEF OnlyBegun
  <2> QED BY <2>2, <2>3
<1>5. ASSUME ~stray PROVE GivenOnce' /\ NotTwice' /\ TakenIsOwn' /\ NoneLost'
  <2>1. GivenOnce /\ NotTwice /\ TakenIsOwn /\ NoneLost
    BY <1>1, <1>5
  <2>2. \A k \in 1..Len(toClient') : Handover(k)' <=> Handover(k)
    BY DEF Handover
  <2>3. GivenOnce'
    <3>1. ASSUME devWorker.asks, NEW k \in 1..Len(toServer') PROVE toServer'[k].from # devWorker.number
      <4>1. k + 1 \in 1..Len(toServer) /\ toServer'[k] = toServer[k + 1]
        BY <1>2
      <4>2. \A i \in 1..Len(toServer) : toServer[i].from # devWorker.number
        BY <2>1, <3>1 DEF GivenOnce
      <4> QED BY <4>1, <4>2
    <3>2. ASSUME NEW i \in 1..Len(toServer'), Request(i)'
          PROVE  ~devWorker.busy /\ \A k \in 1..Len(toClient) : ~Handover(k)
      BY <1>2, <2>1, <3>2 DEF GivenOnce
    <3>3. /\ devWorker.asks => ~devWorker.busy /\ \A k \in 1..Len(toClient) : ~Handover(k)
          /\ \A i \in 1..Len(toClient) : Handover(i) =>
                ~devWorker.busy /\ \A k \in 1..Len(toClient) : k # i => ~Handover(k)
      BY <2>1 DEF GivenOnce
    <3> QED BY <1>2, <1>5, <2>2, <3>1, <3>2, <3>3 DEF GivenOnce
  <2>4. NotTwice'
    <3>1. ASSUME NEW i \in 1..Len(toServer'), Request(i)' PROVE activeJobs' \cap Running(devWorker) = {}
      <4>1. activeJobs' = activeJobs
        BY <1>2, <1>5, <3>1
      <4>2. Request(i + 1) /\ i + 1 \in 1..Len(toServer)
        BY <1>2, <3>1
      <4> QED BY <2>1, <4>1, <4>2 DEF NotTwice
    <3>2. /\ \A j \in ReloadJobs : devWorker.jobs[j] <= 1
          /\ devWorker.todo \cap Running(devWorker) = {}
          /\ \A i \in 1..Len(toClient) : Handover(i) => toClient[i].jobs \cap Running(devWorker) = {}
      BY <2>1 DEF NotTwice
    <3> QED BY <2>2, <3>1, <3>2 DEF NotTwice
  <2>5. TakenIsOwn'
    <3>1. ASSUME NEW k \in 1..Len(toServer'), toServer'[k].kind = "active"
          PROVE  /\ toServer'[k].count = reloadCount => toServer'[k].from = devWorker.number /\ onReload \in {"asks", "waits"}
                 /\ toServer'[k].from = devWorker.number /\ devWorker.state = "runs" => toServer'[k].jobs \ over \subseteq Running(devWorker)
      <4>1. k + 1 \in 1..Len(toServer) /\ toServer'[k] = toServer[k + 1]
        BY <1>2
      <4>2. \A i \in 1..Len(toServer) : toServer[i].kind = "active" =>
              /\ toServer[i].count = reloadCount => toServer[i].from = devWorker.number /\ onReload \in {"asks", "waits"}
              /\ toServer[i].from = devWorker.number /\ devWorker.state = "runs" => toServer[i].jobs \ over \subseteq Running(devWorker)
        BY <2>1 DEF TakenIsOwn
      <4> QED BY <3>1, <4>1, <4>2
    <3>2. \A k \in 1..Len(toClient) :
            toClient[k].kind = "active" /\ toClient[k].for = devWorker.number /\ devWorker.count = reloadCount =>
              onReload \in {"asks", "waits"}
      BY <2>1 DEF TakenIsOwn
    <3> QED BY <1>5, <3>1, <3>2 DEF TakenIsOwn
  <2>6. NoneLost'
    <3>1. ASSUME devWorker.state = "runs", \A i \in 1..Len(toServer') : ~Request(i)', NEW j \in handedOver' \ over
          PROVE  \/ j \in Running(devWorker) \/ j \in devWorker.todo
                 \/ \E i \in 1..Len(toClient) : Handover(i) /\ j \in toClient[i].jobs
      <4>1. ASSUME NEW i \in 1..Len(toServer) PROVE ~Request(i)
        <5>1. CASE i = 1
          BY <5>1
        <5>2. CASE i # 1
          <6> PICK k \in 1..Len(toServer') : toServer'[k] = toServer[i]
            BY <1>2, <5>2
          <6>1. ~Request(k)'
            BY <3>1
          <6> QED BY <6>1 DEF Request
        <5> QED BY <5>1, <5>2
      <4>2. CASE activeJobs' = activeJobs
        <5>1. handedOver' = handedOver
          BY <1>5, <2>1, <4>2 DEF TakenIsOwn
        <5> QED BY <2>1, <3>1, <4>1, <5>1 DEF NoneLost
      <4>3. CASE activeJobs' # activeJobs
        BY <1>5, <3>1, <4>3
      <4> QED BY <4>2, <4>3
    <3> QED BY <2>2, <3>1 DEF NoneLost
  <2> QED BY <2>3, <2>4, <2>5, <2>6
<1> QED BY <1>3, <1>4, <1>5 DEF ReloadInv

\* A request is answered with the list.
LEMMA ServerHandsOver ==
    ASSUME ReloadInv, ServerReads, toServer[1].kind = "jobs",
           toClient' = Append(toClient, HandOver(activeJobs, toServer[1].from)),
           UNCHANGED <<watchVars, handedOver, devWorker, fileChanges, begun, over, stray>>
    PROVE  ReloadInv'
<1> DEFINE m == HandOver(activeJobs, toServer[1].from)
<1>1. /\ ReloadShape /\ Counted /\ OnlyBegun /\ WorkerSound /\ (~stray => GivenOnce /\ NotTwice /\ TakenIsOwn /\ NoneLost)
      /\ toClient \in Seq(ClientMsg) /\ activeJobs \subseteq ReloadJobs
      /\ UNCHANGED <<activeJobs, workerReloading, reloadCount, onReload, jobsFuture>>
  BY DEF ReloadInv, ReloadShape, watchVars
<1>2. /\ toServer' \in Seq(ServerMsg) /\ toServer[1] \in ServerMsg /\ 1 \in 1..Len(toServer)
      /\ \A k \in 1..Len(toServer') : k + 1 \in 1..Len(toServer) /\ toServer'[k] = toServer[k + 1] /\ k + 1 # 1
      /\ \A k \in 1..Len(toServer) : k # 1 => \E i \in 1..Len(toServer') : toServer'[i] = toServer[k]
      /\ \A k \in 1..Len(toServer') : Request(k)' => Request(k + 1)
      /\ ~stray => /\ \A i \in 1..Len(toServer') : Request(i)' =>
                              /\ \A k \in 1..Len(toServer') : k # i => ~Request(k)'
                              /\ \A k \in 1..(i - 1) : toServer'[k].from # devWorker.number
                              /\ toServer[1].from # devWorker.number
  BY ServerReadsInOrder
<1>3. m \in ClientMsg /\ m.kind = "jobs" /\ m.jobs = activeJobs /\ m.for = toServer[1].from
  BY <1>1, <1>2 DEF HandOver, ClientMsg, ServerMsg
<1> HIDE DEF m
<1>4. /\ toClient' \in Seq(ClientMsg) /\ 1..Len(toClient') = 1..Len(toClient) \cup {Len(toClient) + 1}
      /\ \A k \in 1..Len(toClient) : toClient'[k] = toClient[k]
      /\ toClient'[Len(toClient) + 1] = m /\ Len(toClient) + 1 \notin 1..Len(toClient)
  BY <1>1, <1>3, AppendAt DEF m
<1>5. ReloadShape' /\ WorkerSound'
  BY <1>1, <1>2, <1>4 DEF ReloadShape, WorkerSound
<1>6. Counted' /\ OnlyBegun'
  <2>1. ASSUME NEW k \in 1..Len(toServer')
        PROVE  toServer'[k].from <= devWorker.number /\ toServer'[k].count <= reloadCount /\ toServer'[k].jobs \subseteq begun
    BY <1>1, <1>2 DEF Counted, OnlyBegun
  <2>2. m.for <= devWorker.number /\ m.jobs \subseteq begun
    BY <1>1, <1>2, <1>3 DEF Counted, OnlyBegun
  <2>3. ASSUME NEW k \in 1..Len(toClient') PROVE toClient'[k].for <= devWorker.number /\ toClient'[k].jobs \subseteq begun
    BY <1>1, <1>4, <2>2 DEF Counted, OnlyBegun
  <2>4. Counted'
    BY <1>1, <2>1, <2>3 DEF Counted
  <2>5. OnlyBegun'
    BY <1>1, <2>1, <2>3 DEF OnlyBegun
  <2> QED BY <2>4, <2>5
<1>7. ASSUME ~stray PROVE GivenOnce' /\ NotTwice' /\ TakenIsOwn' /\ NoneLost'
  <2>1. GivenOnce /\ NotTwice /\ TakenIsOwn /\ NoneLost
    BY <1>1, <1>7
  <2>2. Request(1) <=> m.for = devWorker.number
    BY <1>3 DEF Request
  <2>3. \A k \in 1..Len(toClient) : Handover(k)' <=> Handover(k)
    BY <1>4 DEF Handover
  <2>4. \E n \in 1..Len(toClient') : /\ toClient'[n] = m /\ (Handover(n)' <=> Request(1))
                                     /\ \A k \in 1..Len(toClient') : k # n => k \in 1..Len(toClient) /\ toClient'[k] = toClient[k]
    <3> PICK n \in 1..Len(toClient') : n = Len(toClient) + 1
      BY <1>4
    <3>1. toClient'[n] = m /\ \A k \in 1..Len(toClient') : k # n => k \in 1..Len(toClient)
      BY <1>4
    <3>2. Handover(n)' <=> m.for = devWorker.number
      BY <1>3, <3>1 DEF Handover
    <3> QED BY <1>4, <2>2, <3>1, <3>2
  <2> PICK n \in 1..Len(toClient') : /\ toClient'[n] = m /\ (Handover(n)' <=> Request(1))
                                     /\ \A k \in 1..Len(toClient') : k # n => k \in 1..Len(toClient) /\ toClient'[k] = toClient[k]
    BY <2>4
  <2>5. ASSUME NEW i \in 1..Len(toServer'), Request(i)' PROVE ~Request(1) /\ Request(i + 1) /\ i + 1 \in 1..Len(toServer)
    BY <1>2, <1>7, <2>5 DEF Request
  <2>6. ASSUME NEW k \in 1..Len(toClient'), Handover(k)'
        PROVE  (k = n /\ Request(1)) \/ (k # n /\ k \in 1..Len(toClient) /\ Handover(k) /\ toClient'[k] = toClient[k])
    BY <2>3, <2>6
  <2>7. Request(1) => /\ ~devWorker.busy /\ ~devWorker.asks /\ activeJobs \cap Running(devWorker) = {}
                      /\ \A k \in 1..Len(toClient) : ~Handover(k)
    <3>1. Request(1) => toServer[1].from = devWorker.number
      BY DEF Request
    <3> QED BY <1>2, <2>1, <3>1 DEF GivenOnce, NotTwice
  <2>8. GivenOnce'
    <3>1. devWorker.asks => /\ ~devWorker.busy
                            /\ \A k \in 1..Len(toServer') : toServer'[k].from # devWorker.number
                            /\ \A k \in 1..Len(toClient') : ~Handover(k)'
      <4> SUFFICES ASSUME devWorker.asks
                   PROVE  /\ ~devWorker.busy
                          /\ \A k \in 1..Len(toServer') : toServer'[k].from # devWorker.number
                          /\ \A k \in 1..Len(toClient') : ~Handover(k)'
        OBVIOUS
      <4>1. /\ ~devWorker.busy /\ \A k \in 1..Len(toClient) : ~Handover(k)
            /\ \A i \in 1..Len(toServer) : toServer[i].from # devWorker.number
        BY <2>1 DEF GivenOnce
      <4>2. ASSUME NEW k \in 1..Len(toServer') PROVE toServer'[k].from # devWorker.number
        <5>1. k + 1 \in 1..Len(toServer) /\ toServer'[k] = toServer[k + 1]
          BY <1>2
        <5> QED BY <4>1, <5>1
      <4>3. ASSUME NEW k \in 1..Len(toClient'), Handover(k)' PROVE FALSE
        BY <2>6, <2>7, <4>1, <4>3
      <4> QED BY <4>1, <4>2, <4>3
    <3>2. ASSUME NEW i \in 1..Len(toServer'), Request(i)'
          PROVE  ~devWorker.busy /\ \A k \in 1..Len(toClient') : ~Handover(k)'
      BY <2>1, <2>5, <2>6, <3>2 DEF GivenOnce
    <3>3. ASSUME NEW i \in 1..Len(toClient'), Handover(i)'
          PROVE  ~devWorker.busy /\ \A k \in 1..Len(toClient') : k # i => ~Handover(k)'
      BY <2>1, <2>6, <2>7, <3>3 DEF GivenOnce
    <3> QED BY <1>2, <1>7, <3>1, <3>2, <3>3 DEF GivenOnce
  <2>9. NotTwice'
    <3>1. ASSUME NEW i \in 1..Len(toClient'), Handover(i)' PROVE toClient'[i].jobs \cap Running(devWorker) = {}
      BY <1>3, <2>1, <2>6, <2>7, <3>1 DEF NotTwice
    <3>2. ASSUME NEW i \in 1..Len(toServer'), Request(i)' PROVE activeJobs \cap Running(devWorker) = {}
      BY <2>1, <2>5, <3>2 DEF NotTwice
    <3> QED BY <1>1, <2>1, <3>1, <3>2 DEF NotTwice
  <2>10. TakenIsOwn'
    <3>1. ASSUME NEW k \in 1..Len(toServer'), toServer'[k].kind = "active"
          PROVE  /\ toServer'[k].count = reloadCount => toServer'[k].from = devWorker.number /\ onReload \in {"asks", "waits"}
                 /\ toServer'[k].from = devWorker.number /\ devWorker.state = "runs" => toServer'[k].jobs \ over \subseteq Running(devWorker)
      <4>1. k + 1 \in 1..Len(toServer) /\ toServer'[k] = toServer[k + 1]
        BY <1>2
      <4>2. \A i \in 1..Len(toServer) : toServer[i].kind = "active" =>
              /\ toServer[i].count = reloadCount => toServer[i].from = devWorker.number /\ onReload \in {"asks", "waits"}
              /\ toServer[i].from = devWorker.number /\ devWorker.state = "runs" => toServer[i].jobs \ over \subseteq Running(devWorker)
        BY <2>1 DEF TakenIsOwn
      <4> QED BY <3>1, <4>1, <4>2
    <3>2. ASSUME NEW k \in 1..Len(toClient'), toClient'[k].kind = "active", toClient'[k].for = devWorker.number, devWorker.count = reloadCount
          PROVE  onReload \in {"asks", "waits"}
      <4>1. k # n
        BY <1>3, <3>2
      <4> QED BY <2>1, <3>2, <4>1 DEF TakenIsOwn
    <3> QED BY <1>1, <2>1, <3>1, <3>2 DEF TakenIsOwn
  <2>11. NoneLost'
    <3>1. ASSUME devWorker.state = "runs", \A i \in 1..Len(toServer') : ~Request(i)', NEW j \in handedOver \ over
          PROVE  \/ j \in Running(devWorker) \/ j \in devWorker.todo
                 \/ \E i \in 1..Len(toClient') : Handover(i)' /\ j \in toClient'[i].jobs
      <4>1. CASE Request(1)
        BY <1>3, <2>1, <3>1, <4>1 DEF TakenIsOwn
      <4>2. CASE ~Request(1)
        <5>1. ASSUME NEW i \in 1..Len(toServer) PROVE ~Request(i)
          <6>1. CASE i # 1
            <7> PICK k \in 1..Len(toServer') : toServer'[k] = toServer[i]
              BY <1>2, <6>1
            <7>1. ~Request(k)'
              BY <3>1
            <7> QED BY <7>1 DEF Request
          <6> QED BY <4>2, <6>1
        <5>2. \/ j \in Running(devWorker) \/ j \in devWorker.todo
              \/ \E i \in 1..Len(toClient) : Handover(i) /\ j \in toClient[i].jobs
          BY <2>1, <3>1, <5>1 DEF NoneLost
        <5>3. ASSUME NEW i \in 1..Len(toClient), Handover(i), j \in toClient[i].jobs
              PROVE  \E k \in 1..Len(toClient') : Handover(k)' /\ j \in toClient'[k].jobs
          <6>1. i \in 1..Len(toClient') /\ Handover(i)' /\ j \in toClient'[i].jobs
            BY <1>4, <2>3, <5>3
          <6> QED BY <6>1
        <5> QED BY <5>2, <5>3
      <4> QED BY <4>1, <4>2
    <3> QED BY <3>1 DEF NoneLost
  <2> QED BY <2>8, <2>9, <2>10, <2>11
<1> QED BY <1>5, <1>6, <1>7 DEF ReloadInv

LEMMA ServerReadsKeeps == ASSUME ReloadInv, ServerReads PROVE ReloadInv'
<1> DEFINE msg == Head(toServer)
<1>1. /\ msg = toServer[1] /\ msg \in ServerMsg /\ 1 \in 1..Len(toServer)
      /\ UNCHANGED <<devWorker, reloadCount, onReload, fileChanges, begun, over, stray>>
  BY ServerReadsInOrder DEF ServerReads
<1>2. /\ OnlyBegun /\ (~stray => TakenIsOwn) /\ handedOver \subseteq ReloadJobs /\ {workerReloading, jobsFuture} \subseteq BOOLEAN
  BY DEF ReloadInv, ReloadShape
<1>3. \/ msg.kind = "active" /\ UNCHANGED <<toClient, workerReloading>>
         /\ (IF TakesList(msg) THEN activeJobs' = msg.jobs /\ jobsFuture' = TRUE ELSE UNCHANGED <<activeJobs, jobsFuture>>)
         /\ handedOver' = IF TakesList(msg) /\ onReload \in {"asks", "waits"} THEN msg.jobs ELSE handedOver
      \/ msg.kind = "jobs" /\ toClient' = Append(toClient, HandOver(activeJobs, msg.from))
         /\ UNCHANGED <<activeJobs, jobsFuture, handedOver, workerReloading>>
      \/ msg.kind = "reloaded" /\ workerReloading' = FALSE /\ UNCHANGED <<activeJobs, jobsFuture, handedOver, toClient>>
  BY <1>1 DEF ServerReads, ServerMsg
<1> HIDE DEF msg
<1>4. CASE msg.kind = "active"
  <2>1. /\ UNCHANGED <<toClient, workerReloading>>
        /\ (IF TakesList(msg) THEN activeJobs' = msg.jobs /\ jobsFuture' = TRUE ELSE UNCHANGED <<activeJobs, jobsFuture>>)
        /\ handedOver' = IF TakesList(msg) /\ onReload \in {"asks", "waits"} THEN msg.jobs ELSE handedOver
    BY <1>3, <1>4
  <2>2. activeJobs' \subseteq begun /\ handedOver' \subseteq ReloadJobs /\ {workerReloading', jobsFuture'} \subseteq BOOLEAN
    BY <1>1, <1>2, <2>1 DEF OnlyBegun, ServerMsg
  <2>3. ASSUME ~stray
        PROVE  /\ handedOver' = activeJobs'
               /\ \/ activeJobs' = activeJobs
                  \/ /\ toServer[1].from = devWorker.number
                     /\ devWorker.state = "runs" => activeJobs' \ over \subseteq Running(devWorker)
    <3>1. /\ handedOver = activeJobs
          /\ msg.count = reloadCount => /\ msg.from = devWorker.number /\ onReload \in {"asks", "waits"}
                                        /\ devWorker.state = "runs" => msg.jobs \ over \subseteq Running(devWorker)
      BY <1>1, <1>2, <1>4, <2>3 DEF TakenIsOwn
    <3>2. CASE TakesList(msg)
      <4>1. msg.count = reloadCount
        BY <3>2 DEF TakesList
      <4> QED BY <1>1, <2>1, <3>1, <3>2, <4>1
    <3>3. CASE ~TakesList(msg)
      BY <2>1, <3>1, <3>3
    <3> QED BY <3>2, <3>3
  <2>4. ~Request(1)
    BY <1>1, <1>4 DEF Request
  <2> QED BY <1>1, <2>1, <2>2, <2>3, <2>4, ServerTakes
<1>5. CASE msg.kind = "jobs"
  BY <1>1, <1>3, <1>5, ServerHandsOver DEF watchVars
<1>6. CASE msg.kind = "reloaded"
  <2>1. workerReloading' = FALSE /\ UNCHANGED <<activeJobs, jobsFuture, handedOver, toClient>>
    BY <1>3, <1>6
  <2>2. ~Request(1) /\ activeJobs \subseteq begun /\ (~stray => handedOver = activeJobs)
    BY <1>1, <1>2, <1>6 DEF Request, OnlyBegun, TakenIsOwn
  <2> QED BY <1>1, <1>2, <2>1, <2>2, ServerTakes
<1> QED BY <1>1, <1>4, <1>5, <1>6 DEF ServerMsg

LEMMA ReloadStepKeeps == ASSUME ReloadAssumption, ReloadInv, [ReloadNext]_reloadVars PROVE ReloadInv'
<1>1. CASE UNCHANGED reloadVars
  <2>1. UNCHANGED <<devWorker, toClient, toServer, activeJobs, workerReloading, reloadCount, onReload, jobsFuture,
                    fileChanges, begun, over, handedOver, stray>>
    BY <1>1 DEF reloadVars, watchVars
  <2>2. ReloadShape' /\ Counted' /\ OnlyBegun' /\ WorkerSound'
    BY <2>1 DEF ReloadInv, ReloadShape, Counted, OnlyBegun, WorkerSound
  <2>3. ~stray => GivenOnce' /\ NotTwice' /\ TakenIsOwn'
    BY <2>1 DEF ReloadInv, GivenOnce, NotTwice, TakenIsOwn, Request, Handover
  <2>4. ~stray => NoneLost'
    BY <2>1 DEF ReloadInv, NoneLost, Request, Handover
  <2> QED BY <2>1, <2>2, <2>3, <2>4 DEF ReloadInv
<1> QED
  BY <1>1, WorkerKeeps, WorkerBootsKeeps, TellReloadedKeeps, WatchClientReadsKeeps, CallbackKeeps, FileChangedKeeps,
     ServerReadsKeeps DEF ReloadNext

LEMMA ReloadIsSafe == ReloadInv => ReloadTypeOK /\ JobsSurviveReload /\ RunsOnce
<1> SUFFICES ASSUME ReloadInv PROVE ReloadTypeOK /\ JobsSurviveReload /\ RunsOnce OBVIOUS
<1>1. ReloadShape /\ WorkerSound /\ (~stray => NotTwice /\ NoneLost)
  BY DEF ReloadInv
<1>2. ReloadTypeOK
  <2>1. /\ DOMAIN toClient = 1..Len(toClient) /\ \A k \in 1..Len(toClient) : toClient[k] \in ClientMsg
        /\ DOMAIN toServer = 1..Len(toServer) /\ \A k \in 1..Len(toServer) : toServer[k] \in ServerMsg
    BY <1>1, ElementsType DEF ReloadShape
  <2> QED BY <1>1, <2>1 DEF ReloadShape, ReloadTypeOK, WorkerType, ClientMsg, ServerMsg
<1>3. RunsOnce
  BY <1>1 DEF RunsOnce, NotTwice
<1>4. JobsSurviveReload
  <2> SUFFICES ASSUME ~stray, toServer = <<>>, toClient = <<>>, devWorker.state = "runs", ~devWorker.busy
               PROVE  handedOver \ over \subseteq Running(devWorker)
    BY DEF JobsSurviveReload
  <2>1. 1..Len(toServer) = {} /\ 1..Len(toClient) = {}
    BY EmptySeq
  <2>2. devWorker.todo = {}
    BY <1>1 DEF WorkerSound
  <2> QED BY <1>1, <2>1, <2>2 DEF NoneLost
<1> QED BY <1>2, <1>3, <1>4

(* The context of a job *)

TaskType == [identity : Identities, entrypoint : Entrypoints, join : 1..MaxJoins, done : BOOLEAN]
WaiterType == [state : {"none", "waits", "told"}, identity : Identities \cup {AnyOne}, join : 0..MaxJoins]

ContextShape ==
    /\ connected \in BOOLEAN /\ onPublished = connected
    /\ present \in [Identities -> 0..MaxJoins] /\ joins \in 0..MaxJoins
    /\ published \subseteq Identities /\ subscribed \subseteq Identities
    /\ entrypoints \in Seq(Entrypoints) /\ IsInjective(entrypoints) /\ early \in 0..Len(entrypoints)
    /\ startedTasks \in Seq(TaskType) /\ participantTasks \in [Keys -> Nat]
    /\ waiter \in [Waiters -> WaiterType]

\* The joins are numbered, and no two participants have the same number.
JoinsCounted ==
    /\ \A p \in Identities : present[p] <= joins
    /\ \A p, q \in Identities : present[p] = present[q] /\ present[p] # 0 => p = q
    /\ \A t \in 1..Len(startedTasks) : startedTasks[t].join <= joins

\* Nobody is handed to the same entrypoint twice, and before the job connects nobody is handed to any.
HandedOnce ==
    /\ \A t, u \in 1..Len(startedTasks) :
         startedTasks[t].join = startedTasks[u].join /\ startedTasks[t].entrypoint = startedTasks[u].entrypoint => t = u
    /\ \A t \in 1..Len(startedTasks) : startedTasks[t].entrypoint \in ToSet(entrypoints)
    /\ ~connected => startedTasks = <<>>

\* Who is in the room was handed to the entrypoints there were when the job connected.
Welcomed ==
    connected => \A p \in Identities, k \in 1..early :
        present[p] # 0 => \E t \in 1..Len(startedTasks) :
                             startedTasks[t].join = present[p] /\ startedTasks[t].entrypoint = entrypoints[k]

\* A key that is taken leads to a task of its participant and its entrypoint.
KeysLead ==
    \A k \in Keys : participantTasks[k] # 0 =>
        /\ participantTasks[k] \in 1..Len(startedTasks)
        /\ startedTasks[participantTasks[k]].identity = k[1] /\ startedTasks[participantTasks[k]].entrypoint = k[2]
        /\ Len(entrypoints) <= 1 => ~startedTasks[participantTasks[k]].done

\* Who waits, waits for who is not in the room; and only who is in the room has published.
WaitsForAbsent ==
    /\ \A w \in Waiters, p \in Identities : waiter[w].state = "waits" /\ Matches(w, p) => present[p] = 0
    /\ \A p \in published : present[p] # 0
    /\ connected => subscribed = published
    /\ ~connected => \A w \in Waiters : waiter[w].state # "waits"

\* The inductive invariant of the context.
ContextInv == ContextShape /\ JoinsCounted /\ HandedOnce /\ Welcomed /\ KeysLead /\ WaitsForAbsent

\* The tasks that are started for the participants of a sequence: one for each entrypoint, with a key of its own.
Handed(tasks, who, joined) ==
    /\ startedTasks' = startedTasks \o tasks
    /\ \A t \in 1..Len(tasks) :
         /\ tasks[t].identity \in ToSet(who) /\ tasks[t].entrypoint \in ToSet(entrypoints)
         /\ tasks[t].join = joined[tasks[t].identity] /\ ~tasks[t].done
    /\ \A p \in ToSet(who), e \in ToSet(entrypoints) :
         \E t \in 1..Len(tasks) : tasks[t].identity = p /\ tasks[t].entrypoint = e
    /\ \A t, u \in 1..Len(tasks) :
         tasks[t].identity = tasks[u].identity /\ tasks[t].entrypoint = tasks[u].entrypoint => t = u
    /\ participantTasks' \in [Keys -> Nat]
    /\ \A key \in Keys :
         \/ participantTasks'[key] = participantTasks[key]
         \/ \E t \in 1..Len(tasks) :
              /\ participantTasks'[key] = Len(startedTasks) + t
              /\ tasks[t].identity = key[1] /\ tasks[t].entrypoint = key[2]

\* Who comes is handed to every entrypoint, once, under a key of its own.
LEMMA AvailableTasks ==
    ASSUME ContextShape, NEW who \in Seq(Identities), IsInjective(who), NEW joined,
           \A p \in ToSet(who) : joined[p] \in 1..MaxJoins, Available(who, joined)
    PROVE  \E tasks \in Seq(TaskType) : Handed(tasks, who, joined)
<1> DEFINE task(k, e) == [identity |-> who[k], entrypoint |-> entrypoints[e], join |-> joined[who[k]], done |-> FALSE]
           row(k) == [e \in DOMAIN entrypoints |-> task(k, e)]
           rows == [k \in DOMAIN who |-> row(k)]
           tasks == FlattenSeq(rows)
           NumberOf(key) == CHOOSE t \in DOMAIN tasks : <<tasks[t].identity, tasks[t].entrypoint>> = key
<1>1. /\ startedTasks' = startedTasks \o tasks
      /\ participantTasks' = [key \in Keys |->
              IF key[1] \in ToSet(who) /\ key[2] \in ToSet(entrypoints)
                THEN Len(startedTasks) + NumberOf(key) ELSE participantTasks[key]]
  BY DEF Available
<1>2. /\ DOMAIN who = 1..Len(who) /\ Len(who) \in Nat /\ \A k \in 1..Len(who) : who[k] \in Identities /\ who[k] \in ToSet(who)
      /\ \A a, b \in 1..Len(who) : who[a] = who[b] => a = b
      /\ \A p \in ToSet(who) : \E k \in 1..Len(who) : who[k] = p
  BY ElementsType DEF IsInjective, ToSet
<1>3. /\ entrypoints \in Seq(Entrypoints) /\ DOMAIN entrypoints = 1..Len(entrypoints) /\ Len(entrypoints) \in Nat
      /\ \A e \in 1..Len(entrypoints) : entrypoints[e] \in Entrypoints /\ entrypoints[e] \in ToSet(entrypoints)
      /\ \A a, b \in 1..Len(entrypoints) : entrypoints[a] = entrypoints[b] => a = b
      /\ \A p \in ToSet(entrypoints) : \E k \in 1..Len(entrypoints) : entrypoints[k] = p
  BY ElementsType DEF ContextShape, IsInjective, ToSet
<1>4. \A k \in 1..Len(who), e \in 1..Len(entrypoints) :
        /\ task(k, e) \in TaskType /\ task(k, e).identity = who[k] /\ task(k, e).entrypoint = entrypoints[e]
        /\ task(k, e).join = joined[who[k]] /\ ~task(k, e).done
  BY <1>2, <1>3 DEF TaskType
<1> HIDE DEF task
<1>5. \A k \in 1..Len(who) : /\ row(k) \in Seq(TaskType) /\ Len(row(k)) = Len(entrypoints) /\ DOMAIN row(k) = 1..Len(entrypoints)
                             /\ \A e \in 1..Len(entrypoints) : row(k)[e] = task(k, e)
  <2> SUFFICES ASSUME NEW k \in 1..Len(who)
               PROVE  /\ row(k) \in Seq(TaskType) /\ Len(row(k)) = Len(entrypoints) /\ DOMAIN row(k) = 1..Len(entrypoints)
                      /\ \A e \in 1..Len(entrypoints) : row(k)[e] = task(k, e)
    OBVIOUS
  <2>1. row(k) \in [1..Len(entrypoints) -> TaskType] /\ \A e \in 1..Len(entrypoints) : row(k)[e] = task(k, e)
    BY <1>3, <1>4
  <2> HIDE DEF row
  <2> QED BY <1>3, <2>1, SeqDef, LenProperties
<1> HIDE DEF row
<1>6. rows \in Seq(Seq(TaskType)) /\ Len(rows) = Len(who) /\ \A k \in 1..Len(who) : rows[k] = row(k)
  <2>1. rows \in [1..Len(who) -> Seq(TaskType)] /\ \A k \in 1..Len(who) : rows[k] = row(k)
    BY <1>2, <1>5
  <2> HIDE DEF rows
  <2> QED BY <1>2, <2>1, SeqDef, LenProperties
<1>7. \A k \in 1..Len(who) : \A x : x \in ToSet(row(k)) <=> \E e \in 1..Len(entrypoints) : x = task(k, e)
  BY <1>5 DEF ToSet
<1> HIDE DEF rows
<1>8. \A k \in 1..Len(rows) : IsInjective(rows[k])
  <2> SUFFICES ASSUME NEW k \in 1..Len(who) PROVE IsInjective(row(k))
    BY <1>6
  <2> SUFFICES ASSUME NEW a \in 1..Len(entrypoints), NEW b \in 1..Len(entrypoints), row(k)[a] = row(k)[b] PROVE a = b
    BY <1>5 DEF IsInjective
  <2>1. task(k, a) = task(k, b)
    BY <1>5
  <2>2. entrypoints[a] = entrypoints[b]
    BY <1>4, <2>1
  <2> QED BY <1>3, <2>2
<1>9. ASSUME NEW a \in 1..Len(rows), NEW b \in 1..Len(rows), a # b PROVE ToSet(rows[a]) \cap ToSet(rows[b]) = {}
  <2> SUFFICES ASSUME NEW x \in ToSet(row(a)), x \in ToSet(row(b)) PROVE FALSE
    BY <1>6
  <2>0. a \in 1..Len(who) /\ b \in 1..Len(who)
    BY <1>6
  <2>1. PICK e \in 1..Len(entrypoints) : x = task(a, e)
    BY <1>7, <2>0
  <2>2. PICK f \in 1..Len(entrypoints) : x = task(b, f)
    BY <1>7, <2>0
  <2>3. who[a] = who[b]
    <3>1. task(a, e).identity = task(b, f).identity
      BY <2>1, <2>2
    <3>2. task(a, e).identity = who[a]
      BY <1>4, <2>0
    <3>3. task(b, f).identity = who[b]
      BY <1>4, <2>0
    <3> QED BY <3>1, <3>2, <3>3
  <2> QED BY <1>2, <1>9, <2>0, <2>3
<1>10. /\ tasks \in Seq(TaskType) /\ IsInjective(tasks)
       /\ \A x : x \in ToSet(tasks) <=> \E k \in 1..Len(who), e \in 1..Len(entrypoints) : x = task(k, e)
  <2>1. /\ tasks \in Seq(TaskType) /\ IsInjective(tasks)
        /\ \A x : x \in ToSet(tasks) <=> \E k \in 1..Len(rows) : x \in ToSet(rows[k])
    BY <1>6, <1>8, <1>9, FlattenElements
  <2> HIDE DEF tasks
  <2>2. ASSUME NEW x PROVE x \in ToSet(tasks) <=> \E k \in 1..Len(who), e \in 1..Len(entrypoints) : x = task(k, e)
    <3>1. x \in ToSet(tasks) <=> \E k \in 1..Len(who) : x \in ToSet(row(k))
      BY <1>6, <2>1
    <3> QED BY <1>7, <3>1
  <2> QED BY <2>1, <2>2
<1> HIDE DEF tasks
<1>11. /\ DOMAIN tasks = 1..Len(tasks) /\ Len(tasks) \in Nat
       /\ \A t \in 1..Len(tasks) : tasks[t] \in TaskType /\ tasks[t] \in ToSet(tasks)
       /\ \A t, u \in 1..Len(tasks) : tasks[t] = tasks[u] => t = u
       /\ \A x \in ToSet(tasks) : \E t \in 1..Len(tasks) : tasks[t] = x
  BY <1>10, ElementsType DEF IsInjective, ToSet
<1>12. ASSUME NEW t \in 1..Len(tasks)
       PROVE  \E k \in 1..Len(who), e \in 1..Len(entrypoints) : tasks[t] = task(k, e)
  BY <1>10, <1>11
<1>13. ASSUME NEW t \in 1..Len(tasks)
       PROVE  /\ tasks[t].identity \in ToSet(who) /\ tasks[t].entrypoint \in ToSet(entrypoints)
              /\ tasks[t].join = joined[tasks[t].identity] /\ ~tasks[t].done
  <2> PICK k \in 1..Len(who), e \in 1..Len(entrypoints) : tasks[t] = task(k, e)
    BY <1>12
  <2> QED BY <1>2, <1>3, <1>4
<1>14. ASSUME NEW p \in ToSet(who), NEW e \in ToSet(entrypoints)
       PROVE  \E t \in 1..Len(tasks) : tasks[t].identity = p /\ tasks[t].entrypoint = e
  <2>1. PICK k \in 1..Len(who) : who[k] = p
    BY <1>2
  <2>2. PICK f \in 1..Len(entrypoints) : entrypoints[f] = e
    BY <1>3
  <2>3. task(k, f) \in ToSet(tasks)
    BY <1>10
  <2>4. PICK t \in 1..Len(tasks) : tasks[t] = task(k, f)
    BY <1>11, <2>3
  <2>5. tasks[t].identity = p /\ tasks[t].entrypoint = e
    BY <1>4, <2>1, <2>2, <2>4
  <2> QED BY <2>5
<1>15. ASSUME NEW t \in 1..Len(tasks), NEW u \in 1..Len(tasks),
              tasks[t].identity = tasks[u].identity, tasks[t].entrypoint = tasks[u].entrypoint
       PROVE  t = u
  <2>1. PICK k \in 1..Len(who), e \in 1..Len(entrypoints) : tasks[t] = task(k, e)
    BY <1>12
  <2>2. PICK l \in 1..Len(who), f \in 1..Len(entrypoints) : tasks[u] = task(l, f)
    BY <1>12
  <2>3. k = l /\ e = f
    BY <1>2, <1>3, <1>4, <1>15, <2>1, <2>2
  <2> QED BY <1>11, <2>1, <2>2, <2>3
<1>16. ASSUME NEW key \in Keys, key[1] \in ToSet(who), key[2] \in ToSet(entrypoints)
       PROVE  NumberOf(key) \in 1..Len(tasks) /\ tasks[NumberOf(key)].identity = key[1] /\ tasks[NumberOf(key)].entrypoint = key[2]
  <2>1. PICK t \in 1..Len(tasks) : tasks[t].identity = key[1] /\ tasks[t].entrypoint = key[2]
    BY <1>14, <1>16
  <2>2. key = <<key[1], key[2]>>
    BY DEF Keys
  <2>3. t \in DOMAIN tasks /\ <<tasks[t].identity, tasks[t].entrypoint>> = key
    BY <1>11, <2>1, <2>2
  <2>4. NumberOf(key) \in DOMAIN tasks /\ <<tasks[NumberOf(key)].identity, tasks[NumberOf(key)].entrypoint>> = key
    BY <2>3
  <2> HIDE DEF NumberOf
  <2> QED BY <1>11, <2>2, <2>4
<1> HIDE DEF NumberOf
<1>17. participantTasks \in [Keys -> Nat] /\ Len(startedTasks) \in Nat
  BY LenProperties DEF ContextShape
<1>18. \A key \in Keys : participantTasks'[key] =
          IF key[1] \in ToSet(who) /\ key[2] \in ToSet(entrypoints)
            THEN Len(startedTasks) + NumberOf(key) ELSE participantTasks[key]
  BY <1>1
<1>19. ASSUME NEW key \in Keys
       PROVE  /\ participantTasks'[key] \in Nat
              /\ \/ participantTasks'[key] = participantTasks[key]
                 \/ \E t \in 1..Len(tasks) :
                       /\ participantTasks'[key] = Len(startedTasks) + t
                       /\ tasks[t].identity = key[1] /\ tasks[t].entrypoint = key[2]
  <2>1. CASE key[1] \in ToSet(who) /\ key[2] \in ToSet(entrypoints)
    <3>1. /\ NumberOf(key) \in 1..Len(tasks) /\ tasks[NumberOf(key)].identity = key[1] /\ tasks[NumberOf(key)].entrypoint = key[2]
          /\ participantTasks'[key] = Len(startedTasks) + NumberOf(key)
      BY <1>16, <1>18, <2>1
    <3>2. participantTasks'[key] \in Nat
      BY <1>11, <1>17, <3>1
    <3> QED BY <3>1, <3>2
  <2>2. CASE ~(key[1] \in ToSet(who) /\ key[2] \in ToSet(entrypoints))
    BY <1>17, <1>18, <2>2
  <2> QED BY <2>1, <2>2
<1>20. participantTasks' \in [Keys -> Nat]
  <2>1. DOMAIN participantTasks' = Keys /\ participantTasks' = [key \in Keys |-> participantTasks'[key]]
    BY <1>1
  <2> QED BY <1>19, <2>1
<1> QED BY <1>1, <1>10, <1>13, <1>14, <1>15, <1>19, <1>20 DEF Handed

\* What was started before stays, and who comes is handed to every entrypoint.
Welcome(who, joined) ==
    /\ startedTasks' \in Seq(TaskType) /\ participantTasks' \in [Keys -> Nat]
    /\ HandedOnce' /\ KeysLead'
    /\ \A t \in 1..Len(startedTasks) : t \in 1..Len(startedTasks') /\ startedTasks'[t] = startedTasks[t]
    /\ \A t \in 1..Len(startedTasks') :
         \/ t \in 1..Len(startedTasks) /\ startedTasks'[t] = startedTasks[t]
         \/ \E p \in ToSet(who) : startedTasks'[t].join = joined[p]
    /\ \A p \in ToSet(who), e \in ToSet(entrypoints) :
         \E t \in 1..Len(startedTasks') : startedTasks'[t].join = joined[p] /\ startedTasks'[t].entrypoint = e

\* Who comes with a number of their own is welcomed; what was started before stays.
LEMMA ComersAreWelcomed ==
    ASSUME ContextShape, HandedOnce, KeysLead, NEW who \in Seq(Identities), IsInjective(who), NEW joined,
           \A p \in ToSet(who) : joined[p] \in 1..MaxJoins,
           \A p, q \in ToSet(who) : joined[p] = joined[q] => p = q,
           \A p \in ToSet(who), t \in 1..Len(startedTasks) : startedTasks[t].join # joined[p],
           Available(who, joined), entrypoints' = entrypoints, connected'
    PROVE  Welcome(who, joined)
<1>0. PICK tasks \in Seq(TaskType) : Handed(tasks, who, joined)
  BY AvailableTasks
<1>1. /\ tasks \in Seq(TaskType)
      /\ startedTasks' = startedTasks \o tasks
      /\ \A t \in 1..Len(tasks) :
           /\ tasks[t].identity \in ToSet(who) /\ tasks[t].entrypoint \in ToSet(entrypoints)
           /\ tasks[t].join = joined[tasks[t].identity] /\ ~tasks[t].done
      /\ \A p \in ToSet(who), e \in ToSet(entrypoints) :
           \E t \in 1..Len(tasks) : tasks[t].identity = p /\ tasks[t].entrypoint = e
      /\ \A t, u \in 1..Len(tasks) :
           tasks[t].identity = tasks[u].identity /\ tasks[t].entrypoint = tasks[u].entrypoint => t = u
      /\ participantTasks' \in [Keys -> Nat]
      /\ \A key \in Keys :
           \/ participantTasks'[key] = participantTasks[key]
           \/ \E t \in 1..Len(tasks) :
                /\ participantTasks'[key] = Len(startedTasks) + t
                /\ tasks[t].identity = key[1] /\ tasks[t].entrypoint = key[2]
  BY <1>0 DEF Handed
<1> DEFINE n == Len(startedTasks)
<1>2. /\ startedTasks' \in Seq(TaskType) /\ Len(startedTasks') = n + Len(tasks) /\ n \in Nat /\ Len(tasks) \in Nat
      /\ \A t \in 1..n : startedTasks'[t] = startedTasks[t]
      /\ \A t \in 1..Len(tasks) : n + t \in 1..Len(startedTasks') /\ startedTasks'[n + t] = tasks[t]
  <2>1. startedTasks \in Seq(TaskType)
    BY DEF ContextShape
  <2> QED BY <1>1, <2>1, ConcatElements
<1> HIDE DEF n
<1>3. \A t \in 1..n : t \in 1..Len(startedTasks')
  BY <1>2
<1>4. ASSUME NEW t \in 1..Len(startedTasks')
      PROVE  \/ t \in 1..n /\ startedTasks'[t] = startedTasks[t]
             \/ \E k \in 1..Len(tasks) : t = n + k /\ t \notin 1..n /\ startedTasks'[t] = tasks[k]
  <2>1. CASE t <= n
    <3>1. t \in 1..n
      BY <1>2, <2>1
    <3> QED BY <1>2, <3>1
  <2>2. CASE ~(t <= n)
    <3>1. t - n \in 1..Len(tasks) /\ t = n + (t - n) /\ t \notin 1..n
      BY <1>2, <2>2
    <3>2. startedTasks'[n + (t - n)] = tasks[t - n]
      BY <1>2, <3>1
    <3> QED BY <3>1, <3>2
  <2> QED BY <2>1, <2>2
<1>5. ASSUME NEW t \in 1..Len(startedTasks'), NEW k \in 1..Len(tasks), startedTasks'[t] = tasks[k]
      PROVE  \E p \in ToSet(who) : startedTasks'[t].join = joined[p]
  <2>1. tasks[k].identity \in ToSet(who) /\ tasks[k].join = joined[tasks[k].identity]
    BY <1>1
  <2> QED BY <1>5, <2>1
<1>6. HandedOnce'
  <2>1. ASSUME NEW t \in 1..Len(startedTasks') PROVE startedTasks'[t].entrypoint \in ToSet(entrypoints)
    <3>1. CASE t \in 1..n /\ startedTasks'[t] = startedTasks[t]
      BY <3>1 DEF n, HandedOnce
    <3>2. CASE \E k \in 1..Len(tasks) : t = n + k /\ t \notin 1..n /\ startedTasks'[t] = tasks[k]
      BY <1>1, <3>2
    <3> QED BY <1>4, <3>1, <3>2
  <2>2. ASSUME NEW t \in 1..Len(startedTasks'), NEW u \in 1..Len(startedTasks'),
               startedTasks'[t].join = startedTasks'[u].join, startedTasks'[t].entrypoint = startedTasks'[u].entrypoint
        PROVE  t = u
    <3>1. CASE t \in 1..n /\ u \in 1..n
      <4>1. startedTasks'[t] = startedTasks[t] /\ startedTasks'[u] = startedTasks[u]
        BY <1>2, <3>1
      <4> QED BY <2>2, <3>1, <4>1 DEF n, HandedOnce
    <3>2. ASSUME t \notin 1..n, u \notin 1..n PROVE t = u
      <4>1. PICK k \in 1..Len(tasks) : t = n + k /\ startedTasks'[t] = tasks[k]
        BY <1>4, <3>2
      <4>2. PICK l \in 1..Len(tasks) : u = n + l /\ startedTasks'[u] = tasks[l]
        BY <1>4, <3>2
      <4>3. joined[tasks[k].identity] = joined[tasks[l].identity] /\ tasks[k].entrypoint = tasks[l].entrypoint
        BY <1>1, <2>2, <4>1, <4>2
      <4>4. tasks[k].identity = tasks[l].identity
        <5>1. tasks[k].identity \in ToSet(who) /\ tasks[l].identity \in ToSet(who)
          BY <1>1
        <5> QED BY <4>3, <5>1
      <4>5. k = l
        BY <1>1, <4>3, <4>4
      <4> QED BY <4>1, <4>2, <4>5
    <3>3. ASSUME NEW a \in 1..n, NEW b \in 1..Len(startedTasks'), b \notin 1..n PROVE startedTasks'[a].join # startedTasks'[b].join
      <4>1. PICK k \in 1..Len(tasks) : startedTasks'[b] = tasks[k]
        BY <1>4, <3>3
      <4>2. PICK p \in ToSet(who) : startedTasks'[b].join = joined[p]
        BY <1>5, <4>1
      <4> QED BY <1>2, <3>3, <4>2 DEF n
    <3> QED BY <2>2, <3>1, <3>2, <3>3
  <2> QED BY <2>1, <2>2 DEF HandedOnce
<1>7. KeysLead'
  <2> SUFFICES ASSUME NEW key \in Keys, participantTasks'[key] # 0
               PROVE  /\ participantTasks'[key] \in 1..Len(startedTasks')
                      /\ startedTasks'[participantTasks'[key]].identity = key[1]
                      /\ startedTasks'[participantTasks'[key]].entrypoint = key[2]
                      /\ Len(entrypoints) <= 1 => ~startedTasks'[participantTasks'[key]].done
    BY DEF KeysLead
  <2>1. CASE participantTasks'[key] = participantTasks[key]
    <3>1. /\ participantTasks[key] \in 1..n
          /\ startedTasks[participantTasks[key]].identity = key[1] /\ startedTasks[participantTasks[key]].entrypoint = key[2]
          /\ Len(entrypoints) <= 1 => ~startedTasks[participantTasks[key]].done
      BY <2>1 DEF KeysLead, n
    <3> QED BY <1>2, <1>3, <2>1, <3>1
  <2>2. ASSUME NEW t \in 1..Len(tasks), participantTasks'[key] = n + t,
               tasks[t].identity = key[1], tasks[t].entrypoint = key[2]
        PROVE  /\ participantTasks'[key] \in 1..Len(startedTasks')
               /\ startedTasks'[participantTasks'[key]].identity = key[1]
               /\ startedTasks'[participantTasks'[key]].entrypoint = key[2]
               /\ ~startedTasks'[participantTasks'[key]].done
    BY <1>1, <1>2, <2>2
  <2>3. \/ participantTasks'[key] = participantTasks[key]
        \/ \E t \in 1..Len(tasks) :
              participantTasks'[key] = n + t /\ tasks[t].identity = key[1] /\ tasks[t].entrypoint = key[2]
    BY <1>1 DEF n
  <2> QED BY <2>1, <2>2, <2>3
<1>8. ASSUME NEW p \in ToSet(who), NEW e \in ToSet(entrypoints)
      PROVE  \E t \in 1..Len(startedTasks') : startedTasks'[t].join = joined[p] /\ startedTasks'[t].entrypoint = e
  <2>1. PICK k \in 1..Len(tasks) : tasks[k].identity = p /\ tasks[k].entrypoint = e
    BY <1>1
  <2>2. n + k \in 1..Len(startedTasks') /\ startedTasks'[n + k] = tasks[k] /\ tasks[k].join = joined[p]
    BY <1>1, <1>2, <2>1
  <2> QED BY <2>1, <2>2
<1>9. ASSUME NEW t \in 1..Len(startedTasks')
      PROVE  \/ t \in 1..n /\ startedTasks'[t] = startedTasks[t]
             \/ \E p \in ToSet(who) : startedTasks'[t].join = joined[p]
  BY <1>4, <1>5
<1> QED BY <1>1, <1>2, <1>3, <1>6, <1>7, <1>8, <1>9 DEF n, Welcome

LEMMA ContextInitInv == JobContextAssumption /\ JobContextInit => ContextInv
<1> SUFFICES ASSUME JobContextAssumption, JobContextInit PROVE ContextInv OBVIOUS
<1>1. startedTasks = <<>> /\ entrypoints = <<>> /\ Len(<<>>) = 0 /\ DOMAIN <<>> = {} /\ 1..0 = {}
      /\ <<>> \in Seq(TaskType) /\ <<>> \in Seq(Entrypoints)
  BY DEF JobContextInit
<1>2. IsInjective(entrypoints)
  BY <1>1 DEF IsInjective
<1>3. ContextShape
  <2>1. waiter \in [Waiters -> WaiterType]
    BY DEF JobContextInit, WaiterType, JobContextAssumption
  <2>2. present \in [Identities -> 0..MaxJoins] /\ participantTasks \in [Keys -> Nat] /\ joins \in 0..MaxJoins
    BY DEF JobContextInit, JobContextAssumption
  <2>3. early \in 0..Len(entrypoints)
    BY <1>1 DEF JobContextInit
  <2> QED BY <1>1, <1>2, <2>1, <2>2, <2>3 DEF JobContextInit, ContextShape
<1>4. JoinsCounted /\ HandedOnce /\ Welcomed /\ KeysLead
  BY <1>1 DEF JobContextInit, JoinsCounted, HandedOnce, Welcomed, KeysLead
<1>5. WaitsForAbsent
  BY DEF JobContextInit, WaitsForAbsent
<1> QED BY <1>3, <1>4, <1>5 DEF ContextInv

LEMMA AddParticipantEntrypointKeeps ==
    ASSUME ContextInv, NEW e \in Entrypoints, AddParticipantEntrypoint(e) PROVE ContextInv'
<1>1. /\ ContextShape /\ JoinsCounted /\ HandedOnce /\ Welcomed /\ KeysLead /\ WaitsForAbsent
      /\ e \notin ToSet(entrypoints) /\ entrypoints' = Append(entrypoints, e)
      /\ UNCHANGED <<connected, early, present, published, joins, participantTasks, startedTasks, waiter, onPublished, subscribed>>
  BY DEF ContextInv, AddParticipantEntrypoint
<1>2. /\ entrypoints \in Seq(Entrypoints) /\ IsInjective(entrypoints) /\ early \in 0..Len(entrypoints)
  BY <1>1 DEF ContextShape
<1>3. /\ entrypoints' \in Seq(Entrypoints) /\ IsInjective(entrypoints') /\ ToSet(entrypoints') = ToSet(entrypoints) \cup {e}
      /\ Len(entrypoints') = Len(entrypoints) + 1 /\ Len(entrypoints) \in Nat
      /\ \A k \in 1..Len(entrypoints) : entrypoints'[k] = entrypoints[k]
  BY <1>1, <1>2, AppendElements, AppendProperties, LenProperties
<1>4. ContextShape'
  <2>1. early \in 0..Len(entrypoints')
    BY <1>2, <1>3
  <2> QED BY <1>1, <1>3, <2>1 DEF ContextShape
<1>5. JoinsCounted' /\ HandedOnce' /\ WaitsForAbsent'
  BY <1>1, <1>3 DEF JoinsCounted, HandedOnce, WaitsForAbsent, Matches
<1>6. Welcomed'
  <2>1. \A k \in 1..early : entrypoints'[k] = entrypoints[k]
    BY <1>2, <1>3
  <2> SUFFICES ASSUME connected, NEW p \in Identities, NEW k \in 1..early, present[p] # 0
               PROVE  \E t \in 1..Len(startedTasks) :
                         startedTasks[t].join = present[p] /\ startedTasks[t].entrypoint = entrypoints'[k]
    BY <1>1 DEF Welcomed
  <2>2. \E t \in 1..Len(startedTasks) : startedTasks[t].join = present[p] /\ startedTasks[t].entrypoint = entrypoints[k]
    BY <1>1 DEF Welcomed
  <2> QED BY <2>1, <2>2
<1>7. KeysLead'
  <2>1. Len(entrypoints') <= 1 => Len(entrypoints) <= 1
    BY <1>3
  <2> QED BY <1>1, <2>1 DEF KeysLead
<1> QED BY <1>4, <1>5, <1>6, <1>7 DEF ContextInv

LEMMA ConnectKeeps == ASSUME JobContextAssumption, ContextInv, Connect PROVE ContextInv'
<1>1. /\ ContextShape /\ JoinsCounted /\ HandedOnce /\ Welcomed /\ KeysLead /\ WaitsForAbsent
      /\ ~connected /\ connected' = TRUE /\ early' = Len(entrypoints) /\ Available(InRoom, present)
      /\ onPublished' = TRUE /\ subscribed' = {p \in published : present[p] # 0}
      /\ UNCHANGED <<present, published, joins, entrypoints, waiter>>
  BY DEF ContextInv, Connect
<1>2. /\ present \in [Identities -> 0..MaxJoins] /\ entrypoints \in Seq(Entrypoints) /\ published \subseteq Identities
      /\ joins \in 0..MaxJoins /\ MaxJoins \in Nat
  BY <1>1 DEF ContextShape, JobContextAssumption
<1> DEFINE there == {p \in Identities : present[p] # 0}
<1>3. InRoom \in Seq(Identities) /\ IsInjective(InRoom) /\ ToSet(InRoom) = there
  <2>1. IsFiniteSet(there) /\ there \subseteq Identities
    BY FS_Subset DEF JobContextAssumption
  <2>2. SetToSeq(there) \in Seq(there) /\ IsInjective(SetToSeq(there)) /\ ToSet(SetToSeq(there)) = there
    BY <2>1, SetToSeqElements
  <2>3. Seq(there) \subseteq Seq(Identities)
    BY <2>1, SeqDef
  <2> QED BY <2>2, <2>3 DEF InRoom
<1>4. /\ \A p \in ToSet(InRoom) : p \in Identities /\ present[p] \in 1..MaxJoins
      /\ \A p, q \in ToSet(InRoom) : present[p] = present[q] => p = q
  <2>1. \A p \in there : present[p] \in 0..MaxJoins /\ present[p] # 0
    BY <1>2
  <2>2. \A p \in there : present[p] \in 1..MaxJoins
    BY <1>2, <2>1
  <2> QED BY <1>1, <1>3, <2>2 DEF JoinsCounted
<1>5. startedTasks = <<>> /\ 1..Len(startedTasks) = {}
  BY <1>1, EmptySeq DEF HandedOnce
<1> HIDE DEF there
<1>6. /\ startedTasks' \in Seq(TaskType) /\ participantTasks' \in [Keys -> Nat] /\ HandedOnce' /\ KeysLead'
      /\ \A t \in 1..Len(startedTasks') : \E p \in ToSet(InRoom) : startedTasks'[t].join = present[p]
      /\ \A p \in ToSet(InRoom), e \in ToSet(entrypoints) :
            \E t \in 1..Len(startedTasks') : startedTasks'[t].join = present[p] /\ startedTasks'[t].entrypoint = e
  <2>1. \A p \in ToSet(InRoom), t \in 1..Len(startedTasks) : startedTasks[t].join # present[p]
    BY <1>5
  <2>2. /\ \A p \in ToSet(InRoom) : present[p] \in 1..MaxJoins
        /\ \A p, q \in ToSet(InRoom) : present[p] = present[q] => p = q
    BY <1>4
  <2>3. /\ startedTasks' \in Seq(TaskType) /\ participantTasks' \in [Keys -> Nat]
        /\ HandedOnce' /\ KeysLead'
        /\ \A t \in 1..Len(startedTasks) : t \in 1..Len(startedTasks') /\ startedTasks'[t] = startedTasks[t]
        /\ \A t \in 1..Len(startedTasks') :
             \/ t \in 1..Len(startedTasks) /\ startedTasks'[t] = startedTasks[t]
             \/ \E p \in ToSet(InRoom) : startedTasks'[t].join = present[p]
        /\ \A p \in ToSet(InRoom), e \in ToSet(entrypoints) :
             \E t \in 1..Len(startedTasks') : startedTasks'[t].join = present[p] /\ startedTasks'[t].entrypoint = e
    BY <1>1, <1>3, <2>1, <2>2, ComersAreWelcomed DEF Welcome
  <2> QED BY <1>5, <2>3
<1>7. ContextShape'
  <2>1. early' \in 0..Len(entrypoints)
    BY <1>1, <1>2, LenProperties
  <2> QED BY <1>1, <1>6, <2>1 DEF ContextShape
<1>8. JoinsCounted'
  <2>1. ASSUME NEW t \in 1..Len(startedTasks') PROVE startedTasks'[t].join <= joins
    BY <1>1, <1>4, <1>6 DEF JoinsCounted
  <2> QED BY <1>1, <2>1 DEF JoinsCounted
<1>9. Welcomed'
  <2> SUFFICES ASSUME NEW p \in Identities, NEW k \in 1..early', present[p] # 0
               PROVE  \E t \in 1..Len(startedTasks') :
                         startedTasks'[t].join = present[p] /\ startedTasks'[t].entrypoint = entrypoints[k]
    BY <1>1 DEF Welcomed
  <2>1. p \in ToSet(InRoom)
    BY <1>3 DEF there
  <2>2. entrypoints[k] \in ToSet(entrypoints)
    BY <1>1, <1>2, ElementsType
  <2> QED BY <1>6, <2>1, <2>2
<1>10. WaitsForAbsent'
  BY <1>1 DEF WaitsForAbsent, Matches
<1> QED BY <1>6, <1>7, <1>8, <1>9, <1>10 DEF ContextInv

LEMMA TaskDoneKeeps == ASSUME ContextInv, NEW t \in DOMAIN startedTasks, TaskDone(t) PROVE ContextInv'
<1>1. /\ ContextShape /\ JoinsCounted /\ HandedOnce /\ Welcomed /\ KeysLead /\ WaitsForAbsent
      /\ startedTasks' = [startedTasks EXCEPT ![t].done = TRUE]
      /\ UNCHANGED <<connected, early, present, published, joins, entrypoints, waiter, onPublished, subscribed>>
  BY DEF ContextInv, TaskDone
<1>2. /\ startedTasks \in Seq(TaskType) /\ DOMAIN startedTasks = 1..Len(startedTasks) /\ Len(startedTasks) \in Nat
      /\ participantTasks \in [Keys -> Nat] /\ \A u \in 1..Len(startedTasks) : startedTasks[u] \in TaskType
      /\ startedTasks # <<>> /\ entrypoints \in Seq(Entrypoints)
  BY <1>1, ElementsType DEF ContextShape
<1>3. /\ startedTasks' \in Seq(TaskType) /\ Len(startedTasks') = Len(startedTasks)
      /\ \A u \in 1..Len(startedTasks) :
            /\ startedTasks'[u].identity = startedTasks[u].identity /\ startedTasks'[u].entrypoint = startedTasks[u].entrypoint
            /\ startedTasks'[u].join = startedTasks[u].join
            /\ u # t => startedTasks'[u] = startedTasks[u]
  <2> DEFINE done == [startedTasks[t] EXCEPT !.done = TRUE]
  <2>1. /\ done \in TaskType /\ done.identity = startedTasks[t].identity /\ done.entrypoint = startedTasks[t].entrypoint
        /\ done.join = startedTasks[t].join
    BY <1>2 DEF TaskType
  <2>2. startedTasks' = [startedTasks EXCEPT ![t] = done]
    BY <1>1
  <2> HIDE DEF done
  <2>3. startedTasks' \in Seq(TaskType) /\ Len(startedTasks') = Len(startedTasks)
    BY <1>2, <2>1, <2>2, ExceptSeq
  <2>4. \A u \in 1..Len(startedTasks) : startedTasks'[u] = IF u = t THEN done ELSE startedTasks[u]
    BY <1>2, <2>2
  <2> QED BY <2>1, <2>3, <2>4
<1> DEFINE IsLast(e) == \E u \in DOMAIN startedTasks :
                          /\ startedTasks[u].entrypoint = e /\ startedTasks[u].join = startedTasks[t].join
                          /\ \A v \in DOMAIN startedTasks : startedTasks[v].join = startedTasks[t].join => v <= u
           last == CHOOSE e \in Entrypoints : IsLast(e)
<1>4. participantTasks' = [participantTasks EXCEPT ![<<startedTasks[t].identity, last>>] = 0]
  BY DEF TaskDone
<1>5. last \in Entrypoints /\ IsLast(last)
  <2> DEFINE I == {u \in 1..Len(startedTasks) : startedTasks[u].join = startedTasks[t].join}
  <2>1. I \in SUBSET (1..Len(startedTasks)) /\ I # {}
    BY <1>2
  <2>2. PICK u \in I : \A v \in I : v <= u
    BY <1>2, <2>1, GreatestExists
  <2>3. startedTasks[u].entrypoint \in Entrypoints /\ IsLast(startedTasks[u].entrypoint)
    BY <1>2, <2>2 DEF TaskType
  <2> HIDE DEF IsLast
  <2> QED BY <2>3
<1>6. \E u \in 1..Len(startedTasks) : startedTasks[u].entrypoint = last
  BY <1>2, <1>5
<1> HIDE DEF last, IsLast
<1>7. /\ participantTasks' \in [Keys -> Nat]
      /\ \A k \in Keys : participantTasks'[k] # 0 =>
            participantTasks'[k] = participantTasks[k] /\ k # <<startedTasks[t].identity, last>>
  BY <1>2, <1>4
<1>8. ContextShape'
  BY <1>1, <1>3, <1>7 DEF ContextShape
<1>9. JoinsCounted' /\ HandedOnce'
  <2>1. \A u \in 1..Len(startedTasks') : startedTasks'[u].join <= joins /\ startedTasks'[u].entrypoint \in ToSet(entrypoints)
    BY <1>1, <1>3 DEF JoinsCounted, HandedOnce
  <2>2. ASSUME NEW u \in 1..Len(startedTasks'), NEW v \in 1..Len(startedTasks'),
               startedTasks'[u].join = startedTasks'[v].join, startedTasks'[u].entrypoint = startedTasks'[v].entrypoint
        PROVE  u = v
    BY <1>1, <1>3, <2>2 DEF HandedOnce
  <2>3. connected
    BY <1>1, <1>2 DEF HandedOnce
  <2>4. JoinsCounted'
    BY <1>1, <2>1 DEF JoinsCounted
  <2> QED BY <1>1, <2>1, <2>2, <2>3, <2>4 DEF HandedOnce
<1>10. Welcomed'
  <2> SUFFICES ASSUME connected, NEW p \in Identities, NEW k \in 1..early, present[p] # 0
               PROVE  \E u \in 1..Len(startedTasks') :
                         startedTasks'[u].join = present[p] /\ startedTasks'[u].entrypoint = entrypoints[k]
    BY <1>1 DEF Welcomed
  <2> PICK u \in 1..Len(startedTasks) : startedTasks[u].join = present[p] /\ startedTasks[u].entrypoint = entrypoints[k]
    BY <1>1 DEF Welcomed
  <2>1. u \in 1..Len(startedTasks') /\ startedTasks'[u].join = present[p] /\ startedTasks'[u].entrypoint = entrypoints[k]
    BY <1>3
  <2> QED BY <2>1
<1>11. KeysLead'
  <2> SUFFICES ASSUME NEW k \in Keys, participantTasks'[k] # 0
               PROVE  /\ participantTasks'[k] \in 1..Len(startedTasks')
                      /\ startedTasks'[participantTasks'[k]].identity = k[1]
                      /\ startedTasks'[participantTasks'[k]].entrypoint = k[2]
                      /\ Len(entrypoints) <= 1 => ~startedTasks'[participantTasks'[k]].done
    BY <1>1 DEF KeysLead
  <2> DEFINE u == participantTasks[k]
  <2>1. /\ participantTasks'[k] = u /\ k # <<startedTasks[t].identity, last>> /\ u \in 1..Len(startedTasks)
        /\ startedTasks[u].identity = k[1] /\ startedTasks[u].entrypoint = k[2]
        /\ Len(entrypoints) <= 1 => ~startedTasks[u].done
    BY <1>1, <1>7 DEF KeysLead
  <2>2. ASSUME Len(entrypoints) <= 1 PROVE u # t
    <3>1. /\ \A a \in 1..Len(startedTasks) : startedTasks[a].entrypoint \in ToSet(entrypoints)
          /\ DOMAIN entrypoints = 1..Len(entrypoints) /\ Len(entrypoints) \in Nat
      BY <1>1, <1>2, LenProperties DEF HandedOnce
    <3>2. \A x, y \in ToSet(entrypoints) : x = y
      <4>1. \A a, b \in 1..Len(entrypoints) : a = b
        BY <2>2, <3>1
      <4> QED BY <3>1, <4>1 DEF ToSet
    <3>3. startedTasks[t].entrypoint = last
      BY <1>2, <1>6, <3>1, <3>2
    <3>4. k = <<k[1], k[2]>>
      BY DEF Keys
    <3> QED BY <2>1, <3>3, <3>4
  <2> HIDE DEF u
  <2>3. u # t => startedTasks'[u] = startedTasks[u]
    BY <1>3, <2>1
  <2> QED BY <1>3, <2>1, <2>2, <2>3
<1>12. WaitsForAbsent'
  BY <1>1 DEF WaitsForAbsent, Matches
<1> QED BY <1>8, <1>9, <1>10, <1>11, <1>12 DEF ContextInv

LEMMA WaitForParticipantKeeps ==
    ASSUME JobContextAssumption, ContextInv, NEW w \in Waiters, NEW identity \in Identities \cup {AnyOne}, WaitForParticipant(w, identity)
    PROVE  ContextInv'
<1> DEFINE there == {p \in Identities : present[p] # 0 /\ identity \in {AnyOne, p}}
           wait == IF there = {} THEN [state |-> "waits", identity |-> identity, join |-> 0]
                   ELSE [state |-> "told", identity |-> identity, join |-> present[CHOOSE p \in there : TRUE]]
<1>1. /\ ContextShape /\ JoinsCounted /\ HandedOnce /\ Welcomed /\ KeysLead /\ WaitsForAbsent
      /\ connected /\ waiter' = [waiter EXCEPT ![w] = wait]
      /\ UNCHANGED <<connected, early, present, published, joins, entrypoints, participantTasks, startedTasks, onPublished, subscribed>>
  BY DEF ContextInv, WaitForParticipant
<1>2. /\ waiter \in [Waiters -> WaiterType] /\ present \in [Identities -> 0..MaxJoins] /\ joins \in 0..MaxJoins
  BY <1>1 DEF ContextShape
<1>3. wait \in WaiterType /\ wait.identity = identity /\ (wait.state = "waits" => there = {})
  <2>1. CASE there = {}
    BY <1>2, <2>1 DEF WaiterType, JobContextAssumption
  <2>2. CASE there # {}
    <3>1. (CHOOSE p \in there : TRUE) \in Identities
      BY <2>2
    <3>2. present[CHOOSE p \in there : TRUE] \in 0..MaxJoins
      BY <1>2, <3>1
    <3> HIDE DEF there
    <3> QED BY <2>2, <3>2 DEF WaiterType
  <2> QED BY <2>1, <2>2
<1> HIDE DEF wait
<1>4. waiter' \in [Waiters -> WaiterType] /\ waiter'[w] = wait /\ \A v \in Waiters \ {w} : waiter'[v] = waiter[v]
  BY <1>1, <1>2, <1>3
<1>5. ContextShape'
  BY <1>1, <1>4 DEF ContextShape
<1>6. JoinsCounted' /\ HandedOnce' /\ Welcomed' /\ KeysLead'
  BY <1>1 DEF JoinsCounted, HandedOnce, Welcomed, KeysLead
<1>7. WaitsForAbsent'
  <2>1. ASSUME NEW v \in Waiters, NEW p \in Identities, waiter'[v].state = "waits", waiter'[v].identity \in {AnyOne, p}
        PROVE  present[p] = 0
    <3>1. CASE v = w
      BY <1>3, <1>4, <2>1, <3>1
    <3>2. CASE v # w
      BY <1>1, <1>4, <2>1, <3>2 DEF WaitsForAbsent, Matches
    <3> QED BY <3>1, <3>2
  <2> QED BY <1>1, <2>1 DEF WaitsForAbsent, Matches
<1> QED BY <1>5, <1>6, <1>7 DEF ContextInv

LEMMA JoinsKeeps == ASSUME JobContextAssumption, ContextInv, NEW p \in Identities, Joins(p) PROVE ContextInv'
<1>1. /\ ContextShape /\ JoinsCounted /\ HandedOnce /\ Welcomed /\ KeysLead /\ WaitsForAbsent
      /\ present[p] = 0 /\ joins < MaxJoins /\ joins' = joins + 1 /\ present' = [present EXCEPT ![p] = joins + 1]
      /\ UNCHANGED <<connected, early, published, entrypoints, onPublished, subscribed>>
  BY DEF ContextInv, Joins
<1>2. /\ present \in [Identities -> 0..MaxJoins] /\ joins \in 0..MaxJoins /\ MaxJoins \in Nat /\ published \subseteq Identities
      /\ waiter \in [Waiters -> WaiterType] /\ connected \in BOOLEAN /\ early \in 0..Len(entrypoints)
      /\ entrypoints \in Seq(Entrypoints)
  BY <1>1 DEF ContextShape, JobContextAssumption
<1>3. /\ joins' \in 0..MaxJoins /\ joins' \in 1..MaxJoins /\ joins' # 0
      /\ present' \in [Identities -> 0..MaxJoins] /\ present'[p] = joins'
      /\ \A q \in Identities : q # p => present'[q] = present[q]
      /\ \A q \in Identities : present[q] # joins' /\ present[q] <= joins' /\ present'[q] <= joins'
  <2>1. joins' \in 1..MaxJoins /\ joins' = joins + 1 /\ joins \in Nat
    BY <1>1, <1>2
  <2>2. present' \in [Identities -> 0..MaxJoins] /\ present'[p] = joins' /\ \A q \in Identities : q # p => present'[q] = present[q]
    BY <1>1, <1>2, <2>1
  <2>3. ASSUME NEW q \in Identities PROVE present[q] # joins' /\ present[q] <= joins' /\ present'[q] <= joins'
    <3>1. present[q] <= joins /\ present[q] \in 0..MaxJoins
      BY <1>1, <1>2 DEF JoinsCounted
    <3>2. present[q] # joins' /\ present[q] <= joins'
      BY <1>2, <2>1, <3>1
    <3>3. joins' <= joins'
      BY <2>1
    <3> QED BY <2>2, <3>2, <3>3
  <2> QED BY <2>1, <2>2, <2>3
<1>4. \A t \in 1..Len(startedTasks) : startedTasks[t].join # joins' /\ startedTasks[t].join <= joins'
  <2> SUFFICES ASSUME NEW t \in 1..Len(startedTasks) PROVE startedTasks[t].join # joins' /\ startedTasks[t].join <= joins'
    OBVIOUS
  <2>1. startedTasks[t].join <= joins /\ startedTasks[t].join \in 1..MaxJoins
    <3>1. startedTasks \in Seq(TaskType)
      BY <1>1 DEF ContextShape
    <3>2. startedTasks[t] \in TaskType
      BY <3>1, ElementsType
    <3> QED BY <1>1, <3>2 DEF JoinsCounted, TaskType
  <2> QED BY <1>1, <1>2, <2>1
<1>5. \A q, r \in Identities : present'[q] = present'[r] /\ present'[q] # 0 => q = r
  <2> SUFFICES ASSUME NEW q \in Identities, NEW r \in Identities, present'[q] = present'[r], present'[q] # 0 PROVE q = r
    OBVIOUS
  <2>1. CASE q # p /\ r # p
    BY <1>1, <1>3, <2>1 DEF JoinsCounted
  <2>2. CASE q = p \/ r = p
    BY <1>3, <2>2
  <2> QED BY <2>1, <2>2
<1>6. CASE ~connected
  <2>1. UNCHANGED <<participantTasks, startedTasks, waiter>>
    BY <1>6 DEF Joins
  <2>2. ContextShape'
    BY <1>1, <1>3, <2>1 DEF ContextShape
  <2>3. JoinsCounted'
    BY <1>3, <1>4, <1>5, <2>1 DEF JoinsCounted
  <2>4. HandedOnce' /\ Welcomed' /\ KeysLead'
    BY <1>1, <1>6, <2>1 DEF HandedOnce, Welcomed, KeysLead
  <2>5. WaitsForAbsent'
    <3>1. \A w \in Waiters : waiter[w].state # "waits"
      BY <1>1, <1>6 DEF WaitsForAbsent
    <3>2. \A q \in published : present'[q] # 0
      BY <1>1, <1>2, <1>3 DEF WaitsForAbsent
    <3> QED BY <1>1, <1>6, <2>1, <3>1, <3>2 DEF WaitsForAbsent, Matches
  <2> QED BY <2>2, <2>3, <2>4, <2>5 DEF ContextInv
<1>7. CASE connected
  <2>1. /\ Available(<<p>>, present')
        /\ waiter' = [w \in Waiters |->
                    IF waiter[w].state = "waits" /\ Matches(w, p)
                      THEN [waiter[w] EXCEPT !.state = "told", !.join = joins + 1] ELSE waiter[w]]
    BY <1>7 DEF Joins
  <2>2. <<p>> \in Seq(Identities) /\ IsInjective(<<p>>) /\ ToSet(<<p>>) = {p}
    BY DEF IsInjective, ToSet
  <2>3. /\ startedTasks' \in Seq(TaskType) /\ participantTasks' \in [Keys -> Nat] /\ HandedOnce' /\ KeysLead'
        /\ \A t \in 1..Len(startedTasks) : t \in 1..Len(startedTasks') /\ startedTasks'[t] = startedTasks[t]
        /\ \A t \in 1..Len(startedTasks') :
             \/ t \in 1..Len(startedTasks) /\ startedTasks'[t] = startedTasks[t]
             \/ startedTasks'[t].join = joins'
        /\ \A e \in ToSet(entrypoints) :
             \E t \in 1..Len(startedTasks') : startedTasks'[t].join = joins' /\ startedTasks'[t].entrypoint = e
    <3> PICK who : who = <<p>>
      OBVIOUS
    <3>0. who \in Seq(Identities) /\ IsInjective(who) /\ ToSet(who) = {p}
      BY <2>2
    <3> PICK joined : joined = present'
      OBVIOUS
    <3>1. /\ \A q \in ToSet(who) : joined[q] \in 1..MaxJoins
          /\ \A q, r \in ToSet(who) : joined[q] = joined[r] => q = r
          /\ \A q \in ToSet(who), t \in 1..Len(startedTasks) : startedTasks[t].join # joined[q]
      <4>1. \A q \in ToSet(who) : joined[q] = joins'
        BY <1>3, <3>0
      <4> QED BY <1>3, <1>4, <3>0, <4>1
    <3>2. entrypoints' = entrypoints /\ connected'
      BY <1>1, <1>7
    <3>3. /\ startedTasks' \in Seq(TaskType) /\ participantTasks' \in [Keys -> Nat]
          /\ HandedOnce' /\ KeysLead'
          /\ \A t \in 1..Len(startedTasks) : t \in 1..Len(startedTasks') /\ startedTasks'[t] = startedTasks[t]
          /\ \A t \in 1..Len(startedTasks') :
               \/ t \in 1..Len(startedTasks) /\ startedTasks'[t] = startedTasks[t]
               \/ \E q \in ToSet(who) : startedTasks'[t].join = joined[q]
          /\ \A q \in ToSet(who), e \in ToSet(entrypoints) :
               \E t \in 1..Len(startedTasks') : startedTasks'[t].join = joined[q] /\ startedTasks'[t].entrypoint = e
      <4>1. Available(who, joined)
        BY <2>1
      <4>2. ContextShape /\ HandedOnce /\ KeysLead
        BY <1>1
      <4>3. Welcome(who, joined)
        BY <3>0, <3>1, <3>2, <4>1, <4>2, ComersAreWelcomed
      <4> QED BY <4>3 DEF Welcome
    <3> QED BY <1>3, <3>0, <3>3
  <2>4. /\ \A w \in Waiters : waiter'[w] \in WaiterType
        /\ \A w \in Waiters : waiter'[w].state = "waits" => waiter'[w] = waiter[w] /\ ~Matches(w, p)
    <3> SUFFICES ASSUME NEW w \in Waiters
                 PROVE  waiter'[w] \in WaiterType /\ (waiter'[w].state = "waits" => waiter'[w] = waiter[w] /\ ~Matches(w, p))
      OBVIOUS
    <3>1. waiter[w] \in WaiterType
      BY <1>2
    <3>2. CASE waiter[w].state = "waits" /\ Matches(w, p)
      <4>1. waiter'[w] = [waiter[w] EXCEPT !.state = "told", !.join = joins']
        BY <1>1, <2>1, <3>2
      <4> QED BY <1>3, <3>1, <4>1 DEF WaiterType
    <3>3. CASE ~(waiter[w].state = "waits" /\ Matches(w, p))
      <4>1. waiter'[w] = waiter[w]
        BY <2>1, <3>3
      <4> QED BY <3>1, <3>3, <4>1
    <3> QED BY <3>2, <3>3
  <2>5. ContextShape'
    <3>1. waiter' \in [Waiters -> WaiterType]
      BY <2>1, <2>4
    <3> QED BY <1>1, <1>3, <2>3, <3>1 DEF ContextShape
  <2>6. JoinsCounted'
    <3>1. ASSUME NEW t \in 1..Len(startedTasks') PROVE startedTasks'[t].join <= joins'
      <4>1. joins' <= joins'
        BY <1>3
      <4> QED BY <1>4, <2>3, <4>1
    <3> QED BY <1>3, <1>5, <3>1 DEF JoinsCounted
  <2>7. Welcomed'
    <3> SUFFICES ASSUME NEW q \in Identities, NEW k \in 1..early, present'[q] # 0
                 PROVE  \E t \in 1..Len(startedTasks') :
                           startedTasks'[t].join = present'[q] /\ startedTasks'[t].entrypoint = entrypoints[k]
      BY <1>1 DEF Welcomed
    <3>1. CASE q = p
      <4>1. entrypoints[k] \in ToSet(entrypoints)
        <5>1. k \in 1..Len(entrypoints)
          BY <1>2, LenProperties
        <5> QED BY <1>2, <5>1, ElementsType
      <4> QED BY <1>3, <2>3, <3>1, <4>1
    <3>2. CASE q # p
      <4>1. present'[q] = present[q]
        BY <1>3, <3>2
      <4> PICK t \in 1..Len(startedTasks) : startedTasks[t].join = present[q] /\ startedTasks[t].entrypoint = entrypoints[k]
        BY <1>1, <1>7, <4>1 DEF Welcomed
      <4>2. t \in 1..Len(startedTasks') /\ startedTasks'[t] = startedTasks[t]
        BY <2>3
      <4> QED BY <4>1, <4>2
    <3> QED BY <3>1, <3>2
  <2>8. WaitsForAbsent'
    <3>1. ASSUME NEW w \in Waiters, NEW q \in Identities, waiter'[w].state = "waits", waiter'[w].identity \in {AnyOne, q}
          PROVE  present'[q] = 0
      <4>1. waiter'[w] = waiter[w] /\ ~Matches(w, p)
        BY <2>4, <3>1
      <4>2. q # p /\ present[q] = 0
        BY <1>1, <3>1, <4>1 DEF WaitsForAbsent, Matches
      <4> QED BY <1>3, <4>2
    <3>2. \A q \in published : present'[q] # 0
      BY <1>1, <1>2, <1>3 DEF WaitsForAbsent
    <3> QED BY <1>1, <1>7, <3>1, <3>2 DEF WaitsForAbsent, Matches
  <2> QED BY <2>3, <2>5, <2>6, <2>7, <2>8 DEF ContextInv
<1> QED BY <1>2, <1>6, <1>7

LEMMA RoomKeeps == ASSUME JobContextAssumption, ContextInv, NEW p \in Identities, Leaves(p) \/ TrackPublished(p) PROVE ContextInv'
<1>1. /\ ContextShape /\ JoinsCounted /\ HandedOnce /\ Welcomed /\ KeysLead /\ WaitsForAbsent
      /\ UNCHANGED <<connected, early, joins, entrypoints, participantTasks, startedTasks, waiter, onPublished>>
  BY DEF ContextInv, Leaves, TrackPublished
<1>2. /\ present \in [Identities -> 0..MaxJoins] /\ published \subseteq Identities /\ subscribed \subseteq Identities
      /\ connected \in BOOLEAN /\ onPublished = connected
  BY <1>1 DEF ContextShape
<1>3. /\ \A q \in Identities : present'[q] = present[q] \/ present'[q] = 0
      /\ present' \in [Identities -> 0..MaxJoins] /\ published' \subseteq Identities /\ subscribed' \subseteq Identities
      /\ \A q \in published' : present'[q] # 0
      /\ connected => subscribed' = published'
  <2>1. /\ \A q \in published : present[q] # 0
        /\ connected => subscribed = published
    BY <1>1 DEF WaitsForAbsent
  <2>2. CASE Leaves(p)
    <3>1. present' = [present EXCEPT ![p] = 0] /\ published' = published \ {p} /\ subscribed' = subscribed \ {p}
      BY <2>2 DEF Leaves
    <3>2. 0 \in 0..MaxJoins
      BY DEF JobContextAssumption
    <3> QED BY <1>2, <2>1, <3>1, <3>2
  <2>3. CASE TrackPublished(p)
    <3>1. /\ present[p] # 0 /\ published' = published \cup {p} /\ present' = present
          /\ subscribed' = IF connected /\ onPublished THEN subscribed \cup {p} ELSE subscribed
      BY <2>3 DEF TrackPublished
    <3> QED BY <1>2, <2>1, <3>1
  <2> QED BY <2>2, <2>3
<1>4. ContextShape'
  BY <1>1, <1>3 DEF ContextShape
<1>5. JoinsCounted'
  <2>1. ASSUME NEW q \in Identities PROVE present'[q] <= joins
    <3>1. 0 <= joins
      BY <1>1 DEF ContextShape
    <3>2. present[q] <= joins
      BY <1>1 DEF JoinsCounted
    <3> QED BY <1>3, <3>1, <3>2
  <2>2. \A q, r \in Identities : present'[q] = present'[r] /\ present'[q] # 0 => q = r
    BY <1>1, <1>3 DEF JoinsCounted
  <2> QED BY <1>1, <2>1, <2>2 DEF JoinsCounted
<1>6. HandedOnce' /\ KeysLead'
  BY <1>1 DEF HandedOnce, KeysLead
<1>7. Welcomed'
  <2> SUFFICES ASSUME connected, NEW q \in Identities, NEW k \in 1..early, present'[q] # 0
               PROVE  \E t \in 1..Len(startedTasks) :
                         startedTasks[t].join = present'[q] /\ startedTasks[t].entrypoint = entrypoints[k]
    BY <1>1 DEF Welcomed
  <2>1. present'[q] = present[q]
    BY <1>3
  <2>2. \E t \in 1..Len(startedTasks) : startedTasks[t].join = present[q] /\ startedTasks[t].entrypoint = entrypoints[k]
    BY <1>1, <2>1 DEF Welcomed
  <2> QED BY <2>1, <2>2
<1>8. WaitsForAbsent'
  <2>1. ASSUME NEW w \in Waiters, NEW q \in Identities, waiter[w].state = "waits", waiter[w].identity \in {AnyOne, q}
        PROVE  present'[q] = 0
    BY <1>1, <1>3, <2>1 DEF WaitsForAbsent, Matches
  <2> QED BY <1>1, <1>3, <2>1 DEF WaitsForAbsent, Matches
<1> QED BY <1>4, <1>5, <1>6, <1>7, <1>8 DEF ContextInv

LEMMA ContextStepKeeps == ASSUME JobContextAssumption, ContextInv, [JobContextNext]_ctxVars PROVE ContextInv'
<1>1. CASE UNCHANGED ctxVars
  <2>1. UNCHANGED <<connected, early, present, published, joins, entrypoints, participantTasks, startedTasks, waiter,
                    onPublished, subscribed>>
    BY <1>1 DEF ctxVars
  <2>2. ContextShape' /\ JoinsCounted' /\ HandedOnce'
    BY <2>1 DEF ContextInv, ContextShape, JoinsCounted, HandedOnce
  <2>3. Welcomed' /\ KeysLead' /\ WaitsForAbsent'
    BY <2>1 DEF ContextInv, Welcomed, KeysLead, WaitsForAbsent, Matches
  <2> QED BY <2>2, <2>3 DEF ContextInv
<1> QED
  BY <1>1, ConnectKeeps, AddParticipantEntrypointKeeps, TaskDoneKeeps, WaitForParticipantKeeps, JoinsKeeps, RoomKeeps
     DEF JobContextNext

LEMMA ContextIsSafe == ContextInv => JobContextTypeOK /\ EveryoneIsWelcomed /\ NobodyWaitsInVain /\ KeysAreTasks
<1> SUFFICES ASSUME ContextInv PROVE JobContextTypeOK /\ EveryoneIsWelcomed /\ NobodyWaitsInVain /\ KeysAreTasks
  OBVIOUS
<1>1. ContextShape /\ JoinsCounted /\ HandedOnce /\ Welcomed /\ KeysLead /\ WaitsForAbsent
  BY DEF ContextInv
<1>2. /\ DOMAIN startedTasks = 1..Len(startedTasks) /\ Len(startedTasks) \in Nat
      /\ \A t \in 1..Len(startedTasks) : startedTasks[t] \in TaskType
      /\ ToSet(entrypoints) \subseteq Entrypoints /\ entrypoints \in Seq(Entrypoints)
  BY <1>1, ElementsType DEF ContextShape
<1>3. JobContextTypeOK
  <2>1. \A k \in Keys : participantTasks[k] \in 0..Len(startedTasks)
    <3> SUFFICES ASSUME NEW k \in Keys PROVE participantTasks[k] \in 0..Len(startedTasks)
      OBVIOUS
    <3>1. participantTasks[k] \in 1..Len(startedTasks) \/ participantTasks[k] = 0
      BY <1>1 DEF KeysLead
    <3> QED BY <1>2, <3>1
  <2>2. \A t \in DOMAIN startedTasks : startedTasks[t].join \in 1..MaxJoins
    BY <1>2 DEF TaskType
  <2>3. \A w \in Waiters : waiter[w].state \in {"none", "waits", "told"}
    BY <1>1 DEF ContextShape, WaiterType
  <2> QED BY <1>1, <1>2, <2>1, <2>2, <2>3 DEF ContextShape, JobContextTypeOK
<1>4. EveryoneIsWelcomed
  <2>1. ASSUME NEW join \in 1..joins, NEW e \in Entrypoints PROVE Cardinality(TasksOf(join, e)) <= 1
    <3>1. CASE TasksOf(join, e) = {}
      BY <3>1, FS_EmptySet
    <3>2. CASE TasksOf(join, e) # {}
      <4> PICK t \in TasksOf(join, e) : TRUE
        BY <3>2
      <4>1. TasksOf(join, e) = {t}
        BY <1>1, <1>2 DEF TasksOf, HandedOnce
      <4> QED BY <4>1, FS_Singleton
    <3> QED BY <3>1, <3>2
  <2>2. ASSUME NEW p \in Identities, NEW k \in 1..early, connected, present[p] # 0
        PROVE  TasksOf(present[p], entrypoints[k]) # {}
    BY <1>1, <1>2, <2>2 DEF TasksOf, Welcomed
  <2> QED BY <2>1, <2>2 DEF EveryoneIsWelcomed
<1>5. NobodyWaitsInVain
  BY <1>1 DEF NobodyWaitsInVain, WaitsForAbsent
<1>6. KeysAreTasks
  BY <1>1 DEF KeysAreTasks, KeysLead
<1> QED BY <1>3, <1>4, <1>5, <1>6

\* No job and no participant is left out: every job of the last list handed over runs in the worker or is
\* over once both sockets are read, and none runs twice, unless a worker read what was meant for another
\* (cli/watcher.py); everyone in the room was handed to the entrypoints there were when the job connected,
\* nobody twice, nobody waits for who is there and what is published is subscribed to (job.py).
THEOREM NobodyIsLeftOut == ReloadSpec /\ JobContextSpec => []NobodyLeftOut
<1>1. ReloadSpec => []ReloadInv
  BY ReloadAssumption, ReloadInitInv, ReloadStepKeeps, PTL DEF ReloadSpec
<1>2. JobContextSpec => []ContextInv
  BY JobContextAssumption, ContextInitInv, ContextStepKeeps, PTL DEF JobContextSpec
<1>3. ReloadInv /\ ContextInv => NobodyLeftOut
  BY ReloadIsSafe, ContextIsSafe DEF NobodyLeftOut
<1> QED BY <1>1, <1>2, <1>3, PTL

=============================================================================
