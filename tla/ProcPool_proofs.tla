--------------------------- MODULE ProcPool_proofs ---------------------------
(***************************************************************************)
(* Proofs about ProcPool, for any number of processes and jobs: no process *)
(* is forgotten, and each job has a process of its own.                    *)
(***************************************************************************)
EXTENDS ProcPool, SequenceLemmas

USE ProcPoolAssumption

\* An invariant step: the parts of Inv.
LEMMA InvParts ==
    Inv <=> /\ TypeOK /\ SpawnInOrder /\ Listed /\ OneJobPerProcess /\ WarmInOrder /\ ClosesInOrder
            /\ NotTooManyWarm
BY DEF Inv

\* With no process more ready or on its way, there are not too many.
LEMMA FewerWarm ==
    ASSUME TypeOK, NotTooManyWarm, OnTheWay' \subseteq OnTheWay
    PROVE  NotTooManyWarm'
<1>1. OnTheWay \in SUBSET Procs
  BY DEF TypeOK, OnTheWay, ToSet
<1>2. IsFiniteSet(OnTheWay)
  BY <1>1, FS_Subset
<1>3. /\ Cardinality(OnTheWay') <= Cardinality(OnTheWay)
      /\ Cardinality(OnTheWay) \in Nat /\ Cardinality(OnTheWay') \in Nat
  BY <1>2, FS_Subset, FS_CardinalityType
<1> QED BY <1>3 DEF NotTooManyWarm

\* The processes a call of Fresh() names are new and as many as asked for.
LEMMA FreshIsNew ==
    ASSUME NEW n \in Nat, n <= Cardinality(Unborn)
    PROVE  Fresh(n) \subseteq Unborn /\ Cardinality(Fresh(n)) = n
<1>1. IsFiniteSet(Unborn)
  BY FS_Subset DEF Unborn
<1>2. \E S \in SUBSET Unborn : Cardinality(S) = n
  BY <1>1, SubsetOfSize
<1> QED BY <1>2 DEF Fresh

\* Spawning new processes disturbs nothing but the count.
LEMMA SpawnKeeps ==
    ASSUME Inv, NEW S \in SUBSET Unborn, Spawn(S), NotTooManyWarm',
           UNCHANGED <<executors, proc, monitor, warmed, target, running, main, closed, awaited,
                       drainVars, failures, ready>>,
           job' \in [Jobs -> {"idle", "waiting", "running", "lost"}],
           \A j \in Jobs : job[j] \in {"running", "lost"} => job'[j] = job[j]
    PROVE  Inv'
<1> USE DEF Spawn, Unborn, drainVars
<1>1. TypeOK'
  BY InvParts DEF TypeOK, SpawnStages
<1>2. SpawnInOrder'
  BY InvParts DEF TypeOK, SpawnInOrder
<1>3. Listed'
  BY InvParts DEF TypeOK, Listed, Alive
<1>4. OneJobPerProcess'
  BY InvParts DEF OneJobPerProcess
<1>5. WarmInOrder'
  BY InvParts DEF TypeOK, WarmInOrder, Trouble
<1>6. ClosesInOrder'
  BY InvParts DEF TypeOK, ClosesInOrder, Alive
<1> QED BY <1>1, <1>2, <1>3, <1>4, <1>5, <1>6 DEF Inv

LEMMA InitInv == Init => Inv
<1> SUFFICES ASSUME Init PROVE Inv OBVIOUS
<1>1. ToSet(<<>>) = {} /\ IsInjective(<<>>)
  BY DEF ToSet, IsInjective
<1>2. OnTheWay = {}
  BY <1>1 DEF Init, OnTheWay
<1>3. NotTooManyWarm
  BY <1>2, FS_EmptySet, 0 <= 1 DEF NotTooManyWarm
<1>4. executors \in Seq(Procs) /\ warmed \in Seq(Procs)
  BY EmptySeq DEF Init
<1>5. TypeOK
  <2>1. /\ spawn_tasks \subseteq Procs
        /\ task \in [Procs -> SpawnStages]
        /\ proc \in [Procs -> {"none", "up", "stopping", "dead"}]
        /\ monitor \in [Procs -> {"none", "joining", "done"}]
        /\ running \in [Procs -> Jobs \cup {None}]
        /\ job \in [Jobs -> {"idle", "waiting", "running", "lost"}]
    BY DEF Init, SpawnStages
  <2>2. /\ target \in Nat /\ awaited \subseteq Procs
        /\ main \in {"loop", "close", "close_spawn", "close_monitor", "ended"}
        /\ drain \in Procs \cup {"idle", "done"} /\ drain_at \in Nat /\ drainees \subseteq Procs
        /\ failures \in 0..MaxFailures /\ ready \subseteq Procs
    BY DEF Init
  <2>3. closed \in BOOLEAN
    BY DEF Init
  <2> QED BY <1>4, <2>1, <2>2, <2>3 DEF TypeOK
<1>6. SpawnInOrder /\ Listed
  BY DEF Init, SpawnInOrder, Listed, Alive
<1>7. OneJobPerProcess /\ WarmInOrder
  BY <1>1 DEF Init, OneJobPerProcess, WarmInOrder
<1>8. ClosesInOrder
  BY DEF Init, ClosesInOrder
<1> QED BY <1>3, <1>5, <1>6, <1>7, <1>8 DEF Inv

----------------------------------------------------------------------------

LEMMA MainTickKeeps == Inv /\ MainTick => Inv'
<1> SUFFICES ASSUME Inv, MainTick PROVE Inv' OBVIOUS
<1> DEFINE wanted == IF target < NumIdle THEN target ELSE NumIdle
           n == Min({Missing, Cardinality(Unborn)})
           S == Fresh(n)
<1>1. /\ IsFiniteSet(Unborn) /\ Cardinality(Unborn) \in Nat
      /\ IsFiniteSet(spawn_tasks) /\ Cardinality(spawn_tasks) \in Nat
      /\ Len(warmed) \in Nat /\ wanted \in Nat /\ wanted <= NumIdle
  BY InvParts, FS_Subset, FS_CardinalityType, LenProperties DEF TypeOK, Unborn
<1>2. /\ Missing \in Nat /\ Missing > 0
      /\ Missing + Len(warmed) + Cardinality(spawn_tasks) = wanted
  BY <1>1 DEF MainTick, Missing
<1>3. n \in Nat /\ n <= Missing /\ n <= Cardinality(Unborn)
  <2>1. {Missing, Cardinality(Unborn)} \in SUBSET Nat
    BY <1>1, <1>2
  <2> QED BY <2>1, <1>1, <1>2, MinIsLeast
<1> HIDE DEF n
<1>4. S \subseteq Unborn /\ Cardinality(S) = n
  BY <1>3, FreshIsNew
<1>5. Spawn(S)
  BY DEF MainTick, n
<1> HIDE DEF S
<1>6. OnTheWay' \subseteq ToSet(warmed) \cup (spawn_tasks \cup S)
  BY <1>5 DEF MainTick, OnTheWay, Spawn
<1>7. IsFiniteSet(S)
  BY <1>1, <1>4, FS_Subset
<1>8. /\ IsFiniteSet(spawn_tasks \cup S)
      /\ Cardinality(spawn_tasks \cup S) \in Nat
      /\ Cardinality(spawn_tasks \cup S) <= Cardinality(spawn_tasks) + n
  BY <1>1, <1>4, <1>7, UnionSize
<1>9. /\ IsFiniteSet(ToSet(warmed)) /\ Cardinality(ToSet(warmed)) \in Nat
      /\ Cardinality(ToSet(warmed)) <= Len(warmed)
  BY InvParts, ElementsBound DEF TypeOK
<1> DEFINE U == ToSet(warmed) \cup (spawn_tasks \cup S)
<1>10. /\ IsFiniteSet(U) /\ Cardinality(U) \in Nat
       /\ Cardinality(U) <= Cardinality(ToSet(warmed)) + Cardinality(spawn_tasks \cup S)
  BY <1>8, <1>9, UnionSize
<1>11. Cardinality(U) <= NumIdle /\ NumIdle # 0
  BY <1>1, <1>2, <1>3, <1>8, <1>9, <1>10
<1>12. Cardinality(OnTheWay') <= Cardinality(U) /\ Cardinality(OnTheWay') \in Nat
  BY <1>6, <1>10, FS_Subset, FS_CardinalityType
<1>13. NotTooManyWarm'
  BY <1>10, <1>11, <1>12 DEF NotTooManyWarm
<1>14. /\ job' \in [Jobs -> {"idle", "waiting", "running", "lost"}]
       /\ \A j \in Jobs : job[j] \in {"running", "lost"} => job'[j] = job[j]
  BY InvParts DEF MainTick, TypeOK
<1> QED BY <1>4, <1>5, <1>13, <1>14, SpawnKeeps DEF MainTick

\* The load task changes the target: nothing else.
LEMMA SetTargetKeeps ==
    ASSUME Inv, SetTarget
    PROVE  Inv'
<1> USE DEF SetTarget, drainVars
<1>1. TypeOK'
  BY InvParts DEF TypeOK, SpawnStages
<1>2. SpawnInOrder'
  BY InvParts DEF TypeOK, SpawnInOrder, SpawnStages
<1>3. Listed'
  BY InvParts DEF TypeOK, Listed, Alive, SpawnInOrder
<1>4. OneJobPerProcess'
  BY InvParts DEF TypeOK, OneJobPerProcess, SpawnInOrder, WarmInOrder
<1>5. WarmInOrder'
  BY InvParts DEF TypeOK, WarmInOrder, Trouble, SpawnInOrder, OneJobPerProcess
<1>6. ClosesInOrder'
  BY InvParts DEF TypeOK, ClosesInOrder, Alive, SpawnInOrder, Listed
<1>7. OnTheWay' \subseteq OnTheWay
  BY InvParts DEF TypeOK, OnTheWay, SpawnInOrder
<1> QED BY <1>1, <1>2, <1>3, <1>4, <1>5, <1>6, <1>7, FewerWarm DEF Inv

\* aclose() only marks the pool as closed.
LEMMA ACloseKeeps ==
    ASSUME Inv, AClose
    PROVE  Inv'
<1> USE DEF AClose, drainVars
<1>1. TypeOK'
  BY InvParts DEF TypeOK, SpawnStages
<1>2. SpawnInOrder'
  BY InvParts DEF TypeOK, SpawnInOrder, SpawnStages
<1>3. Listed'
  BY InvParts DEF TypeOK, Listed, Alive, SpawnInOrder
<1>4. OneJobPerProcess'
  BY InvParts DEF TypeOK, OneJobPerProcess, SpawnInOrder, WarmInOrder
<1>5. WarmInOrder'
  BY InvParts DEF TypeOK, WarmInOrder, Trouble, SpawnInOrder, OneJobPerProcess
<1>6. ClosesInOrder'
  BY InvParts DEF TypeOK, ClosesInOrder, Alive, SpawnInOrder, Listed
<1>7. OnTheWay' \subseteq OnTheWay
  BY InvParts DEF TypeOK, OnTheWay, SpawnInOrder
<1> QED BY <1>1, <1>2, <1>3, <1>4, <1>5, <1>6, <1>7, FewerWarm DEF Inv

\* The processes that are told to stop stay in the list until they are dead.
LEMMA CloseProcessesKeeps ==
    ASSUME Inv, CloseProcesses
    PROVE  Inv'
<1> USE DEF CloseProcesses, drainVars
<1>1. TypeOK'
  BY InvParts, ElementsType DEF TypeOK, SpawnStages
<1>2. SpawnInOrder'
  BY InvParts DEF TypeOK, SpawnInOrder, SpawnStages
<1>3. Listed'
  BY InvParts DEF TypeOK, Listed, Alive, SpawnInOrder
<1>4. OneJobPerProcess'
  BY InvParts DEF TypeOK, OneJobPerProcess, SpawnInOrder, WarmInOrder
<1>5. WarmInOrder'
  BY InvParts DEF TypeOK, WarmInOrder, Trouble, SpawnInOrder, OneJobPerProcess
<1>6. ClosesInOrder'
  BY InvParts DEF TypeOK, ClosesInOrder, Alive, SpawnInOrder, Listed
<1>7. OnTheWay' \subseteq OnTheWay
  BY InvParts DEF TypeOK, OnTheWay, SpawnInOrder
<1> QED BY <1>1, <1>2, <1>3, <1>4, <1>5, <1>6, <1>7, FewerWarm DEF Inv

\* Every process that is starting has a spawn task that the main task waits for.
LEMMA GatherSpawnTasksKeeps ==
    ASSUME Inv, GatherSpawnTasks
    PROVE  Inv'
<1> USE DEF GatherSpawnTasks, Joined, drainVars
<1>1. TypeOK'
  BY InvParts DEF TypeOK, SpawnStages
<1>2. SpawnInOrder'
  BY InvParts DEF TypeOK, SpawnInOrder, SpawnStages
<1>3. Listed'
  BY InvParts DEF TypeOK, Listed, Alive, SpawnInOrder
<1>4. OneJobPerProcess'
  BY InvParts DEF TypeOK, OneJobPerProcess, SpawnInOrder, WarmInOrder
<1>5. WarmInOrder'
  BY InvParts DEF TypeOK, WarmInOrder, Trouble, SpawnInOrder, OneJobPerProcess
<1>6. ClosesInOrder'
  BY InvParts DEF TypeOK, ClosesInOrder, Alive, SpawnInOrder, Listed
<1>7. OnTheWay' \subseteq OnTheWay
  BY InvParts DEF TypeOK, OnTheWay, SpawnInOrder
<1> QED BY <1>1, <1>2, <1>3, <1>4, <1>5, <1>6, <1>7, FewerWarm DEF Inv

\* Nothing starts any more: every process that lives is monitored.
LEMMA GatherMonitorTasksKeeps ==
    ASSUME Inv, GatherMonitorTasks
    PROVE  Inv'
<1> USE DEF GatherMonitorTasks, drainVars
<1>1. TypeOK'
  BY InvParts DEF TypeOK, SpawnStages
<1>2. SpawnInOrder'
  BY InvParts DEF TypeOK, SpawnInOrder, SpawnStages
<1>3. Listed'
  BY InvParts DEF TypeOK, Listed, Alive, SpawnInOrder
<1>4. OneJobPerProcess'
  BY InvParts DEF TypeOK, OneJobPerProcess, SpawnInOrder, WarmInOrder
<1>5. WarmInOrder'
  BY InvParts DEF TypeOK, WarmInOrder, Trouble, SpawnInOrder, OneJobPerProcess
<1>6. ClosesInOrder'
  BY InvParts DEF TypeOK, ClosesInOrder, Alive, SpawnInOrder, Listed
<1>7. OnTheWay' \subseteq OnTheWay
  BY InvParts DEF TypeOK, OnTheWay, SpawnInOrder
<1> QED BY <1>1, <1>2, <1>3, <1>4, <1>5, <1>6, <1>7, FewerWarm DEF Inv

\* Every process that lived was waited for.
LEMMA MainEndsKeeps ==
    ASSUME Inv, MainEnds
    PROVE  Inv'
<1> USE DEF MainEnds, drainVars
<1>1. TypeOK'
  BY InvParts DEF TypeOK, SpawnStages
<1>2. SpawnInOrder'
  BY InvParts DEF TypeOK, SpawnInOrder, SpawnStages
<1>3. Listed'
  BY InvParts DEF TypeOK, Listed, Alive, SpawnInOrder
<1>4. OneJobPerProcess'
  BY InvParts DEF TypeOK, OneJobPerProcess, SpawnInOrder, WarmInOrder
<1>5. WarmInOrder'
  BY InvParts DEF TypeOK, WarmInOrder, Trouble, SpawnInOrder, OneJobPerProcess
<1>6. ClosesInOrder'
  BY InvParts DEF TypeOK, ClosesInOrder, Alive, SpawnInOrder, Listed
<1>7. OnTheWay' \subseteq OnTheWay
  BY InvParts DEF TypeOK, OnTheWay, SpawnInOrder
<1> QED BY <1>1, <1>2, <1>3, <1>4, <1>5, <1>6, <1>7, FewerWarm DEF Inv

\* The process is in the list from its first wait on.
LEMMA SpawnTaskBeginsKeeps ==
    ASSUME Inv, NEW p \in Procs, SpawnTaskBegins(p)
    PROVE  Inv'
<1> USE DEF SpawnTaskBegins, Enter, drainVars
<1> DEFINE list == Append(executors, p)
<1>a. executors \in Seq(Procs)
  BY InvParts DEF TypeOK
<1>b. list \in Seq(Procs) /\ ToSet(list) = ToSet(executors) \cup {p}
  BY <1>a, AppendElements
<1>c. RemoveFirst(list, p) \in Seq(Procs) /\ ToSet(list) \ {p} \subseteq ToSet(RemoveFirst(list, p))
  <2> HIDE DEF list
  <2> QED BY <1>b, RemoveFirstElements
<1>0. /\ list \in Seq(Procs) /\ ToSet(list) = ToSet(executors) \cup {p}
      /\ RemoveFirst(list, p) \in Seq(Procs)
      /\ ToSet(executors) \ {p} \subseteq ToSet(RemoveFirst(list, p))
  BY <1>b, <1>c
<1>1. TypeOK'
  BY InvParts, <1>0 DEF TypeOK, SpawnStages
<1>2. SpawnInOrder'
  BY InvParts, <1>0 DEF TypeOK, SpawnInOrder, SpawnStages
<1>3. Listed'
  BY InvParts, <1>0 DEF TypeOK, Listed, Alive, SpawnInOrder
<1>4. OneJobPerProcess'
  BY InvParts, <1>0 DEF TypeOK, OneJobPerProcess, SpawnInOrder, WarmInOrder
<1>5. WarmInOrder'
  BY InvParts, <1>0 DEF TypeOK, WarmInOrder, Trouble, SpawnInOrder, OneJobPerProcess
<1>6. ClosesInOrder'
  BY InvParts, <1>0 DEF TypeOK, ClosesInOrder, Alive, SpawnInOrder, Listed
<1>7. OnTheWay' \subseteq OnTheWay
  BY InvParts, <1>0 DEF TypeOK, OnTheWay, SpawnInOrder
<1> QED BY <1>1, <1>2, <1>3, <1>4, <1>5, <1>6, <1>7, FewerWarm DEF Inv

\* A process of a closed pool leaves the list before it is started.
LEMMA SemAcquiredKeeps ==
    ASSUME Inv, NEW p \in Procs, SemAcquired(p)
    PROVE  Inv'
<1> USE DEF SemAcquired, Enter, drainVars
<1>0. /\ RemoveFirst(executors, p) \in Seq(Procs)
      /\ ToSet(executors) \ {p} \subseteq ToSet(RemoveFirst(executors, p))
  BY InvParts, RemoveFirstElements DEF TypeOK
<1>1. TypeOK'
  BY InvParts, <1>0 DEF TypeOK, SpawnStages
<1>2. SpawnInOrder'
  BY InvParts, <1>0 DEF TypeOK, SpawnInOrder, SpawnStages
<1>3. Listed'
  BY InvParts, <1>0 DEF TypeOK, Listed, Alive, SpawnInOrder
<1>4. OneJobPerProcess'
  BY InvParts, <1>0 DEF TypeOK, OneJobPerProcess, SpawnInOrder, WarmInOrder
<1>5. WarmInOrder'
  BY InvParts, <1>0 DEF TypeOK, WarmInOrder, Trouble, SpawnInOrder, OneJobPerProcess
<1>6. ClosesInOrder'
  BY InvParts, <1>0 DEF TypeOK, ClosesInOrder, Alive, SpawnInOrder, Listed
<1>7. OnTheWay' \subseteq OnTheWay
  BY InvParts, <1>0 DEF TypeOK, OnTheWay, SpawnInOrder
<1> QED BY <1>1, <1>2, <1>3, <1>4, <1>5, <1>6, <1>7, FewerWarm DEF Inv

\* The process lives, and is in the list.
LEMMA ProcStartedKeeps ==
    ASSUME Inv, NEW p \in Procs, ProcStarted(p)
    PROVE  Inv'
<1> USE DEF ProcStarted, drainVars
<1>1. TypeOK'
  BY InvParts DEF TypeOK, SpawnStages
<1>2. SpawnInOrder'
  BY InvParts DEF TypeOK, SpawnInOrder, SpawnStages
<1>3. Listed'
  BY InvParts DEF TypeOK, Listed, Alive, SpawnInOrder
<1>4. OneJobPerProcess'
  BY InvParts DEF TypeOK, OneJobPerProcess, SpawnInOrder, WarmInOrder
<1>5. WarmInOrder'
  BY InvParts DEF TypeOK, WarmInOrder, Trouble, SpawnInOrder, OneJobPerProcess
<1>6. ClosesInOrder'
  BY InvParts DEF TypeOK, ClosesInOrder, Alive, SpawnInOrder, Listed
<1>7. OnTheWay' \subseteq OnTheWay
  BY InvParts DEF TypeOK, OnTheWay, SpawnInOrder
<1> QED BY <1>1, <1>2, <1>3, <1>4, <1>5, <1>6, <1>7, FewerWarm DEF Inv

\* The process is told to stop, and is monitored.
LEMMA InitializeFailsKeeps ==
    ASSUME Inv, NEW p \in Procs, InitializeFails(p)
    PROVE  Inv'
<1> USE DEF InitializeFails, SpawnTaskEnds, drainVars
<1>1. TypeOK'
  BY InvParts DEF TypeOK, SpawnStages
<1>2. SpawnInOrder'
  BY InvParts DEF TypeOK, SpawnInOrder, SpawnStages
<1>3. Listed'
  BY InvParts DEF TypeOK, Listed, Alive, SpawnInOrder
<1>4. OneJobPerProcess'
  BY InvParts DEF TypeOK, OneJobPerProcess, SpawnInOrder, WarmInOrder
<1>5. WarmInOrder'
  BY InvParts DEF TypeOK, WarmInOrder, Trouble, SpawnInOrder, OneJobPerProcess
<1>6. ClosesInOrder'
  BY InvParts DEF TypeOK, ClosesInOrder, Alive, SpawnInOrder, Listed
<1>7. OnTheWay' \subseteq OnTheWay
  BY InvParts DEF TypeOK, OnTheWay, SpawnInOrder
<1> QED BY <1>1, <1>2, <1>3, <1>4, <1>5, <1>6, <1>7, FewerWarm DEF Inv

\* The process moves from those that are coming to those that are ready.
LEMMA InitializedKeeps ==
    ASSUME Inv, NEW p \in Procs, Initialized(p)
    PROVE  Inv'
<1> USE DEF Initialized, SpawnTaskEnds, drainVars
<1>0. /\ Append(warmed, p) \in Seq(Procs) /\ ToSet(Append(warmed, p)) = ToSet(warmed) \cup {p}
      /\ p \notin ToSet(warmed) /\ running[p] = None /\ IsInjective(warmed)
      /\ IsInjective(Append(warmed, p))
  BY InvParts, AppendElements DEF TypeOK, SpawnTaskEnds, SpawnInOrder, WarmInOrder, OneJobPerProcess
<1>1. TypeOK'
  BY InvParts, <1>0 DEF TypeOK, SpawnStages
<1>2. SpawnInOrder'
  BY InvParts, <1>0 DEF TypeOK, SpawnInOrder, SpawnStages
<1>3. Listed'
  BY InvParts, <1>0 DEF TypeOK, Listed, Alive, SpawnInOrder
<1>4. OneJobPerProcess'
  BY InvParts, <1>0 DEF TypeOK, OneJobPerProcess, SpawnInOrder, WarmInOrder
<1>5. WarmInOrder'
  BY InvParts, <1>0 DEF TypeOK, WarmInOrder, Trouble, SpawnInOrder, OneJobPerProcess
<1>6. ClosesInOrder'
  BY InvParts, <1>0 DEF TypeOK, ClosesInOrder, Alive, SpawnInOrder, Listed
<1>7. OnTheWay' \subseteq OnTheWay
  BY InvParts, <1>0 DEF TypeOK, OnTheWay, SpawnInOrder
<1> QED BY <1>1, <1>2, <1>3, <1>4, <1>5, <1>6, <1>7, FewerWarm DEF Inv

\* Only the count of the spawn tasks changes.
LEMMA SpawnTaskDiscardedKeeps ==
    ASSUME Inv, NEW p \in Procs, SpawnTaskDiscarded(p)
    PROVE  Inv'
<1> USE DEF SpawnTaskDiscarded, drainVars
<1>1. TypeOK'
  BY InvParts DEF TypeOK, SpawnStages
<1>2. SpawnInOrder'
  BY InvParts DEF TypeOK, SpawnInOrder, SpawnStages
<1>3. Listed'
  BY InvParts DEF TypeOK, Listed, Alive, SpawnInOrder
<1>4. OneJobPerProcess'
  BY InvParts DEF TypeOK, OneJobPerProcess, SpawnInOrder, WarmInOrder
<1>5. WarmInOrder'
  BY InvParts DEF TypeOK, WarmInOrder, Trouble, SpawnInOrder, OneJobPerProcess
<1>6. ClosesInOrder'
  BY InvParts DEF TypeOK, ClosesInOrder, Alive, SpawnInOrder, Listed
<1>7. OnTheWay' \subseteq OnTheWay
  BY InvParts DEF TypeOK, OnTheWay, SpawnInOrder
<1> QED BY <1>1, <1>2, <1>3, <1>4, <1>5, <1>6, <1>7, FewerWarm DEF Inv

\* A process that is told to stop, or has a job, exits.
LEMMA ProcExitsKeeps ==
    ASSUME Inv, NEW p \in Procs, ProcExits(p)
    PROVE  Inv'
<1> USE DEF ProcExits, drainVars
<1>1. TypeOK'
  BY InvParts DEF TypeOK, SpawnStages
<1>2. SpawnInOrder'
  BY InvParts DEF TypeOK, SpawnInOrder, SpawnStages
<1>3. Listed'
  BY InvParts DEF TypeOK, Listed, Alive, SpawnInOrder
<1>4. OneJobPerProcess'
  BY InvParts DEF TypeOK, OneJobPerProcess, SpawnInOrder, WarmInOrder
<1>5. WarmInOrder'
  BY InvParts DEF TypeOK, WarmInOrder, Trouble, SpawnInOrder, OneJobPerProcess
<1>6. ClosesInOrder'
  BY InvParts DEF TypeOK, ClosesInOrder, Alive, SpawnInOrder, Listed
<1>7. OnTheWay' \subseteq OnTheWay
  BY InvParts DEF TypeOK, OnTheWay, SpawnInOrder
<1> QED BY <1>1, <1>2, <1>3, <1>4, <1>5, <1>6, <1>7, FewerWarm DEF Inv

\* An idle process crashes: one of the failures.
LEMMA CrashKeeps ==
    ASSUME Inv, NEW p \in Procs, Crash(p)
    PROVE  Inv'
<1> USE DEF Crash, drainVars
<1>1. TypeOK'
  BY InvParts DEF TypeOK, SpawnStages
<1>2. SpawnInOrder'
  BY InvParts DEF TypeOK, SpawnInOrder, SpawnStages
<1>3. Listed'
  BY InvParts DEF TypeOK, Listed, Alive, SpawnInOrder
<1>4. OneJobPerProcess'
  BY InvParts DEF TypeOK, OneJobPerProcess, SpawnInOrder, WarmInOrder
<1>5. WarmInOrder'
  BY InvParts DEF TypeOK, WarmInOrder, Trouble, SpawnInOrder, OneJobPerProcess
<1>6. ClosesInOrder'
  BY InvParts DEF TypeOK, ClosesInOrder, Alive, SpawnInOrder, Listed
<1>7. OnTheWay' \subseteq OnTheWay
  BY InvParts DEF TypeOK, OnTheWay, SpawnInOrder
<1> QED BY <1>1, <1>2, <1>3, <1>4, <1>5, <1>6, <1>7, FewerWarm DEF Inv

\* A process that leaves the list is dead.
LEMMA MonitorEndsKeeps ==
    ASSUME Inv, NEW p \in Procs, MonitorEnds(p)
    PROVE  Inv'
<1> USE DEF MonitorEnds, Joined, drainVars
<1>0. /\ RemoveFirst(executors, p) \in Seq(Procs)
      /\ ToSet(executors) \ {p} \subseteq ToSet(RemoveFirst(executors, p))
  BY InvParts, RemoveFirstElements DEF TypeOK
<1>1. TypeOK'
  BY InvParts, <1>0 DEF TypeOK, SpawnStages
<1>2. SpawnInOrder'
  BY InvParts, <1>0 DEF TypeOK, SpawnInOrder, SpawnStages
<1>3. Listed'
  BY InvParts, <1>0 DEF TypeOK, Listed, Alive, SpawnInOrder
<1>4. OneJobPerProcess'
  BY InvParts, <1>0 DEF TypeOK, OneJobPerProcess, SpawnInOrder, WarmInOrder
<1>5. WarmInOrder'
  BY InvParts, <1>0 DEF TypeOK, WarmInOrder, Trouble, SpawnInOrder, OneJobPerProcess
<1>6. ClosesInOrder'
  BY InvParts, <1>0 DEF TypeOK, ClosesInOrder, Alive, SpawnInOrder, Listed
<1>7. OnTheWay' \subseteq OnTheWay
  BY InvParts, <1>0 DEF TypeOK, OnTheWay, SpawnInOrder
<1> QED BY <1>1, <1>2, <1>3, <1>4, <1>5, <1>6, <1>7, FewerWarm DEF Inv

\* drain() changes nothing of the pool.
LEMMA DrainKeeps ==
    ASSUME Inv, Drain
    PROVE  Inv'
<1> USE DEF Drain, DrainFrom, drainVars
<1>0. /\ Len(executors) \in Nat /\ ToSet(executors) \subseteq Procs
      /\ \A k \in 1..Len(executors) : executors[k] \in Procs
  BY InvParts, ElementsType DEF TypeOK
<1>1. TypeOK'
  BY InvParts, <1>0 DEF TypeOK, SpawnStages
<1>2. SpawnInOrder'
  BY InvParts DEF TypeOK, SpawnInOrder, SpawnStages
<1>3. Listed'
  BY InvParts DEF TypeOK, Listed, Alive, SpawnInOrder
<1>4. OneJobPerProcess'
  BY InvParts DEF TypeOK, OneJobPerProcess, SpawnInOrder, WarmInOrder
<1>5. WarmInOrder'
  BY InvParts DEF TypeOK, WarmInOrder, Trouble, SpawnInOrder, OneJobPerProcess
<1>6. ClosesInOrder'
  BY InvParts DEF TypeOK, ClosesInOrder, Alive, SpawnInOrder, Listed
<1>7. OnTheWay' \subseteq OnTheWay
  BY InvParts DEF TypeOK, OnTheWay, SpawnInOrder
<1> QED BY <1>1, <1>2, <1>3, <1>4, <1>5, <1>6, <1>7, FewerWarm DEF Inv

\* The iteration of drain() changes nothing of the pool.
LEMMA DrainResumesKeeps ==
    ASSUME Inv, DrainResumes
    PROVE  Inv'
<1> USE DEF DrainResumes, DrainFrom, drainVars
<1>1. TypeOK'
  BY InvParts DEF TypeOK, SpawnStages
<1>2. SpawnInOrder'
  BY InvParts DEF TypeOK, SpawnInOrder, SpawnStages
<1>3. Listed'
  BY InvParts DEF TypeOK, Listed, Alive, SpawnInOrder
<1>4. OneJobPerProcess'
  BY InvParts DEF TypeOK, OneJobPerProcess, SpawnInOrder, WarmInOrder
<1>5. WarmInOrder'
  BY InvParts DEF TypeOK, WarmInOrder, Trouble, SpawnInOrder, OneJobPerProcess
<1>6. ClosesInOrder'
  BY InvParts DEF TypeOK, ClosesInOrder, Alive, SpawnInOrder, Listed
<1>7. OnTheWay' \subseteq OnTheWay
  BY InvParts DEF TypeOK, OnTheWay, SpawnInOrder
<1> QED BY <1>1, <1>2, <1>3, <1>4, <1>5, <1>6, <1>7, FewerWarm DEF Inv

\* A job gets a process out of the queue: one that came up, and that no other job has.
LEMMA TakeWarmedKeeps ==
    ASSUME Inv, NEW j \in Jobs, job[j] \in {"idle", "waiting"}, warmed # <<>>, TakeWarmed(j),
           UNCHANGED <<executors, spawn_tasks, task, proc, monitor, target, main, closed, awaited,
                       drainVars, failures, ready>>
    PROVE  Inv'
<1> DEFINE p == Head(warmed)
<1>1. /\ p \in ToSet(warmed) /\ p \in Procs /\ warmed' \in Seq(Procs)
      /\ ToSet(warmed) = ToSet(warmed') \cup {p}
      /\ IsInjective(warmed') /\ p \notin ToSet(warmed')
  BY InvParts, TailElements DEF TypeOK, OneJobPerProcess, TakeWarmed
<1>2. /\ running' = [running EXCEPT ![p] = j] /\ running[p] = None
      /\ job' = [job EXCEPT ![j] = IF proc[p] = "up" THEN "running" ELSE "lost"]
      /\ \A q \in Procs : running[q] # j
  BY <1>1, InvParts DEF TakeWarmed, OneJobPerProcess, WarmInOrder
<1> HIDE DEF p
<1> USE DEF drainVars
<1>3. TypeOK'
  BY <1>1, <1>2, InvParts DEF TypeOK
<1>4. SpawnInOrder'
  BY InvParts DEF SpawnInOrder
<1>5. Listed'
  BY InvParts DEF Listed, Alive
<1>6. OneJobPerProcess'
  BY <1>1, <1>2, InvParts DEF TypeOK, OneJobPerProcess
<1>7. WarmInOrder'
  BY <1>1, <1>2, InvParts DEF TypeOK, WarmInOrder, Trouble
<1>8. ClosesInOrder'
  BY InvParts DEF ClosesInOrder, Alive
<1>9. OnTheWay' \subseteq OnTheWay
  BY <1>1 DEF OnTheWay
<1> QED BY <1>3, <1>4, <1>5, <1>6, <1>7, <1>8, <1>9, FewerWarm DEF Inv

\* With nothing ready or on its way, a launch spawns one process and waits.
LEMMA LaunchJobKeeps ==
    ASSUME Inv, NEW j \in Jobs, LaunchJob(j)
    PROVE  Inv'
<1>1. CASE warmed # <<>>
  BY <1>1, TakeWarmedKeeps DEF LaunchJob
<1>2. CASE warmed = <<>> /\ spawn_tasks = {}
  <2>1. Unborn # {} /\ Spawn(Fresh(1)) /\ job' = [job EXCEPT ![j] = "waiting"]
    BY <1>2 DEF LaunchJob
  <2>2. IsFiniteSet(Unborn)
    BY FS_Subset DEF Unborn
  <2>. Cardinality(Unborn) \in Nat /\ Cardinality(Unborn) # 0
    BY <2>1, <2>2, FS_CardinalityType, FS_EmptySet
  <2>3. Fresh(1) \subseteq Unborn /\ Cardinality(Fresh(1)) = 1
    <3>1. 1 \in Nat /\ 1 <= Cardinality(Unborn)
      OBVIOUS
    <3> QED BY <3>1, FreshIsNew
  <2>4. OnTheWay' \subseteq Fresh(1)
    <3>1. ToSet(warmed') = {}
      BY <1>2 DEF LaunchJob, ToSet
    <3> QED BY <1>2, <2>1, <3>1 DEF OnTheWay, Spawn
  <2>5. IsFiniteSet(Fresh(1))
    BY <2>2, <2>3, FS_Subset
  <2>6. Cardinality(OnTheWay') \in Nat /\ Cardinality(OnTheWay') <= 1
    BY <2>3, <2>4, <2>5, FS_Subset, FS_CardinalityType
  <2>7. NotTooManyWarm'
    BY <2>6 DEF NotTooManyWarm
  <2>8. /\ job' \in [Jobs -> {"idle", "waiting", "running", "lost"}]
        /\ \A i \in Jobs : job[i] \in {"running", "lost"} => job'[i] = job[i]
    BY <2>1, InvParts DEF LaunchJob, TypeOK
  <2> QED BY <1>2, <2>1, <2>3, <2>7, <2>8, SpawnKeeps DEF LaunchJob
<1>3. CASE warmed = <<>> /\ spawn_tasks # {}
  <2>1. /\ job' = [job EXCEPT ![j] = "waiting"] /\ job[j] = "idle"
        /\ UNCHANGED <<executors, spawn_tasks, task, proc, monitor, warmed, target, running, main,
                       closed, awaited, drainVars, failures, ready>>
    BY <1>3 DEF LaunchJob
  <2>2. /\ TypeOK' /\ WarmInOrder'
    BY <2>1, InvParts DEF TypeOK, WarmInOrder, Trouble, drainVars
  <2>3. SpawnInOrder' /\ Listed' /\ OneJobPerProcess' /\ ClosesInOrder' /\ NotTooManyWarm'
    BY <2>1, InvParts DEF SpawnInOrder, Listed, Alive, OneJobPerProcess, ClosesInOrder,
                          NotTooManyWarm, OnTheWay
  <2> QED BY <2>2, <2>3 DEF Inv
<1> QED BY <1>1, <1>2, <1>3

LEMMA LaunchResumesKeeps ==
    ASSUME Inv, NEW j \in Jobs, LaunchResumes(j)
    PROVE  Inv'
BY TakeWarmedKeeps DEF LaunchResumes

----------------------------------------------------------------------------
(* The theorems *)

\* Every step keeps the invariant.
LEMMA NextInv == Inv /\ [Next]_vars => Inv'
<1> SUFFICES ASSUME Inv, [Next]_vars PROVE Inv' OBVIOUS
<1>1. CASE MainTick \/ SetTarget \/ AClose \/ Closing \/ Drain \/ DrainResumes
  BY <1>1, MainTickKeeps, SetTargetKeeps, ACloseKeeps, CloseProcessesKeeps, GatherSpawnTasksKeeps,
     GatherMonitorTasksKeeps, MainEndsKeeps, DrainKeeps, DrainResumesKeeps DEF Closing
<1>2. ASSUME NEW p \in Procs, SpawnStep(p) PROVE Inv'
  BY <1>2, SpawnTaskBeginsKeeps, SemAcquiredKeeps, ProcStartedKeeps, InitializedKeeps,
     InitializeFailsKeeps, SpawnTaskDiscardedKeeps DEF SpawnStep
<1>3. ASSUME NEW p \in Procs, ProcExits(p) \/ Crash(p) \/ MonitorEnds(p) PROVE Inv'
  BY <1>3, ProcExitsKeeps, CrashKeeps, MonitorEndsKeeps
<1>4. ASSUME NEW j \in Jobs, LaunchJob(j) \/ LaunchResumes(j) PROVE Inv'
  BY <1>4, LaunchJobKeeps, LaunchResumesKeeps
<1>5. CASE UNCHANGED vars
  <2> USE <1>5 DEF vars
  <2>1. TypeOK'
    BY InvParts DEF TypeOK
  <2>2. SpawnInOrder' /\ Listed'
    BY InvParts DEF SpawnInOrder, Listed, Alive
  <2>3. OneJobPerProcess' /\ WarmInOrder'
    BY InvParts DEF OneJobPerProcess, WarmInOrder, Trouble
  <2>4. ClosesInOrder'
    BY InvParts DEF ClosesInOrder, Alive
  <2>5. NotTooManyWarm'
    BY InvParts DEF NotTooManyWarm, OnTheWay
  <2> QED BY <2>1, <2>2, <2>3, <2>4, <2>5 DEF Inv
<1> QED BY <1>1, <1>2, <1>3, <1>4, <1>5 DEF Next

\* In every state of the pool its invariant holds.
THEOREM PoolInvariance == Spec => []Inv
<1> QED BY InitInv, NextInv, PTL DEF Spec

\* No process is forgotten: the list that drain(), aclose() and get_by_job_id() go through holds
\* every process that is alive, and when aclose() has returned none is, nor is one still to come
\* (proc_pool.py:89-106, 115-198).
THEOREM NoneForgotten == Spec => []NoProcessForgotten
<1>1. Inv => NoProcessForgotten
  <2> SUFFICES ASSUME Inv PROVE NoProcessForgotten OBVIOUS
  <2>1. AliveIsListed
    BY InvParts DEF AliveIsListed, Listed, Alive
  <2>2. ClosedLeavesNoProcess
    BY InvParts DEF ClosedLeavesNoProcess, ClosesInOrder, Starting
  <2> QED BY <2>1, <2>2, InvParts DEF NoProcessForgotten
<1> QED BY <1>1, PoolInvariance, PTL

\* Each job has a process of its own, which came up before it was offered, and whatever launches and
\* failures do to the counts no more processes are ready or on their way than num_idle_processes.
THEOREM EachJobItsProcess == Spec => []JobsHaveTheirProcess
<1>1. Inv => JobsHaveTheirProcess
  <2> SUFFICES ASSUME Inv PROVE NoJobLost
    BY DEF Inv, JobsHaveTheirProcess
  <2> QED BY DEF Inv, NoJobLost, WarmInOrder, Trouble, TypeOK
<1> QED BY <1>1, PoolInvariance, PTL

=============================================================================
